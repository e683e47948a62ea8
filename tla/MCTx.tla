--------------------------------- MODULE MCTx ---------------------------------
(* Instances of Tx for TLC.                                                *)
EXTENDS Tx

Ends == {<<"commit">>, <<"abort">>}

\* Overlapping snapshots, small and large
Snapshotting == {<<"begin", "add", "store", "add", "store">> \o end : end \in Ends}

\* The reuse of a range cache
Again == {<<"begin", "add", "add", "add", "commit", "begin", "add", "store", "abort">>}

\* Objects that live across transactions, and those that do not
Allocating == {<<"begin", "alloc", "commit", "begin", "free">> \o change \o end :
                   change \in {<<"alloc", "free">>, <<"realloc", "store">>}, end \in Ends}
              \cup {<<"begin", "alloc", "commit", "begin", "realloc", "add", "store">> \o end :
                       end \in Ends}

\* Nested transactions
Nesting == {<<"begin", "alloc", "begin", "add", "store">> \o end \o <<"commit">> : end \in Ends}

\* A full undo log, and a full heap
Filling == {<<"begin", "alloc", "alloc", "alloc", "alloc", "commit">>,
            <<"begin", "add", "alloc", "alloc", "alloc", "commit">>}

MCPrograms == Snapshotting \cup Again \cup Allocating \cup Nesting \cup Filling
=============================================================================
