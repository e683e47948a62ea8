---------------------------- MODULE BlockDevice ----------------------------
(***************************************************************************)
(* What libpmemblk promises of a pool: an array of blocks whose requests   *)
(* are atomic.  Each block has the contents that reads see and the         *)
(* contents that a crash keeps.  A request that changes a block changes    *)
(* each of the two once, in any order, and returns only after both.        *)
(***************************************************************************)
EXTENDS FiniteSets

CONSTANTS
    Threads,    \* callers of the pool
    Lbas,       \* block numbers
    Values,     \* contents a caller can write
    Zero,       \* what a zeroed or unwritten block reads as
    Error,      \* the answer for a block marked bad
    NoRequest,  \* the caller has no request in progress
    NotYet      \* a read in progress that has not got its answer

VARIABLES
    seen,       \* what a read of each block finds
    kept,       \* what each block will hold after a crash
    request,    \* request in progress of each caller
    effects,    \* which of seen and kept the request has changed
    result      \* answer of the read in progress of each caller

vars == <<seen, kept, request, effects, result>>

\* A request; only a write carries contents of its own.
Requests ==
    [op : {"read"}, lba : Lbas, val : {NotYet}]
    \cup [op : {"write"}, lba : Lbas, val : Values]
    \cup [op : {"set_zero"}, lba : Lbas, val : {Zero}]
    \cup [op : {"set_error"}, lba : Lbas, val : {Error}]

Init ==
    /\ seen = [x \in Lbas |-> Zero]
    /\ kept = seen
    /\ request = [t \in Threads |-> NoRequest]
    /\ effects = [t \in Threads |-> {}]
    /\ result = [t \in Threads |-> NotYet]

Call(t) ==
    /\ request[t] = NoRequest
    /\ \E r \in Requests : request' = [request EXCEPT ![t] = r]
    /\ UNCHANGED <<seen, kept, effects, result>>

\* A read takes the contents of its block at one instant.
Look(t) ==
    /\ request[t] # NoRequest
    /\ request[t].op = "read"
    /\ result[t] = NotYet
    /\ result' = [result EXCEPT ![t] = seen[request[t].lba]]
    /\ UNCHANGED <<request, effects, seen, kept>>

\* A changing request reaches the views of its block in new, each once.
Change(t) ==
    /\ request[t] # NoRequest
    /\ request[t].op # "read"
    /\ \E new \in (SUBSET ({"seen", "kept"} \ effects[t])) \ {{}} :
          LET Put(view, which) ==
                  IF which \in new
                  THEN [view EXCEPT ![request[t].lba] = request[t].val] ELSE view
          IN /\ effects' = [effects EXCEPT ![t] = @ \cup new]
             /\ seen' = Put(seen, "seen")
             /\ kept' = Put(kept, "kept")
    /\ UNCHANGED <<request, result>>

Return(t) ==
    /\ request[t] # NoRequest
    /\ IF request[t].op = "read" THEN result[t] # NotYet
                                 ELSE effects[t] = {"seen", "kept"}
    /\ request' = [request EXCEPT ![t] = NoRequest]
    /\ effects' = [effects EXCEPT ![t] = {}]
    /\ result' = [result EXCEPT ![t] = NotYet]
    /\ UNCHANGED <<seen, kept>>

\* A block keeps the kept contents; what was seen may have been kept as well.
Crash ==
    /\ request' = [t \in Threads |-> NoRequest]
    /\ \A x \in Lbas : kept'[x] \in {seen[x], kept[x]}
    /\ seen' = kept'
    /\ effects' = [t \in Threads |-> {}]
    /\ result' = [t \in Threads |-> NotYet]

Next ==
    \/ \E t \in Threads : Call(t) \/ Look(t) \/ Change(t) \/ Return(t)
    \/ Crash

Spec == Init /\ [][Next]_vars

=============================================================================
