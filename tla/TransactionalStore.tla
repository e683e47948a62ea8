-------------------------- MODULE TransactionalStore --------------------------
(***************************************************************************)
(* What libpmemobj promises of its transactions: a store that changes only *)
(* when a transaction commits, and then to what the transaction made of    *)
(* it.  An abort or a crash before the commit leaves the store alone.      *)
(***************************************************************************)
CONSTANTS Addresses, Values

VARIABLES
    store,   \* what a program finds if the system stops now and recovers
    view,    \* what the program sees
    phase    \* "none", "work" or "done"

vars == <<store, view, phase>>

\* The objects in use and their contents
Contents == UNION {[A -> Values] : A \in SUBSET Addresses}

Init ==
    /\ store \in Contents
    /\ view = store
    /\ phase = "none"

Begin ==
    /\ phase = "none"
    /\ phase' = "work"
    /\ UNCHANGED <<store, view>>

\* A store, an allocation or a free
Update ==
    /\ phase = "work"
    /\ UNCHANGED phase
    /\ view' # view
    /\ UNCHANGED store
    /\ DOMAIN view' \subseteq Addresses
    /\ \A a \in DOMAIN view' : view'[a] \in Values

Commit ==
    /\ phase = "work"
    /\ phase' = "done"
    /\ UNCHANGED view
    /\ store' = view

Abort ==
    /\ phase = "work"
    /\ phase' = "done"
    /\ UNCHANGED store
    /\ view' = store

End ==
    /\ phase = "done"
    /\ phase' = "none"
    /\ UNCHANGED <<store, view>>

Crash ==
    /\ phase' = "none"
    /\ UNCHANGED store
    /\ view' = store

Next == Begin \/ Update \/ Commit \/ Abort \/ End \/ Crash

Spec == Init /\ [][Next]_vars
=============================================================================
