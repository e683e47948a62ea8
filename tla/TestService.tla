---------------------------- MODULE TestService ----------------------------
(***************************************************************************)
(* What the worker pool promises to its clients: a trace that was          *)
(* submitted is tested some time, and a thread that asks for the results   *)
(* goes on only when all that was submitted before has been tested.        *)
(***************************************************************************)
EXTENDS Naturals

CONSTANTS Clients, Traces

VARIABLES
    submitted, tested,  \* sets of traces
    awaited,            \* what a client waits for, <<>> when it does not wait
    closed              \* the service has ended

vars == <<submitted, tested, awaited, closed>>

NotWaiting == <<>>
Awaiting(ts) == <<ts>>

Init ==
    /\ submitted = {} /\ tested = {}
    /\ awaited = [c \in Clients |-> NotWaiting]
    /\ closed = FALSE

Submit(t) ==
    /\ ~closed
    /\ submitted' = submitted \cup {t}
    /\ UNCHANGED <<tested, awaited, closed>>

Test(t) ==
    /\ ~closed
    /\ t \in submitted
    /\ tested' = tested \cup {t}
    /\ UNCHANGED <<submitted, awaited, closed>>

Call(c) ==
    /\ ~closed
    /\ awaited[c] = NotWaiting
    /\ awaited' = [awaited EXCEPT ![c] = Awaiting(submitted)]
    /\ UNCHANGED <<submitted, tested, closed>>

Return(c) ==
    /\ \E ts \in SUBSET tested : awaited[c] = Awaiting(ts)
    /\ awaited' = [awaited EXCEPT ![c] = NotWaiting]
    /\ UNCHANGED <<submitted, tested, closed>>

\* Nothing that was submitted is left when the service ends.
Close ==
    /\ ~closed
    /\ submitted \subseteq tested
    /\ \A c \in Clients : awaited[c] = NotWaiting
    /\ closed' = TRUE
    /\ UNCHANGED <<submitted, tested, awaited>>

Next ==
    \/ \E t \in Traces : Submit(t) \/ Test(t)
    \/ \E c \in Clients : Call(c) \/ Return(c)
    \/ Close

Spec == Init /\ [][Next]_vars
=============================================================================
