------------------------------ MODULE VeriPool ------------------------------
(***************************************************************************)
(* The worker pool of class PMTest (src/src/pmtest.cc): the constructor    *)
(* starts one worker thread per core, client threads hand traces to the    *)
(* workers (execVeri), wait until they are tested (getVeri), and the       *)
(* destructor stops the workers (termVeri).                                *)
(*                                                                         *)
(* Every access to an atomic flag, and every access to assignTo, is a step *)
(* of its own.  Taking a mutex is merged with nothing but a critical       *)
(* section that touches only what the mutex protects.  A worker blocked    *)
(* in VeriQueueCV[i].wait has control at "blocked"; only worker i ever     *)
(* waits on VeriQueueCV[i], so notify_one and notify_all are the same.     *)
(***************************************************************************)
EXTENDS Integers, Sequences, FiniteSets

CONSTANTS
    N,              \* MAX_THREAD_POOL_SIZE, that is NUM_CORES
    Clients,        \* the threads of the program under test
    Producers,      \* the clients that call execVeri
    Collectors,     \* the clients that call getVeri
    Main,           \* the client that creates and destroys the instance
    Traces,         \* the traces the clients may submit, each once
    NoTrace,        \* the "no trace" value
    MaxRounds,      \* bound: calls of getVeri per client
    HeapContents,   \* what the memory of a WorkerInfo may hold before it
                    \* is assigned: records [term, get, done : BOOLEAN]
    GetResultBeforeExit \* TRUE if the instance is destroyed only after a
                        \* getVeri that followed the last execVeri

Workers == 0 .. N - 1

ASSUME PoolAssumption ==
    /\ N \in Nat \ {0}
    /\ Main \in Clients
    /\ Producers \subseteq Clients /\ Collectors \subseteq Clients
    /\ "none" \notin Clients /\ "worker" \notin Clients
    /\ NoTrace \notin Traces
    /\ MaxRounds \in Nat
    /\ HeapContents \subseteq [term : BOOLEAN, get : BOOLEAN, done : BOOLEAN]
    /\ GetResultBeforeExit \in BOOLEAN

VARIABLES
    termSignal, getResultSignal, completedStateMap, \* WorkerInfo[i]
    VeriQueue,      \* VeriQueue[i], a sequence of traces
    holder,         \* who holds VeriQueueMutex[i]: "none", "worker" or a client
    ResultVector,   \* how many results of a trace worker i has stored
    assignTo,
    wpc, hand,      \* control of worker i, and the trace it works on
    cpc,            \* control of client c
    idx,            \* the loop index i of client c
    tmp,            \* a value of assignTo read by c, or tmp of getVeri
    output,         \* how many results of a trace getVeri has merged for c
    arg,            \* the trace c passes to execVeri
    fresh,          \* traces no client has submitted yet
    rounds,         \* calls of getVeri by c
    \* history
    sent,           \* traces pushed to a queue
    tested,         \* traces for which VeriProc has returned
    due             \* sent when c called getVeri

flags == <<termSignal, getResultSignal, completedStateMap>>
pool == <<VeriQueue, holder, ResultVector, assignTo>>
client == <<cpc, idx, tmp, output, arg, fresh, rounds>>
history == <<sent, tested, due>>
vars == <<flags, pool, wpc, hand, client, history>>

CtorPhases == {"create", "clr_term", "clr_get", "clr_done"}
ExecPhases == {"x_lock", "x_push", "x_unlock", "x_notify", "x_load", "x_store"}
WaitPhases == {"g_signal", "g_count", "g_test", "g_notify"}
DonePhases == {"g_merge", "g_clear", "g_wake", "g_reset"}
DtorPhases == {"t_signal", "t_notify", "t_join", "gone"}
ClientPhases == CtorPhases \cup {"idle"} \cup ExecPhases \cup WaitPhases
                    \cup DonePhases \cup DtorPhases
WorkerPhases ==
    {"unborn", "spin", "lock", "while_term", "while_get", "while_size",
     "blocked", "if_term", "if_done", "if_get", "if_size", "complete",
     "if_queue", "proc", "result", "exit"}

-----------------------------------------------------------------------------
(* The constructor has started: the memory is allocated, not yet assigned. *)

Init ==
    /\ \E heap \in [Workers -> HeapContents] :
        /\ termSignal = [i \in Workers |-> heap[i].term]
        /\ getResultSignal = [i \in Workers |-> heap[i].get]
        /\ completedStateMap = [i \in Workers |-> heap[i].done]
    /\ VeriQueue = [i \in Workers |-> <<>>]
    /\ holder = [i \in Workers |-> "none"]
    /\ ResultVector = [i \in Workers |-> [t \in Traces |-> 0]]
    /\ assignTo = 0
    /\ wpc = [i \in Workers |-> "unborn"]
    /\ hand = [i \in Workers |-> NoTrace]
    /\ cpc = [c \in Clients |-> IF c = Main THEN "create" ELSE "idle"]
    /\ idx = [c \in Clients |-> 0]
    /\ tmp = [c \in Clients |-> 0]
    /\ output = [c \in Clients |-> [t \in Traces |-> 0]]
    /\ arg = [c \in Clients |-> NoTrace]
    /\ fresh = Traces
    /\ rounds = [c \in Clients |-> 0]
    /\ sent = {}
    /\ tested = {}
    /\ due = [c \in Clients |-> {}]

\* Client c ends one iteration of "for (i = 0; i < MAX_THREAD_POOL_SIZE; i++)"
\* at control point "from"; after the last one control goes to "to".
Iterate(c, from, to) ==
    /\ cpc[c] = from
    /\ idx' = [idx EXCEPT ![c] = IF @ + 1 < N THEN @ + 1 ELSE 0]
    /\ cpc' = [cpc EXCEPT ![c] = IF idx[c] + 1 < N THEN from ELSE to]

Goto(c, from, to) ==
    /\ cpc[c] = from
    /\ cpc' = [cpc EXCEPT ![c] = to]

\* VeriQueueCV[i].notify_one() and notify_all(): a waiting worker goes on to
\* take the mutex again.
Notify(i) == wpc' = [wpc EXCEPT ![i] = IF @ = "blocked" THEN "lock" ELSE @]

-----------------------------------------------------------------------------
(* initVeri, run by Main inside the constructor.                           *)

CreateWorker ==
    /\ Iterate(Main, "create", "clr_term")
    /\ wpc' = [wpc EXCEPT ![idx[Main]] = "spin"]
    /\ UNCHANGED <<flags, pool, hand, tmp, output, arg, fresh, rounds, history>>

ClearTerm ==
    /\ Iterate(Main, "clr_term", "clr_get")
    /\ termSignal' = [termSignal EXCEPT ![idx[Main]] = FALSE]
    /\ UNCHANGED <<getResultSignal, completedStateMap, pool, wpc, hand,
                   tmp, output, arg, fresh, rounds, history>>

ClearGet ==
    /\ Iterate(Main, "clr_get", "clr_done")
    /\ getResultSignal' = [getResultSignal EXCEPT ![idx[Main]] = FALSE]
    /\ UNCHANGED <<termSignal, completedStateMap, pool, wpc, hand,
                   tmp, output, arg, fresh, rounds, history>>

\* The last iteration is followed by assignTo = 0, which nobody else can
\* see before the constructor returns.
ClearDone ==
    /\ Iterate(Main, "clr_done", "idle")
    /\ completedStateMap' = [completedStateMap EXCEPT ![idx[Main]] = FALSE]
    /\ assignTo' = 0
    /\ UNCHANGED <<termSignal, getResultSignal, VeriQueue, holder, ResultVector,
                   wpc, hand, tmp, output, arg, fresh, rounds, history>>

\* The instance is constructed and its destruction has not begun.
Alive == cpc[Main] \notin CtorPhases \cup DtorPhases

-----------------------------------------------------------------------------
(* execVeri: assignTo is read once for the mutex, once for the queue, once *)
(* for the condition variable and once for its own increment.              *)

ExecCall(c) ==
    /\ Alive
    /\ c \in Producers
    /\ Goto(c, "idle", "x_lock")
    /\ \E t \in fresh :
        /\ arg' = [arg EXCEPT ![c] = t]
        /\ fresh' = fresh \ {t}
    /\ tmp' = [tmp EXCEPT ![c] = assignTo]
    /\ UNCHANGED <<flags, pool, wpc, hand, idx, output, rounds, history>>

\* Mutant: the mutex is not waited for.
ExecLockNoWait(c) ==
    /\ Goto(c, "x_lock", "x_push")
    /\ holder' = [holder EXCEPT ![tmp[c]] = c]
    /\ UNCHANGED <<flags, VeriQueue, ResultVector, assignTo, wpc, hand,
                   idx, tmp, output, arg, fresh, rounds, history>>

ExecLock(c) ==
    /\ Goto(c, "x_lock", "x_push")
    /\ holder[tmp[c]] = "none"
    /\ holder' = [holder EXCEPT ![tmp[c]] = c]
    /\ UNCHANGED <<flags, VeriQueue, ResultVector, assignTo, wpc, hand,
                   idx, tmp, output, arg, fresh, rounds, history>>

ExecPush(c) ==
    /\ Goto(c, "x_push", "x_unlock")
    /\ VeriQueue' = [VeriQueue EXCEPT ![assignTo] = Append(@, arg[c])]
    /\ sent' = sent \cup {arg[c]}
    /\ UNCHANGED <<flags, holder, ResultVector, assignTo, wpc, hand,
                   idx, tmp, output, arg, fresh, rounds, tested, due>>

ExecUnlock(c) ==
    /\ Goto(c, "x_unlock", "x_notify")
    /\ holder' = [holder EXCEPT ![tmp[c]] = "none"]
    /\ UNCHANGED <<flags, VeriQueue, ResultVector, assignTo, wpc, hand,
                   idx, tmp, output, arg, fresh, rounds, history>>

\* Mutant: assignTo is advanced before the notification.
ExecNotifyNext(c) ==
    /\ Goto(c, "x_notify", "x_load")
    /\ Notify((assignTo + 1) % N)
    /\ UNCHANGED <<flags, pool, hand, idx, tmp, output, arg, fresh, rounds,
                   history>>

ExecNotify(c) ==
    /\ Goto(c, "x_notify", "x_load")
    /\ Notify(assignTo)
    /\ UNCHANGED <<flags, pool, hand, idx, tmp, output, arg, fresh, rounds,
                   history>>

ExecLoad(c) ==
    /\ Goto(c, "x_load", "x_store")
    /\ tmp' = [tmp EXCEPT ![c] = assignTo]
    /\ UNCHANGED <<flags, pool, wpc, hand, idx, output, arg, fresh, rounds,
                   history>>

\* Mutant: assignTo is not reduced modulo N.
ExecStoreNoWrap(c) ==
    /\ Goto(c, "x_store", "idle")
    /\ assignTo' = tmp[c] + 1
    /\ UNCHANGED <<flags, VeriQueue, holder, ResultVector, wpc, hand,
                   idx, tmp, output, arg, fresh, rounds, history>>

ExecStore(c) ==
    /\ Goto(c, "x_store", "idle")
    /\ assignTo' = (tmp[c] + 1) % N
    /\ UNCHANGED <<flags, VeriQueue, holder, ResultVector, wpc, hand,
                   idx, tmp, output, arg, fresh, rounds, history>>

-----------------------------------------------------------------------------
(* getVeri                                                                 *)

GetCall(c) ==
    /\ Alive
    /\ c \in Collectors /\ rounds[c] < MaxRounds
    /\ Goto(c, "idle", "g_signal")
    /\ rounds' = [rounds EXCEPT ![c] = @ + 1]
    /\ output' = [output EXCEPT ![c] = [t \in Traces |-> 0]]
    /\ due' = [due EXCEPT ![c] = sent]
    /\ UNCHANGED <<flags, pool, wpc, hand, idx, tmp, arg, fresh, sent, tested>>

GetSignal(c) ==
    /\ Iterate(c, "g_signal", "g_count")
    /\ getResultSignal' = [getResultSignal EXCEPT ![idx[c]] = TRUE]
    /\ tmp' = [tmp EXCEPT ![c] = 0]
    /\ UNCHANGED <<termSignal, completedStateMap, pool, wpc, hand,
                   output, arg, fresh, rounds, history>>

GetCount(c) ==
    /\ Iterate(c, "g_count", "g_test")
    /\ tmp' = [tmp EXCEPT ![c] = IF completedStateMap[idx[c]] THEN @ + 1 ELSE @]
    /\ UNCHANGED <<flags, pool, wpc, hand, output, arg, fresh, rounds, history>>

GetTest(c) ==
    /\ Goto(c, "g_test", IF tmp[c] = N THEN "g_merge" ELSE "g_notify")
    /\ UNCHANGED <<flags, pool, wpc, hand, idx, tmp, output, arg, fresh, rounds,
                   history>>

\* Mutant: getVeri polls without waking the workers.
GetNotifyNone(c) ==
    /\ Iterate(c, "g_notify", "g_count")
    /\ holder[idx[c]] = "none"
    /\ wpc' = wpc
    /\ tmp' = [tmp EXCEPT ![c] = 0]
    /\ UNCHANGED <<flags, pool, hand, output, arg, fresh, rounds, history>>

GetNotify(c) ==
    /\ Iterate(c, "g_notify", "g_count")
    /\ holder[idx[c]] = "none"
    /\ Notify(idx[c])
    /\ tmp' = [tmp EXCEPT ![c] = 0]
    /\ UNCHANGED <<flags, pool, hand, output, arg, fresh, rounds, history>>

GetMerge(c) ==
    /\ Iterate(c, "g_merge", "g_clear")
    /\ output' = [output EXCEPT ![c] =
                    [t \in Traces |-> output[c][t] + ResultVector[idx[c]][t]]]
    /\ UNCHANGED <<flags, pool, wpc, hand, tmp, arg, fresh, rounds, history>>

\* Mutant: getResultSignal stays up after the results are merged.
GetClearNone(c) ==
    /\ Iterate(c, "g_clear", "g_wake")
    /\ UNCHANGED <<flags, pool, wpc, hand, tmp, output, arg, fresh, rounds, history>>

GetClear(c) ==
    /\ Iterate(c, "g_clear", "g_wake")
    /\ getResultSignal' = [getResultSignal EXCEPT ![idx[c]] = FALSE]
    /\ UNCHANGED <<termSignal, completedStateMap, pool, wpc, hand,
                   tmp, output, arg, fresh, rounds, history>>

GetWake(c) ==
    /\ Iterate(c, "g_wake", "g_reset")
    /\ holder[idx[c]] = "none"
    /\ Notify(idx[c])
    /\ UNCHANGED <<flags, pool, hand, tmp, output, arg, fresh, rounds, history>>

\* Mutant: completedStateMap is not cleared.
GetResetNone(c) ==
    /\ Iterate(c, "g_reset", "idle")
    /\ completedStateMap' = completedStateMap
    /\ UNCHANGED <<termSignal, getResultSignal, pool, wpc, hand,
                   tmp, output, arg, fresh, rounds, history>>

GetReset(c) ==
    /\ Iterate(c, "g_reset", "idle")
    /\ completedStateMap' = [completedStateMap EXCEPT ![idx[c]] = FALSE]
    /\ UNCHANGED <<termSignal, getResultSignal, pool, wpc, hand,
                   tmp, output, arg, fresh, rounds, history>>

-----------------------------------------------------------------------------
(* termVeri, run by Main inside the destructor.  No other client is inside *)
(* a call on an object that is being destroyed.                            *)

TermCall ==
    /\ \A c \in Clients : cpc[c] = "idle"
    /\ GetResultBeforeExit =>
        \E c \in Collectors : rounds[c] > 0 /\ due[c] = sent
    /\ Goto(Main, "idle", "t_signal")
    /\ UNCHANGED <<flags, pool, wpc, hand, idx, tmp, output, arg, fresh, rounds,
                   history>>

TermSignal ==
    /\ Iterate(Main, "t_signal", "t_notify")
    /\ termSignal' = [termSignal EXCEPT ![idx[Main]] = TRUE]
    /\ UNCHANGED <<getResultSignal, completedStateMap, pool, wpc, hand,
                   tmp, output, arg, fresh, rounds, history>>

\* Mutant: the workers are notified without their mutexes.
TermNotifyUnlocked ==
    /\ Iterate(Main, "t_notify", "t_join")
    /\ Notify(idx[Main])
    /\ UNCHANGED <<flags, pool, hand, tmp, output, arg, fresh, rounds, history>>

TermNotify ==
    /\ Iterate(Main, "t_notify", "t_join")
    /\ holder[idx[Main]] = "none"
    /\ Notify(idx[Main])
    /\ UNCHANGED <<flags, pool, hand, tmp, output, arg, fresh, rounds, history>>

TermJoin ==
    /\ Iterate(Main, "t_join", "gone")
    /\ wpc[idx[Main]] = "exit"
    /\ UNCHANGED <<flags, pool, wpc, hand, tmp, output, arg, fresh, rounds,
                   history>>

\* The instance is destroyed; nothing of it runs any more.
Gone == cpc[Main] = "gone" /\ UNCHANGED vars

-----------------------------------------------------------------------------
(* VeriWorker(i)                                                           *)

WGoto(i, from, to) ==
    /\ wpc[i] = from
    /\ wpc' = [wpc EXCEPT ![i] = to]

\* while (WorkerInfo[id].termSignal == true);
Spin(i) ==
    /\ WGoto(i, "spin", "lock")
    /\ ~termSignal[i]
    /\ UNCHANGED <<flags, pool, hand, client, history>>

\* unique_lock veri_lock(...), and the end of VeriQueueCV[id].wait(veri_lock)
Lock(i) ==
    /\ WGoto(i, "lock", "while_term")
    /\ holder[i] = "none"
    /\ holder' = [holder EXCEPT ![i] = "worker"]
    /\ UNCHANGED <<flags, VeriQueue, ResultVector, assignTo, hand, client, history>>

WhileTerm(i) ==
    /\ WGoto(i, "while_term", IF termSignal[i] THEN "if_term" ELSE "while_get")
    /\ UNCHANGED <<flags, pool, hand, client, history>>

WhileGet(i) ==
    /\ WGoto(i, "while_get", IF getResultSignal[i] THEN "if_term" ELSE "while_size")
    /\ UNCHANGED <<flags, pool, hand, client, history>>

\* An empty queue makes the worker wait, which releases the mutex.
WhileSize(i) ==
    /\ WGoto(i, "while_size", IF VeriQueue[i] = <<>> THEN "blocked" ELSE "if_term")
    /\ holder' = IF VeriQueue[i] = <<>> THEN [holder EXCEPT ![i] = "none"] ELSE holder
    /\ UNCHANGED <<flags, VeriQueue, ResultVector, assignTo, hand, client, history>>

\* A condition variable may wake up without a notification.
SpuriousWake(i) ==
    /\ WGoto(i, "blocked", "lock")
    /\ UNCHANGED <<flags, pool, hand, client, history>>

\* if (WorkerInfo[id].termSignal) break;
IfTerm(i) ==
    /\ WGoto(i, "if_term", IF termSignal[i] THEN "exit" ELSE "if_done")
    /\ holder' = IF termSignal[i] THEN [holder EXCEPT ![i] = "none"] ELSE holder
    /\ UNCHANGED <<flags, VeriQueue, ResultVector, assignTo, hand, client, history>>

IfDone(i) ==
    /\ WGoto(i, "if_done", IF completedStateMap[i] THEN "if_queue" ELSE "if_get")
    /\ UNCHANGED <<flags, pool, hand, client, history>>

IfGet(i) ==
    /\ WGoto(i, "if_get", IF getResultSignal[i] THEN "if_size" ELSE "if_queue")
    /\ UNCHANGED <<flags, pool, hand, client, history>>

\* Mutant: a worker completes whatever its queue holds.
IfSizeNot(i) ==
    /\ WGoto(i, "if_size", "complete")
    /\ UNCHANGED <<flags, pool, hand, client, history>>

IfSize(i) ==
    /\ WGoto(i, "if_size", IF VeriQueue[i] = <<>> THEN "complete" ELSE "if_queue")
    /\ UNCHANGED <<flags, pool, hand, client, history>>

\* completedStateMap = true; continue;
Complete(i) ==
    /\ WGoto(i, "complete", "lock")
    /\ completedStateMap' = [completedStateMap EXCEPT ![i] = TRUE]
    /\ holder' = [holder EXCEPT ![i] = "none"]
    /\ UNCHANGED <<termSignal, getResultSignal, VeriQueue, ResultVector, assignTo,
                   hand, client, history>>

IfQueue(i) ==
    /\ WGoto(i, "if_queue", IF VeriQueue[i] = <<>> THEN "lock" ELSE "proc")
    /\ IF VeriQueue[i] = <<>>
       THEN UNCHANGED <<VeriQueue, hand>>
       ELSE /\ hand' = [hand EXCEPT ![i] = Head(VeriQueue[i])]
            /\ VeriQueue' = [VeriQueue EXCEPT ![i] = Tail(@)]
    /\ holder' = [holder EXCEPT ![i] = "none"]
    /\ UNCHANGED <<flags, ResultVector, assignTo, client, history>>

\* VeriProc(veriptr): what it does to the trace is module VeriProc.
RunVeriProc(i) ==
    /\ WGoto(i, "proc", "result")
    /\ tested' = tested \cup {hand[i]}
    /\ UNCHANGED <<flags, pool, hand, client, sent, due>>

PushResult(i) ==
    /\ WGoto(i, "result", "lock")
    /\ ResultVector' = [ResultVector EXCEPT ![i][hand[i]] = @ + 1]
    /\ hand' = [hand EXCEPT ![i] = NoTrace]
    /\ UNCHANGED <<flags, VeriQueue, holder, assignTo, client, history>>

-----------------------------------------------------------------------------
Ctor == CreateWorker \/ ClearTerm \/ ClearGet \/ ClearDone

Exec(c) ==
    \/ ExecLock(c) \/ ExecPush(c) \/ ExecUnlock(c)
    \/ ExecNotify(c) \/ ExecLoad(c) \/ ExecStore(c)

Get(c) ==
    \/ GetSignal(c) \/ GetCount(c) \/ GetTest(c) \/ GetNotify(c)
    \/ GetMerge(c) \/ GetClear(c) \/ GetWake(c) \/ GetReset(c)

Term == TermSignal \/ TermNotify \/ TermJoin

Call(c) == ExecCall(c) \/ GetCall(c)

Worker(i) ==
    \/ Spin(i) \/ Lock(i) \/ WhileTerm(i) \/ WhileGet(i) \/ WhileSize(i)
    \/ IfTerm(i) \/ IfDone(i) \/ IfGet(i) \/ IfSize(i) \/ Complete(i)
    \/ IfQueue(i) \/ RunVeriProc(i) \/ PushResult(i)

Next ==
    \/ Ctor \/ TermCall \/ Term \/ Gone
    \/ \E c \in Clients : Call(c) \/ Exec(c) \/ Get(c)
    \/ \E i \in Workers : Worker(i) \/ SpuriousWake(i)

\* Every thread inside the library is scheduled.  A thread that waits for a
\* mutex gets it if the mutex is free again and again; whether a client makes
\* another call is up to the client.
Fairness ==
    /\ WF_vars(Ctor) /\ WF_vars(Term) /\ SF_vars(TermNotify)
    /\ \A c \in Clients :
        /\ WF_vars(Exec(c)) /\ WF_vars(Get(c))
        /\ SF_vars(ExecLock(c)) /\ SF_vars(GetNotify(c) \/ GetWake(c))
    /\ \A i \in Workers : WF_vars(Worker(i)) /\ SF_vars(Lock(i))

Spec == Init /\ [][Next]_vars
FairSpec == Spec /\ Fairness

-----------------------------------------------------------------------------
(* Properties                                                              *)

\* The type of every variable.
TypeOK ==
    /\ termSignal \in [Workers -> BOOLEAN]
    /\ getResultSignal \in [Workers -> BOOLEAN]
    /\ completedStateMap \in [Workers -> BOOLEAN]
    /\ VeriQueue \in [Workers -> Seq(Traces)]
    /\ holder \in [Workers -> {"none", "worker"} \cup Clients]
    /\ ResultVector \in [Workers -> [Traces -> Nat]]
    /\ assignTo \in Workers
    /\ wpc \in [Workers -> WorkerPhases]
    /\ hand \in [Workers -> Traces \cup {NoTrace}]
    /\ cpc \in [Clients -> ClientPhases]
    /\ idx \in [Clients -> Workers]
    /\ tmp \in [Clients -> Nat]
    /\ output \in [Clients -> [Traces -> Nat]]
    /\ arg \in [Clients -> Traces \cup {NoTrace}]
    /\ fresh \subseteq Traces
    /\ rounds \in [Clients -> Nat]
    /\ sent \subseteq Traces
    /\ tested \subseteq Traces
    /\ due \in [Clients -> SUBSET Traces]

\* getVeri leaves its waiting loop only when every trace that was pushed
\* before the call has been tested.  Its callers free the traces next.
ResultAfterTested ==
    \A c \in Clients : cpc[c] \in DonePhases => due[c] \subseteq tested

\* When getVeri has merged the results it holds one result of every trace
\* submitted before the call, of a later one at most one, and no other:
\* results of earlier rounds are kept, and none is lost or counted twice.
ResultsComplete ==
    \A c \in Clients : cpc[c] \in {"g_clear", "g_wake", "g_reset"} =>
        /\ \A t \in due[c] : output[c][t] = 1
        /\ \A t \in Traces : output[c][t] <= IF t \in sent THEN 1 ELSE 0

\* No two threads are about to access the same VeriQueue at once: execVeri
\* pushing, or a worker asking for the size or taking the front.
NoQueueRace ==
    \A c \in Clients : cpc[c] = "x_push" =>
        /\ wpc[assignTo] \notin {"while_size", "if_size", "if_queue"}
        /\ \A d \in Clients \ {c} : cpc[d] # "x_push"

\* A worker sleeps on a queue that holds a trace only while execVeri is on
\* its way to the notification.
NoLostTrace ==
    \A i \in Workers : wpc[i] = "blocked" /\ VeriQueue[i] # <<>> =>
        assignTo = i /\ \E c \in Clients : cpc[c] \in {"x_unlock", "x_notify"}

\* A worker sleeps through its termSignal only while termVeri is on its way
\* to notify it.
NoLostTerm ==
    \A i \in Workers : wpc[i] = "blocked" /\ termSignal[i] =>
        \/ cpc[Main] \in CtorPhases \cup {"t_signal"}
        \/ cpc[Main] = "t_notify" /\ idx[Main] <= i

\* Each call of getVeri returns.
GetVeriReturns == \A c \in Clients : cpc[c] = "g_signal" ~> cpc[c] = "idle"

\* The destructor returns.
DestructorReturns == cpc[Main] = "t_signal" ~> cpc[Main] = "gone"

\* Every submitted trace is tested, whether or not anyone calls getVeri.
EveryTraceTested == \A t \in Traces : t \in sent ~> t \in tested

=============================================================================
