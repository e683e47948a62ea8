--------------------------- MODULE VeriPoolTypes ----------------------------
(***************************************************************************)
(* The worker pool, for every number of workers, of traces and of calls:   *)
(* types, and mutual exclusion at the queues.                              *)
(***************************************************************************)
EXTENDS VeriPool, TLAPS

-----------------------------------------------------------------------------
(* Types                                                                   *)

\* The indices of the workers, and the successor that execVeri computes.
LEMMA WorkerIndex ==
    0 \in Workers /\ Workers \subseteq Nat /\ \A k \in Nat : (k + 1) % N \in Workers
BY PoolAssumption, SMTT(30) DEF Workers

\* The types, and which clients and workers have a trace at hand.
TypeInv ==
    /\ TypeOK
    /\ \A c \in Clients : cpc[c] \in {"x_lock", "x_push"} => arg[c] \in Traces
    /\ \A i \in Workers : wpc[i] \in {"proc", "result"} => hand[i] \in Traces

\* The constructor starts in a well-typed state.
LEMMA InitTypeInv == Init => TypeInv
<1> SUFFICES ASSUME Init PROVE TypeInv
    OBVIOUS
<1> USE PoolAssumption
<1>1. PICK heap \in [Workers -> HeapContents] :
        /\ termSignal = [i \in Workers |-> heap[i].term]
        /\ getResultSignal = [i \in Workers |-> heap[i].get]
        /\ completedStateMap = [i \in Workers |-> heap[i].done]
    BY Zenon DEF Init
<1>2. \A i \in Workers : heap[i] \in [term : BOOLEAN, get : BOOLEAN, done : BOOLEAN]
    OBVIOUS
<1>3. /\ termSignal \in [Workers -> BOOLEAN]
      /\ getResultSignal \in [Workers -> BOOLEAN]
      /\ completedStateMap \in [Workers -> BOOLEAN]
    BY <1>1, <1>2, Zenon
<1>4. 0 \in Workers
    BY SMTT(30) DEF Workers
<1> QED
    BY <1>3, <1>4, SMTT(30) DEF Init, TypeInv, TypeOK, WorkerPhases, ClientPhases, CtorPhases,
        ExecPhases

\* An iteration of a loop over the workers stays within them.
LEMMA IterateType ==
    ASSUME TypeInv, NEW c \in Clients, NEW from \in ClientPhases, NEW to \in ClientPhases,
           Iterate(c, from, to)
    PROVE  /\ idx' \in [Clients -> Workers]
           /\ cpc' \in [Clients -> ClientPhases]
           /\ \A d \in Clients : d # c => cpc'[d] = cpc[d] /\ idx'[d] = idx[d]
           /\ cpc'[c] \in {from, to}
<1>1. idx \in [Clients -> Workers] /\ cpc \in [Clients -> ClientPhases]
    BY Zenon DEF TypeInv, TypeOK
<1>2. 0 \in Workers /\ idx[c] \in Workers /\ (idx[c] + 1 < N => idx[c] + 1 \in Workers)
    BY <1>1, PoolAssumption, SMTT(30) DEF Workers
<1> QED
    BY <1>1, <1>2, Zenon DEF Iterate

\* Each step of each thread keeps the types.
LEMMA NextTypeInv == TypeInv /\ [Next]_vars => TypeInv'
<1> SUFFICES ASSUME TypeInv, [Next]_vars PROVE TypeInv'
    OBVIOUS
<1> USE PoolAssumption DEF TypeInv, TypeOK, flags, pool, client, history
<1>1. \A c \in Clients : \A from, to \in ClientPhases \ {"x_lock", "x_push"} :
        Iterate(c, from, to) =>
            /\ idx' \in [Clients -> Workers] /\ cpc' \in [Clients -> ClientPhases]
            /\ \A d \in Clients : cpc'[d] \in {"x_lock", "x_push"} => cpc'[d] = cpc[d]
    BY IterateType, Zenon
<1>2. \A i \in Workers :
        Notify(i) => /\ wpc' \in [Workers -> WorkerPhases]
                     /\ \A j \in Workers : wpc'[j] \in {"proc", "result"} => wpc[j] = wpc'[j]
    BY SMTT(30) DEF Notify, WorkerPhases
<1>3. CtorPhases \cup WaitPhases \cup DonePhases \cup DtorPhases \cup {"idle"}
        \subseteq ClientPhases \ {"x_lock", "x_push"}
    BY Zenon DEF ClientPhases, CtorPhases, WaitPhases, DonePhases, DtorPhases
<1>4. CASE Ctor
    <2> USE <1>1, <1>3 DEF CtorPhases
    <2>1. CASE CreateWorker
        BY <2>1, Zenon DEF CreateWorker, WorkerPhases
    <2>2. CASE ClearTerm
        BY <2>2, Zenon DEF ClearTerm
    <2>3. CASE ClearGet
        BY <2>3, Zenon DEF ClearGet
    <2>4. CASE ClearDone
        BY <2>4, WorkerIndex, Zenon DEF ClearDone
    <2> QED
        BY <1>4, <2>1, <2>2, <2>3, <2>4, Zenon DEF Ctor
<1>5. CASE TermCall \/ Term
    <2> USE <1>1, <1>2, <1>3 DEF DtorPhases
    <2>1. CASE TermCall
        BY <2>1, SMTT(30) DEF TermCall, Goto, ClientPhases
    <2>2. CASE TermSignal
        BY <2>2, Zenon DEF TermSignal
    <2>3. CASE TermNotify
        BY <2>3, Zenon DEF TermNotify
    <2>4. CASE TermJoin
        BY <2>4, Zenon DEF TermJoin
    <2> QED
        BY <1>5, <2>1, <2>2, <2>3, <2>4, Zenon DEF Term
<1>6. ASSUME NEW c \in Clients, Call(c) PROVE TypeInv'
    <2>1. CASE ExecCall(c)
        <3>1. cpc' = [cpc EXCEPT ![c] = "x_lock"] /\ UNCHANGED <<wpc, hand>>
            BY <2>1, Zenon DEF ExecCall, Goto
        <3>2. cpc' \in [Clients -> ClientPhases]
            BY <3>1, Zenon DEF ClientPhases, ExecPhases
        <3>3. tmp' \in [Clients -> Nat]
            BY <2>1, WorkerIndex, Zenon DEF ExecCall
        <3>4. PICK t \in fresh : arg' = [arg EXCEPT ![c] = t] /\ fresh' = fresh \ {t}
            BY <2>1, Zenon DEF ExecCall
        <3>5. /\ arg' \in [Clients -> Traces \cup {NoTrace}] /\ fresh' \subseteq Traces
              /\ \A d \in Clients : cpc'[d] \in {"x_lock", "x_push"} => arg'[d] \in Traces
            BY <3>1, <3>4, Zenon
        <3>6. UNCHANGED <<flags, pool, wpc, hand, idx, output, rounds, history>>
            BY <2>1, Zenon DEF ExecCall
        <3> QED
            BY <3>2, <3>3, <3>5, <3>6, Zenon
    <2>2. CASE GetCall(c)
        <3>1. cpc' = [cpc EXCEPT ![c] = "g_signal"]
            BY <2>2, Zenon DEF GetCall, Goto
        <3>2. /\ cpc' \in [Clients -> ClientPhases]
              /\ \A d \in Clients : cpc'[d] \in {"x_lock", "x_push"} => cpc'[d] = cpc[d]
            BY <3>1, Zenon DEF ClientPhases, WaitPhases
        <3>3. rounds' \in [Clients -> Nat] /\ output' \in [Clients -> [Traces -> Nat]]
            BY <2>2, SMTT(30) DEF GetCall
        <3>4. due' \in [Clients -> SUBSET Traces]
            BY <2>2, Zenon DEF GetCall
        <3>5. UNCHANGED <<flags, pool, wpc, hand, idx, tmp, arg, fresh, sent, tested>>
            BY <2>2, Zenon DEF GetCall
        <3> QED
            BY <3>2, <3>3, <3>4, <3>5, Zenon
    <2> QED
        BY <1>6, <2>1, <2>2, Zenon DEF Call
<1>7. ASSUME NEW c \in Clients, Exec(c) PROVE TypeInv'
    <2> USE DEF Goto, ClientPhases, ExecPhases
    <2>1. CASE ExecLock(c)
        BY <2>1, Zenon DEF ExecLock
    <2>2. CASE ExecPush(c)
        BY <2>2, SMTT(30) DEF ExecPush
    <2>3. CASE ExecUnlock(c)
        BY <2>3, Zenon DEF ExecUnlock
    <2>4. CASE ExecNotify(c)
        BY <1>2, <2>4, Zenon DEF ExecNotify
    <2>5. CASE ExecLoad(c)
        BY <2>5, WorkerIndex, Zenon DEF ExecLoad
    <2>6. CASE ExecStore(c)
        <3>1. (tmp[c] + 1) % N \in Workers
            BY WorkerIndex, Zenon
        <3> QED
            BY <2>6, <3>1, Zenon DEF ExecStore
    <2> QED
        BY <1>7, <2>1, <2>2, <2>3, <2>4, <2>5, <2>6, Zenon DEF Exec
<1>8. ASSUME NEW c \in Clients, Get(c) PROVE TypeInv'
    <2> USE <1>1, <1>2, <1>3 DEF WaitPhases, DonePhases
    <2>1. CASE GetSignal(c)
        BY <2>1, Zenon DEF GetSignal
    <2>2. CASE GetCount(c)
        <3>1. tmp' \in [Clients -> Nat]
            BY <2>2, SMTT(30) DEF GetCount
        <3> QED
            BY <2>2, <3>1, Zenon DEF GetCount
    <2>3. CASE GetTest(c)
        BY <2>3, Zenon DEF GetTest, Goto
    <2>4. CASE GetNotify(c)
        BY <2>4, Zenon DEF GetNotify
    <2>5. CASE GetMerge(c)
        <3>1. idx[c] \in Workers
            OBVIOUS
        <3>2. [t \in Traces |-> output[c][t] + ResultVector[idx[c]][t]] \in [Traces -> Nat]
            BY <3>1, SMTT(30)
        <3>3. output' \in [Clients -> [Traces -> Nat]]
            BY <2>5, <3>2, Zenon DEF GetMerge
        <3> QED
            BY <2>5, <3>3, Zenon DEF GetMerge
    <2>6. CASE GetClear(c)
        BY <2>6, Zenon DEF GetClear
    <2>7. CASE GetWake(c)
        BY <2>7, Zenon DEF GetWake
    <2>8. CASE GetReset(c)
        BY <2>8, Zenon DEF GetReset
    <2> QED
        BY <1>8, <2>1, <2>2, <2>3, <2>4, <2>5, <2>6, <2>7, <2>8, Zenon DEF Get
<1>9. ASSUME NEW i \in Workers, Worker(i) \/ SpuriousWake(i) PROVE TypeInv'
    <2> USE DEF WGoto, WorkerPhases
    <2>1. CASE Spin(i) \/ SpuriousWake(i)
        BY <2>1, ZenonT(60) DEF Spin, SpuriousWake
    <2>2. CASE Lock(i)
        BY <2>2, SMTT(40) DEF Lock
    <2>3. CASE WhileTerm(i) \/ WhileGet(i) \/ IfDone(i) \/ IfGet(i) \/ IfSize(i)
        <3>1. UNCHANGED <<flags, pool, hand, client, history>>
            BY <2>3, SMTT(40) DEF WhileTerm, WhileGet, IfDone, IfGet, IfSize
        <3>2. \E to \in WorkerPhases \ {"proc", "result"} : wpc' = [wpc EXCEPT ![i] = to]
            BY <2>3, Zenon DEF WhileTerm, WhileGet, IfDone, IfGet, IfSize
        <3>3. /\ wpc' \in [Workers -> WorkerPhases]
              /\ \A j \in Workers : wpc'[j] \in {"proc", "result"} => wpc[j] = wpc'[j]
            BY <3>2, SMTT(30)
        <3> QED
            BY <3>1, <3>3, ZenonT(30)
    <2>4. CASE WhileSize(i)
        BY <2>4, Zenon DEF WhileSize
    <2>5. CASE IfTerm(i)
        BY <2>5, SMTT(40) DEF IfTerm
    <2>6. CASE Complete(i)
        BY <2>6, SMTT(40) DEF Complete
    <2>7. CASE IfQueue(i)
        <3>1. wpc' \in [Workers -> WorkerPhases] /\ holder' \in [Workers -> {"none", "worker"} \cup Clients]
            BY <2>7, SMTT(40) DEF IfQueue
        <3>2. /\ VeriQueue' \in [Workers -> Seq(Traces)]
              /\ hand' \in [Workers -> Traces \cup {NoTrace}]
              /\ \A j \in Workers : wpc'[j] \in {"proc", "result"} => hand'[j] \in Traces
            <4>1. CASE VeriQueue[i] = <<>>
                BY <2>7, <4>1, Zenon DEF IfQueue
            <4>2. CASE VeriQueue[i] # <<>>
                <5>1. Head(VeriQueue[i]) \in Traces /\ Tail(VeriQueue[i]) \in Seq(Traces)
                    BY <4>2, SMTT(30)
                <5>2. /\ hand' = [hand EXCEPT ![i] = Head(VeriQueue[i])]
                      /\ VeriQueue' = [VeriQueue EXCEPT ![i] = Tail(@)]
                      /\ wpc' = [wpc EXCEPT ![i] = "proc"]
                    BY <2>7, <4>2, Zenon DEF IfQueue
                <5> QED
                    BY <5>1, <5>2, Zenon
            <4> QED
                BY <4>1, <4>2, Zenon
        <3>3. UNCHANGED <<flags, ResultVector, assignTo, client, history>>
            BY <2>7, Zenon DEF IfQueue
        <3> QED
            BY <3>1, <3>2, <3>3, Zenon
    <2>8. CASE RunVeriProc(i)
        BY <2>8, SMTT(40) DEF RunVeriProc
    <2>9. CASE PushResult(i)
        <3>1. hand[i] \in Traces
            BY <2>9, Zenon DEF PushResult
        <3>2. [ResultVector[i] EXCEPT ![hand[i]] = @ + 1] \in [Traces -> Nat]
            BY <3>1, SMTT(30)
        <3>3. ResultVector' = [ResultVector EXCEPT ![i] = [ResultVector[i] EXCEPT ![hand[i]] = @ + 1]]
            BY <2>9, Zenon DEF PushResult
        <3>4. ResultVector' \in [Workers -> [Traces -> Nat]]
            BY <3>2, <3>3, Zenon
        <3>5. /\ hand' = [hand EXCEPT ![i] = NoTrace] /\ wpc' = [wpc EXCEPT ![i] = "lock"]
              /\ UNCHANGED <<flags, VeriQueue, holder, assignTo, client, history>>
            BY <2>9, Zenon DEF PushResult
        <3> QED
            BY <3>4, <3>5, Zenon
    <2> QED
        BY <1>9, <2>1, <2>2, <2>3, <2>4, <2>5, <2>6, <2>7, <2>8, <2>9, Zenon DEF Worker
<1>10. CASE UNCHANGED vars
    BY <1>10, Zenon DEF vars
<1> QED
    BY <1>4, <1>5, <1>6, <1>7, <1>8, <1>9, <1>10, Zenon DEF Next, Gone

\* For every number of workers, clients and traces, also when several
\* threads submit: the pool is well-typed, and assignTo, read and written
\* without a lock, stays the index of a worker.
THEOREM PoolTypeCorrect == Spec => []TypeOK
<1>1. TypeInv => TypeOK
    BY Zenon DEF TypeInv
<1> QED
    BY <1>1, InitTypeInv, NextTypeInv, PTL DEF Spec

-----------------------------------------------------------------------------
(* What the functions leave alone                                          *)

\* The workers stay where they are, but for the ones that are notified.
NotifyOnly ==
    \A i \in Workers : wpc'[i] = wpc[i] \/ (wpc[i] = "blocked" /\ wpc'[i] = "lock")

\* initVeri touches the flags and the workers it creates.
LEMMA CtorFrame ==
    ASSUME TypeInv, Ctor
    PROVE  /\ UNCHANGED <<VeriQueue, holder, hand, arg, fresh, history>>
           /\ cpc[Main] \in CtorPhases /\ cpc'[Main] \in CtorPhases \cup {"idle"}
           /\ \A c \in Clients \ {Main} : cpc'[c] = cpc[c]
           /\ \A i \in Workers : wpc'[i] \in {wpc[i], "spin"}
           /\ \A i \in Workers : completedStateMap'[i] => completedStateMap[i]
<1>1. /\ cpc \in [Clients -> ClientPhases] /\ wpc \in [Workers -> WorkerPhases]
      /\ completedStateMap \in [Workers -> BOOLEAN] /\ Main \in Clients
    BY PoolAssumption, Zenon DEF TypeInv, TypeOK
<1> QED
    BY <1>1, Zenon DEF Ctor, CreateWorker, ClearTerm, ClearGet, ClearDone, Iterate, flags, pool,
        CtorPhases

\* termVeri touches termSignal and notifies.
LEMMA TermFrame ==
    ASSUME TypeInv, TermCall \/ Term
    PROVE  /\ UNCHANGED <<getResultSignal, completedStateMap, pool, hand, arg, fresh, history>>
           /\ cpc[Main] \in DtorPhases \cup {"idle"} /\ cpc'[Main] \in DtorPhases
           /\ \A c \in Clients \ {Main} : cpc'[c] = cpc[c]
           /\ NotifyOnly
<1>1. /\ cpc \in [Clients -> ClientPhases] /\ wpc \in [Workers -> WorkerPhases]
      /\ Main \in Clients
    BY PoolAssumption, Zenon DEF TypeInv, TypeOK
<1>2. CASE TermCall
    BY <1>1, <1>2, SMTT(40) DEF TermCall, Goto, flags, DtorPhases, NotifyOnly
<1>3. CASE Term
    BY <1>1, <1>3, SMTT(40) DEF Term, TermSignal, TermNotify, TermJoin, Iterate, Notify, flags,
        DtorPhases, NotifyOnly
<1> QED
    BY <1>2, <1>3, Zenon

\* execVeri pushes to a queue and notifies.
LEMMA ExecFrame ==
    ASSUME TypeInv, NEW c \in Clients, Exec(c)
    PROVE  /\ UNCHANGED <<flags, hand, idx, arg, fresh, tested, due>>
           /\ ~ExecPush(c) => UNCHANGED <<VeriQueue, sent>>
           /\ cpc[c] \in ExecPhases /\ cpc'[c] \in ExecPhases \cup {"idle"}
           /\ \A d \in Clients \ {c} : cpc'[d] = cpc[d] /\ tmp'[d] = tmp[d]
           /\ NotifyOnly
<1>1. /\ cpc \in [Clients -> ClientPhases] /\ wpc \in [Workers -> WorkerPhases]
      /\ tmp \in [Clients -> Nat]
    BY Zenon DEF TypeInv, TypeOK
<1>2. CASE ExecLock(c) \/ ExecPush(c) \/ ExecUnlock(c)
    BY <1>1, <1>2, Zenon DEF ExecLock, ExecPush, ExecUnlock, Goto, ExecPhases, NotifyOnly, history
<1>3. CASE ExecNotify(c) \/ ExecLoad(c) \/ ExecStore(c)
    BY <1>1, <1>3, SMTT(40) DEF ExecNotify, ExecLoad, ExecStore, Goto, Notify, ExecPhases,
        NotifyOnly, pool, history
<1> QED
    BY <1>2, <1>3, Zenon DEF Exec

\* getVeri touches getResultSignal and completedStateMap, and notifies.
LEMMA GetFrame ==
    ASSUME TypeInv, NEW c \in Clients, Get(c)
    PROVE  /\ UNCHANGED <<termSignal, pool, hand, arg, fresh, history>>
           /\ cpc[c] \in WaitPhases \cup DonePhases
           /\ cpc'[c] \in WaitPhases \cup DonePhases \cup {"idle"}
           /\ \A d \in Clients \ {c} : cpc'[d] = cpc[d] /\ tmp'[d] = tmp[d]
           /\ NotifyOnly
           /\ \A i \in Workers : completedStateMap'[i] => completedStateMap[i]
<1>1. /\ cpc \in [Clients -> ClientPhases] /\ wpc \in [Workers -> WorkerPhases]
      /\ tmp \in [Clients -> Nat] /\ completedStateMap \in [Workers -> BOOLEAN]
    BY ZenonT(60) DEF TypeInv, TypeOK
<1>2. CASE GetSignal(c) \/ GetCount(c)
    BY <1>1, <1>2, Zenon DEF GetSignal, GetCount, Iterate, WaitPhases, NotifyOnly, flags
<1>3. CASE GetTest(c)
    BY <1>1, <1>3, Zenon DEF GetTest, Goto, WaitPhases, DonePhases, NotifyOnly, flags
<1>4. CASE GetNotify(c) \/ GetWake(c)
    BY <1>1, <1>4, SMTT(40) DEF GetNotify, GetWake, Iterate, Notify, WaitPhases, DonePhases,
        NotifyOnly, flags
<1>5. CASE GetMerge(c) \/ GetClear(c) \/ GetReset(c)
    BY <1>1, <1>5, SMTT(40) DEF GetMerge, GetClear, GetReset, Iterate, DonePhases, NotifyOnly, flags
<1> QED
    BY <1>2, <1>3, <1>4, <1>5, Zenon DEF Get

\* A worker moves alone and touches its own flag, mutex and queue.
LEMMA WorkerFrame ==
    ASSUME TypeInv, NEW i \in Workers, Worker(i) \/ SpuriousWake(i)
    PROVE  /\ UNCHANGED <<termSignal, getResultSignal, assignTo, client, sent, due>>
           /\ \A j \in Workers \ {i} : wpc'[j] = wpc[j]
           /\ ~Complete(i) => UNCHANGED completedStateMap
           /\ ~IfQueue(i) => UNCHANGED VeriQueue
           /\ tested \subseteq tested'
<1>1. wpc \in [Workers -> WorkerPhases]
    BY ZenonT(60) DEF TypeInv, TypeOK
<1> USE DEF WGoto, flags, pool, history
<1>2. CASE Spin(i) \/ SpuriousWake(i) \/ Lock(i) \/ WhileTerm(i) \/ WhileGet(i) \/ WhileSize(i)
    BY <1>1, <1>2, SMTT(40) DEF Spin, SpuriousWake, Lock, WhileTerm, WhileGet, WhileSize
<1>3. CASE IfTerm(i) \/ IfDone(i) \/ IfGet(i) \/ IfSize(i)
    BY <1>1, <1>3, Zenon DEF IfTerm, IfDone, IfGet, IfSize
<1>4. CASE Complete(i) \/ IfQueue(i)
    BY <1>1, <1>4, Zenon DEF Complete, IfQueue
<1>5. CASE RunVeriProc(i) \/ PushResult(i)
    BY <1>1, <1>5, Zenon DEF RunVeriProc, PushResult
<1> QED
    BY <1>2, <1>3, <1>4, <1>5, Zenon DEF Worker

-----------------------------------------------------------------------------
(* Mutual exclusion                                                        *)

\* One thread p submits traces and one thread g collects results; they may
\* be the same.
Use(p, g) ==
    /\ p \in Clients /\ Producers \subseteq {p}
    /\ g \in Clients /\ Collectors \subseteq {g}

\* Who is in which function, and that nobody is in one while the instance is
\* being constructed or destroyed.
Roles(p, g) ==
    /\ \A c \in Clients \ {p} : cpc[c] \notin ExecPhases
    /\ \A c \in Clients \ {g} : cpc[c] \notin WaitPhases \cup DonePhases
    /\ \A c \in Clients \ {Main} : cpc[c] \notin CtorPhases \cup DtorPhases
    /\ cpc[Main] \in CtorPhases \cup DtorPhases =>
            \A c \in Clients \ {Main} : cpc[c] = "idle"

\* Where worker i holds VeriQueueMutex[i]
HoldPhases ==
    {"while_term", "while_get", "while_size", "if_term", "if_done", "if_get",
     "if_size", "complete", "if_queue"}

\* The mutexes exclude, and all reads of assignTo in one execVeri agree.
Mutex(p) ==
    /\ \A i \in Workers : wpc[i] \in HoldPhases => holder[i] = "worker"
    /\ cpc[p] \in {"x_lock", "x_push", "x_unlock"} => tmp[p] = assignTo
    /\ cpc[p] \in {"x_push", "x_unlock"} => holder[assignTo] = p

\* Nobody has called anything at the start.
LEMMA InitRoles ==
    ASSUME NEW p, NEW g, Use(p, g), Init
    PROVE  Roles(p, g) /\ Mutex(p)
BY PoolAssumption, SMTT(40) DEF Use, Init, Roles, Mutex, CtorPhases, ExecPhases, WaitPhases,
    DonePhases, DtorPhases, HoldPhases

\* Clients call only what their role allows.
LEMMA NextRoles ==
    ASSUME NEW p, NEW g, Use(p, g), TypeInv, Roles(p, g), [Next]_vars
    PROVE  Roles(p, g)'
<1> USE PoolAssumption DEF Use, Roles, CtorPhases, ExecPhases, WaitPhases, DonePhases,
        DtorPhases
<1>0. cpc \in [Clients -> ClientPhases]
    BY ZenonT(60) DEF TypeInv, TypeOK
<1>1. CASE Ctor
    BY <1>1, CtorFrame, Zenon
<1>2. CASE TermCall \/ Term
    <2>1. \A c \in Clients \ {Main} : cpc[c] = "idle"
        BY <1>2, SMTT(40) DEF TermCall, Term, TermSignal, TermNotify, TermJoin, Iterate
    <2> QED
        BY <1>2, <2>1, TermFrame, SMTT(40)
<1>3. ASSUME NEW c \in Clients, Call(c) PROVE Roles(p, g)'
    BY <1>0, <1>3, SMTT(40) DEF Call, ExecCall, GetCall, Goto, Alive
<1>4. ASSUME NEW c \in Clients, Exec(c) PROVE Roles(p, g)'
    BY <1>4, ExecFrame, SMTT(40)
<1>5. ASSUME NEW c \in Clients, Get(c) PROVE Roles(p, g)'
    BY <1>5, GetFrame, SMTT(30)
<1>6. ASSUME NEW i \in Workers, Worker(i) \/ SpuriousWake(i) PROVE Roles(p, g)'
    <2>1. UNCHANGED cpc
        BY <1>6, WorkerFrame, Zenon DEF client
    <2> QED
        BY <2>1, Zenon
<1>7. CASE UNCHANGED vars
    BY <1>7, SMTT(40) DEF vars, client
<1> QED
    BY <1>1, <1>2, <1>3, <1>4, <1>5, <1>6, <1>7, Zenon DEF Next, Gone

\* A mutex is taken when it is free and released by its holder.
LEMMA NextMutex ==
    ASSUME NEW p, NEW g, Use(p, g), TypeInv, Roles(p, g), Mutex(p), [Next]_vars
    PROVE  Mutex(p)'
<1> USE PoolAssumption DEF Use, Mutex, HoldPhases
<1>0. /\ cpc \in [Clients -> ClientPhases] /\ wpc \in [Workers -> WorkerPhases]
      /\ holder \in [Workers -> {"none", "worker"} \cup Clients]
      /\ tmp \in [Clients -> Nat] /\ idx \in [Clients -> Workers] /\ assignTo \in Workers
    BY ZenonT(60) DEF TypeInv, TypeOK
<1>1. CASE Ctor
    <2>1. cpc[p] \notin ExecPhases /\ cpc'[p] \notin ExecPhases /\ UNCHANGED holder
        BY <1>1, CtorFrame, SMTT(40) DEF Roles, CtorPhases, ExecPhases
    <2>2. \A i \in Workers : wpc'[i] \in HoldPhases => wpc[i] \in HoldPhases
        BY <1>1, CtorFrame, SMTT(40)
    <2> QED
        BY <2>1, <2>2, SMTT(40) DEF ExecPhases
<1>2. CASE TermCall \/ Term
    BY <1>0, <1>2, SMTT(30) DEF TermCall, Term, TermSignal, TermNotify, TermJoin, Iterate, Goto,
        Notify, pool
<1>3. ASSUME NEW c \in Clients, Call(c) PROVE Mutex(p)'
    <2>1. CASE ExecCall(c)
        BY <1>0, <2>1, Zenon DEF ExecCall, Goto, pool
    <2>2. CASE GetCall(c)
        BY <1>0, <2>2, SMTT(40) DEF GetCall, Goto, pool
    <2> QED
        BY <1>3, <2>1, <2>2, Zenon DEF Call
<1>4. ASSUME NEW c \in Clients, Exec(c) PROVE Mutex(p)'
    <2>0. c = p
        BY <1>4, ExecFrame, SMTT(40) DEF Roles
    <2>1. CASE ExecLock(p) \/ ExecPush(p) \/ ExecUnlock(p)
        BY <1>0, <2>1, SMTT(40) DEF ExecLock, ExecPush, ExecUnlock, Goto
    <2>2. CASE ExecNotify(p) \/ ExecLoad(p) \/ ExecStore(p)
        BY <1>0, <2>2, SMTT(40) DEF ExecNotify, ExecLoad, ExecStore, Goto, Notify, pool
    <2> QED
        BY <1>4, <2>0, <2>1, <2>2, ZenonT(30) DEF Exec
<1>5. ASSUME NEW c \in Clients, Get(c) PROVE Mutex(p)'
    <2>1. UNCHANGED <<holder, assignTo>> /\ NotifyOnly
        BY <1>5, GetFrame, ZenonT(60) DEF pool
    <2>2. \A i \in Workers : wpc'[i] \in HoldPhases => wpc[i] \in HoldPhases
        BY <2>1, SMTT(40) DEF NotifyOnly
    <2>3. cpc'[p] \in ExecPhases => cpc'[p] = cpc[p] /\ tmp'[p] = tmp[p]
        BY <1>5, GetFrame, SMTT(40) DEF ExecPhases, WaitPhases, DonePhases
    <2> QED
        BY <2>1, <2>2, <2>3, Zenon DEF ExecPhases
<1>6. ASSUME NEW i \in Workers, Worker(i) \/ SpuriousWake(i) PROVE Mutex(p)'
    <2>1. UNCHANGED <<cpc, tmp, assignTo>>
        BY <1>6, WorkerFrame, ZenonT(60) DEF client
    <2>2. /\ \A j \in Workers \ {i} : wpc'[j] = wpc[j] /\ holder'[j] = holder[j]
          /\ wpc'[i] \in HoldPhases => holder'[i] = "worker"
          /\ holder'[i] # holder[i] => holder[i] \in {"none", "worker"}
        BY <1>0, <1>6, ZenonT(60) DEF Worker, Spin, Lock, WhileTerm, WhileGet, WhileSize, IfTerm, IfDone,
            IfGet, IfSize, Complete, IfQueue, RunVeriProc, PushResult, SpuriousWake, WGoto,
            pool
    <2> QED
        BY <1>0, <2>1, <2>2, Zenon
<1>7. CASE UNCHANGED vars
    BY <1>7, Zenon DEF vars, client, pool
<1> QED
    BY <1>1, <1>2, <1>3, <1>4, <1>5, <1>6, <1>7, Zenon DEF Next, Gone

\* For every number of workers, with one thread that submits: execVeri and
\* the worker never access a queue at the same time.
THEOREM QueueExclusive ==
    ASSUME NEW p, NEW g, Use(p, g)
    PROVE  Spec => []NoQueueRace
<1> DEFINE I == TypeInv /\ Roles(p, g) /\ Mutex(p)
<1>1. Init => I
    BY InitTypeInv, InitRoles, Zenon
<1>2. I /\ [Next]_vars => I'
    BY NextTypeInv, NextRoles, NextMutex, SMTT(40)
<1>3. I => NoQueueRace
    <2>1. TypeInv => assignTo \in Workers
        BY Zenon DEF TypeInv, TypeOK
    <2> QED
        BY <2>1, PoolAssumption, Zenon DEF NoQueueRace, Use, Roles, Mutex, HoldPhases, ExecPhases
<1> QED
    BY <1>1, <1>2, <1>3, PTL DEF Spec

-----------------------------------------------------------------------------
(* Nobody sleeps through a notification                                    *)

\* A sleeping worker has nothing to do, or p is on its way to notify it.
TraceNoticed(p) ==
    \A i \in Workers : wpc[i] = "blocked" /\ VeriQueue[i] # <<>> =>
        assignTo = i /\ cpc[p] \in {"x_unlock", "x_notify"}

\* execVeri pushes before it notifies, and notifies the worker it pushed to.
LEMMA NextTraceNoticed ==
    ASSUME NEW p, NEW g, Use(p, g), TypeInv, Roles(p, g), TraceNoticed(p), [Next]_vars
    PROVE  TraceNoticed(p)'
<1> USE PoolAssumption DEF Use, TraceNoticed
<1>0. /\ cpc \in [Clients -> ClientPhases] /\ wpc \in [Workers -> WorkerPhases]
      /\ VeriQueue \in [Workers -> Seq(Traces)] /\ assignTo \in Workers
    BY ZenonT(60) DEF TypeInv, TypeOK
<1>1. CASE Ctor
    <2>1. cpc[p] \notin ExecPhases /\ UNCHANGED VeriQueue
        BY <1>1, CtorFrame, SMTT(40) DEF Roles, CtorPhases, ExecPhases
    <2>2. \A i \in Workers : wpc'[i] = "blocked" => wpc[i] = "blocked"
        BY <1>1, CtorFrame, ZenonT(30)
    <2> QED
        BY <2>1, <2>2, SMTT(40) DEF ExecPhases
<1>2. CASE TermCall \/ Term
    <2>1. UNCHANGED <<VeriQueue, assignTo>> /\ NotifyOnly
        BY <1>2, TermFrame, ZenonT(60) DEF pool
    <2>2. cpc[p] \in ExecPhases => cpc'[p] = cpc[p]
        BY <1>2, TermFrame, SMTT(40) DEF ExecPhases, DtorPhases
    <2> QED
        BY <2>1, <2>2, SMTT(40) DEF NotifyOnly, ExecPhases
<1>3. ASSUME NEW c \in Clients, Call(c) PROVE TraceNoticed(p)'
    BY <1>0, <1>3, SMTT(40) DEF Call, ExecCall, GetCall, Goto, pool
<1>4. ASSUME NEW c \in Clients, Exec(c) PROVE TraceNoticed(p)'
    <2>0. c = p
        BY <1>4, ExecFrame, SMTT(40) DEF Roles
    <2>1. CASE ExecPush(p)
        BY <1>0, <2>1, SMTT(40) DEF ExecPush, Goto
    <2>2. CASE ExecNotify(p)
        BY <1>0, <2>2, SMTT(40) DEF ExecNotify, Goto, Notify, pool
    <2>3. CASE ExecLock(p) \/ ExecUnlock(p) \/ ExecLoad(p) \/ ExecStore(p)
        BY <1>0, <2>3, SMTT(40) DEF ExecLock, ExecUnlock, ExecLoad, ExecStore, Goto, pool
    <2> QED
        BY <1>4, <2>0, <2>1, <2>2, <2>3, ZenonT(30) DEF Exec
<1>5. ASSUME NEW c \in Clients, Get(c) PROVE TraceNoticed(p)'
    <2>1. UNCHANGED <<VeriQueue, assignTo>> /\ NotifyOnly
        BY <1>5, GetFrame, ZenonT(60) DEF pool
    <2>2. cpc[p] \in ExecPhases => cpc'[p] = cpc[p]
        BY <1>5, GetFrame, SMTT(40) DEF ExecPhases, WaitPhases, DonePhases
    <2> QED
        BY <2>1, <2>2, SMTT(40) DEF NotifyOnly, ExecPhases
<1>6. ASSUME NEW i \in Workers, Worker(i) \/ SpuriousWake(i) PROVE TraceNoticed(p)'
    <2>1. UNCHANGED <<cpc, assignTo>> /\ \A j \in Workers \ {i} : wpc'[j] = wpc[j]
        BY <1>6, WorkerFrame, ZenonT(60) DEF client
    <2>2. CASE WhileSize(i)
        BY <1>0, <2>1, <2>2, SMTT(40) DEF WhileSize, WGoto
    <2>3. CASE IfQueue(i)
        BY <1>0, <2>1, <2>3, SMTT(40) DEF IfQueue, WGoto
    <2>4. CASE ~WhileSize(i) /\ ~IfQueue(i)
        <3>1. UNCHANGED VeriQueue
            BY <1>6, <2>4, WorkerFrame, ZenonT(60)
        <3>2. wpc'[i] # "blocked"
            BY <1>0, <1>6, <2>4, Zenon DEF Worker, Spin, Lock, WhileTerm, WhileGet, IfTerm, IfDone,
                IfGet, IfSize, Complete, RunVeriProc, PushResult, SpuriousWake, WGoto
        <3> QED
            BY <2>1, <3>1, <3>2, SMTT(40)
    <2> QED
        BY <2>2, <2>3, <2>4, Zenon
<1>7. CASE UNCHANGED vars
    BY <1>7, Zenon DEF vars, client, pool
<1> QED
    BY <1>1, <1>2, <1>3, <1>4, <1>5, <1>6, <1>7, Zenon DEF Next, Gone

\* For every number of workers, of traces and of calls, with one thread that
\* submits: no worker sleeps on a trace whose notification it has missed.
THEOREM TraceNotificationKept ==
    ASSUME NEW p, NEW g, Use(p, g)
    PROVE  Spec => []NoLostTrace
<1> DEFINE I == TypeInv /\ Roles(p, g) /\ TraceNoticed(p)
<1>1. Init => I
    <2>1. Init => TraceNoticed(p)
        BY SMTT(40) DEF Init, TraceNoticed
    <2> QED
        BY <2>1, InitTypeInv, InitRoles, Zenon
<1>2. I /\ [Next]_vars => I'
    BY NextTypeInv, NextRoles, NextTraceNoticed, SMTT(40)
<1>3. I => NoLostTrace
    BY Zenon DEF TraceNoticed, NoLostTrace, Use
<1> QED
    BY <1>1, <1>2, <1>3, PTL DEF Spec

\* Between the constructor's loop over termSignal and the destructor's, no
\* worker is told to stop.
TermCleared ==
    \A i \in Workers : termSignal[i] =>
        \/ cpc[Main] \in {"create"} \cup DtorPhases
        \/ cpc[Main] = "clr_term" /\ idx[Main] <= i

\* A worker that has read termSignal before it was set has not been passed by
\* the notifications of termVeri.
TermNoticed ==
    \A i \in Workers : wpc[i] \in {"while_get", "while_size", "blocked"} /\ termSignal[i] =>
        \/ cpc[Main] \in CtorPhases \cup {"t_signal"}
        \/ cpc[Main] = "t_notify" /\ idx[Main] <= i

\* Nobody is told to stop in the constructor, whatever its memory holds.
LEMMA InitTermNoticed == Init => TermCleared /\ TermNoticed
BY PoolAssumption, SMTT(40) DEF Init, TermCleared, TermNoticed

\* termVeri notifies a worker with its mutex held, so never between the
\* worker's test of termSignal and its wait.
LEMMA NextTermNoticed ==
    ASSUME NEW p, NEW g, Use(p, g), TypeInv, Roles(p, g), Mutex(p), TermCleared, TermNoticed,
           [Next]_vars
    PROVE  (TermCleared /\ TermNoticed)'
<1> USE PoolAssumption DEF TermCleared, TermNoticed
<1>0. /\ cpc \in [Clients -> ClientPhases] /\ wpc \in [Workers -> WorkerPhases]
      /\ idx \in [Clients -> Workers] /\ termSignal \in [Workers -> BOOLEAN]
    BY ZenonT(60) DEF TypeInv, TypeOK
<1>1. CASE Ctor
    <2>1. TermCleared'
        <3>1. CASE CreateWorker \/ ClearGet \/ ClearDone
            BY <1>0, <3>1, SMTT(40) DEF CreateWorker, ClearGet, ClearDone, Iterate, flags, DtorPhases,
                Workers
        <3>2. CASE ClearTerm
            BY <1>0, <3>2, SMTT(40) DEF ClearTerm, Iterate, DtorPhases, Workers
        <3> QED
            BY <1>1, <3>1, <3>2, Zenon DEF Ctor
    <2>2. \A i \in Workers : termSignal'[i] => cpc'[Main] \in CtorPhases
        BY <1>1, <2>1, CtorFrame, SMTT(40) DEF CtorPhases, DtorPhases
    <2> QED
        BY <2>1, <2>2, Zenon
<1>2. CASE TermCall
    BY <1>0, <1>2, SMTT(40) DEF TermCall, Goto, flags, DtorPhases, CtorPhases
<1>3. CASE Term
    <2>1. cpc[Main] \in DtorPhases /\ cpc'[Main] \in DtorPhases
        BY <1>0, <1>3, SMTT(40) DEF Term, TermSignal, TermNotify, TermJoin, Iterate, DtorPhases
    <2>2. CASE TermSignal
        BY <1>0, <2>2, <2>1, SMTT(40) DEF TermSignal, Iterate, CtorPhases, Workers, DtorPhases
    <2>3. CASE TermNotify
        <3>1. wpc[idx[Main]] \notin {"while_get", "while_size"}
            BY <1>0, <2>3, SMTT(40) DEF TermNotify, Mutex, HoldPhases
        <3>2. /\ UNCHANGED termSignal /\ cpc[Main] = "t_notify"
              /\ wpc' = [wpc EXCEPT ![idx[Main]] = IF @ = "blocked" THEN "lock" ELSE @]
              /\ idx'[Main] = IF idx[Main] + 1 < N THEN idx[Main] + 1 ELSE 0
              /\ cpc'[Main] = IF idx[Main] + 1 < N THEN "t_notify" ELSE "t_join"
            BY <1>0, <2>3, SMTT(40) DEF TermNotify, Iterate, Notify, flags
        <3>3. ASSUME NEW i \in Workers, termSignal[i], wpc'[i] \in {"while_get", "while_size", "blocked"}
              PROVE  cpc'[Main] = "t_notify" /\ idx'[Main] <= i
            <4>1. i # idx[Main] /\ wpc'[i] = wpc[i]
                BY <1>0, <3>1, <3>2, <3>3, SMTT(40)
            <4>2. idx[Main] <= i
                BY <3>2, <3>3, <4>1, SMTT(40) DEF CtorPhases
            <4> QED
                BY <1>0, <3>2, <4>1, <4>2, SMTT(40) DEF Workers
        <3> QED
            BY <2>1, <3>2, <3>3, ZenonT(60)
    <2>4. CASE TermJoin
        BY <1>0, <2>1, <2>4, SMTT(40) DEF TermJoin, Iterate, flags, CtorPhases
    <2> QED
        BY <1>3, <2>2, <2>3, <2>4, Zenon DEF Term
<1>4. ASSUME NEW c \in Clients, Call(c) \/ Exec(c) \/ Get(c) PROVE (TermCleared /\ TermNoticed)'
    <2>1. /\ UNCHANGED termSignal
          /\ \A i \in Workers : wpc'[i] = wpc[i] \/ wpc'[i] = "lock"
          /\ cpc[c] \notin CtorPhases \cup DtorPhases
          /\ \A d \in Clients \ {c} : cpc'[d] = cpc[d]
        <3>1. CASE Call(c)
            BY <1>0, <3>1, SMTT(40) DEF Call, ExecCall, GetCall, Goto, flags, CtorPhases, DtorPhases
        <3>2. CASE Exec(c)
            BY <3>2, ExecFrame, SMTT(40) DEF flags, NotifyOnly, ExecPhases, CtorPhases, DtorPhases
        <3>3. CASE Get(c)
            BY <3>3, GetFrame, SMTT(40) DEF NotifyOnly, WaitPhases, DonePhases, CtorPhases, DtorPhases
        <3> QED
            BY <1>4, <3>1, <3>2, <3>3, Zenon
    <2>2. CASE c = Main
        <3>1. \A i \in Workers : ~termSignal[i]
            BY <2>1, <2>2, SMTT(40) DEF CtorPhases
        <3> QED
            BY <2>1, <3>1, Zenon
    <2>3. CASE c # Main
        <3>1. cpc'[Main] = cpc[Main]
            BY <2>1, <2>3, Zenon
        <3>2. CASE cpc[Main] \in {"clr_term", "t_notify"}
            <4>1. cpc[c] = "idle"
                BY <2>3, <3>2, SMTT(40) DEF Roles, CtorPhases, DtorPhases
            <4> QED
                BY <1>4, <3>2, <4>1, ExecFrame, GetFrame, SMTT(40) DEF Call, ExecCall, GetCall, Alive,
                    CtorPhases, DtorPhases, ExecPhases, WaitPhases, DonePhases
        <3>3. CASE cpc[Main] \notin {"clr_term", "t_notify"}
            BY <2>1, <3>1, <3>3, SMTT(40)
        <3> QED
            BY <3>2, <3>3, Zenon
    <2> QED
        BY <2>2, <2>3, Zenon
<1>5. ASSUME NEW i \in Workers, Worker(i) \/ SpuriousWake(i) PROVE (TermCleared /\ TermNoticed)'
    <2>1. UNCHANGED <<cpc, idx, termSignal>> /\ \A j \in Workers \ {i} : wpc'[j] = wpc[j]
        BY <1>5, WorkerFrame, ZenonT(60) DEF client
    <2>2. wpc'[i] \in {"while_get", "while_size", "blocked"} /\ termSignal[i] =>
              wpc[i] \in {"while_get", "while_size", "blocked"}
        BY <1>0, <1>5, ZenonT(60) DEF Worker, Spin, Lock, WhileTerm, WhileGet, WhileSize, IfTerm, IfDone,
            IfGet, IfSize, Complete, IfQueue, RunVeriProc, PushResult, SpuriousWake, WGoto
    <2> QED
        BY <2>1, <2>2, ZenonT(60)
<1>6. CASE UNCHANGED vars
    BY <1>6, Zenon DEF vars, client, flags
<1> QED
    BY <1>1, <1>2, <1>3, <1>4, <1>5, <1>6, Zenon DEF Next, Gone

\* For every number of workers, with one thread that submits: no worker sleeps
\* through the destructor's notification.
THEOREM TermNotificationKept ==
    ASSUME NEW p, NEW g, Use(p, g)
    PROVE  Spec => []NoLostTerm
<1> DEFINE I == TypeInv /\ Roles(p, g) /\ Mutex(p) /\ TermCleared /\ TermNoticed
<1>1. Init => I
    BY InitTypeInv, InitRoles, InitTermNoticed, Zenon
<1>2. I /\ [Next]_vars => I'
    BY NextTypeInv, NextRoles, NextMutex, NextTermNoticed, SMTT(40)
<1>3. I => NoLostTerm
    BY Zenon DEF TermNoticed, NoLostTerm
<1> QED
    BY <1>1, <1>2, <1>3, PTL DEF Spec

=============================================================================
