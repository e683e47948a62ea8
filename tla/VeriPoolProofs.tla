--------------------------- MODULE VeriPoolProofs ---------------------------
(***************************************************************************)
(* The worker pool, for every number of workers, of traces and of calls:   *)
(* how the flags of getVeri and of the workers agree, that getVeri waits   *)
(* for every trace submitted before it, and that it returns its result.    *)
(***************************************************************************)
EXTENDS VeriPoolTypes

-----------------------------------------------------------------------------
(* The handshake of getVeri with the workers                               *)

\* The memory of the instance does not start with getResultSignal set.
NoOldSignal == \A m \in HeapContents : ~m.get

\* getResultSignal is up only while g waits for the workers, or has not come
\* to clear it.
SignalUp(g) ==
    \A i \in Workers : getResultSignal[i] =>
        \/ cpc[g] \in WaitPhases \cup {"g_merge"}
        \/ cpc[g] = "g_clear" /\ idx[g] <= i

\* completedStateMap is set only in the call of getVeri that waits for it, or
\* before the constructor clears it.
DoneUp(g) ==
    \A i \in Workers : completedStateMap[i] =>
        \/ cpc[Main] \in {"create", "clr_term", "clr_get"}
        \/ cpc[Main] = "clr_done" /\ idx[Main] <= i
        \/ cpc[g] \in WaitPhases \cup {"g_merge", "g_clear", "g_wake"}
        \/ cpc[g] = "g_reset" /\ idx[g] <= i

\* What a worker has read of its flags is still so when it completes.
Decided ==
    \A i \in Workers :
        /\ wpc[i] \in {"if_get", "if_size", "complete"} => ~completedStateMap[i]
        /\ wpc[i] \in {"if_size", "complete"} => getResultSignal[i]

\* getVeri's count of the completed workers, and what it means.
Counted(g) ==
    /\ cpc[g] = "g_count" =>
        /\ tmp[g] <= idx[g]
        /\ tmp[g] = idx[g] => \A i \in Workers : i < idx[g] => completedStateMap[i]
    /\ cpc[g] = "g_test" /\ tmp[g] = N => \A i \in Workers : completedStateMap[i]
    /\ cpc[g] \in {"g_merge", "g_clear", "g_wake"} => \A i \in Workers : completedStateMap[i]

Handshake(g) == SignalUp(g) /\ DoneUp(g) /\ Decided /\ Counted(g)

\* No worker has completed when the constructor starts.
LEMMA InitHandshake ==
    ASSUME NEW p, NEW g, Use(p, g), NoOldSignal, Init
    PROVE  Handshake(g)
<1>1. \A i \in Workers : ~getResultSignal[i]
    BY Zenon DEF Init, NoOldSignal
<1>2. /\ cpc[Main] = "create" /\ cpc[g] \in {"create", "idle"}
      /\ \A i \in Workers : wpc[i] = "unborn"
    BY PoolAssumption, SMTT(40) DEF Init, Use
<1> QED
    BY <1>1, <1>2, Zenon DEF Handshake, SignalUp, DoneUp, Decided, Counted, WaitPhases

\* Only g, in its waiting and resetting loops, and the constructor change
\* what a worker reads, and only when the worker cannot have read it.
LEMMA NextHandshake ==
    ASSUME NEW p, NEW g, Use(p, g), TypeInv, Roles(p, g), Handshake(g), [Next]_vars
    PROVE  Handshake(g)'
<1> USE PoolAssumption DEF Use, Handshake, SignalUp, DoneUp, Decided, Counted
<1>0. /\ cpc \in [Clients -> ClientPhases] /\ wpc \in [Workers -> WorkerPhases]
      /\ tmp \in [Clients -> Nat] /\ idx \in [Clients -> Workers]
      /\ getResultSignal \in [Workers -> BOOLEAN]
      /\ completedStateMap \in [Workers -> BOOLEAN]
    BY Zenon DEF TypeInv, TypeOK
<1>1. CASE Ctor
    <2>1. cpc[g] \notin WaitPhases \cup DonePhases /\ \A i \in Workers : ~getResultSignal[i]
        BY <1>1, CtorFrame, Zenon DEF Roles, CtorPhases, WaitPhases, DonePhases
    <2>2. cpc'[g] \notin WaitPhases \cup DonePhases
        BY <1>1, <2>1, CtorFrame, SMTT(40) DEF CtorPhases, WaitPhases, DonePhases
    <2>3. \A i \in Workers : ~getResultSignal'[i]
        BY <1>0, <1>1, <2>1, Zenon DEF Ctor, CreateWorker, ClearTerm, ClearGet, ClearDone, flags
    <2>4. DoneUp(g)'
        <3>1. CASE CreateWorker \/ ClearTerm \/ ClearGet
            BY <1>0, <2>1, <2>2, <3>1, SMTT(30) DEF CreateWorker, ClearTerm, ClearGet, Iterate, flags,
                WaitPhases, DonePhases, Workers
        <3>2. CASE ClearDone
            BY <1>0, <2>1, <2>2, <3>2, SMTT(40) DEF ClearDone, Iterate, WaitPhases, DonePhases, Workers
        <3> QED
            BY <1>1, <3>1, <3>2, SMTT(40) DEF Ctor
    <2>5. Decided'
        BY <1>0, <1>1, <2>1, Zenon DEF Ctor, CreateWorker, ClearTerm, ClearGet, ClearDone, flags
    <2> QED
        BY <2>2, <2>3, <2>4, <2>5, Zenon DEF WaitPhases, DonePhases
<1>2. CASE TermCall \/ Term
    <2>1. UNCHANGED <<getResultSignal, completedStateMap>> /\ cpc[Main] \in DtorPhases \cup {"idle"}
        BY <1>2, TermFrame, Zenon
    <2>2. /\ cpc[g] \notin WaitPhases \cup DonePhases
          /\ cpc'[g] \notin WaitPhases \cup DonePhases
        <3>1. \A c \in Clients \ {Main} : cpc[c] = "idle"
            BY <1>2, Zenon DEF TermCall, Term, TermSignal, TermNotify, TermJoin, Iterate, Roles,
                DtorPhases
        <3> QED
            BY <1>2, <3>1, TermFrame, SMTT(40) DEF DtorPhases, WaitPhases, DonePhases
    <2>3. \A i \in Workers : ~getResultSignal[i] /\ ~completedStateMap[i]
        BY <2>1, <2>2, Zenon DEF WaitPhases, DonePhases, DtorPhases
    <2>4. \A i \in Workers : wpc'[i] \in {"if_get", "if_size", "complete"} => wpc'[i] = wpc[i]
        BY <1>2, TermFrame, SMTT(40) DEF NotifyOnly
    <2> QED
        BY <2>1, <2>2, <2>3, <2>4, Zenon DEF WaitPhases, DonePhases
<1>3. ASSUME NEW c \in Clients, Call(c) PROVE Handshake(g)'
    BY <1>0, <1>3, SMTT(40) DEF Call, ExecCall, GetCall, Goto, flags, WaitPhases
<1>4. ASSUME NEW c \in Clients, Exec(c) PROVE Handshake(g)'
    <2>1. UNCHANGED <<getResultSignal, completedStateMap, idx>> /\ NotifyOnly
        BY <1>4, ExecFrame, Zenon DEF flags
    <2>2. \A i \in Workers : wpc'[i] \in {"if_get", "if_size", "complete"} => wpc'[i] = wpc[i]
        BY <2>1, Zenon DEF NotifyOnly
    <2>3. /\ cpc[c] \in ExecPhases /\ cpc'[c] \in ExecPhases \cup {"idle"}
          /\ \A d \in Clients \ {c} : cpc'[d] = cpc[d] /\ tmp'[d] = tmp[d]
        BY <1>4, ExecFrame, Zenon
    <2> QED
        BY <2>1, <2>2, <2>3, Zenon DEF ExecPhases, WaitPhases
<1>5. ASSUME NEW c \in Clients, Get(c) PROVE Handshake(g)'
    <2>0. c = g /\ cpc[Main] \notin CtorPhases
        BY <1>5, GetFrame, SMTT(40) DEF Roles, WaitPhases, DonePhases, CtorPhases
    <2>w. \A i \in Workers : wpc'[i] \in {"if_get", "if_size", "complete"} => wpc'[i] = wpc[i]
        BY <1>5, GetFrame, Zenon DEF NotifyOnly
    <2>c. idx[g] \in 0 .. N - 1 /\ tmp[g] \in Nat /\ \A i \in Workers : i \in 0 .. N - 1
        BY <1>0, SMTT(40) DEF Workers
    <2> USE <1>0, <2>0, <2>w, <2>c DEF WaitPhases
    <2>1. CASE GetSignal(g)
        BY <2>1, SMTT(40) DEF GetSignal, Iterate
    <2>2. CASE GetCount(g)
        BY <2>2, SMTT(40) DEF GetCount, Iterate, flags
    <2>3. CASE GetTest(g)
        BY <2>3, SMTT(40) DEF GetTest, Goto, flags
    <2>4. CASE GetNotify(g)
        BY <2>4, SMTT(40) DEF GetNotify, Iterate, flags
    <2>5. CASE GetMerge(g)
        BY <2>5, SMTT(40) DEF GetMerge, Iterate, flags
    <2>6. CASE GetClear(g)
        BY <2>6, SMTT(40) DEF GetClear, Iterate
    <2>7. CASE GetWake(g)
        BY <2>7, SMTT(40) DEF GetWake, Iterate, flags
    <2>8. CASE GetReset(g)
        BY <2>8, SMTT(40) DEF GetReset, Iterate
    <2> QED
        BY <1>5, <2>1, <2>2, <2>3, <2>4, <2>5, <2>6, <2>7, <2>8, ZenonT(60) DEF Get
<1>6. ASSUME NEW i \in Workers, Worker(i) \/ SpuriousWake(i) PROVE Handshake(g)'
    <2>1. UNCHANGED <<cpc, idx, tmp, getResultSignal>>
        BY <1>6, WorkerFrame, SMTT(40) DEF client
    <2>2. CASE Complete(i)
        <3>1. getResultSignal[i] /\ completedStateMap' = [completedStateMap EXCEPT ![i] = TRUE]
              /\ wpc' = [wpc EXCEPT ![i] = "lock"]
            BY <2>2, SMTT(40) DEF Complete, WGoto
        <3> QED
            BY <1>0, <2>1, <3>1, Zenon
    <2>3. CASE ~Complete(i)
        <3>1. UNCHANGED completedStateMap
            BY <1>6, <2>3, WorkerFrame, SMTT(40)
        <3>2. Decided'
            <4>1. /\ wpc'[i] = "if_get" => ~completedStateMap[i]
                  /\ wpc'[i] = "if_size" => wpc[i] = "if_get" /\ getResultSignal[i]
                  /\ wpc'[i] = "complete" => wpc[i] = "if_size"
                <5>1. CASE Spin(i) \/ SpuriousWake(i) \/ Lock(i) \/ WhileTerm(i) \/ WhileGet(i)
                    BY <1>0, <5>1, SMTT(40) DEF Spin, SpuriousWake, Lock, WhileTerm, WhileGet, WGoto
                <5>2. CASE WhileSize(i) \/ IfTerm(i) \/ IfQueue(i) \/ RunVeriProc(i) \/ PushResult(i)
                    BY <1>0, <5>2, SMTT(40) DEF WhileSize, IfTerm, IfQueue, RunVeriProc, PushResult,
                        WGoto
                <5>3. CASE IfDone(i) \/ IfGet(i) \/ IfSize(i)
                    BY <1>0, <5>3, SMTT(40) DEF IfDone, IfGet, IfSize, WGoto
                <5> QED
                    BY <1>6, <2>3, <5>1, <5>2, <5>3, Zenon DEF Worker
            <4>2. \A j \in Workers \ {i} : wpc'[j] = wpc[j]
                BY <1>6, WorkerFrame, Zenon
            <4> QED
                BY <2>1, <3>1, <4>1, <4>2, ZenonT(30)
        <3> QED
            BY <2>1, <3>1, <3>2, SMTT(40)
    <2> QED
        BY <2>2, <2>3, SMTT(40)
<1>7. CASE UNCHANGED vars
    BY <1>7, Zenon DEF vars, client, flags
<1> QED
    BY <1>1, <1>2, <1>3, <1>4, <1>5, <1>6, <1>7, Zenon DEF Next, Gone

-----------------------------------------------------------------------------
(* Where the traces are                                                    *)

\* Trace t is in a queue.
Holds(q, t) == \E k \in 1 .. Len(q) : q[k] = t

\* push_back
LEMMA HoldsAppend ==
    ASSUME NEW q \in Seq(Traces), NEW x \in Traces, NEW t
    PROVE  Holds(Append(q, x), t) <=> Holds(q, t) \/ t = x
<1>1. /\ Len(q) \in Nat /\ Len(Append(q, x)) = Len(q) + 1
      /\ Append(q, x)[Len(q) + 1] = x
      /\ \A k \in 1 .. Len(q) : Append(q, x)[k] = q[k]
    OBVIOUS
<1>2. ASSUME NEW k \in 1 .. Len(q) + 1, Append(q, x)[k] = t PROVE Holds(q, t) \/ t = x
    <2>1. CASE k = Len(q) + 1
        BY <1>1, <1>2, <2>1, Zenon
    <2>2. CASE k \in 1 .. Len(q)
        BY <1>1, <1>2, <2>2, Zenon DEF Holds
    <2> QED
        BY <1>1, <2>1, <2>2, SMTT(30)
<1>3. ASSUME NEW k \in 1 .. Len(q), q[k] = t PROVE Holds(Append(q, x), t)
    <2>1. k \in 1 .. Len(Append(q, x)) /\ Append(q, x)[k] = t
        BY <1>1, <1>3, SMTT(30)
    <2> QED
        BY <2>1, Zenon DEF Holds
<1>4. Holds(Append(q, x), x)
    <2>1. Len(q) + 1 \in 1 .. Len(Append(q, x))
        BY <1>1, SMTT(30)
    <2> QED
        BY <1>1, <2>1, Zenon DEF Holds
<1> QED
    BY <1>1, <1>2, <1>3, <1>4, Zenon DEF Holds

\* front and pop
LEMMA HoldsTail ==
    ASSUME NEW q \in Seq(Traces), q # <<>>, NEW t
    PROVE  Holds(q, t) <=> Holds(Tail(q), t) \/ t = Head(q)
<1>1. /\ Len(q) \in Nat \ {0} /\ Len(Tail(q)) = Len(q) - 1 /\ Head(q) = q[1]
      /\ \A k \in 1 .. Len(q) - 1 : Tail(q)[k] = q[k + 1]
    OBVIOUS
<1>2. ASSUME NEW k \in 1 .. Len(q), q[k] = t, k # 1 PROVE Holds(Tail(q), t)
    <2>1. k - 1 \in 1 .. Len(q) - 1 /\ Tail(q)[k - 1] = q[k]
        BY <1>1, <1>2, SMTT(30)
    <2> QED
        BY <1>1, <1>2, <2>1, Zenon DEF Holds
<1>3. ASSUME NEW k \in 1 .. Len(q) - 1, Tail(q)[k] = t PROVE Holds(q, t)
    <2>1. k + 1 \in 1 .. Len(q) /\ q[k + 1] = t
        BY <1>1, <1>3, SMTT(30)
    <2> QED
        BY <2>1, Zenon DEF Holds
<1> QED
    BY <1>1, <1>2, <1>3, SMTT(30) DEF Holds

\* An empty queue holds nothing.
LEMMA HoldsEmpty == \A t : ~Holds(<<>>, t)
BY SMTT(30) DEF Holds

\* Worker i has trace t and has not tested it.
Has(i, t) == Holds(VeriQueue[i], t) \/ (wpc[i] = "proc" /\ hand[i] = t)

\* Each trace is submitted once, and what getVeri waits for was submitted.
Once(p, g) ==
    /\ cpc[Main] \in CtorPhases => sent = {}
    /\ cpc[p] \in {"x_lock", "x_push"} => arg[p] \notin sent \cup fresh
    /\ fresh \cap sent = {}
    /\ due[g] \subseteq sent

\* A submitted trace is tested or with a worker.
NotLost == \A t \in sent : t \in tested \/ \E i \in Workers : Has(i, t)

\* A worker completes with an empty queue and, as long as getVeri has not
\* returned, has no trace that getVeri waits for.
NotDue(g) ==
    /\ \A i \in Workers : wpc[i] = "complete" => VeriQueue[i] = <<>>
    /\ cpc[g] \in WaitPhases \cup DonePhases =>
        \A i \in Workers : completedStateMap[i] => \A t \in due[g] : ~Has(i, t)

\* What g promises once it has left its waiting loop.
DueTested(g) == cpc[g] \in DonePhases => due[g] \subseteq tested

\* Nothing is submitted before the constructor has returned.
LEMMA InitTraces ==
    ASSUME NEW p, NEW g, Use(p, g), Init
    PROVE  Once(p, g) /\ NotLost /\ NotDue(g) /\ DueTested(g)
<1>1. /\ sent = {} /\ due[g] = {} /\ \A i \in Workers : wpc[i] = "unborn"
      /\ cpc[p] \in {"create", "idle"} /\ cpc[g] \in {"create", "idle"}
    BY PoolAssumption, Zenon DEF Init, Use
<1> QED
    BY <1>1, Zenon DEF Once, NotLost, NotDue, DueTested, WaitPhases, DonePhases

\* A trace is taken from fresh by the call and added to sent by the push.
LEMMA NextOnce ==
    ASSUME NEW p, NEW g, Use(p, g), TypeInv, Roles(p, g), Once(p, g), [Next]_vars
    PROVE  Once(p, g)'
<1> USE PoolAssumption DEF Use, Once
<1>0. /\ cpc \in [Clients -> ClientPhases]
      /\ arg \in [Clients -> Traces \cup {NoTrace}] /\ due \in [Clients -> SUBSET Traces]
    BY Zenon DEF TypeInv, TypeOK
<1>1. CASE Ctor \/ TermCall \/ Term
    <2>1. UNCHANGED <<sent, due, fresh, arg>>
        BY <1>1, CtorFrame, TermFrame, Zenon DEF history
    <2>2. /\ cpc'[Main] \in CtorPhases => cpc[Main] \in CtorPhases
          /\ cpc'[p] \in {"x_lock", "x_push"} => cpc[p] = cpc'[p]
        BY <1>1, CtorFrame, TermFrame, Zenon DEF CtorPhases, DtorPhases
    <2> QED
        BY <2>1, <2>2, Zenon
<1>2. ASSUME NEW c \in Clients, ExecCall(c) PROVE Once(p, g)'
    <2>1. c = p /\ cpc' = [cpc EXCEPT ![p] = "x_lock"] /\ UNCHANGED <<sent, due>>
        BY <1>2, Zenon DEF ExecCall, Goto, history
    <2>2. PICK t \in fresh : arg' = [arg EXCEPT ![p] = t] /\ fresh' = fresh \ {t}
        BY <1>2, <2>1, Zenon DEF ExecCall
    <2> QED
        BY <1>0, <2>1, <2>2, Zenon DEF CtorPhases
<1>3. ASSUME NEW c \in Clients, GetCall(c) PROVE Once(p, g)'
    BY <1>0, <1>3, Zenon DEF GetCall, Goto, CtorPhases
<1>4. ASSUME NEW c \in Clients, Exec(c) PROVE Once(p, g)'
    <2>0. c = p /\ cpc[Main] \notin CtorPhases
        BY <1>4, ExecFrame, Zenon DEF Roles, ExecPhases, CtorPhases
    <2>1. CASE ExecPush(p)
        BY <1>0, <2>0, <2>1, SMTT(40) DEF ExecPush, Goto, CtorPhases
    <2>2. CASE ~ExecPush(p)
        BY <1>0, <1>4, <2>0, <2>2, SMTT(30) DEF Exec, ExecLock, ExecUnlock, ExecNotify, ExecLoad,
            ExecStore, Goto, CtorPhases, history
    <2> QED
        BY <2>1, <2>2, Zenon
<1>5. ASSUME NEW c \in Clients, Get(c) PROVE Once(p, g)'
    <2>1. UNCHANGED <<sent, due, fresh, arg>>
        BY <1>5, GetFrame, Zenon DEF history
    <2>2. \A d \in Clients : cpc'[d] \in CtorPhases \cup {"x_lock", "x_push"} => cpc'[d] = cpc[d]
        BY <1>5, GetFrame, Zenon DEF CtorPhases, WaitPhases, DonePhases
    <2> QED
        BY <2>1, <2>2, Zenon
<1>6. ASSUME NEW i \in Workers, Worker(i) \/ SpuriousWake(i) PROVE Once(p, g)'
    <2>1. UNCHANGED <<cpc, sent, due, fresh, arg>>
        BY <1>6, WorkerFrame, Zenon DEF client
    <2> QED
        BY <2>1, Zenon
<1>7. CASE UNCHANGED vars
    BY <1>7, ZenonT(60) DEF vars, client, history
<1> QED
    BY <1>1, <1>2, <1>3, <1>4, <1>5, <1>6, <1>7, Zenon DEF Next, Gone, Call

\* A worker gets a trace by a push to its queue, and gives up only a trace
\* that it has tested.
LEMMA HasStep ==
    ASSUME NEW p, NEW g, Use(p, g), TypeInv, Roles(p, g), [Next]_vars,
           NEW i \in Workers, NEW t
    PROVE  /\ Has(i, t)' => Has(i, t) \/ (ExecPush(p) /\ i = assignTo /\ t = arg[p])
           /\ Has(i, t) /\ ~Ctor => Has(i, t)' \/ t \in tested'
           /\ ExecPush(p) /\ i = assignTo /\ t = arg[p] => Has(i, t)'
<1> USE PoolAssumption DEF Use
<1>0. /\ wpc \in [Workers -> WorkerPhases] /\ VeriQueue \in [Workers -> Seq(Traces)]
      /\ hand \in [Workers -> Traces \cup {NoTrace}] /\ assignTo \in Workers
    BY Zenon DEF TypeInv, TypeOK
<1>p. CASE ExecPush(p)
    <2>1. /\ VeriQueue' = [VeriQueue EXCEPT ![assignTo] = Append(@, arg[p])]
          /\ UNCHANGED <<wpc, hand, assignTo, arg>>
        BY <1>p, SMTT(40) DEF ExecPush
    <2>2. arg[p] \in Traces /\ ~Ctor
        BY <1>p, SMTT(40) DEF ExecPush, Goto, TypeInv, Roles, Ctor, CreateWorker, ClearTerm, ClearGet,
            ClearDone, Iterate, CtorPhases
    <2>3. \A u : Holds(VeriQueue'[assignTo], u) <=> Holds(VeriQueue[assignTo], u) \/ u = arg[p]
        BY <1>0, <2>1, <2>2, HoldsAppend, Zenon
    <2>4. \A j \in Workers \ {assignTo} : VeriQueue'[j] = VeriQueue[j]
        BY <1>0, <2>1, SMTT(40)
    <2> QED
        BY <1>0, <1>p, <2>1, <2>2, <2>3, <2>4, Zenon DEF Has
<1>f. ASSUME UNCHANGED <<VeriQueue, hand>>, ~ExecPush(p),
             \A j \in Workers : wpc'[j] = "proc" <=> wpc[j] = "proc"
      PROVE  /\ Has(i, t)' => Has(i, t) \/ (ExecPush(p) /\ i = assignTo /\ t = arg[p])
             /\ Has(i, t) /\ ~Ctor => Has(i, t)' \/ t \in tested'
             /\ ExecPush(p) /\ i = assignTo /\ t = arg[p] => Has(i, t)'
    BY <1>f, SMTT(40) DEF Has
<1>1. CASE Ctor
    <2>1. UNCHANGED <<VeriQueue, hand>> /\ \A j \in Workers : wpc'[j] = "proc" => wpc[j] = "proc"
        BY <1>1, CtorFrame, SMTT(40)
    <2> QED
        BY <1>1, <1>p, <2>1, SMTT(40) DEF Has
<1>2. CASE TermCall \/ Term
    <2>1. UNCHANGED <<VeriQueue, hand>> /\ \A j \in Workers : wpc'[j] = "proc" <=> wpc[j] = "proc"
        BY <1>2, TermFrame, Zenon DEF NotifyOnly, pool
    <2> QED
        BY <1>f, <1>p, <2>1, SMTT(40)
<1>3. ASSUME NEW c \in Clients, Call(c) \/ (Exec(c) /\ ~ExecPush(c)) \/ Get(c)
      PROVE  UNCHANGED <<VeriQueue, hand>> /\ \A j \in Workers : wpc'[j] = "proc" <=> wpc[j] = "proc"
    <2>1. CASE Call(c)
        BY <1>0, <2>1, Zenon DEF Call, ExecCall, GetCall, pool
    <2>2. CASE Exec(c) /\ ~ExecPush(c)
        BY <2>2, ExecFrame, Zenon DEF NotifyOnly
    <2>3. CASE Get(c)
        BY <2>3, GetFrame, Zenon DEF NotifyOnly, pool
    <2> QED
        BY <1>3, <2>1, <2>2, <2>3, SMTT(40)
<1>4. \A c \in Clients : ExecPush(c) => c = p
    BY Zenon DEF ExecPush, Goto, Roles, ExecPhases
<1>5. ASSUME NEW j \in Workers, IfQueue(j), VeriQueue[j] # <<>>
      PROVE  Has(i, t)' <=> Has(i, t)
    <2>1. /\ wpc[j] = "if_queue" /\ wpc' = [wpc EXCEPT ![j] = "proc"]
          /\ hand' = [hand EXCEPT ![j] = Head(VeriQueue[j])]
          /\ VeriQueue' = [VeriQueue EXCEPT ![j] = Tail(@)]
        BY <1>5, Zenon DEF IfQueue, WGoto
    <2>2. Holds(VeriQueue[j], t) <=> Holds(Tail(VeriQueue[j]), t) \/ t = Head(VeriQueue[j])
        BY <1>0, <1>5, HoldsTail, Zenon
    <2>3. CASE i = j
        BY <1>0, <2>1, <2>2, <2>3, Zenon DEF Has
    <2>4. CASE i # j
        BY <1>0, <2>1, <2>4, SMTT(40) DEF Has
    <2> QED
        BY <2>3, <2>4, Zenon
<1>6. ASSUME NEW j \in Workers, RunVeriProc(j)
      PROVE  (Has(i, t)' => Has(i, t)) /\ (Has(i, t) => Has(i, t)' \/ t \in tested')
    BY <1>0, <1>6, Zenon DEF RunVeriProc, WGoto, Has, pool
<1>7. ASSUME NEW j \in Workers, PushResult(j)
      PROVE  Has(i, t)' <=> Has(i, t)
    BY <1>0, <1>7, SMTT(40) DEF PushResult, WGoto, Has
<1>8. ASSUME NEW j \in Workers, Worker(j) \/ SpuriousWake(j), ~RunVeriProc(j), ~PushResult(j),
             ~(IfQueue(j) /\ VeriQueue[j] # <<>>)
      PROVE  UNCHANGED <<VeriQueue, hand>> /\ \A k \in Workers : wpc'[k] = "proc" <=> wpc[k] = "proc"
    BY <1>0, <1>8, ZenonT(30) DEF Worker, Spin, Lock, WhileTerm, WhileGet, WhileSize, IfTerm, IfDone,
        IfGet, IfSize, Complete, IfQueue, SpuriousWake, WGoto, pool
<1>9. CASE UNCHANGED vars
    BY <1>9, <1>f, <1>p, Zenon DEF vars, pool
<1> QED
    BY <1>p, <1>f, <1>1, <1>2, <1>3, <1>4, <1>5, <1>6, <1>7, <1>8, <1>9, Zenon DEF Next, Gone

\* Only a push adds to sent, and nothing is removed from tested.
LEMMA HistoryStep ==
    ASSUME NEW p, NEW g, Use(p, g), TypeInv, Roles(p, g), [Next]_vars
    PROVE  /\ tested \subseteq tested'
           /\ sent' = sent \/ (ExecPush(p) /\ sent' = sent \cup {arg[p]})
<1> USE DEF history
<1>1. CASE Ctor \/ TermCall \/ Term
    BY <1>1, CtorFrame, TermFrame, ZenonT(30)
<1>2. ASSUME NEW c \in Clients, Call(c) \/ Get(c) PROVE UNCHANGED <<sent, tested>>
    BY <1>2, GetFrame, ZenonT(30) DEF Call, ExecCall, GetCall
<1>3. ASSUME NEW c \in Clients, Exec(c), ~ExecPush(c) PROVE UNCHANGED <<sent, tested>>
    BY <1>3, ExecFrame, Zenon
<1>4. ASSUME NEW c \in Clients, ExecPush(c)
      PROVE  c = p /\ sent' = sent \cup {arg[p]} /\ UNCHANGED tested
    BY <1>4, Zenon DEF ExecPush, Goto, Roles, ExecPhases
<1>5. ASSUME NEW i \in Workers, Worker(i) \/ SpuriousWake(i)
      PROVE  UNCHANGED sent /\ tested \subseteq tested'
    BY <1>5, WorkerFrame, Zenon
<1>6. CASE UNCHANGED vars
    BY <1>6, Zenon DEF vars
<1> QED
    BY <1>1, <1>2, <1>3, <1>4, <1>5, <1>6, SMTT(40) DEF Next, Gone

\* No trace is lost.
LEMMA NextNotLost ==
    ASSUME NEW p, NEW g, Use(p, g), TypeInv, Roles(p, g), Once(p, g), NotLost, [Next]_vars
    PROVE  NotLost'
<1>1. tested \subseteq tested' /\ (sent' = sent \/ (ExecPush(p) /\ sent' = sent \cup {arg[p]}))
    BY HistoryStep, Zenon
<1>2. assignTo \in Workers
    BY Zenon DEF TypeInv, TypeOK
<1>3. CASE Ctor
    <2>1. sent = {} /\ sent' = sent
        BY <1>3, CtorFrame, Zenon DEF Once, history
    <2> QED
        BY <2>1, Zenon DEF NotLost
<1>4. CASE ~Ctor
    <2>1. \A t : ExecPush(p) /\ t = arg[p] => \E i \in Workers : Has(i, t)'
        BY <1>2, HasStep, SMTT(40)
    <2>2. \A i \in Workers : \A t : Has(i, t) => Has(i, t)' \/ t \in tested'
        BY <1>4, HasStep, SMTT(40)
    <2> QED
        BY <1>1, <2>1, <2>2, Zenon DEF NotLost
<1> QED
    BY <1>3, <1>4, Zenon

\* How g comes to wait and to leave its waiting loop, and that only worker i
\* sets its completedStateMap.
LEMMA CollectorStep ==
    ASSUME NEW p, NEW g, Use(p, g), TypeInv, Roles(p, g), [Next]_vars
    PROVE  /\ cpc'[g] \in WaitPhases \cup DonePhases =>
                \/ cpc[g] \in WaitPhases \cup DonePhases /\ due'[g] = due[g]
                \/ GetCall(g)
           /\ cpc'[g] \in DonePhases => cpc[g] \in DonePhases \/ (GetTest(g) /\ tmp[g] = N)
           /\ \A i \in Workers : completedStateMap'[i] => completedStateMap[i] \/ Complete(i)
<1> USE PoolAssumption DEF Use, WaitPhases, DonePhases, history
<1>0. /\ cpc \in [Clients -> ClientPhases] /\ due \in [Clients -> SUBSET Traces]
      /\ completedStateMap \in [Workers -> BOOLEAN]
    BY ZenonT(60) DEF TypeInv, TypeOK
<1>1. CASE Ctor \/ TermCall \/ Term
    <2>1. UNCHANGED due /\ \A i \in Workers : completedStateMap'[i] => completedStateMap[i]
        BY <1>1, CtorFrame, TermFrame, ZenonT(30)
    <2>2. cpc'[g] \in WaitPhases \cup DonePhases => cpc'[g] = cpc[g]
        BY <1>1, CtorFrame, TermFrame, Zenon DEF CtorPhases, DtorPhases
    <2> QED
        BY <2>1, <2>2, ZenonT(30)
<1>2. ASSUME NEW c \in Clients, ExecCall(c) \/ Exec(c)
      PROVE  /\ UNCHANGED <<due, completedStateMap>>
             /\ cpc'[g] \in WaitPhases \cup DonePhases => cpc'[g] = cpc[g]
    <2>1. CASE ExecCall(c)
        BY <1>0, <2>1, SMTT(40) DEF ExecCall, Goto, flags
    <2>2. CASE Exec(c)
        BY <2>2, ExecFrame, Zenon DEF ExecPhases, flags
    <2> QED
        BY <1>2, <2>1, <2>2, SMTT(40)
<1>3. ASSUME NEW c \in Clients, GetCall(c)
      PROVE  c = g /\ UNCHANGED completedStateMap /\ cpc'[g] = "g_signal"
    BY <1>0, <1>3, SMTT(40) DEF GetCall, Goto, flags
<1>4. ASSUME NEW c \in Clients, Get(c)
      PROVE  /\ c = g /\ UNCHANGED due /\ cpc[g] \in WaitPhases \cup DonePhases
             /\ \A i \in Workers : completedStateMap'[i] => completedStateMap[i]
             /\ cpc'[g] \in DonePhases => cpc[g] \in DonePhases \/ (GetTest(g) /\ tmp[g] = N)
    <2>1. c = g /\ cpc[g] \in WaitPhases \cup DonePhases
        BY <1>4, GetFrame, SMTT(40) DEF Roles
    <2>2. UNCHANGED due /\ \A i \in Workers : completedStateMap'[i] => completedStateMap[i]
        BY <1>4, GetFrame, SMTT(40)
    <2>3. CASE GetTest(g)
        BY <1>0, <2>1, <2>2, <2>3, SMTT(40) DEF GetTest, Goto
    <2>4. CASE ~GetTest(g)
        BY <1>0, <1>4, <2>1, <2>2, <2>4, ZenonT(30) DEF Get, GetSignal, GetCount, GetNotify, GetMerge,
            GetClear, GetWake, GetReset, Iterate
    <2> QED
        BY <2>3, <2>4, SMTT(40)
<1>5. ASSUME NEW j \in Workers, Worker(j) \/ SpuriousWake(j)
      PROVE  /\ UNCHANGED <<due, cpc>>
             /\ \A i \in Workers : completedStateMap'[i] => completedStateMap[i] \/ Complete(i)
    <2>1. UNCHANGED <<due, cpc>>
        BY <1>5, WorkerFrame, Zenon DEF client
    <2>2. CASE Complete(j)
        BY <1>0, <2>1, <2>2, Zenon DEF Complete
    <2>3. CASE ~Complete(j)
        BY <1>5, <2>1, <2>3, WorkerFrame, ZenonT(60)
    <2> QED
        BY <2>2, <2>3, Zenon
<1>6. CASE UNCHANGED vars
    BY <1>6, SMTT(40) DEF vars, client, flags
<1> QED
    BY <1>1, <1>2, <1>3, <1>4, <1>5, <1>6, SMTT(40) DEF Next, Gone, Call

\* A queue that a worker has found empty stays so until it has completed.
LEMMA NextCompleteEmpty ==
    ASSUME NEW p, NEW g, Use(p, g), TypeInv, Roles(p, g), Mutex(p), NotDue(g), [Next]_vars,
           NEW i \in Workers, wpc'[i] = "complete"
    PROVE  VeriQueue'[i] = <<>>
<1> USE PoolAssumption DEF Use
<1>0. /\ wpc \in [Workers -> WorkerPhases] /\ VeriQueue \in [Workers -> Seq(Traces)]
      /\ assignTo \in Workers
    BY Zenon DEF TypeInv, TypeOK
<1>n. wpc[i] = "complete" => VeriQueue[i] = <<>>
    BY ZenonT(60) DEF NotDue
<1>1. CASE Ctor \/ TermCall \/ Term
    BY <1>n, <1>1, CtorFrame, TermFrame, ZenonT(30) DEF NotifyOnly, pool
<1>2. ASSUME NEW c \in Clients, ExecPush(c) PROVE VeriQueue'[i] = <<>>
    <2>1. c = p /\ cpc[p] = "x_push" /\ wpc[i] = "complete"
        BY <1>2, SMTT(40) DEF ExecPush, Goto, Roles, ExecPhases
    <2>2. i # assignTo
        BY <2>1, Zenon DEF Mutex, HoldPhases
    <2> QED
        BY <1>0, <1>n, <1>2, <2>1, <2>2, SMTT(40) DEF ExecPush
<1>3. ASSUME NEW c \in Clients, Call(c) \/ (Exec(c) /\ ~ExecPush(c)) \/ Get(c)
      PROVE  VeriQueue'[i] = <<>>
    <2>1. UNCHANGED VeriQueue
        BY <1>3, ExecFrame, GetFrame, Zenon DEF Call, ExecCall, GetCall, pool
    <2>2. wpc[i] = "complete"
        BY <1>3, ExecFrame, GetFrame, Zenon DEF Call, ExecCall, GetCall, NotifyOnly
    <2> QED
        BY <1>n, <2>1, <2>2, Zenon
<1>4. ASSUME NEW j \in Workers, Worker(j) \/ SpuriousWake(j) PROVE VeriQueue'[i] = <<>>
    <2>1. CASE IfQueue(j)
        BY <1>0, <1>n, <2>1, SMTT(40) DEF IfQueue, WGoto
    <2>2. CASE IfSize(j)
        BY <1>0, <1>n, <2>2, Zenon DEF IfSize, WGoto, pool
    <2>3. CASE ~IfQueue(j) /\ ~IfSize(j)
        <3>1. UNCHANGED VeriQueue
            BY <1>4, <2>3, WorkerFrame, Zenon
        <3>2. wpc[i] = "complete"
            BY <1>0, <1>4, <2>3, Zenon DEF Worker, Spin, Lock, WhileTerm, WhileGet, WhileSize, IfTerm,
                IfDone, IfGet, Complete, RunVeriProc, PushResult, SpuriousWake, WGoto
        <3> QED
            BY <1>n, <3>1, <3>2, Zenon
    <2> QED
        BY <2>1, <2>2, <2>3, ZenonT(60)
<1>5. CASE UNCHANGED vars
    BY <1>n, <1>5, Zenon DEF vars, pool
<1> QED
    BY <1>1, <1>2, <1>3, <1>4, <1>5, Zenon DEF Next, Gone

\* A completed worker gets only traces that were submitted after the call.
LEMMA NextNotDue ==
    ASSUME NEW p, NEW g, Use(p, g), TypeInv, Roles(p, g), Mutex(p), Handshake(g), Once(p, g),
           NotDue(g), [Next]_vars
    PROVE  NotDue(g)'
<1>1. \A i \in Workers : wpc'[i] = "complete" => VeriQueue'[i] = <<>>
    BY NextCompleteEmpty, SMTT(40)
<1>2. ASSUME cpc'[g] \in WaitPhases \cup DonePhases,
             NEW i \in Workers, completedStateMap'[i], NEW t \in due'[g]
      PROVE  ~Has(i, t)'
    <2>1. CASE GetCall(g)
        <3>1. cpc[g] = "idle" /\ cpc[Main] \notin CtorPhases /\ UNCHANGED completedStateMap
            BY <2>1, SMTT(40) DEF GetCall, Goto, Alive, flags
        <3> QED
            BY <1>2, <3>1, SMTT(40) DEF Handshake, DoneUp, CtorPhases, WaitPhases
    <2>2. CASE ~GetCall(g)
        <3>1. cpc[g] \in WaitPhases \cup DonePhases /\ due'[g] = due[g]
            BY <1>2, <2>2, CollectorStep, SMTT(40)
        <3>2. CASE Complete(i)
            <4>1. VeriQueue[i] = <<>> /\ UNCHANGED VeriQueue /\ wpc'[i] = "lock"
                BY <3>2, Zenon DEF Complete, WGoto, NotDue, TypeInv, TypeOK
            <4> QED
                BY <4>1, HoldsEmpty, Zenon DEF Has
        <3>3. CASE ~Complete(i)
            <4>1. ~Has(i, t)
                BY <1>2, <3>1, <3>3, CollectorStep, Zenon DEF NotDue
            <4>2. ~(ExecPush(p) /\ t = arg[p])
                BY <1>2, <3>1, ZenonT(60) DEF ExecPush, Goto, Once
            <4> QED
                BY <4>1, <4>2, HasStep, Zenon
        <3> QED
            BY <3>2, <3>3, SMTT(40)
    <2> QED
        BY <2>1, <2>2, SMTT(40)
<1> QED
    BY <1>1, <1>2, ZenonT(60) DEF NotDue

\* When all workers are complete, nothing that getVeri waits for is left.
LEMMA NextDueTested ==
    ASSUME NEW p, NEW g, Use(p, g), TypeInv, Roles(p, g), Handshake(g), Once(p, g), NotLost,
           NotDue(g), DueTested(g), [Next]_vars
    PROVE  DueTested(g)'
<1> SUFFICES ASSUME cpc'[g] \in DonePhases PROVE due'[g] \subseteq tested'
    BY Zenon DEF DueTested
<1>1. tested \subseteq tested'
    BY HistoryStep, SMTT(40)
<1>2. CASE cpc[g] \in DonePhases
    <2>1. ~GetCall(g)
        BY <1>2, SMTT(40) DEF GetCall, Goto, DonePhases
    <2> QED
        BY <1>1, <1>2, <2>1, CollectorStep, SMTT(40) DEF DueTested
<1>3. CASE cpc[g] \notin DonePhases
    <2>1. GetTest(g) /\ tmp[g] = N
        BY <1>3, CollectorStep, ZenonT(30)
    <2>2. cpc[g] = "g_test" /\ UNCHANGED due
        BY <2>1, SMTT(40) DEF GetTest, Goto, history
    <2>3. \A i \in Workers : completedStateMap[i]
        BY <2>1, <2>2, SMTT(40) DEF Handshake, Counted
    <2>4. \A i \in Workers : \A t \in due[g] : ~Has(i, t)
        BY <2>2, <2>3, Zenon DEF NotDue, WaitPhases
    <2> QED
        BY <1>1, <2>2, <2>4, SMTT(40) DEF Once, NotLost
<1> QED
    BY <1>2, <1>3, SMTT(40)

\* The inductive invariant of the pool.
PoolInv(p, g) ==
    /\ TypeInv /\ Roles(p, g) /\ Mutex(p) /\ Handshake(g)
    /\ Once(p, g) /\ NotLost /\ NotDue(g) /\ DueTested(g)

\* It holds when the constructor starts.
LEMMA InitPoolInv ==
    ASSUME NEW p, NEW g, Use(p, g), NoOldSignal, Init
    PROVE  PoolInv(p, g)
BY InitTypeInv, InitRoles, InitHandshake, InitTraces, SMTT(40) DEF PoolInv

\* Every step keeps it.
LEMMA NextPoolInv ==
    ASSUME NEW p, NEW g, Use(p, g), PoolInv(p, g), [Next]_vars
    PROVE  PoolInv(p, g)'
BY NextTypeInv, NextRoles, NextMutex, NextHandshake, NextOnce, NextNotLost, NextNotDue,
    NextDueTested, Zenon DEF PoolInv

\* For every number of workers, of traces and of calls, with one thread that
\* submits and one that collects: getVeri leaves its waiting loop only when
\* every trace submitted before the call has been tested.
THEOREM GetVeriWaits ==
    ASSUME NEW p, NEW g, Use(p, g), NoOldSignal
    PROVE  Spec => []ResultAfterTested
<1>1. PoolInv(p, g) => ResultAfterTested
    BY Zenon DEF PoolInv, ResultAfterTested, DueTested, Roles
<1> QED
    BY <1>1, InitPoolInv, NextPoolInv, PTL DEF Spec

-----------------------------------------------------------------------------
(* Where the results are                                                   *)

\* Worker i has taken a trace from its queue and stored no result of it yet.
Busy(i) == wpc[i] \in {"proc", "result"}

\* Worker i has trace t and has stored no result of it.
Owes(i, t) == Holds(VeriQueue[i], t) \/ (Busy(i) /\ hand[i] = t)

\* Worker i was given trace t.
Given(i, t) == Owes(i, t) \/ ResultVector[i][t] # 0

\* No trace is in a queue twice.
Distinct(q) == \A k, l \in 1 .. Len(q) : q[k] = q[l] => k = l

\* A worker has each of its traces once, and one result of those it is done with.
Single ==
    /\ \A i \in Workers : Distinct(VeriQueue[i])
    /\ \A i \in Workers : Busy(i) => ~Holds(VeriQueue[i], hand[i])
    /\ \A i \in Workers, t \in Traces :
        /\ ResultVector[i][t] \in {0, 1}
        /\ Owes(i, t) => ResultVector[i][t] = 0

\* The traces sent are those given to a worker, each to one.
Placed ==
    /\ \A t \in Traces : t \in sent <=> \E i \in Workers : Given(i, t)
    /\ \A t \in Traces, i, j \in Workers : Given(i, t) /\ Given(j, t) => i = j

\* push_back of a trace that the queue does not hold
LEMMA DistinctAppend ==
    ASSUME NEW q \in Seq(Traces), NEW x \in Traces, Distinct(q), ~Holds(q, x)
    PROVE  Distinct(Append(q, x))
<1>1. /\ Len(q) \in Nat /\ Len(Append(q, x)) = Len(q) + 1
      /\ Append(q, x)[Len(q) + 1] = x
      /\ \A k \in 1 .. Len(q) : Append(q, x)[k] = q[k]
    OBVIOUS
<1>2. \A k \in 1 .. Len(q) + 1 : k = Len(q) + 1 \/ k \in 1 .. Len(q)
    BY <1>1, SMTT(30)
<1>3. \A k \in 1 .. Len(q) : q[k] # x
    BY Zenon DEF Holds
<1> QED
    BY <1>1, <1>2, <1>3, Zenon DEF Distinct

\* front and pop of a queue that holds no trace twice
LEMMA DistinctTail ==
    ASSUME NEW q \in Seq(Traces), q # <<>>, Distinct(q)
    PROVE  Distinct(Tail(q)) /\ ~Holds(Tail(q), Head(q))
<1>1. /\ Len(q) \in Nat \ {0} /\ Len(Tail(q)) = Len(q) - 1 /\ Head(q) = q[1]
      /\ \A k \in 1 .. Len(q) - 1 : Tail(q)[k] = q[k + 1]
    OBVIOUS
<1>2. \A k \in 1 .. Len(q) - 1 : k + 1 \in 1 .. Len(q) /\ k + 1 # 1
    BY <1>1, SMTT(30)
<1>3. 1 \in 1 .. Len(q)
    BY <1>1, SMTT(30)
<1>4. \A k \in 1 .. Len(q) - 1 : q[k + 1] # q[1]
    BY <1>2, <1>3, Zenon DEF Distinct
<1>5. \A k, l \in 1 .. Len(q) - 1 : q[k + 1] = q[l + 1] => k = l
    <2> TAKE k \in 1 .. Len(q) - 1, l \in 1 .. Len(q) - 1
    <2>1. q[k + 1] = q[l + 1] => k + 1 = l + 1
        BY <1>2, Zenon DEF Distinct
    <2> QED
        BY <1>1, <2>1, SMTT(30)
<1> QED
    BY <1>1, <1>4, <1>5, SMTT(30) DEF Distinct, Holds

\* Worker j takes the front of its queue.
Take(j) == IfQueue(j) /\ VeriQueue[j] # <<>>

\* A step that moves no trace and stores no result.
Quiet ==
    /\ UNCHANGED <<VeriQueue, hand, ResultVector, sent>>
    /\ \A j \in Workers : Busy(j)' <=> Busy(j)

\* The steps that move a trace or store a result.
LEMMA TraceMoves ==
    ASSUME NEW p, NEW g, Use(p, g), TypeInv, Roles(p, g), Once(p, g), Placed, [Next]_vars
    PROVE  \/ Quiet
           \/ ExecPush(p)
           \/ \E j \in Workers : Take(j) \/ PushResult(j)
<1> USE PoolAssumption DEF Use
<1>0. wpc \in [Workers -> WorkerPhases] /\ cpc \in [Clients -> ClientPhases]
    BY Zenon DEF TypeInv, TypeOK
<1>n. NotifyOnly => \A j \in Workers : Busy(j)' <=> Busy(j)
    BY Zenon DEF NotifyOnly, Busy
<1>1. CASE Ctor
    <2>1. sent = {} /\ UNCHANGED <<VeriQueue, hand, sent>>
        BY <1>1, CtorFrame, Zenon DEF Once, history
    <2>2. UNCHANGED ResultVector
        BY <1>1, Zenon DEF Ctor, CreateWorker, ClearTerm, ClearGet, ClearDone, pool
    <2>3. \A j \in Workers : ~Busy(j)
        <3> SUFFICES ASSUME NEW j \in Workers, Busy(j) PROVE FALSE
            OBVIOUS
        <3>1. hand[j] \in Traces /\ Given(j, hand[j])
            BY Zenon DEF Given, Owes, Busy, TypeInv
        <3> QED
            BY <2>1, <3>1, Zenon DEF Placed
    <2>4. \A j \in Workers : wpc'[j] \in {wpc[j], "spin"}
        BY <1>1, CtorFrame, Zenon
    <2>5. \A j \in Workers : ~Busy(j)'
        BY <2>3, <2>4, Zenon DEF Busy
    <2> QED
        BY <2>1, <2>2, <2>3, <2>5, Zenon DEF Quiet
<1>2. CASE TermCall \/ Term
    BY <1>2, <1>n, TermFrame, Zenon DEF Quiet, pool, history
<1>3. ASSUME NEW c \in Clients, Call(c) PROVE Quiet
    <2>1. UNCHANGED <<VeriQueue, hand, ResultVector, sent, wpc>>
        BY <1>3, Zenon DEF Call, ExecCall, GetCall, pool, history
    <2> QED
        BY <2>1, Zenon DEF Quiet, Busy
<1>4. ASSUME NEW c \in Clients, Exec(c), ~ExecPush(p) PROVE Quiet
    <2>1. c = p
        BY <1>4, ExecFrame, Zenon DEF Roles, ExecPhases
    <2>2. UNCHANGED <<VeriQueue, hand, sent>> /\ NotifyOnly
        BY <1>4, <2>1, ExecFrame, Zenon
    <2>3. UNCHANGED ResultVector
        BY <1>4, <2>1, Zenon DEF Exec, ExecLock, ExecUnlock, ExecNotify, ExecLoad, ExecStore, pool
    <2> QED
        BY <1>n, <2>2, <2>3, Zenon DEF Quiet
<1>5. ASSUME NEW c \in Clients, Get(c) PROVE Quiet
    BY <1>5, <1>n, GetFrame, Zenon DEF Quiet, pool, history
<1>6. ASSUME NEW j \in Workers, Worker(j) \/ SpuriousWake(j), ~Take(j), ~PushResult(j)
      PROVE  Quiet
    <2>1. UNCHANGED sent
        BY <1>6, WorkerFrame, Zenon
    <2>2. CASE Spin(j) \/ Lock(j) \/ WhileTerm(j) \/ WhileGet(j) \/ WhileSize(j) \/ SpuriousWake(j)
        <3>1. UNCHANGED <<VeriQueue, hand, ResultVector>>
            BY <2>2, ZenonT(30) DEF Spin, Lock, WhileTerm, WhileGet, WhileSize, SpuriousWake, pool
        <3>2. \A k \in Workers : Busy(k)' <=> Busy(k)
            BY <1>0, <2>2, SMTT(30) DEF Spin, Lock, WhileTerm, WhileGet, WhileSize, SpuriousWake,
                WGoto, Busy
        <3> QED
            BY <2>1, <3>1, <3>2, Zenon DEF Quiet
    <2>3. CASE IfTerm(j) \/ IfDone(j) \/ IfGet(j) \/ IfSize(j) \/ Complete(j)
        <3>1. UNCHANGED <<VeriQueue, hand, ResultVector>>
            BY <2>3, ZenonT(30) DEF IfTerm, IfDone, IfGet, IfSize, Complete, pool
        <3>2. \A k \in Workers : Busy(k)' <=> Busy(k)
            BY <1>0, <2>3, ZenonT(30) DEF IfTerm, IfDone, IfGet, IfSize, Complete, WGoto, Busy
        <3> QED
            BY <2>1, <3>1, <3>2, Zenon DEF Quiet
    <2>4. CASE IfQueue(j) \/ RunVeriProc(j)
        <3>1. UNCHANGED <<VeriQueue, hand, ResultVector>>
            BY <1>6, <2>4, ZenonT(30) DEF IfQueue, RunVeriProc, pool, Take
        <3>2. \A k \in Workers : Busy(k)' <=> Busy(k)
            BY <1>0, <1>6, <2>4, SMTT(30) DEF IfQueue, RunVeriProc, WGoto, Take, Busy
        <3> QED
            BY <2>1, <3>1, <3>2, Zenon DEF Quiet
    <2> QED
        BY <1>6, <2>2, <2>3, <2>4, Zenon DEF Worker
<1>7. CASE UNCHANGED vars
    BY <1>7, Zenon DEF vars, pool, history, Quiet, Busy
<1> QED
    BY <1>1, <1>2, <1>3, <1>4, <1>5, <1>6, <1>7, Zenon DEF Next, Gone

\* What these steps do to what worker i owes and has stored.
LEMMA OwesStep ==
    ASSUME NEW p, NEW g, Use(p, g), TypeInv, Single, NEW i \in Workers, NEW t \in Traces
    PROVE  /\ Quiet => (Owes(i, t)' <=> Owes(i, t)) /\ ResultVector'[i][t] = ResultVector[i][t]
           /\ ExecPush(p) =>
                /\ Owes(i, t)' <=> Owes(i, t) \/ (i = assignTo /\ t = arg[p])
                /\ ResultVector'[i][t] = ResultVector[i][t]
           /\ \A j \in Workers :
                Take(j) => (Owes(i, t)' <=> Owes(i, t)) /\ ResultVector'[i][t] = ResultVector[i][t]
           /\ \A j \in Workers : PushResult(j) =>
                /\ Owes(i, t)' <=> Owes(i, t) /\ ~(i = j /\ t = hand[j])
                /\ ResultVector'[i][t] =
                    IF i = j /\ t = hand[j] THEN ResultVector[i][t] + 1 ELSE ResultVector[i][t]
<1> USE PoolAssumption DEF Use
<1>0. /\ wpc \in [Workers -> WorkerPhases] /\ VeriQueue \in [Workers -> Seq(Traces)]
      /\ hand \in [Workers -> Traces \cup {NoTrace}] /\ assignTo \in Workers
      /\ ResultVector \in [Workers -> [Traces -> Nat]]
    BY Zenon DEF TypeInv, TypeOK
<1>1. ASSUME Quiet
      PROVE  (Owes(i, t)' <=> Owes(i, t)) /\ ResultVector'[i][t] = ResultVector[i][t]
    BY <1>1, Zenon DEF Quiet, Owes
<1>2. ASSUME ExecPush(p)
      PROVE  /\ Owes(i, t)' <=> Owes(i, t) \/ (i = assignTo /\ t = arg[p])
             /\ ResultVector'[i][t] = ResultVector[i][t]
    <2>1. /\ VeriQueue' = [VeriQueue EXCEPT ![assignTo] = Append(@, arg[p])]
          /\ UNCHANGED <<wpc, hand, ResultVector>>
        BY <1>2, SMTT(40) DEF ExecPush
    <2>2. arg[p] \in Traces
        BY <1>2, ZenonT(30) DEF ExecPush, Goto, TypeInv
    <2>3. Holds(VeriQueue'[assignTo], t) <=> Holds(VeriQueue[assignTo], t) \/ t = arg[p]
        BY <1>0, <2>1, <2>2, HoldsAppend, Zenon
    <2>4. i # assignTo => VeriQueue'[i] = VeriQueue[i]
        BY <1>0, <2>1, SMTT(40)
    <2>5. (Busy(i) /\ hand[i] = t)' <=> (Busy(i) /\ hand[i] = t)
        BY <2>1, Zenon DEF Busy
    <2> QED
        BY <2>1, <2>3, <2>4, <2>5, Zenon DEF Owes
<1>3. ASSUME NEW j \in Workers, Take(j)
      PROVE  (Owes(i, t)' <=> Owes(i, t)) /\ ResultVector'[i][t] = ResultVector[i][t]
    <2>1. /\ wpc[j] = "if_queue" /\ wpc' = [wpc EXCEPT ![j] = "proc"]
          /\ hand' = [hand EXCEPT ![j] = Head(VeriQueue[j])]
          /\ VeriQueue' = [VeriQueue EXCEPT ![j] = Tail(@)]
          /\ UNCHANGED ResultVector
        BY <1>3, Zenon DEF Take, IfQueue, WGoto
    <2>2. Holds(VeriQueue[j], t) <=> Holds(Tail(VeriQueue[j]), t) \/ t = Head(VeriQueue[j])
        BY <1>0, <1>3, HoldsTail, Zenon DEF Take
    <2>3. CASE i = j
        <3>1. ~Busy(i) /\ Busy(i)' /\ hand'[i] = Head(VeriQueue[i]) /\ VeriQueue'[i] = Tail(VeriQueue[i])
            BY <1>0, <2>1, <2>3, Zenon DEF Busy
        <3> QED
            BY <2>1, <2>2, <2>3, <3>1, Zenon DEF Owes
    <2>4. CASE i # j
        <3>1. wpc'[i] = wpc[i] /\ hand'[i] = hand[i] /\ VeriQueue'[i] = VeriQueue[i]
            BY <1>0, <2>1, <2>4, SMTT(40)
        <3> QED
            BY <2>1, <3>1, Zenon DEF Owes, Busy
    <2> QED
        BY <2>3, <2>4, Zenon
<1>4. ASSUME NEW j \in Workers, PushResult(j)
      PROVE  /\ Owes(i, t)' <=> Owes(i, t) /\ ~(i = j /\ t = hand[j])
             /\ ResultVector'[i][t] =
                    IF i = j /\ t = hand[j] THEN ResultVector[i][t] + 1 ELSE ResultVector[i][t]
    <2>1. /\ wpc[j] = "result" /\ wpc' = [wpc EXCEPT ![j] = "lock"]
          /\ hand' = [hand EXCEPT ![j] = NoTrace]
          /\ ResultVector' = [ResultVector EXCEPT ![j][hand[j]] = @ + 1]
          /\ UNCHANGED VeriQueue
        BY <1>4, Zenon DEF PushResult, WGoto
    <2>2. Busy(j) /\ hand[j] \in Traces /\ ~Holds(VeriQueue[j], hand[j])
        BY <2>1, Zenon DEF Busy, TypeInv, Single
    <2>3. CASE i = j
        <3>1. ~Busy(i)'
            BY <1>0, <2>1, <2>3, Zenon DEF Busy
        <3>2. ResultVector'[i][t] =
                    IF t = hand[j] THEN ResultVector[i][t] + 1 ELSE ResultVector[i][t]
            BY <1>0, <2>1, <2>2, <2>3, SMTT(40)
        <3>3. Owes(i, t)' <=> Owes(i, t) /\ t # hand[j]
            BY <2>1, <2>2, <2>3, <3>1, Zenon DEF Owes
        <3> QED
            BY <2>3, <3>2, <3>3, Zenon
    <2>4. CASE i # j
        <3>1. wpc'[i] = wpc[i] /\ hand'[i] = hand[i] /\ ResultVector'[i] = ResultVector[i]
            BY <1>0, <2>1, <2>4, SMTT(40)
        <3>2. Owes(i, t)' <=> Owes(i, t)
            BY <2>1, <3>1, Zenon DEF Owes, Busy
        <3> QED
            BY <2>4, <3>1, <3>2, Zenon
    <2> QED
        BY <2>3, <2>4, Zenon
<1> QED
    BY <1>1, <1>2, <1>3, <1>4, Zenon

\* A trace that is pushed was given to nobody before.
LEMMA PushedIsNew ==
    ASSUME NEW p, NEW g, Use(p, g), TypeInv, Once(p, g), Placed, ExecPush(p)
    PROVE  /\ arg[p] \in Traces /\ assignTo \in Workers
           /\ sent' = sent \cup {arg[p]}
           /\ \A i \in Workers : ~Given(i, arg[p])
<1>1. cpc[p] = "x_push" /\ sent' = sent \cup {arg[p]} /\ p \in Clients
    BY SMTT(40) DEF ExecPush, Goto, Use
<1>2. arg[p] \in Traces /\ assignTo \in Workers
    BY <1>1, Zenon DEF TypeInv, TypeOK
<1>3. arg[p] \notin sent
    BY <1>1, Zenon DEF Once
<1> QED
    BY <1>1, <1>2, <1>3, Zenon DEF Placed

\* A trace is given by the push only, and to one worker.
LEMMA NextPlaced ==
    ASSUME NEW p, NEW g, Use(p, g), TypeInv, Roles(p, g), Once(p, g), Single, Placed, [Next]_vars
    PROVE  Placed'
<1>1. CASE ExecPush(p)
    <2>1. /\ arg[p] \in Traces /\ assignTo \in Workers /\ sent' = sent \cup {arg[p]}
          /\ \A i \in Workers : ~Given(i, arg[p])
        BY <1>1, PushedIsNew, Zenon
    <2>2. \A i \in Workers, t \in Traces :
            Given(i, t)' <=> Given(i, t) \/ (i = assignTo /\ t = arg[p])
        BY <1>1, OwesStep, ZenonT(60) DEF Given
    <2> QED
        BY <2>1, <2>2, Zenon DEF Placed
<1>2. CASE ~ExecPush(p)
    <2>1. sent' = sent
        BY <1>2, HistoryStep, Zenon
    <2>2. \A i \in Workers, t \in Traces : Given(i, t)' <=> Given(i, t)
        <3> SUFFICES ASSUME NEW i \in Workers, NEW t \in Traces
                     PROVE  Given(i, t)' <=> Given(i, t)
            OBVIOUS
        <3>1. CASE Quiet
            BY <3>1, OwesStep, Zenon DEF Given
        <3>2. ASSUME NEW j \in Workers, Take(j) PROVE Given(i, t)' <=> Given(i, t)
            BY <3>2, OwesStep, Zenon DEF Given
        <3>3. ASSUME NEW j \in Workers, PushResult(j) PROVE Given(i, t)' <=> Given(i, t)
            <4>1. Busy(j) /\ ResultVector[i][t] \in {0, 1}
                BY <3>3, SMTT(40) DEF PushResult, WGoto, Busy, Single
            <4>2. CASE i = j /\ t = hand[j]
                <5>1. Owes(i, t)
                    BY <4>1, <4>2, Zenon DEF Owes
                <5>2. ResultVector'[i][t] = ResultVector[i][t] + 1
                    BY <3>3, <4>2, OwesStep, Zenon
                <5>3. ResultVector'[i][t] # 0
                    BY <4>1, <5>2, SMTT(30)
                <5> QED
                    BY <5>1, <5>3, Zenon DEF Given
            <4>3. CASE ~(i = j /\ t = hand[j])
                <5>1. (Owes(i, t)' <=> Owes(i, t)) /\ ResultVector'[i][t] = ResultVector[i][t]
                    BY <3>3, <4>3, OwesStep, ZenonT(30)
                <5> QED
                    BY <5>1, Zenon DEF Given
            <4> QED
                BY <4>2, <4>3, Zenon
        <3> QED
            BY <1>2, <3>1, <3>2, <3>3, TraceMoves, Zenon
    <2> QED
        BY <2>1, <2>2, Zenon DEF Placed
<1> QED
    BY <1>1, <1>2, Zenon

\* A worker never has a trace twice.
LEMMA NextSingle ==
    ASSUME NEW p, NEW g, Use(p, g), TypeInv, Roles(p, g), Once(p, g), Single, Placed, [Next]_vars
    PROVE  Single'
<1> USE PoolAssumption DEF Use
<1>0. /\ wpc \in [Workers -> WorkerPhases] /\ VeriQueue \in [Workers -> Seq(Traces)]
      /\ hand \in [Workers -> Traces \cup {NoTrace}] /\ assignTo \in Workers
    BY Zenon DEF TypeInv, TypeOK
<1>1. CASE Quiet
    <2>1. UNCHANGED <<VeriQueue, hand>> /\ \A i \in Workers : Busy(i)' <=> Busy(i)
        BY <1>1, Zenon DEF Quiet
    <2>2. \A i \in Workers, t \in Traces :
            (Owes(i, t)' <=> Owes(i, t)) /\ ResultVector'[i][t] = ResultVector[i][t]
        BY <1>1, OwesStep, Zenon
    <2> QED
        BY <2>1, <2>2, ZenonT(60) DEF Single
<1>2. CASE ExecPush(p)
    <2>1. /\ arg[p] \in Traces /\ \A i \in Workers : ~Given(i, arg[p])
        BY <1>2, PushedIsNew, Zenon
    <2>2. /\ VeriQueue' = [VeriQueue EXCEPT ![assignTo] = Append(@, arg[p])]
          /\ UNCHANGED <<wpc, hand>>
        BY <1>2, SMTT(40) DEF ExecPush
    <2>3. \A i \in Workers : Distinct(VeriQueue[i])'
        <3> SUFFICES ASSUME NEW i \in Workers PROVE Distinct(VeriQueue'[i])
            OBVIOUS
        <3>1. CASE i = assignTo
            <4>1. ~Holds(VeriQueue[i], arg[p]) /\ Distinct(VeriQueue[i])
                BY <2>1, Zenon DEF Given, Owes, Single
            <4>2. VeriQueue'[i] = Append(VeriQueue[i], arg[p])
                BY <1>0, <2>2, <3>1, SMTT(40)
            <4>3. VeriQueue[i] \in Seq(Traces)
                BY <1>0, Zenon
            <4>4. Distinct(Append(VeriQueue[i], arg[p]))
                BY <2>1, <4>1, <4>3, DistinctAppend, Zenon
            <4> QED
                BY <4>2, <4>4, Zenon
        <3>2. CASE i # assignTo
            <4>1. VeriQueue'[i] = VeriQueue[i]
                BY <1>0, <2>2, <3>2, SMTT(40)
            <4> QED
                BY <4>1, Zenon DEF Single
        <3> QED
            BY <3>1, <3>2, Zenon
    <2>4. \A i \in Workers : Busy(i)' => ~Holds(VeriQueue'[i], hand'[i])
        <3> SUFFICES ASSUME NEW i \in Workers, Busy(i)' PROVE ~Holds(VeriQueue'[i], hand[i])
            BY <2>2, Zenon
        <3>1. Busy(i) /\ ~Holds(VeriQueue[i], hand[i]) /\ hand[i] # arg[p]
            BY <2>1, <2>2, Zenon DEF Busy, Single, Given, Owes
        <3>2. CASE i = assignTo
            <4>1. VeriQueue'[i] = Append(VeriQueue[i], arg[p])
                BY <1>0, <2>2, <3>2, SMTT(40)
            <4>2. VeriQueue[i] \in Seq(Traces)
                BY <1>0, Zenon
            <4>3. ~Holds(Append(VeriQueue[i], arg[p]), hand[i])
                BY <2>1, <3>1, <4>2, HoldsAppend, Zenon
            <4> QED
                BY <4>1, <4>3, Zenon
        <3>3. CASE i # assignTo
            <4>1. VeriQueue'[i] = VeriQueue[i]
                BY <1>0, <2>2, <3>3, SMTT(40)
            <4> QED
                BY <3>1, <4>1, Zenon
        <3> QED
            BY <3>2, <3>3, Zenon
    <2>5. \A i \in Workers, t \in Traces :
            /\ ResultVector'[i][t] \in {0, 1}
            /\ Owes(i, t)' => ResultVector'[i][t] = 0
        <3> SUFFICES ASSUME NEW i \in Workers, NEW t \in Traces
                     PROVE  /\ ResultVector'[i][t] \in {0, 1}
                            /\ Owes(i, t)' => ResultVector'[i][t] = 0
            OBVIOUS
        <3>1. /\ Owes(i, t)' <=> Owes(i, t) \/ (i = assignTo /\ t = arg[p])
              /\ ResultVector'[i][t] = ResultVector[i][t]
            BY <1>2, OwesStep, Zenon
        <3>2. /\ ResultVector[i][t] \in {0, 1}
              /\ Owes(i, t) => ResultVector[i][t] = 0
            BY Zenon DEF Single
        <3>3. t = arg[p] => ResultVector[i][t] = 0
            BY <2>1, Zenon DEF Given
        <3> QED
            BY <3>1, <3>2, <3>3, Zenon
    <2> QED
        BY <2>3, <2>4, <2>5, Zenon DEF Single
<1>3. ASSUME NEW j \in Workers, Take(j) PROVE Single'
    <2>1. /\ wpc' = [wpc EXCEPT ![j] = "proc"]
          /\ hand' = [hand EXCEPT ![j] = Head(VeriQueue[j])]
          /\ VeriQueue' = [VeriQueue EXCEPT ![j] = Tail(@)]
        BY <1>3, Zenon DEF Take, IfQueue, WGoto
    <2>2. Distinct(Tail(VeriQueue[j])) /\ ~Holds(Tail(VeriQueue[j]), Head(VeriQueue[j]))
        BY <1>0, <1>3, DistinctTail, Zenon DEF Take, Single
    <2>3. ASSUME NEW i \in Workers
          PROVE  Distinct(VeriQueue'[i]) /\ (Busy(i)' => ~Holds(VeriQueue'[i], hand'[i]))
        <3>1. CASE i = j
            BY <1>0, <2>1, <2>2, <3>1, Zenon
        <3>2. CASE i # j
            <4>1. wpc'[i] = wpc[i] /\ hand'[i] = hand[i] /\ VeriQueue'[i] = VeriQueue[i]
                BY <1>0, <2>1, <3>2, SMTT(40)
            <4> QED
                BY <4>1, Zenon DEF Single, Busy
        <3> QED
            BY <3>1, <3>2, Zenon
    <2>4. \A i \in Workers, t \in Traces :
            (Owes(i, t)' <=> Owes(i, t)) /\ ResultVector'[i][t] = ResultVector[i][t]
        BY <1>3, OwesStep, Zenon
    <2> QED
        BY <2>3, <2>4, ZenonT(30) DEF Single
<1>4. ASSUME NEW j \in Workers, PushResult(j) PROVE Single'
    <2>1. /\ wpc' = [wpc EXCEPT ![j] = "lock"] /\ hand' = [hand EXCEPT ![j] = NoTrace]
          /\ UNCHANGED VeriQueue /\ wpc[j] = "result"
        BY <1>4, Zenon DEF PushResult, WGoto
    <2>2. ASSUME NEW i \in Workers
          PROVE  Distinct(VeriQueue'[i]) /\ (Busy(i)' => ~Holds(VeriQueue'[i], hand'[i]))
        <3>1. CASE i = j
            <4>1. ~Busy(i)'
                BY <1>0, <2>1, <3>1, Zenon DEF Busy
            <4> QED
                BY <2>1, <4>1, Zenon DEF Single
        <3>2. CASE i # j
            <4>1. wpc'[i] = wpc[i] /\ hand'[i] = hand[i] /\ VeriQueue'[i] = VeriQueue[i]
                BY <1>0, <2>1, <3>2, SMTT(40)
            <4> QED
                BY <4>1, Zenon DEF Single, Busy
        <3> QED
            BY <3>1, <3>2, Zenon
    <2>3. ASSUME NEW i \in Workers, NEW t \in Traces
          PROVE  /\ ResultVector'[i][t] \in {0, 1}
                 /\ Owes(i, t)' => ResultVector'[i][t] = 0
        <3>1. CASE i = j /\ t = hand[j]
            <4>1. Owes(i, t)
                BY <2>1, <3>1, Zenon DEF Owes, Busy
            <4>2. ResultVector[i][t] = 0
                BY <4>1, Zenon DEF Single
            <4>3. ~Owes(i, t)' /\ ResultVector'[i][t] = ResultVector[i][t] + 1
                BY <1>4, <3>1, OwesStep, ZenonT(30)
            <4> QED
                BY <4>2, <4>3, SMTT(30)
        <3>2. CASE ~(i = j /\ t = hand[j])
            <4>1. (Owes(i, t)' <=> Owes(i, t)) /\ ResultVector'[i][t] = ResultVector[i][t]
                BY <1>4, <3>2, OwesStep, ZenonT(30)
            <4> QED
                BY <4>1, Zenon DEF Single
        <3> QED
            BY <3>1, <3>2, Zenon
    <2> QED
        BY <2>2, <2>3, Zenon DEF Single
<1> QED
    BY <1>1, <1>2, <1>3, <1>4, TraceMoves, Zenon

\* A worker that has completed owes nothing getVeri waits for, and nobody does
\* once getVeri has left its waiting loop.
Stored(g) ==
    /\ cpc[g] \in WaitPhases \cup DonePhases =>
        \A i \in Workers : completedStateMap[i] => \A t \in due[g] : ~Owes(i, t)
    /\ cpc[g] \in DonePhases => \A i \in Workers, t \in due[g] : ~Owes(i, t)

\* What getVeri has merged so far.
Merged(g) ==
    /\ cpc[g] \in WaitPhases => \A t \in Traces : output[g][t] = 0
    /\ cpc[g] = "g_test" => idx[g] = 0
    /\ cpc[g] = "g_merge" => \A t \in Traces :
        /\ output[g][t] \in {0, 1}
        /\ output[g][t] = 1 => \E i \in Workers : i < idx[g] /\ ResultVector[i][t] = 1
        /\ t \in due[g] => \A i \in Workers :
                i < idx[g] /\ ResultVector[i][t] = 1 => output[g][t] = 1
    /\ cpc[g] \in {"g_clear", "g_wake", "g_reset"} => \A t \in Traces :
        /\ output[g][t] \in {0, 1}
        /\ output[g][t] = 1 => t \in sent
        /\ t \in due[g] => output[g][t] = 1

\* Nothing is owed and nothing merged at the start.
LEMMA InitResults ==
    ASSUME NEW p, NEW g, Use(p, g), Init
    PROVE  Single /\ Placed /\ Stored(g) /\ Merged(g)
<1>1. /\ sent = {} /\ VeriQueue = [i \in Workers |-> <<>>]
      /\ \A i \in Workers : wpc[i] = "unborn"
      /\ ResultVector = [i \in Workers |-> [t \in Traces |-> 0]]
    BY Zenon DEF Init
<1>2. cpc[g] \in {"create", "idle"}
    BY PoolAssumption, Zenon DEF Init, Use
<1>3. \A i \in Workers : ~Busy(i) /\ VeriQueue[i] = <<>>
    BY <1>1, Zenon DEF Busy
<1>4. \A i \in Workers, t \in Traces : ResultVector[i][t] = 0
    BY <1>1, Zenon
<1>5. \A i \in Workers : \A t : ~Owes(i, t)
    BY <1>3, HoldsEmpty, Zenon DEF Owes
<1>6. Single
    <2>1. Distinct(<<>>)
        BY SMTT(30) DEF Distinct
    <2> QED
        BY <1>3, <1>4, <1>5, <2>1, Zenon DEF Single
<1>7. Placed
    BY <1>1, <1>4, <1>5, Zenon DEF Placed, Given
<1>8. Stored(g) /\ Merged(g)
    BY <1>2, Zenon DEF Stored, Merged, WaitPhases, DonePhases
<1> QED
    BY <1>6, <1>7, <1>8, Zenon

\* Only a push makes a worker owe a trace, and only one that is not due.
LEMMA OwesOnlyPushed ==
    ASSUME NEW p, NEW g, Use(p, g), TypeInv, Roles(p, g), Once(p, g), Single, Placed, [Next]_vars,
           NEW i \in Workers, NEW t \in due[g], ~Owes(i, t)
    PROVE  ~Owes(i, t)'
<1>1. t \in Traces /\ t \in sent
    BY Zenon DEF Once, TypeInv, TypeOK
<1>2. ~(ExecPush(p) /\ t = arg[p])
    BY <1>1, ZenonT(30) DEF ExecPush, Goto, Once
<1> QED
    BY <1>1, <1>2, OwesStep, TraceMoves, Zenon

\* A completed worker is given only traces submitted after the call.
LEMMA NextStored ==
    ASSUME NEW p, NEW g, Use(p, g), TypeInv, Roles(p, g), Handshake(g), Once(p, g), NotDue(g),
           Single, Placed, Stored(g), [Next]_vars
    PROVE  Stored(g)'
<1>1. ASSUME cpc'[g] \in WaitPhases \cup DonePhases,
             NEW i \in Workers, completedStateMap'[i], NEW t \in due'[g]
      PROVE  ~Owes(i, t)'
    <2>1. CASE GetCall(g)
        <3>1. cpc[g] = "idle" /\ cpc[Main] \notin CtorPhases /\ UNCHANGED completedStateMap
            BY <2>1, SMTT(40) DEF GetCall, Goto, Alive, flags
        <3> QED
            BY <1>1, <3>1, SMTT(40) DEF Handshake, DoneUp, CtorPhases, WaitPhases
    <2>2. CASE ~GetCall(g)
        <3>1. cpc[g] \in WaitPhases \cup DonePhases /\ due'[g] = due[g]
            BY <1>1, <2>2, CollectorStep, ZenonT(30)
        <3>2. CASE Complete(i)
            <4>1. VeriQueue[i] = <<>> /\ wpc[i] = "complete"
                BY <3>2, Zenon DEF Complete, WGoto, NotDue
            <4>2. ~Owes(i, t)
                BY <4>1, HoldsEmpty, Zenon DEF Owes, Busy
            <4> QED
                BY <1>1, <3>1, <4>2, OwesOnlyPushed, Zenon
        <3>3. CASE ~Complete(i)
            <4>1. ~Owes(i, t)
                BY <1>1, <3>1, <3>3, CollectorStep, Zenon DEF Stored
            <4> QED
                BY <1>1, <3>1, <4>1, OwesOnlyPushed, Zenon
        <3> QED
            BY <3>2, <3>3, Zenon
    <2> QED
        BY <2>1, <2>2, Zenon
<1>2. ASSUME cpc'[g] \in DonePhases, NEW i \in Workers, NEW t \in due'[g]
      PROVE  ~Owes(i, t)'
    <2>1. due'[g] = due[g]
        <3>1. ~GetCall(g)
            <4>1. cpc \in [Clients -> ClientPhases] /\ g \in Clients
                BY Zenon DEF TypeInv, TypeOK, Use
            <4>2. GetCall(g) => cpc'[g] = "g_signal"
                BY <4>1, Zenon DEF GetCall, Goto
            <4> QED
                BY <1>2, <4>2, Zenon DEF DonePhases
        <3> QED
            BY <1>2, <3>1, CollectorStep, Zenon
    <2>2. CASE cpc[g] \in DonePhases
        BY <1>2, <2>1, <2>2, OwesOnlyPushed, Zenon DEF Stored
    <2>3. CASE cpc[g] \notin DonePhases
        <3>1. GetTest(g) /\ tmp[g] = N
            BY <1>2, <2>3, CollectorStep, Zenon
        <3>2. cpc[g] = "g_test"
            BY <3>1, Zenon DEF GetTest, Goto
        <3>3. completedStateMap[i]
            BY <3>1, <3>2, Zenon DEF Handshake, Counted
        <3>4. ~Owes(i, t)
            BY <1>2, <2>1, <3>2, <3>3, Zenon DEF Stored, WaitPhases
        <3> QED
            BY <1>2, <2>1, <3>4, OwesOnlyPushed, Zenon
    <2> QED
        BY <2>2, <2>3, Zenon
<1> QED
    BY <1>1, <1>2, Zenon DEF Stored

\* A result that is stored is of a trace the worker owed, and stays.
LEMMA ResultsGrow ==
    ASSUME NEW p, NEW g, Use(p, g), TypeInv, Roles(p, g), Once(p, g), Single, Placed, [Next]_vars,
           NEW i \in Workers, NEW t \in Traces
    PROVE  \/ ResultVector'[i][t] = ResultVector[i][t]
           \/ ResultVector[i][t] = 0 /\ ResultVector'[i][t] = 1 /\ Owes(i, t)
<1>1. ASSUME NEW j \in Workers, PushResult(j), i = j, t = hand[j]
      PROVE  ResultVector[i][t] = 0 /\ ResultVector'[i][t] = 1 /\ Owes(i, t)
    <2>1. Owes(i, t)
        BY <1>1, Zenon DEF PushResult, WGoto, Owes, Busy
    <2>2. ResultVector[i][t] = 0
        BY <2>1, Zenon DEF Single
    <2>3. ResultVector'[i][t] = ResultVector[i][t] + 1
        BY <1>1, OwesStep, Zenon
    <2> QED
        BY <2>1, <2>2, <2>3, SMTT(30)
<1>2. ASSUME NEW j \in Workers, PushResult(j), ~(i = j /\ t = hand[j])
      PROVE  ResultVector'[i][t] = ResultVector[i][t]
    BY <1>2, OwesStep, ZenonT(30)
<1> QED
    BY <1>1, <1>2, OwesStep, TraceMoves, Zenon

\* The merge of the results of one more worker.
LEMMA MergeStep ==
    ASSUME NEW p, NEW g, Use(p, g), TypeInv, Once(p, g), Single, Placed, Stored(g), Merged(g),
           GetMerge(g)
    PROVE  Merged(g)'
<1> USE PoolAssumption DEF Use
<1>0. /\ cpc \in [Clients -> ClientPhases] /\ idx \in [Clients -> Workers]
      /\ output \in [Clients -> [Traces -> Nat]] /\ ResultVector \in [Workers -> [Traces -> Nat]]
      /\ due \in [Clients -> SUBSET Traces]
    BY Zenon DEF TypeInv, TypeOK
<1>1. /\ cpc[g] = "g_merge" /\ UNCHANGED <<ResultVector, due, sent>>
      /\ output' = [output EXCEPT ![g] =
                        [t \in Traces |-> output[g][t] + ResultVector[idx[g]][t]]]
    BY Zenon DEF GetMerge, Iterate, pool, history
<1>2. \/ idx[g] + 1 < N /\ cpc'[g] = "g_merge" /\ idx'[g] = idx[g] + 1
      \/ idx[g] + 1 = N /\ cpc'[g] = "g_clear"
    BY <1>0, SMTT(30) DEF GetMerge, Iterate, Workers
<1>3. idx[g] \in Workers /\ Workers \subseteq Nat /\ \A i \in Workers : i < N
    BY <1>0, SMTT(30) DEF Workers
<1>4. ASSUME NEW t \in Traces
      PROVE  /\ output'[g][t] \in {0, 1}
             /\ output'[g][t] = 1 => \E i \in Workers : i < idx[g] + 1 /\ ResultVector[i][t] = 1
             /\ t \in due[g] => \A i \in Workers :
                    i < idx[g] + 1 /\ ResultVector[i][t] = 1 => output'[g][t] = 1
    <2>1. output'[g][t] = output[g][t] + ResultVector[idx[g]][t]
        BY <1>0, <1>1, Zenon
    <2>2. /\ output[g][t] \in {0, 1}
          /\ output[g][t] = 1 => \E i \in Workers : i < idx[g] /\ ResultVector[i][t] = 1
          /\ t \in due[g] => \A i \in Workers :
                i < idx[g] /\ ResultVector[i][t] = 1 => output[g][t] = 1
        BY <1>1, Zenon DEF Merged
    <2>3. ResultVector[idx[g]][t] \in {0, 1}
        BY <1>3, Zenon DEF Single
    <2>4. ASSUME NEW i \in Workers, i < idx[g], ResultVector[i][t] = 1
          PROVE  ResultVector[idx[g]][t] = 0
        <3>1. i # idx[g]
            BY <1>3, <2>4, SMTT(30)
        <3>2. Given(i, t)
            BY <2>4, SMTT(30) DEF Given
        <3>3. ~Given(idx[g], t)
            BY <1>3, <3>1, <3>2, Zenon DEF Placed
        <3> QED
            BY <3>3, Zenon DEF Given
    <2>5. ASSUME NEW i \in Workers
          PROVE  i < idx[g] + 1 <=> i < idx[g] \/ i = idx[g]
        <3>1. i \in Nat /\ idx[g] \in Nat
            BY <1>3, Zenon
        <3> QED
            BY <3>1, SMTT(30)
    <2>6. CASE ResultVector[idx[g]][t] = 0
        <3>1. output'[g][t] = output[g][t]
            BY <2>1, <2>2, <2>6, SMTT(30)
        <3>2. \A i \in Workers : ResultVector[i][t] = 1 => (i < idx[g] + 1 <=> i < idx[g])
            BY <2>5, <2>6, SMTT(30)
        <3> QED
            BY <2>2, <3>1, <3>2, Zenon
    <2>7. CASE ResultVector[idx[g]][t] = 1
        <3>1. output[g][t] = 0
            BY <2>2, <2>4, <2>7, Zenon
        <3>2. output'[g][t] = 1
            BY <2>1, <2>7, <3>1, SMTT(30)
        <3>3. idx[g] < idx[g] + 1
            BY <1>3, <2>5, Zenon
        <3> QED
            BY <1>3, <2>7, <3>2, <3>3, Zenon
    <2> QED
        BY <2>3, <2>6, <2>7, Zenon
<1>5. CASE idx[g] + 1 < N
    <2>1. cpc'[g] = "g_merge" /\ idx'[g] = idx[g] + 1
        BY <1>2, <1>3, <1>5, SMTT(30)
    <2>2. idx[g] + 1 = idx'[g] /\ ResultVector' = ResultVector /\ due' = due
        BY <1>1, <2>1, Zenon
    <2>3. \A t \in Traces :
            /\ output'[g][t] \in {0, 1}
            /\ output'[g][t] = 1 => \E i \in Workers : i < idx'[g] /\ ResultVector'[i][t] = 1
            /\ t \in due'[g] => \A i \in Workers :
                   i < idx'[g] /\ ResultVector'[i][t] = 1 => output'[g][t] = 1
        BY <1>4, <2>2, SMTT(30)
    <2>4. cpc'[g] \notin WaitPhases /\ cpc'[g] # "g_test"
          /\ cpc'[g] \notin {"g_clear", "g_wake", "g_reset"}
        BY <2>1, SMTT(30) DEF WaitPhases
    <2> QED
        BY <2>3, <2>4, Zenon DEF Merged
<1>6. CASE idx[g] + 1 = N
    <2>1. cpc'[g] = "g_clear"
        BY <1>2, <1>3, <1>6, SMTT(30)
    <2>2. ASSUME NEW t \in Traces
          PROVE  /\ output'[g][t] \in {0, 1}
                 /\ output'[g][t] = 1 => t \in sent
                 /\ t \in due[g] => output'[g][t] = 1
        <3>1. output'[g][t] = 1 => t \in sent
            <4>1. \A i \in Workers : ResultVector[i][t] = 1 => Given(i, t)
                BY SMTT(30) DEF Given
            <4> QED
                BY <1>4, <4>1, Zenon DEF Placed
        <3>2. ASSUME t \in due[g] PROVE output'[g][t] = 1
            <4>1. t \in sent
                BY <3>2, Zenon DEF Once
            <4>2. PICK i \in Workers : Given(i, t)
                BY <4>1, Zenon DEF Placed
            <4>3. ~Owes(i, t)
                BY <1>1, <3>2, Zenon DEF Stored, DonePhases
            <4>4. ResultVector[i][t] = 1
                BY <4>2, <4>3, Zenon DEF Given, Single
            <4> QED
                BY <1>3, <1>4, <1>6, <3>2, <4>4, Zenon
        <3> QED
            BY <1>4, <3>1, <3>2, Zenon
    <2> QED
        BY <1>1, <2>1, <2>2, Zenon DEF Merged, WaitPhases
<1> QED
    BY <1>2, <1>5, <1>6, Zenon

\* Every step keeps what has been merged.
LEMMA NextMerged ==
    ASSUME NEW p, NEW g, Use(p, g), TypeInv, Roles(p, g), Once(p, g), Single, Placed, Stored(g),
           Merged(g), [Next]_vars
    PROVE  Merged(g)'
<1> USE PoolAssumption DEF Use
<1>0. /\ cpc \in [Clients -> ClientPhases] /\ idx \in [Clients -> Workers]
      /\ output \in [Clients -> [Traces -> Nat]] /\ due \in [Clients -> SUBSET Traces]
      /\ ResultVector \in [Workers -> [Traces -> Nat]]
    BY Zenon DEF TypeInv, TypeOK
<1>q. ASSUME cpc'[g] \notin WaitPhases \cup DonePhases PROVE Merged(g)'
    BY <1>q, Zenon DEF Merged, WaitPhases, DonePhases
<1>s. ASSUME output'[g] = output[g], idx'[g] = idx[g], due'[g] = due[g], cpc'[g] = cpc[g]
      PROVE  Merged(g)'
    <2>1. \A i \in Workers, t \in Traces :
            \/ ResultVector'[i][t] = ResultVector[i][t]
            \/ ResultVector[i][t] = 0 /\ ResultVector'[i][t] = 1 /\ Owes(i, t)
        BY ResultsGrow, Zenon
    <2>2. sent \subseteq sent'
        BY HistoryStep, Zenon
    <2>3. CASE cpc[g] = "g_merge"
        <3>1. \A i \in Workers, t \in due[g] : ~Owes(i, t)
            BY <2>3, Zenon DEF Stored, DonePhases
        <3>2. ASSUME NEW t \in Traces
              PROVE  /\ output'[g][t] \in {0, 1}
                     /\ output'[g][t] = 1 => \E i \in Workers : i < idx'[g] /\ ResultVector'[i][t] = 1
                     /\ t \in due'[g] => \A i \in Workers :
                            i < idx'[g] /\ ResultVector'[i][t] = 1 => output'[g][t] = 1
            <4>1. /\ output[g][t] \in {0, 1}
                  /\ output[g][t] = 1 => \E i \in Workers : i < idx[g] /\ ResultVector[i][t] = 1
                  /\ t \in due[g] => \A i \in Workers :
                        i < idx[g] /\ ResultVector[i][t] = 1 => output[g][t] = 1
                BY <2>3, Zenon DEF Merged
            <4>2. \A i \in Workers : ResultVector[i][t] = 1 => ResultVector'[i][t] = 1
                BY <2>1, Zenon
            <4>3. t \in due[g] => \A i \in Workers : ResultVector'[i][t] = ResultVector[i][t]
                BY <2>1, <3>1, Zenon
            <4> QED
                BY <1>s, <4>1, <4>2, <4>3, Zenon
        <3> QED
            BY <1>s, <2>3, <3>2, Zenon DEF Merged, WaitPhases
    <2>4. CASE cpc[g] # "g_merge"
        BY <1>s, <2>2, <2>4, Zenon DEF Merged
    <2> QED
        BY <2>3, <2>4, Zenon
<1>1. CASE Ctor
    <2>1. cpc'[g] \notin WaitPhases \cup DonePhases
        <3>1. cpc[g] \notin WaitPhases \cup DonePhases
            BY <1>1, CtorFrame, Zenon DEF Roles, CtorPhases, WaitPhases, DonePhases
        <3> QED
            BY <1>1, <3>1, CtorFrame, SMTT(40) DEF CtorPhases, WaitPhases, DonePhases
    <2> QED
        BY <1>q, <2>1, Zenon
<1>2. CASE TermCall \/ Term
    <2>1. \A c \in Clients \ {Main} : cpc[c] = "idle"
        BY <1>2, Zenon DEF TermCall, Term, TermSignal, TermNotify, TermJoin, Iterate, Roles, DtorPhases
    <2>2. cpc'[g] \notin WaitPhases \cup DonePhases
        BY <1>2, <2>1, TermFrame, SMTT(40) DEF DtorPhases, WaitPhases, DonePhases
    <2> QED
        BY <1>q, <2>2, Zenon
<1>3. ASSUME NEW c \in Clients, ExecCall(c) \/ Exec(c) PROVE Merged(g)'
    <2>1. UNCHANGED <<output, idx, due>>
        BY <1>3, Zenon DEF ExecCall, Exec, ExecLock, ExecPush, ExecUnlock, ExecNotify, ExecLoad,
            ExecStore, history
    <2>2. cpc'[g] = cpc[g] \/ cpc'[g] \in ExecPhases \cup {"idle"}
        <3>1. CASE ExecCall(c)
            BY <1>0, <3>1, SMTT(40) DEF ExecCall, Goto, ExecPhases
        <3>2. CASE Exec(c)
            BY <3>2, ExecFrame, Zenon
        <3> QED
            BY <1>3, <3>1, <3>2, Zenon
    <2> QED
        BY <1>q, <1>s, <2>1, <2>2, Zenon DEF ExecPhases, WaitPhases, DonePhases
<1>4. ASSUME NEW c \in Clients, GetCall(c) PROVE Merged(g)'
    <2>1. c = g /\ cpc'[g] = "g_signal" /\ output'[g] = [t \in Traces |-> 0]
        BY <1>0, <1>4, Zenon DEF GetCall, Goto
    <2> QED
        BY <2>1, Zenon DEF Merged
<1>5. ASSUME NEW c \in Clients, Get(c) PROVE Merged(g)'
    <2>0. c = g
        BY <1>5, GetFrame, Zenon DEF Roles
    <2>1. CASE GetMerge(g)
        BY <2>1, MergeStep, Zenon
    <2>2. CASE GetTest(g)
        <3>1. /\ cpc[g] = "g_test" /\ UNCHANGED <<output, idx, due>>
              /\ cpc'[g] \in {"g_merge", "g_notify"}
            BY <1>0, <2>2, Zenon DEF GetTest, Goto, history
        <3>2. idx[g] = 0 /\ \A t \in Traces : output[g][t] = 0
            BY <3>1, Zenon DEF Merged, WaitPhases
        <3>3. /\ \A i \in Workers : ~(i < idx[g])
              /\ \A t \in Traces : output[g][t] \in {0, 1} /\ output[g][t] # 1
            BY <3>2, SMTT(30) DEF Workers
        <3> QED
            BY <3>1, <3>2, <3>3, ZenonT(30) DEF Merged
    <2>3. CASE GetSignal(g) \/ GetCount(g) \/ GetNotify(g)
        <3>1. /\ cpc[g] \in WaitPhases /\ UNCHANGED output
              /\ cpc'[g] \in {"g_signal", "g_count", "g_test", "g_notify"}
              /\ cpc'[g] = "g_test" => idx'[g] = 0
            BY <1>0, <2>3, Zenon DEF GetSignal, GetCount, GetNotify, Iterate, WaitPhases
        <3>2. \A t \in Traces : output[g][t] = 0
            BY <3>1, Zenon DEF Merged
        <3> QED
            BY <3>1, <3>2, Zenon DEF Merged
    <2>4. CASE GetClear(g) \/ GetWake(g) \/ GetReset(g)
        <3>1. /\ cpc[g] \in {"g_clear", "g_wake", "g_reset"}
              /\ UNCHANGED <<output, sent, due>>
              /\ cpc'[g] \in {"g_clear", "g_wake", "g_reset", "idle"}
            BY <1>0, <2>4, Zenon DEF GetClear, GetWake, GetReset, Iterate, history
        <3> QED
            BY <3>1, Zenon DEF Merged, WaitPhases
    <2> QED
        BY <1>5, <2>0, <2>1, <2>2, <2>3, <2>4, Zenon DEF Get
<1>6. ASSUME NEW i \in Workers, Worker(i) \/ SpuriousWake(i) PROVE Merged(g)'
    <2>1. UNCHANGED <<cpc, output, idx, due>>
        BY <1>6, WorkerFrame, Zenon DEF client
    <2> QED
        BY <1>s, <2>1, Zenon
<1>7. CASE UNCHANGED vars
    <2>1. UNCHANGED <<cpc, output, idx, due>>
        BY <1>7, Zenon DEF vars, client, history
    <2> QED
        BY <1>s, <2>1, Zenon
<1> QED
    BY <1>1, <1>2, <1>3, <1>4, <1>5, <1>6, <1>7, Zenon DEF Next, Gone, Call

\* The invariant of the results.
ResultInv(p, g) == PoolInv(p, g) /\ Single /\ Placed /\ Stored(g) /\ Merged(g)

\* For every number of workers, of traces and of calls, with one thread that
\* submits and one that collects: what getVeri returns holds one result of
\* each trace submitted before the call, at most one of any other.
THEOREM NoResultLost ==
    ASSUME NEW p, NEW g, Use(p, g), NoOldSignal
    PROVE  Spec => []ResultsComplete
<1>1. Init => ResultInv(p, g)
    BY InitPoolInv, InitResults, Zenon DEF ResultInv
<1>2. ResultInv(p, g) /\ [Next]_vars => ResultInv(p, g)'
    <2> SUFFICES ASSUME ResultInv(p, g), [Next]_vars PROVE ResultInv(p, g)'
        OBVIOUS
    <2>1. PoolInv(p, g)'
        BY NextPoolInv, Zenon DEF ResultInv
    <2>2. Single' /\ Placed' /\ Stored(g)' /\ Merged(g)'
        BY NextSingle, NextPlaced, NextStored, NextMerged, Zenon DEF ResultInv, PoolInv
    <2> QED
        BY <2>1, <2>2, Zenon DEF ResultInv
<1>3. ResultInv(p, g) => ResultsComplete
    <2> SUFFICES ASSUME ResultInv(p, g), NEW c \in Clients,
                        cpc[c] \in {"g_clear", "g_wake", "g_reset"}
                 PROVE  /\ \A t \in due[c] : output[c][t] = 1
                        /\ \A t \in Traces : output[c][t] <= IF t \in sent THEN 1 ELSE 0
        BY Zenon DEF ResultsComplete
    <2>1. c = g
        BY Zenon DEF ResultInv, PoolInv, Roles, DonePhases
    <2>2. \A t \in Traces :
            /\ output[g][t] \in {0, 1}
            /\ output[g][t] = 1 => t \in sent
            /\ t \in due[g] => output[g][t] = 1
        BY <2>1, Zenon DEF ResultInv, Merged
    <2>3. due[g] \subseteq Traces
        BY Zenon DEF ResultInv, PoolInv, TypeInv, TypeOK, Use
    <2> QED
        BY <2>1, <2>2, <2>3, SMTT(30)
<1> QED
    BY <1>1, <1>2, <1>3, PTL DEF Spec

=============================================================================
