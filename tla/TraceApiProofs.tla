--------------------------- MODULE TraceApiProofs ---------------------------
(***************************************************************************)
(* The worker pool is a test service, and a trace that it was given stays  *)
(* as it is until it has been tested, for every number of workers, of      *)
(* traces, of records and of calls.                                        *)
(***************************************************************************)
EXTENDS TraceApi, VeriPoolProofs

\* What the proofs use of the assumptions on the constants.
LEMMA MainIsClient == Main \in Clients
BY PoolAssumption, Zenon

\* What the constants of the interface are assumed to be.
LEMMA ApiConstants == NoTrace \notin Traces /\ MaxRecords \in Nat \ {0}
BY PoolAssumption, ApiAssumption, Zenon

\* How the threads inside the pool move, without what they do to the workers.
LEMMA CtorMoves ==
    ASSUME TypeInv, Ctor
    PROVE  /\ UNCHANGED <<fresh, arg, sent, tested, due>>
           /\ cpc[Main] \in CtorPhases /\ cpc'[Main] \in CtorPhases \cup {"idle"}
           /\ \A c \in Clients \ {Main} : cpc'[c] = cpc[c]
BY CtorFrame, ZenonT(60) DEF history

\* The destructor moves Main only.
LEMMA TermMoves ==
    ASSUME TypeInv, TermCall \/ Term
    PROVE  /\ UNCHANGED <<fresh, arg, sent, tested, due>>
           /\ Term => cpc[Main] \in DtorPhases
           /\ cpc[Main] \in DtorPhases \cup {"idle"} /\ cpc'[Main] \in DtorPhases
           /\ \A c \in Clients \ {Main} : cpc'[c] = cpc[c]
<1>1. Term => cpc[Main] \in {"t_signal", "t_notify", "t_join"}
    BY Zenon DEF Term, TermSignal, TermNotify, TermJoin, Iterate
<1>2. Term => cpc[Main] \in DtorPhases
    BY <1>1, Zenon DEF DtorPhases
<1> QED
    BY <1>2, TermFrame, ZenonT(60) DEF history

\* execVeri moves its caller only, and submits at the push.
LEMMA ExecMoves ==
    ASSUME TypeInv, NEW c \in Clients, Exec(c)
    PROVE  /\ UNCHANGED <<fresh, arg, tested, due>>
           /\ ~ExecPush(c) => UNCHANGED sent
           /\ cpc[c] \in ExecPhases /\ cpc'[c] \in ExecPhases \cup {"idle"}
           /\ \A d \in Clients \ {c} : cpc'[d] = cpc[d]
BY ExecFrame, ZenonT(60)

\* getVeri moves its caller only.
LEMMA GetMoves ==
    ASSUME TypeInv, NEW c \in Clients, Get(c)
    PROVE  /\ UNCHANGED <<fresh, arg, sent, tested, due>>
           /\ cpc[c] \in WaitPhases \cup DonePhases
           /\ cpc'[c] \in WaitPhases \cup DonePhases \cup {"idle"}
           /\ \A d \in Clients \ {c} : cpc'[d] = cpc[d]
BY GetFrame, ZenonT(60) DEF history

-----------------------------------------------------------------------------
(* The pool as a test service                                              *)

\* A worker has only what was submitted.
HasSent == \A i \in Workers : \A t : Has(i, t) => t \in sent

\* Outside of its waiting loop g has all that it waited for.
Collected(g) == cpc[g] \notin WaitPhases => due[g] \subseteq tested

\* The destructor runs when nothing is left to test.
AllTested == cpc[Main] \in DtorPhases => sent \subseteq tested

\* The pool's invariant, with what the service needs.
ServiceInv(p, g) == PoolInv(p, g) /\ HasSent /\ Collected(g) /\ AllTested

\* Nothing has been submitted when the constructor starts.
LEMMA InitServiceInv ==
    ASSUME NEW p, NEW g, Use(p, g), NoOldSignal, Init
    PROVE  ServiceInv(p, g)
<1>1. PoolInv(p, g)
    BY InitPoolInv, Zenon
<1>2. /\ due[g] = {} /\ sent = {}
      /\ \A i \in Workers : VeriQueue[i] = <<>> /\ wpc[i] = "unborn"
    BY SMTT(40) DEF Init, Use
<1> QED
    BY <1>1, <1>2, HoldsEmpty, Zenon DEF ServiceInv, HasSent, Has, Collected, AllTested

\* Who changes what the clients wait for, and how the destructor is entered.
LEMMA PhaseStep ==
    ASSUME NEW p, NEW g, Use(p, g), TypeInv, Roles(p, g), [Next]_vars
    PROVE  /\ cpc'[g] \notin WaitPhases =>
                due'[g] = due[g] /\ (cpc[g] \notin WaitPhases \/ cpc'[g] \in DonePhases)
           /\ cpc'[Main] \in DtorPhases => cpc[Main] \in DtorPhases \/ TermCall
           /\ cpc[Main] \in DtorPhases => ~ExecPush(p) /\ cpc'[Main] \in DtorPhases
<1> USE MainIsClient DEF Use, history
<1>0. cpc \in [Clients -> ClientPhases] /\ due \in [Clients -> SUBSET Traces]
    BY ZenonT(60) DEF TypeInv, TypeOK
<1>p. cpc[Main] \in DtorPhases => ~ExecPush(p)
    BY Zenon DEF ExecPush, Goto, Roles, DtorPhases
<1>1. CASE Ctor
    BY <1>p, <1>1, CtorMoves, SMTT(40) DEF CtorPhases, WaitPhases, DtorPhases
<1>2. CASE TermCall
    BY <1>p, <1>2, TermMoves, SMTT(40) DEF DtorPhases, WaitPhases
<1>3. CASE Term
    BY <1>p, <1>3, TermMoves, SMTT(40) DEF DtorPhases, WaitPhases
<1>4. ASSUME NEW c \in Clients, Call(c)
      PROVE  /\ cpc'[g] \notin WaitPhases => due'[g] = due[g] /\ cpc[g] \notin WaitPhases
             /\ cpc[Main] \notin DtorPhases /\ cpc'[Main] \notin DtorPhases
    <2>1. CASE ExecCall(c)
        BY <1>0, <2>1, SMTT(40) DEF ExecCall, Goto, Alive, WaitPhases, DtorPhases
    <2>2. CASE GetCall(c)
        BY <1>0, <2>2, SMTT(40) DEF GetCall, Goto, Alive, WaitPhases, DtorPhases
    <2> QED
        BY <1>4, <2>1, <2>2, Zenon DEF Call
<1>5. ASSUME NEW c \in Clients, Exec(c)
      PROVE  /\ cpc'[g] \notin WaitPhases => due'[g] = due[g] /\ cpc[g] \notin WaitPhases
             /\ cpc[Main] \notin DtorPhases /\ cpc'[Main] \notin DtorPhases
    BY <1>5, ExecMoves, SMTT(40) DEF Roles, ExecPhases, WaitPhases, DtorPhases
<1>6. ASSUME NEW c \in Clients, Get(c)
      PROVE  /\ cpc'[g] \notin WaitPhases =>
                  due'[g] = due[g] /\ (cpc[g] \notin WaitPhases \/ cpc'[g] \in DonePhases)
             /\ cpc[Main] \notin DtorPhases /\ cpc'[Main] \notin DtorPhases
    <2>1. c = g /\ UNCHANGED due
        BY <1>6, GetMoves, SMTT(40) DEF Roles
    <2>2. cpc[Main] \notin DtorPhases /\ cpc'[Main] \notin DtorPhases
        <3>1. Main # g => cpc'[Main] = cpc[Main] /\ cpc[Main] \notin DtorPhases
            BY <1>6, <2>1, GetMoves, SMTT(40) DEF Roles, WaitPhases, DonePhases
        <3>2. cpc[g] \in WaitPhases \cup DonePhases /\ cpc'[g] \in WaitPhases \cup DonePhases \cup {"idle"}
            BY <1>6, <2>1, GetMoves, ZenonT(60)
        <3> QED
            BY <3>1, <3>2, Zenon DEF WaitPhases, DonePhases, DtorPhases
    <2>3. cpc[g] \in WaitPhases => cpc'[g] \in WaitPhases \cup DonePhases
        BY <1>0, <1>6, <2>1, ZenonT(30) DEF Get, GetSignal, GetCount, GetTest, GetNotify, GetMerge,
            GetClear, GetWake, GetReset, Goto, Iterate, WaitPhases, DonePhases
    <2> QED
        BY <2>1, <2>2, <2>3, Zenon
<1>7. ASSUME NEW i \in Workers, Worker(i) \/ SpuriousWake(i) PROVE UNCHANGED <<due, cpc>>
    BY <1>7, WorkerFrame, ZenonT(60) DEF client
<1>8. CASE UNCHANGED vars
    BY <1>p, <1>8, SMTT(40) DEF vars, client
<1> QED
    BY <1>p, <1>1, <1>2, <1>3, <1>4, <1>5, <1>6, <1>7, <1>8, SMTT(40) DEF Next, Gone

\* getVeri before the destructor leaves nothing to test.
LEMMA TermTested ==
    ASSUME NEW p, NEW g, Use(p, g), GetResultBeforeExit, Collected(g), TermCall
    PROVE  sent \subseteq tested
BY SMTT(40) DEF Use, TermCall, Collected, WaitPhases

\* Every step keeps what the service needs.
LEMMA NextServiceInv ==
    ASSUME NEW p, NEW g, Use(p, g), GetResultBeforeExit, ServiceInv(p, g), [Next]_vars
    PROVE  ServiceInv(p, g)'
<1> USE DEF ServiceInv
<1>1. PoolInv(p, g)'
    BY NextPoolInv, Zenon
<1>2. TypeInv /\ Roles(p, g)
    BY Zenon DEF PoolInv
<1>3. tested \subseteq tested' /\ (sent' = sent \/ (ExecPush(p) /\ sent' = sent \cup {arg[p]}))
    BY <1>2, HistoryStep, Zenon
<1>4. HasSent'
    <2>1. ASSUME NEW i \in Workers, NEW t, Has(i, t)' PROVE t \in sent'
        <3>1. Has(i, t) \/ (ExecPush(p) /\ t = arg[p])
            BY <1>2, <2>1, HasStep, Zenon
        <3>2. ExecPush(p) => sent' = sent \cup {arg[p]}
            BY Zenon DEF ExecPush
        <3> QED
            BY <1>3, <3>1, <3>2, Zenon DEF HasSent
    <2> QED
        BY <2>1, Zenon DEF HasSent
<1>5. Collected(g)'
    <2>1. cpc'[g] \in DonePhases => due'[g] \subseteq tested'
        BY <1>1, Zenon DEF PoolInv, DueTested
    <2> QED
        BY <1>2, <1>3, <2>1, PhaseStep, SMTT(40) DEF Collected
<1>6. AllTested'
    <2>1. CASE TermCall
        BY <1>3, <2>1, TermTested, SMTT(40) DEF AllTested, TermCall, history
    <2>2. CASE ~TermCall
        BY <1>2, <1>3, <2>2, PhaseStep, SMTT(40) DEF AllTested
    <2> QED
        BY <2>1, <2>2, Zenon
<1> QED
    BY <1>1, <1>4, <1>5, <1>6, Zenon

-----------------------------------------------------------------------------
(* The refinement                                                          *)

\* What client c waits for, in the terms of TestService
Awaited(c) == IF cpc[c] \in WaitPhases \cup DonePhases THEN <<due[c]>> ELSE <<>>

\* Each step of the pool is a step of the service or leaves it as it is.
LEMMA NextServes ==
    ASSUME NEW p, NEW g, Use(p, g), GetResultBeforeExit, ServiceInv(p, g), [Next]_vars
    PROVE  [Service!Next]_(Service!vars)
<1> DEFINE awaited == [c \in Clients |-> Awaited(c)]
           closed == cpc[Main] \in DtorPhases
<1> USE MainIsClient DEF Use
<1>0. TypeInv /\ Roles(p, g) /\ cpc \in [Clients -> ClientPhases] /\ due \in [Clients -> SUBSET Traces]
    BY ZenonT(60) DEF ServiceInv, PoolInv, TypeInv, TypeOK
<1>s. ASSUME UNCHANGED <<sent, tested>>, closed' = closed, \A c \in Clients : Awaited(c)' = Awaited(c)
      PROVE  UNCHANGED Service!vars
    BY <1>s, SMTT(40) DEF Service!vars, Awaited
<1>1. CASE Ctor
    <2>1. UNCHANGED <<sent, tested, due>> /\ closed' = closed
        BY <1>0, <1>1, CtorMoves, SMTT(30) DEF history, CtorPhases, DtorPhases
    <2>2. \A c \in Clients : Awaited(c)' = Awaited(c)
        BY <1>0, <1>1, <2>1, CtorMoves, Zenon DEF Awaited, CtorPhases, WaitPhases, DonePhases
    <2> QED
        BY <1>s, <2>1, <2>2, Zenon
<1>2. CASE TermCall
    <2>1. /\ UNCHANGED <<sent, tested, due>> /\ ~closed /\ closed'
          /\ \A c \in Clients : cpc[c] = "idle"
        <3>1. \A c \in Clients : cpc[c] = "idle"
            BY <1>2, Zenon DEF TermCall
        <3> QED
            BY <1>0, <1>2, <3>1, TermMoves, SMTT(40) DEF DtorPhases
    <2>2. \A c \in Clients : Awaited(c) = <<>> /\ Awaited(c)' = <<>>
        BY <1>0, <1>2, <2>1, TermMoves, SMTT(40) DEF Awaited, WaitPhases, DonePhases, DtorPhases
    <2>3. sent \subseteq tested
        BY <1>2, TermTested, Zenon DEF ServiceInv
    <2>4. Service!Close
        <3>1. awaited' = awaited /\ \A c \in Clients : awaited[c] = <<>>
            BY <2>2, SMTT(40)
        <3> QED
            BY <2>1, <2>3, <3>1, Zenon DEF Service!Close, Service!NotWaiting, Awaited
    <2> QED
        BY <2>4, Zenon DEF Service!Next
<1>3. CASE Term
    <2>1. UNCHANGED <<sent, tested, due>> /\ closed' = closed
        BY <1>0, <1>3, TermMoves, SMTT(40)
    <2>2. \A c \in Clients : Awaited(c)' = Awaited(c)
        BY <1>0, <1>3, <2>1, TermMoves, SMTT(40) DEF Awaited, DtorPhases, WaitPhases, DonePhases
    <2> QED
        BY <1>s, <2>1, <2>2, Zenon
<1>4. ASSUME NEW c \in Clients, ExecCall(c) PROVE UNCHANGED Service!vars
    <2>1. UNCHANGED <<sent, tested, due>> /\ cpc' = [cpc EXCEPT ![c] = "x_lock"] /\ cpc[c] = "idle"
        BY <1>4, Zenon DEF ExecCall, Goto, history
    <2>2. closed' = closed
        BY <1>0, <2>1, SMTT(40) DEF DtorPhases
    <2>3. \A d \in Clients : Awaited(d)' = Awaited(d)
        BY <1>0, <2>1, SMTT(40) DEF Awaited, WaitPhases, DonePhases
    <2> QED
        BY <1>s, <2>1, <2>2, <2>3, Zenon
<1>5. ASSUME NEW c \in Clients, GetCall(c) PROVE Service!Call(c)
    <2>1. /\ UNCHANGED <<sent, tested>> /\ cpc[c] = "idle" /\ ~closed
          /\ cpc' = [cpc EXCEPT ![c] = "g_signal"] /\ due' = [due EXCEPT ![c] = sent]
        BY <1>5, Zenon DEF GetCall, Goto, Alive
    <2>2. ~closed'
        BY <1>0, <2>1, SMTT(40) DEF DtorPhases
    <2>3. /\ Awaited(c) = <<>> /\ Awaited(c)' = <<sent>>
          /\ \A d \in Clients \ {c} : Awaited(d)' = Awaited(d)
        BY <1>0, <2>1, SMTT(40) DEF Awaited, WaitPhases, DonePhases
    <2>4. awaited' = [awaited EXCEPT ![c] = <<sent>>]
        BY <2>3, Zenon
    <2> QED
        BY <2>1, <2>2, <2>3, <2>4, SMTT(40) DEF Service!Call, Service!NotWaiting, Service!Awaiting, Awaited
<1>6. ASSUME NEW c \in Clients, Exec(c) PROVE Service!Next \/ UNCHANGED Service!vars
    <2>1. /\ UNCHANGED <<tested, due>> /\ ~closed /\ ~closed'
          /\ \A d \in Clients : Awaited(d)' = Awaited(d)
        BY <1>0, <1>6, ExecMoves, SMTT(40) DEF Roles, ExecPhases, DtorPhases, Awaited, WaitPhases,
            DonePhases
    <2>2. CASE ExecPush(c)
        <3>1. sent' = sent \cup {arg[c]} /\ arg[c] \in Traces
            BY <1>0, <2>2, Zenon DEF ExecPush, Goto, TypeInv
        <3>2. Service!Submit(arg[c])
            <4>1. awaited' = awaited
                BY <2>1, Zenon
            <4>2. closed' = closed
                BY <2>1, SMTT(30)
            <4> QED
                BY <2>1, <3>1, <4>1, <4>2, Zenon DEF Service!Submit, Awaited
        <3> QED
            BY <3>1, <3>2, Zenon DEF Service!Next
    <2>3. CASE ~ExecPush(c)
        <3>1. UNCHANGED sent
            BY <1>0, <1>6, <2>3, ExecMoves, Zenon
        <3>2. closed' = closed
            BY <2>1, SMTT(30)
        <3> QED
            BY <1>s, <2>1, <3>1, <3>2, Zenon
    <2> QED
        BY <2>2, <2>3, Zenon
<1>7. ASSUME NEW c \in Clients, Get(c) PROVE Service!Next \/ UNCHANGED Service!vars
    <2>1. /\ c = g /\ UNCHANGED <<sent, tested, due>> /\ ~closed /\ ~closed'
          /\ cpc[c] \in WaitPhases \cup DonePhases
          /\ \A d \in Clients \ {c} : Awaited(d)' = Awaited(d)
        <3>1. c = g /\ cpc[Main] \notin DtorPhases /\ cpc'[Main] \notin DtorPhases
            BY <1>0, <1>7, GetMoves, SMTT(40) DEF Roles, WaitPhases, DonePhases, DtorPhases
        <3> QED
            BY <1>0, <1>7, <3>1, GetMoves, ZenonT(60) DEF Awaited
    <2>2. CASE cpc'[c] \in WaitPhases \cup DonePhases
        BY <1>s, <2>1, <2>2, SMTT(30) DEF Awaited
    <2>3. CASE cpc'[c] \notin WaitPhases \cup DonePhases
        <3>1. due[c] \subseteq tested
            <4>1. cpc[c] \in DonePhases
                <5>1. cpc'[g] \notin WaitPhases /\ cpc'[g] \notin DonePhases
                    BY <2>1, <2>3, Zenon
                <5>2. cpc[g] \notin WaitPhases
                    BY <1>0, <5>1, PhaseStep, ZenonT(60)
                <5> QED
                    BY <2>1, <5>2, Zenon
            <4> QED
                BY <2>1, <4>1, Zenon DEF ServiceInv, PoolInv, DueTested
        <3>2. Awaited(c) = <<due[c]>> /\ Awaited(c)' = <<>>
            BY <2>1, <2>3, Zenon DEF Awaited
        <3>3. awaited' = [awaited EXCEPT ![c] = <<>>]
            BY <2>1, <3>2, Zenon
        <3>4. Service!Return(c)
            BY <2>1, <3>1, <3>2, <3>3, SMTT(40) DEF Service!Return, Service!NotWaiting,
                Service!Awaiting, Awaited
        <3> QED
            BY <3>4, Zenon DEF Service!Next
    <2> QED
        BY <2>2, <2>3, Zenon
<1>8. ASSUME NEW i \in Workers, Worker(i) \/ SpuriousWake(i)
      PROVE  Service!Next \/ UNCHANGED Service!vars
    <2>1. UNCHANGED <<cpc, sent, due>>
        BY <1>0, <1>8, WorkerFrame, Zenon DEF client
    <2>2. closed' = closed /\ \A c \in Clients : Awaited(c)' = Awaited(c)
        BY <2>1, Zenon DEF Awaited
    <2>3. CASE RunVeriProc(i)
        <3>1. hand[i] \in Traces /\ Has(i, hand[i]) /\ tested' = tested \cup {hand[i]}
            BY <1>0, <2>3, SMTT(40) DEF RunVeriProc, WGoto, TypeInv, Has
        <3>2. hand[i] \in sent
            BY <3>1, Zenon DEF ServiceInv, HasSent
        <3>3. CASE closed
            BY <1>s, <2>1, <2>2, <3>1, <3>2, <3>3, Zenon DEF ServiceInv, AllTested
        <3>4. CASE ~closed
            <4>1. Service!Test(hand[i])
                BY <2>1, <2>2, <3>1, <3>2, <3>4, SMTT(40) DEF Service!Test, Awaited
            <4> QED
                BY <3>1, <4>1, SMTT(40) DEF Service!Next
        <3> QED
            BY <3>3, <3>4, Zenon
    <2>4. CASE ~RunVeriProc(i)
        <3>1. UNCHANGED tested
            BY <1>8, <2>4, ZenonT(60) DEF Worker, Spin, SpuriousWake, Lock, WhileTerm, WhileGet,
                WhileSize, IfTerm, IfDone, IfGet, IfSize, Complete, IfQueue, PushResult, history
        <3> QED
            BY <1>s, <2>1, <2>2, <3>1, Zenon
    <2> QED
        BY <2>3, <2>4, Zenon
<1>9. CASE UNCHANGED vars
    BY <1>s, <1>9, ZenonT(30) DEF vars, client, history, Awaited
<1> QED
    BY <1>1, <1>2, <1>3, <1>4, <1>5, <1>6, <1>7, <1>8, <1>9, SMTT(40) DEF Next, Gone, Call, Service!Next

\* For every number of workers, of traces and of calls, with one thread that
\* submits and one that collects and calls getVeri before the instance is
\* destroyed: the pool implements TestService.
THEOREM PoolServes ==
    ASSUME NEW p, NEW g, Use(p, g), NoOldSignal, GetResultBeforeExit
    PROVE  Spec => ServesTraces
<1>1. Init => ServiceInv(p, g)
    BY InitServiceInv, Zenon
<1>2. ServiceInv(p, g) /\ [Next]_vars => ServiceInv(p, g)'
    BY NextServiceInv, Zenon
<1>3. Init => Service!Init
    BY MainIsClient, SMTT(30) DEF Init, Service!Init, Service!NotWaiting, WaitPhases, DonePhases, DtorPhases
<1>4. ServiceInv(p, g) /\ [Next]_vars => [Service!Next]_(Service!vars)
    BY NextServes, Zenon
<1> QED
    BY <1>1, <1>2, <1>3, <1>4, PTL DEF Spec, ServesTraces, Service!Spec

-----------------------------------------------------------------------------
(* The life of a trace                                                     *)

\* The calls of the interface use the pool as its clients do.
LEMMA ApiUsesPool ==
    /\ ApiInit => Init
    /\ [ApiNext]_allvars => [Next]_vars
<1>1. ApiInit => Init
    BY Zenon DEF ApiInit
<1>2. ASSUME ApiNext PROVE [Next]_vars
    <2>1. ASSUME CreateVectors \/ C_getNewMetadataPtr \/ PMTest_START \/ PMTest_END \/ C_createMetadata
          PROVE  UNCHANGED vars
        BY <2>1, SMTT(40) DEF CreateVectors, C_getNewMetadataPtr, PMTest_START, PMTest_END, C_createMetadata
    <2>2. ASSUME C_sendTrace \/ C_execVeri PROVE ExecCall(recorder)
        BY <2>2, Zenon DEF C_sendTrace, C_execVeri, Pass
    <2>3. ExecCall(recorder) => \E c \in Clients : Call(c)
        <3>1. Producers \subseteq Clients
            BY PoolAssumption, Zenon
        <3> QED
            BY <3>1, Zenon DEF ExecCall, Call
    <2>4. ASSUME NEW c \in Clients, C_getVeri(c) \/ C_deleteMetadataVector(c)
          PROVE  Call(c) \/ UNCHANGED vars
        BY <2>4, Zenon DEF C_getVeri, C_deleteMetadataVector, Call
    <2>5. C_exitVeri \/ C_deleteVeriInstance => TermCall
        BY Zenon DEF C_exitVeri, C_deleteVeriInstance
    <2>6. PoolStep => Next
        BY Zenon DEF PoolStep, Next
    <2> QED
        BY <1>2, <2>1, <2>2, <2>3, <2>4, <2>5, <2>6, ZenonT(60) DEF ApiNext, Next
<1>3. UNCHANGED allvars => UNCHANGED vars
    BY Zenon DEF allvars
<1> QED
    BY <1>1, <1>2, <1>3, Zenon

\* For every number of workers, of traces, of records and of calls: what the
\* pool promises it promises to a program that uses the C interface.
THEOREM ApiServes ==
    ASSUME NEW p, NEW g, Use(p, g), NoOldSignal, GetResultBeforeExit
    PROVE  ApiSpec => ServesTraces
<1>1. ApiSpec => Spec
    BY ApiUsesPool, PTL DEF ApiSpec, Spec
<1> QED
    BY <1>1, PoolServes, PTL

\* Trace t was created, was given to execVeri.
Created(t) == \E k \in DOMAIN metadataVectorPtr : metadataVectorPtr[k] = t
Passed(t) == passed[t] # NotPassed

\* Thread p is about to push t.
Pushing(p, t) == cpc[p] \in {"x_lock", "x_push"} /\ arg[p] = t

\* A trace is created before it is passed, complete when it is passed, and
\* passed once; what is passed is pushed.
PassedOnce(p) ==
    /\ \A t \in Traces : Passed(t) =>
        /\ Created(t) /\ t \notin fresh
        /\ cur_size[t] = MaxRecords /\ passed[t] = <<MaxRecords>>
        /\ t \in sent \/ Pushing(p, t)
    /\ \A t \in Traces : t \in sent \/ Pushing(p, t) => Passed(t)

\* A created trace is alive as long as nobody has passed it, and a passed one
\* until it has been tested.
KeptAlive ==
    \A t \in Traces :
        /\ Created(t) /\ ~Passed(t) /\ cpc[Main] \notin DtorPhases => memory[t] = "live"
        /\ Passed(t) /\ t \notin tested => memory[t] = "live"

\* The sections are used in the order in which they were created.
InOrder ==
    /\ \A i, j \in DOMAIN metadataVectorPtr :
            metadataVectorPtr[i] = metadataVectorPtr[j] => i = j
    /\ api = "sections" =>
        /\ metadataPtr # NoTrace =>
            /\ pmtest_cur_idx < Len(metadataVectorPtr)
            /\ metadataPtr = metadataVectorPtr[pmtest_cur_idx + 1]
        /\ \A k \in DOMAIN metadataVectorPtr :
                k > pmtest_cur_idx => ~Passed(metadataVectorPtr[k])

\* Where the recorder records.
Recording ==
    /\ metadataPtr # NoTrace => Created(metadataPtr)
    /\ api = "vectors" /\ existVeriInstance => metadataPtr # NoTrace /\ ~Passed(metadataPtr)
    /\ \A t \in Traces : cur_size[t] <= vector_max_size[t] /\ vector_max_size[t] >= 1

ApiInv(p) == ApiTypeOK /\ PassedOnce(p) /\ KeptAlive /\ InOrder /\ Recording

\* No trace has been created at the start.
LEMMA InitApiInv ==
    ASSUME NEW p, NEW g, Use(p, g), ApiInit
    PROVE  ApiInv(p)
<1> USE PoolAssumption, ApiAssumption DEF Use
<1>1. /\ sent = {} /\ cpc[p] \in {"create", "idle"}
      /\ metadataVectorPtr = <<>> /\ metadataPtr = NoTrace /\ existVeriInstance = FALSE
      /\ DOMAIN metadataVectorPtr = {}
      /\ \A t \in Traces : passed[t] = NotPassed
    BY SMTT(40) DEF ApiInit, Init
<1>2. ApiTypeOK
    <2>1. existVeriInstance \in BOOLEAN
        BY <1>1, Zenon
    <2>2. metadataVectorPtr \in Seq(Traces) /\ pmtest_cur_idx \in 0 .. Len(metadataVectorPtr)
        BY SMTT(40) DEF ApiInit
    <2>3. api \in {"sections", "vectors"} /\ recorder \in Clients /\ metadataPtr \in Traces \cup {NoTrace}
        BY SMTT(40) DEF ApiInit
    <2>4. /\ memory \in [Traces -> {"none", "live", "emptied", "deleted"}]
          /\ cur_size \in [Traces -> Nat] /\ vector_max_size \in [Traces -> Nat]
          /\ passed \in [Traces -> {NotPassed} \cup Seq(Nat)]
        BY SMTT(40) DEF ApiInit
    <2> QED
        BY <2>1, <2>2, <2>3, <2>4, Zenon DEF ApiTypeOK
<1>3. PassedOnce(p) /\ KeptAlive
    BY <1>1, Zenon DEF PassedOnce, KeptAlive, Passed, Created, Pushing
<1>4. InOrder /\ Recording
    <2>1. /\ cur_size = [t \in Traces |-> 0] /\ vector_max_size = [t \in Traces |-> vector_init_size]
          /\ vector_init_size \in Nat \ {0}
        BY Zenon DEF ApiInit
    <2> QED
        BY <1>1, <2>1, SMTT(30) DEF InOrder, Recording
<1> QED
    BY <1>2, <1>3, <1>4, Zenon DEF ApiInv

\* The steps inside the pool leave the traces of the interface alone.
LEMMA PoolStepFrame ==
    ASSUME NEW p, NEW g, Use(p, g), TypeInv, Roles(p, g), PoolStep
    PROVE  /\ UNCHANGED <<apivars, fresh, arg>>
           /\ tested \subseteq tested'
           /\ cpc'[Main] \in DtorPhases <=> cpc[Main] \in DtorPhases
           /\ \/ /\ UNCHANGED sent
                 /\ cpc'[p] \in {"x_lock", "x_push"} <=> cpc[p] \in {"x_lock", "x_push"}
              \/ /\ sent' = sent \cup {arg[p]}
                 /\ cpc[p] = "x_push" /\ cpc'[p] = "x_unlock"
<1> USE MainIsClient DEF Use
<1>0. cpc \in [Clients -> ClientPhases]
    BY ZenonT(60) DEF TypeInv, TypeOK
<1>a. UNCHANGED apivars
    BY Zenon DEF PoolStep
<1>1. CASE Ctor
    BY <1>a, <1>1, CtorMoves, SMTT(40) DEF CtorPhases, DtorPhases
<1>2. CASE Term
    BY <1>a, <1>2, TermMoves, SMTT(40) DEF DtorPhases
<1>3. ASSUME NEW c \in Clients, Exec(c)
      PROVE  /\ c = p /\ UNCHANGED <<fresh, arg, tested>>
             /\ cpc'[Main] \in DtorPhases <=> cpc[Main] \in DtorPhases
             /\ \/ /\ UNCHANGED sent
                   /\ cpc'[p] \in {"x_lock", "x_push"} <=> cpc[p] \in {"x_lock", "x_push"}
                \/ /\ sent' = sent \cup {arg[p]}
                   /\ cpc[p] = "x_push" /\ cpc'[p] = "x_unlock"
    <2>1. c = p /\ UNCHANGED <<fresh, arg, tested>>
        BY <1>3, ExecMoves, ZenonT(60) DEF Roles, ExecPhases
    <2>2. cpc'[Main] \in DtorPhases <=> cpc[Main] \in DtorPhases
        BY <1>3, ExecMoves, SMTT(40) DEF ExecPhases, DtorPhases
    <2>3. CASE ExecPush(p)
        BY <1>0, <2>1, <2>2, <2>3, SMTT(40) DEF ExecPush, Goto
    <2>4. CASE ~ExecPush(p)
        <3>1. UNCHANGED sent
            BY <1>3, <2>1, <2>4, ExecMoves, Zenon
        <3>2. cpc'[p] \in {"x_lock", "x_push"} <=> cpc[p] \in {"x_lock", "x_push"}
            <4>1. \/ Goto(p, "x_lock", "x_push") \/ Goto(p, "x_unlock", "x_notify")
                  \/ Goto(p, "x_notify", "x_load") \/ Goto(p, "x_load", "x_store")
                  \/ Goto(p, "x_store", "idle")
                BY <1>3, <2>1, <2>4, ZenonT(60) DEF Exec, ExecLock, ExecUnlock, ExecNotify, ExecLoad, ExecStore
            <4> QED
                BY <1>0, <4>1, Zenon DEF Goto
        <3> QED
            BY <2>1, <2>2, <3>1, <3>2, Zenon
    <2> QED
        BY <2>3, <2>4, Zenon
<1>4. ASSUME NEW c \in Clients, Get(c)
      PROVE  /\ UNCHANGED <<fresh, arg, sent, tested>>
             /\ cpc'[Main] \in DtorPhases <=> cpc[Main] \in DtorPhases
             /\ cpc'[p] \in {"x_lock", "x_push"} <=> cpc[p] \in {"x_lock", "x_push"}
    BY <1>4, GetMoves, SMTT(40) DEF WaitPhases, DonePhases, DtorPhases
<1>5. ASSUME NEW i \in Workers, Worker(i) \/ SpuriousWake(i)
      PROVE  UNCHANGED <<fresh, arg, sent, cpc>> /\ tested \subseteq tested'
    BY <1>5, WorkerFrame, ZenonT(60) DEF client
<1>6. CASE Gone
    <2>1. UNCHANGED <<cpc, fresh, arg, sent, tested>>
        BY <1>6, Zenon DEF Gone, vars, client, history
    <2> QED
        BY <1>a, <2>1, Zenon
<1> QED
    <2>1. ASSUME NEW c \in Clients, Exec(c) PROVE tested \subseteq tested'
        BY <1>3, <2>1, Zenon
    <2>2. ASSUME NEW c \in Clients, Get(c) PROVE tested \subseteq tested'
        BY <1>4, <2>2, Zenon
    <2> QED
        BY <1>a, <1>1, <1>2, <1>3, <1>4, <1>5, <1>6, <2>1, <2>2, ZenonT(60) DEF PoolStep

\* A step of the pool keeps the invariant: it pushes what was passed, and only
\* adds to what has been tested.
LEMMA PoolStepApiInv ==
    ASSUME NEW p, NEW g, Use(p, g), TypeInv, Roles(p, g), ApiInv(p), PoolStep
    PROVE  ApiInv(p)'
<1>1. UNCHANGED apivars
    BY Zenon DEF PoolStep
<1>2. /\ UNCHANGED <<api, recorder, metadataVectorPtr, pmtest_cur_idx, metadataPtr>>
      /\ UNCHANGED <<existVeriInstance, memory, cur_size, vector_max_size, passed>>
    BY <1>1, Zenon DEF apivars, sections, vectors
<1>3. ApiTypeOK' /\ InOrder' /\ Recording'
    BY <1>2, Zenon DEF ApiInv, ApiTypeOK, InOrder, Recording, Passed, Created
<1>4. \A t \in Traces : (Passed(t)' <=> Passed(t)) /\ (Created(t)' <=> Created(t))
    BY <1>2, Zenon DEF Passed, Created
<1>5. \A t \in Traces : (t \in sent' \/ Pushing(p, t)') <=> (t \in sent \/ Pushing(p, t))
    <2>1. CASE UNCHANGED <<sent, arg>> /\ (cpc'[p] \in {"x_lock", "x_push"} <=> cpc[p] \in {"x_lock", "x_push"})
        BY <2>1, Zenon DEF Pushing
    <2>2. CASE UNCHANGED arg /\ sent' = sent \cup {arg[p]} /\ cpc[p] = "x_push" /\ cpc'[p] = "x_unlock"
        BY <2>2, Zenon DEF Pushing
    <2> QED
        BY <2>1, <2>2, PoolStepFrame, Zenon
<1>6. PassedOnce(p)'
    BY <1>2, <1>4, <1>5, PoolStepFrame, ZenonT(60) DEF ApiInv, PassedOnce
<1>7. KeptAlive'
    BY <1>2, <1>4, PoolStepFrame, SMTT(40) DEF ApiInv, KeptAlive
<1> QED
    BY <1>3, <1>6, <1>7, Zenon DEF ApiInv

\* What the program does outside of the pool leaves it as it is.
LEMMA QuietPool ==
    ASSUME NEW p, UNCHANGED vars
    PROVE  /\ UNCHANGED <<cpc, arg, fresh, sent, tested>>
           /\ \A t : Pushing(p, t)' <=> Pushing(p, t)
BY Zenon DEF vars, client, history, Pushing

\* New traces are created when there are none.
LEMMA CreateApiInv ==
    ASSUME NEW p, ApiInv(p), CreateVectors
    PROVE  ApiInv(p)'
<1> USE PoolAssumption, ApiAssumption DEF NotPassed
<1>1. /\ UNCHANGED vars /\ UNCHANGED <<api, recorder, existVeriInstance, cur_size, vector_max_size, passed>>
      /\ metadataVectorPtr = <<>> /\ pmtest_cur_idx' = 0
      /\ metadataPtr' = IF api = "sections" THEN metadataVectorPtr'[1] ELSE NoTrace
      /\ memory' = [t \in Traces |-> IF Created(t)' THEN "live" ELSE "none"]
    BY Zenon DEF CreateVectors, Created
<1>2. ApiTypeOK
    BY Zenon DEF ApiInv
<1>3. PICK n \in Nat \ {0} :
        /\ metadataVectorPtr' \in [1 .. n -> Traces]
        /\ \A i, j \in DOMAIN metadataVectorPtr' : i # j => metadataVectorPtr'[i] # metadataVectorPtr'[j]
    <2>1. metadataVectorPtr' \in Orders
        BY Zenon DEF CreateVectors
    <2>2. metadataVectorLen[api] \in 1 .. Cardinality(Traces)
        BY <1>2, Zenon DEF ApiTypeOK
    <2>3. metadataVectorLen[api] \in Nat \ {0}
        BY <2>2, SMTT(30)
    <2> QED
        BY <2>1, <2>3, Zenon DEF Orders
<1>4. /\ metadataVectorPtr' \in Seq(Traces) /\ Len(metadataVectorPtr') = n
      /\ DOMAIN metadataVectorPtr' = 1 .. n /\ 1 \in 1 .. n /\ metadataVectorPtr'[1] \in Traces
    BY <1>3, SMTT(30)
<1>5. \A t \in Traces : ~Passed(t) /\ ~Passed(t)'
    <2>1. \A t \in Traces : ~Created(t)
        BY <1>1, SMTT(30) DEF Created
    <2>2. \A t \in Traces : ~Passed(t)
        BY <2>1, Zenon DEF ApiInv, PassedOnce
    <2> QED
        BY <1>1, <2>2, Zenon DEF Passed
<1>6. ApiTypeOK'
    <2>1. /\ pmtest_cur_idx' \in 0 .. Len(metadataVectorPtr') /\ metadataPtr' \in Traces \cup {NoTrace}
          /\ memory' \in [Traces -> {"none", "live", "emptied", "deleted"}]
        BY <1>1, <1>4, SMTT(30)
    <2> QED
        BY <1>1, <1>2, <1>4, <2>1, Zenon DEF ApiTypeOK
<1>7. PassedOnce(p)'
    BY <1>1, <1>5, QuietPool, Zenon DEF ApiInv, PassedOnce
<1>8. KeptAlive'
    BY <1>1, <1>5, Zenon DEF KeptAlive
<1>9. InOrder'
    <2>1. \A k \in DOMAIN metadataVectorPtr' : metadataVectorPtr'[k] \in Traces
        BY <1>3, <1>4, Zenon
    <2> QED
        BY <1>1, <1>3, <1>4, <1>5, <2>1, SMTT(40) DEF InOrder
<1>10. Recording'
    <2>1. metadataPtr' # NoTrace => Created(metadataPtr)'
        BY <1>1, <1>4, Zenon DEF Created
    <2>2. ~(api' = "vectors" /\ existVeriInstance')
        <3>1. api = "vectors" /\ existVeriInstance => metadataPtr # NoTrace /\ Created(metadataPtr)
            BY Zenon DEF ApiInv, Recording
        <3>2. ~Created(metadataPtr)
            BY <1>1, SMTT(30) DEF Created
        <3> QED
            BY <1>1, <3>1, <3>2, Zenon
    <2>3. \A t \in Traces : cur_size'[t] <= vector_max_size'[t] /\ vector_max_size'[t] >= 1
        BY <1>1, Zenon DEF ApiInv, Recording
    <2> QED
        BY <2>1, <2>2, <2>3, Zenon DEF Recording
<1> QED
    BY <1>6, <1>7, <1>8, <1>9, <1>10, SMTT(40) DEF ApiInv

\* The recorder moves to another trace, or switches the tracking.
LEMMA MoveApiInv ==
    ASSUME NEW p, ApiInv(p), C_getNewMetadataPtr \/ PMTest_START \/ PMTest_END
    PROVE  ApiInv(p)'
<1> USE MainIsClient, ApiConstants
<1>1. UNCHANGED vars /\ UNCHANGED <<api, recorder, metadataVectorPtr, memory, cur_size, vector_max_size, passed>>
    BY Zenon DEF C_getNewMetadataPtr, PMTest_START, PMTest_END, sections, vectors
<1>2. ApiTypeOK
    BY Zenon DEF ApiInv
<1>3. \A t : (Passed(t)' <=> Passed(t)) /\ (Created(t)' <=> Created(t))
    BY <1>1, Zenon DEF Passed, Created
<1>4. PassedOnce(p)' /\ KeptAlive'
    BY <1>1, <1>3, QuietPool, Zenon DEF ApiInv, PassedOnce, KeptAlive
<1>5. CASE C_getNewMetadataPtr
    <2>1. /\ metadataVectorPtr \in Seq(Traces) /\ pmtest_cur_idx \in 0 .. Len(metadataVectorPtr)
          /\ pmtest_cur_idx < Len(metadataVectorPtr) /\ pmtest_cur_idx' = pmtest_cur_idx + 1
          /\ metadataPtr' = metadataVectorPtr[pmtest_cur_idx + 1]
          /\ api = "vectors" /\ ~existVeriInstance /\ UNCHANGED existVeriInstance
        BY <1>2, <1>5, Zenon DEF ApiTypeOK, C_getNewMetadataPtr
    <2>2. /\ pmtest_cur_idx + 1 \in DOMAIN metadataVectorPtr /\ metadataPtr' \in Traces
          /\ pmtest_cur_idx' \in 0 .. Len(metadataVectorPtr)
        BY <2>1, SMTT(30)
    <2>3. ApiTypeOK'
        BY <1>1, <1>2, <2>1, <2>2, Zenon DEF ApiTypeOK
    <2>4. InOrder'
        BY <1>1, <2>1, SMTT(40) DEF ApiInv, InOrder
    <2>5. Recording'
        BY <1>1, <2>1, <2>2, SMTT(40) DEF ApiInv, Recording, Created
    <2> QED
        BY <1>4, <2>3, <2>4, <2>5, SMTT(40) DEF ApiInv
<1>6. CASE PMTest_START \/ PMTest_END
    <2>1. UNCHANGED <<pmtest_cur_idx, metadataPtr>> /\ existVeriInstance' \in BOOLEAN
        BY <1>6, Zenon DEF PMTest_START, PMTest_END, sections
    <2>2. ApiTypeOK'
        BY <1>1, <1>2, <2>1, Zenon DEF ApiTypeOK
    <2>3. InOrder'
        BY <1>1, <1>3, <2>1, Zenon DEF ApiInv, InOrder
    <2>4. existVeriInstance' => metadataPtr' # NoTrace /\ ~Passed(metadataPtr)'
        <3>1. existVeriInstance' => metadataPtr # NoTrace /\ cur_size[metadataPtr] = 0
            BY <1>6, Zenon DEF PMTest_START, PMTest_END
        <3>2. metadataPtr # NoTrace /\ cur_size[metadataPtr] = 0 => ~Passed(metadataPtr)
            BY <1>2, Zenon DEF ApiTypeOK, ApiInv, PassedOnce
        <3> QED
            BY <1>3, <2>1, <3>1, <3>2, Zenon
    <2>5. Recording'
        BY <1>1, <1>3, <2>1, <2>4, Zenon DEF ApiInv, Recording
    <2> QED
        BY <1>4, <2>2, <2>3, <2>5, Zenon DEF ApiInv
<1> QED
    BY <1>5, <1>6, ZenonT(60)

\* The trace that is recorded to has not been passed.
LEMMA CurrentUnpassed ==
    ASSUME NEW p, ApiInv(p), existVeriInstance, metadataPtr # NoTrace
    PROVE  ~Passed(metadataPtr)
<1>1. CASE api = "sections"
    <2>1. /\ metadataVectorPtr \in Seq(Traces) /\ pmtest_cur_idx \in 0 .. Len(metadataVectorPtr)
          /\ pmtest_cur_idx < Len(metadataVectorPtr)
          /\ metadataPtr = metadataVectorPtr[pmtest_cur_idx + 1]
        BY <1>1, SMTT(40) DEF ApiInv, ApiTypeOK, InOrder
    <2>2. pmtest_cur_idx + 1 \in DOMAIN metadataVectorPtr /\ pmtest_cur_idx + 1 > pmtest_cur_idx
        BY <2>1, SMTT(30)
    <2> QED
        BY <1>1, <2>1, <2>2, Zenon DEF ApiInv, InOrder
<1>2. CASE api = "vectors"
    BY <1>2, Zenon DEF ApiInv, Recording
<1> QED
    BY <1>1, <1>2, Zenon DEF ApiInv, ApiTypeOK

\* A record is added to a trace that has not been passed.
LEMMA RecordApiInv ==
    ASSUME NEW p, ApiInv(p), C_createMetadata
    PROVE  ApiInv(p)'
<1> USE MainIsClient, ApiConstants
<1>1. /\ UNCHANGED vars /\ existVeriInstance /\ metadataPtr # NoTrace
      /\ UNCHANGED <<api, recorder, metadataVectorPtr, pmtest_cur_idx, metadataPtr>>
      /\ UNCHANGED <<existVeriInstance, memory, passed>>
      /\ push_back(metadataPtr)
    BY Zenon DEF C_createMetadata, sections
<1>2. /\ metadataPtr \in Traces
      /\ cur_size \in [Traces -> Nat] /\ vector_max_size \in [Traces -> Nat]
    BY <1>1, SMTT(40) DEF ApiInv, ApiTypeOK
<1>3. ~Passed(metadataPtr)
    BY <1>1, CurrentUnpassed, Zenon
<1>4. \A t : (Passed(t)' <=> Passed(t)) /\ (Created(t)' <=> Created(t))
    BY <1>1, Zenon DEF Passed, Created
<1>5. /\ cur_size' \in [Traces -> Nat] /\ vector_max_size' \in [Traces -> Nat]
      /\ \A t \in Traces \ {metadataPtr} : cur_size'[t] = cur_size[t]
    BY <1>1, <1>2, SMTT(40) DEF push_back
<1>6. ApiTypeOK'
    BY <1>1, <1>5, Zenon DEF ApiInv, ApiTypeOK
<1>7. PassedOnce(p)'
    BY <1>1, <1>3, <1>4, <1>5, QuietPool, Zenon DEF ApiInv, PassedOnce
<1>8. KeptAlive'
    BY <1>1, <1>4, QuietPool, Zenon DEF ApiInv, KeptAlive
<1>9. InOrder'
    BY <1>1, <1>4, Zenon DEF ApiInv, InOrder
<1>10. Recording'
    <2>1. \A t \in Traces : cur_size[t] <= vector_max_size[t] /\ vector_max_size[t] >= 1
        BY Zenon DEF ApiInv, Recording
    <2>2. \A t \in Traces : cur_size'[t] <= vector_max_size'[t] /\ vector_max_size'[t] >= 1
        BY <1>1, <1>2, <2>1, SMTT(40) DEF push_back
    <2> QED
        BY <1>1, <1>4, <2>2, Zenon DEF ApiInv, Recording
<1> QED
    BY <1>6, <1>7, <1>8, <1>9, <1>10, SMTT(40) DEF ApiInv

\* A trace is passed when it is complete, once, and alive.
LEMMA PassApiInv ==
    ASSUME NEW p, NEW g, Use(p, g), TypeInv, ApiInv(p), C_sendTrace \/ C_execVeri
    PROVE  ApiInv(p)'
<1> USE MainIsClient, ApiConstants DEF Use, NotPassed
<1>0. /\ cpc \in [Clients -> ClientPhases] /\ arg \in [Clients -> Traces \cup {NoTrace}]
      /\ fresh \subseteq Traces
    BY ZenonT(60) DEF TypeInv, TypeOK
<1>t. /\ metadataVectorPtr \in Seq(Traces) /\ pmtest_cur_idx \in 0 .. Len(metadataVectorPtr)
      /\ passed \in [Traces -> {NotPassed} \cup Seq(Nat)]
      /\ cur_size \in [Traces -> Nat]
    BY ZenonT(60) DEF ApiInv, ApiTypeOK
<1>1. PICK t : /\ Pass(t)
               /\ \/ /\ C_sendTrace /\ api = "sections" /\ pmtest_cur_idx < Len(metadataVectorPtr)
                     /\ t = metadataVectorPtr[pmtest_cur_idx + 1]
                     /\ pmtest_cur_idx' = pmtest_cur_idx + 1
                     /\ metadataPtr' = IF pmtest_cur_idx' < Len(metadataVectorPtr)
                                       THEN metadataVectorPtr[pmtest_cur_idx' + 1] ELSE NoTrace
                  \/ /\ C_execVeri /\ api = "vectors" /\ t = metadataPtr /\ ~existVeriInstance
                     /\ UNCHANGED <<pmtest_cur_idx, metadataPtr>>
    BY Zenon DEF C_sendTrace, C_execVeri, sections
<1>2. UNCHANGED <<api, recorder, metadataVectorPtr, existVeriInstance, memory, cur_size, vector_max_size>>
    BY ZenonT(30) DEF C_sendTrace, C_execVeri, sections, vectors
<1>3. /\ t # NoTrace /\ cur_size[t] = MaxRecords /\ recorder = p /\ cpc[Main] \notin DtorPhases
      /\ passed' = [passed EXCEPT ![t] = <<cur_size[t]>>]
      /\ cpc[p] = "idle" /\ cpc' = [cpc EXCEPT ![p] = "x_lock"] /\ UNCHANGED <<sent, tested>>
    BY <1>1, Zenon DEF Pass, Full, ExecCall, Goto, Alive, history
<1>4. t \in fresh /\ fresh' = fresh \ {t} /\ arg' = [arg EXCEPT ![p] = t]
    <2>1. PICK u \in fresh : arg' = [arg EXCEPT ![p] = u] /\ fresh' = fresh \ {u}
        BY <1>1, <1>3, Zenon DEF Pass, ExecCall
    <2>2. arg'[p] = t
        BY <1>1, <1>3, Zenon DEF Pass
    <2>3. u = t
        <3>1. p \in Clients
            OBVIOUS
        <3> QED
            BY <1>0, <2>1, <2>2, <3>1, Zenon
    <2> QED
        BY <2>1, <2>3, Zenon
<1>5. t \in Traces /\ Created(t) /\ ~Passed(t)
    <2>1. t \in Traces
        BY <1>0, <1>4, Zenon
    <2>2. Created(t)
        <3>1. CASE api = "sections"
            <4>1. pmtest_cur_idx + 1 \in DOMAIN metadataVectorPtr
                BY <1>1, <1>t, <3>1, SMTT(40)
            <4> QED
                BY <1>1, <3>1, <4>1, Zenon DEF Created
        <3>2. CASE api # "sections"
            BY <1>1, <1>3, <3>2, Zenon DEF ApiInv, Recording
        <3> QED
            BY <3>1, <3>2, Zenon
    <2>3. ~Passed(t)
        BY <1>4, <2>1, Zenon DEF ApiInv, PassedOnce
    <2> QED
        BY <2>1, <2>2, <2>3, Zenon
<1>6. /\ passed' \in [Traces -> {NotPassed} \cup Seq(Nat)] /\ passed'[t] = <<MaxRecords>> /\ Passed(t)'
      /\ \A u \in Traces \ {t} : passed'[u] = passed[u] /\ (Passed(u)' <=> Passed(u))
    BY <1>3, <1>5, <1>t, SMTT(30) DEF Passed
<1>7. \A u : Created(u)' <=> Created(u)
    BY <1>2, ZenonT(60) DEF Created
<1>8. /\ Pushing(p, t)' /\ \A u \in Traces \ {t} : ~Pushing(p, u)'
      /\ \A u \in Traces : ~Pushing(p, u)
    BY <1>0, <1>3, <1>4, SMTT(40) DEF Pushing
<1>9. ApiTypeOK'
    <2>1. pmtest_cur_idx' \in 0 .. Len(metadataVectorPtr) /\ metadataPtr' \in Traces \cup {NoTrace}
        <3>1. CASE C_sendTrace
            BY <1>1, <1>t, <3>1, SMTT(40) DEF C_sendTrace
        <3>2. CASE C_execVeri
            BY <1>t, <3>2, Zenon DEF C_execVeri, sections, ApiInv, ApiTypeOK
        <3> QED
            BY <3>1, <3>2, ZenonT(60)
    <2> QED
        BY <1>2, <1>6, <2>1, Zenon DEF ApiInv, ApiTypeOK
<1>10. PassedOnce(p)'
    <2>1. \A u \in Traces : Passed(u) =>
            /\ Created(u) /\ u \notin fresh /\ u \in sent
            /\ cur_size[u] = MaxRecords /\ passed[u] = <<MaxRecords>>
        BY <1>8, Zenon DEF ApiInv, PassedOnce
    <2>2. \A u \in Traces : u \in sent => Passed(u)
        BY Zenon DEF ApiInv, PassedOnce
    <2> QED
        <3>1. ASSUME NEW u \in Traces, Passed(u)'
              PROVE  /\ Created(u)' /\ u \notin fresh'
                     /\ cur_size'[u] = MaxRecords /\ passed'[u] = <<MaxRecords>>
                     /\ u \in sent' \/ Pushing(p, u)'
            <4>1. CASE u = t
                BY <1>2, <1>3, <1>4, <1>5, <1>6, <1>7, <1>8, <4>1, Zenon
            <4>2. CASE u # t
                <5>1. Passed(u) /\ passed'[u] = passed[u]
                    BY <1>6, <3>1, <4>2, Zenon
                <5> QED
                    BY <1>2, <1>3, <1>4, <1>7, <2>1, <5>1, Zenon
            <4> QED
                BY <4>1, <4>2, Zenon
        <3>2. ASSUME NEW u \in Traces, u \in sent' \/ Pushing(p, u)' PROVE Passed(u)'
            <4>1. CASE u = t
                BY <1>6, <4>1, Zenon
            <4>2. CASE u # t
                BY <1>3, <1>6, <1>8, <2>2, <3>2, <4>2, Zenon
            <4> QED
                BY <4>1, <4>2, Zenon
        <3> QED
            BY <3>1, <3>2, Zenon DEF PassedOnce
<1>11. KeptAlive'
    <2>1. memory[t] = "live"
        BY <1>3, <1>5, Zenon DEF ApiInv, KeptAlive
    <2>2. cpc'[Main] \notin DtorPhases
        <3>1. cpc'[Main] \in {cpc[Main], "x_lock"}
            BY <1>0, <1>3, Zenon
        <3>2. "x_lock" \notin DtorPhases
            BY Zenon DEF DtorPhases
        <3> QED
            BY <1>3, <3>1, <3>2, Zenon
    <2> QED
        BY <1>2, <1>3, <1>6, <1>7, <2>1, <2>2, Zenon DEF ApiInv, KeptAlive
<1>12. InOrder'
    <2>1. \A i, j \in DOMAIN metadataVectorPtr : metadataVectorPtr[i] = metadataVectorPtr[j] => i = j
        BY Zenon DEF ApiInv, InOrder
    <2>2. CASE api = "sections"
        <3>1. /\ t = metadataVectorPtr[pmtest_cur_idx + 1] /\ pmtest_cur_idx' = pmtest_cur_idx + 1
              /\ pmtest_cur_idx < Len(metadataVectorPtr)
              /\ metadataPtr' = IF pmtest_cur_idx' < Len(metadataVectorPtr)
                                THEN metadataVectorPtr[pmtest_cur_idx' + 1] ELSE NoTrace
            BY <1>1, <2>2, Zenon
        <3>2. \A k \in DOMAIN metadataVectorPtr : k > pmtest_cur_idx => ~Passed(metadataVectorPtr[k])
            BY <2>2, Zenon DEF ApiInv, InOrder
        <3>3. /\ pmtest_cur_idx + 1 \in DOMAIN metadataVectorPtr
              /\ \A k \in DOMAIN metadataVectorPtr : k \in Nat /\ metadataVectorPtr[k] \in Traces
            BY <1>t, <3>1, SMTT(40)
        <3>4. ASSUME NEW k \in DOMAIN metadataVectorPtr, k > pmtest_cur_idx + 1
              PROVE  ~Passed(metadataVectorPtr[k])'
            <4>1. k > pmtest_cur_idx /\ k # pmtest_cur_idx + 1
                BY <1>t, <3>3, <3>4, SMTT(30)
            <4>2. metadataVectorPtr[k] \in Traces \ {t}
                BY <2>1, <3>1, <3>3, <4>1, Zenon
            <4>3. ~Passed(metadataVectorPtr[k])
                BY <3>2, <4>1, Zenon
            <4>4. passed'[metadataVectorPtr[k]] = passed[metadataVectorPtr[k]]
                BY <1>6, <4>2, Zenon
            <4> QED
                BY <1>2, <4>3, <4>4, Zenon DEF Passed
        <3> QED
            BY <1>2, <2>1, <3>1, <3>4, SMTT(40) DEF InOrder
    <2>3. CASE api # "sections"
        BY <1>2, <2>1, <2>3, Zenon DEF InOrder
    <2> QED
        BY <2>2, <2>3, Zenon
<1>13. Recording'
    <2>1. metadataPtr' # NoTrace => Created(metadataPtr)'
        <3>1. CASE api = "sections"
            <4>1. pmtest_cur_idx' < Len(metadataVectorPtr) =>
                    pmtest_cur_idx' + 1 \in DOMAIN metadataVectorPtr
                BY <1>1, <1>t, <3>1, SMTT(40)
            <4> QED
                BY <1>1, <1>2, <3>1, <4>1, SMTT(40) DEF Created
        <3>2. CASE api # "sections"
            BY <1>1, <1>7, <3>2, Zenon DEF ApiInv, Recording
        <3> QED
            BY <3>1, <3>2, Zenon
    <2>2. ~(api' = "vectors" /\ existVeriInstance')
        BY <1>1, <1>2, Zenon
    <2>3. \A u \in Traces : cur_size'[u] <= vector_max_size'[u] /\ vector_max_size'[u] >= 1
        BY <1>2, Zenon DEF ApiInv, Recording
    <2> QED
        BY <2>1, <2>2, <2>3, Zenon DEF Recording
<1> QED
    BY <1>9, <1>10, <1>11, <1>12, <1>13, Zenon DEF ApiInv

\* getVeri is called by a thread that passes nothing meanwhile.
LEMMA GetApiInv ==
    ASSUME NEW p, NEW g, Use(p, g), TypeInv, ApiInv(p), NEW c \in Clients, C_getVeri(c)
    PROVE  ApiInv(p)'
<1>1. GetCall(c) /\ UNCHANGED apivars
    BY Zenon DEF C_getVeri
<1>2. /\ UNCHANGED <<api, recorder, metadataVectorPtr, pmtest_cur_idx, metadataPtr>>
      /\ UNCHANGED <<existVeriInstance, memory, cur_size, vector_max_size, passed>>
    BY <1>1, Zenon DEF apivars, sections, vectors
<1>3. /\ UNCHANGED <<arg, fresh, sent, tested>> /\ \A t : Pushing(p, t)' <=> Pushing(p, t)
      /\ cpc[Main] \notin DtorPhases
    <2>1. cpc \in [Clients -> ClientPhases]
        BY ZenonT(60) DEF TypeInv, TypeOK
    <2> QED
        BY <1>1, <2>1, SMTT(40) DEF Use, GetCall, Goto, Alive, Pushing
<1>4. \A t : (Passed(t)' <=> Passed(t)) /\ (Created(t)' <=> Created(t))
    BY <1>2, Zenon DEF Passed, Created
<1>5. ApiTypeOK' /\ InOrder' /\ Recording'
    BY <1>2, <1>4, Zenon DEF ApiInv, ApiTypeOK, InOrder, Recording
<1>6. PassedOnce(p)' /\ KeptAlive'
    BY <1>2, <1>3, <1>4, Zenon DEF ApiInv, PassedOnce, KeptAlive
<1> QED
    BY <1>5, <1>6, Zenon DEF ApiInv

\* Only traces that have been tested are deleted.
LEMMA DeleteApiInv ==
    ASSUME NEW p, NEW g, Use(p, g), GetResultBeforeExit, ServiceInv(p, g), ApiInv(p),
           NEW c \in Clients, C_deleteMetadataVector(c) \/ C_exitVeri \/ C_deleteVeriInstance
    PROVE  ApiInv(p)'
<1> USE MainIsClient DEF Use
<1>1. /\ UNCHANGED <<api, recorder, metadataVectorPtr, pmtest_cur_idx, metadataPtr>>
      /\ UNCHANGED <<existVeriInstance, cur_size, vector_max_size, passed>>
    BY Zenon DEF C_deleteMetadataVector, C_exitVeri, C_deleteVeriInstance, apivars, sections, vectors
<1>2. memory \in [Traces -> {"none", "live", "emptied", "deleted"}]
    BY ZenonT(60) DEF ApiInv, ApiTypeOK
<1>3. memory' \in [Traces -> {"none", "live", "emptied", "deleted"}]
    BY <1>2, Zenon DEF C_deleteMetadataVector, C_exitVeri, C_deleteVeriInstance, apivars, vectors
<1>4. /\ UNCHANGED <<arg, fresh, sent, tested>> /\ \A t : Pushing(p, t)' <=> Pushing(p, t)
    <2>1. C_exitVeri \/ C_deleteVeriInstance => TermCall
        BY ZenonT(60) DEF C_exitVeri, C_deleteVeriInstance
    <2>2. C_deleteMetadataVector(c) => UNCHANGED vars
        BY Zenon DEF C_deleteMetadataVector
    <2>3. cpc \in [Clients -> ClientPhases]
        BY ZenonT(60) DEF ServiceInv, PoolInv, TypeInv, TypeOK
    <2>4. TermCall => UNCHANGED <<arg, fresh, sent, tested>> /\ \A t : Pushing(p, t)' <=> Pushing(p, t)
        <3>1. TermCall => cpc' = [cpc EXCEPT ![Main] = "t_signal"] /\ cpc[p] = "idle"
                          /\ UNCHANGED <<arg, fresh, sent, tested>>
            BY ZenonT(60) DEF TermCall, Goto, history
        <3> QED
            BY <2>3, <3>1, SMTT(40) DEF Pushing
    <2> QED
        BY <2>1, <2>2, <2>4, QuietPool, Zenon
<1>5. \A t : (Passed(t)' <=> Passed(t)) /\ (Created(t)' <=> Created(t))
    BY <1>1, Zenon DEF Passed, Created
<1>6. ApiTypeOK' /\ InOrder' /\ Recording'
    BY <1>1, <1>3, <1>5, Zenon DEF ApiInv, ApiTypeOK, InOrder, Recording
<1>7. PassedOnce(p)'
    BY <1>1, <1>4, <1>5, Zenon DEF ApiInv, PassedOnce
<1>8. KeptAlive'
    <2>1. CASE C_deleteMetadataVector(c)
        <3>1. /\ c = g /\ cpc[g] = "idle" /\ UNCHANGED <<vars, cpc>>
              /\ memory' = [t \in Traces |-> IF t \in due[g] THEN "emptied" ELSE memory[t]]
            BY <2>1, ZenonT(60) DEF C_deleteMetadataVector, vars, client
        <3>2. due[g] \subseteq tested
            BY <3>1, Zenon DEF ServiceInv, Collected, WaitPhases
        <3>3. \A t \in Traces : t \in due[g] => Passed(t)
            BY ZenonT(60) DEF ServiceInv, PoolInv, Once, ApiInv, PassedOnce
        <3>4. \A t \in Traces : memory'[t] = memory[t] \/ (Passed(t) /\ t \in tested)
            BY <3>1, <3>2, <3>3, Zenon
        <3> QED
            BY <1>4, <1>5, <3>1, <3>4, Zenon DEF ApiInv, KeptAlive
    <2>2. CASE C_exitVeri \/ C_deleteVeriInstance
        <3>1. TermCall
            BY <2>2, Zenon DEF C_exitVeri, C_deleteVeriInstance
        <3>2. sent \subseteq tested
            BY <3>1, TermTested, Zenon DEF ServiceInv
        <3>3. \A t \in Traces : Passed(t) => t \in tested
            <4>1. \A t : ~Pushing(p, t)
                BY <3>1, Zenon DEF TermCall, Pushing
            <4> QED
                BY <3>2, <4>1, ZenonT(60) DEF ApiInv, PassedOnce
        <3>4. cpc'[Main] \in DtorPhases
            <4>1. TypeInv
                BY Zenon DEF ServiceInv, PoolInv
            <4> QED
                BY <3>1, <4>1, TermMoves, ZenonT(30)
        <3> QED
            BY <1>4, <1>5, <3>3, <3>4, ZenonT(60) DEF KeptAlive
    <2> QED
        BY <2>1, <2>2, Zenon
<1> QED
    BY <1>6, <1>7, <1>8, ZenonT(60) DEF ApiInv

\* Every step of the program and of the pool keeps the invariant.
LEMMA NextApiInv ==
    ASSUME NEW p, NEW g, Use(p, g), GetResultBeforeExit, ServiceInv(p, g), ApiInv(p),
           [ApiNext]_allvars
    PROVE  ApiInv(p)'
<1>1. TypeInv /\ Roles(p, g)
    BY Zenon DEF ServiceInv, PoolInv
<1>2. CASE UNCHANGED allvars
    <2>1. UNCHANGED vars /\ UNCHANGED apivars
        BY <1>2, Zenon DEF allvars
    <2>2. /\ UNCHANGED <<api, recorder, metadataVectorPtr, pmtest_cur_idx, metadataPtr>>
          /\ UNCHANGED <<existVeriInstance, memory, cur_size, vector_max_size, passed>>
        BY <2>1, Zenon DEF apivars, sections, vectors
    <2> QED
        BY <2>1, <2>2, QuietPool, Zenon DEF ApiInv, ApiTypeOK, PassedOnce, KeptAlive, InOrder,
            Recording, Passed, Created
<1>3. CASE \E c \in Clients : C_getVeri(c) \/ C_deleteMetadataVector(c)
    BY <1>1, <1>3, GetApiInv, DeleteApiInv, Zenon
<1>4. CASE C_exitVeri \/ C_deleteVeriInstance
    BY <1>4, MainIsClient, DeleteApiInv, Zenon
<1> QED
    BY <1>1, <1>2, <1>3, <1>4, CreateApiInv, MoveApiInv, RecordApiInv, PassApiInv, PoolStepApiInv,
        Zenon DEF ApiNext

\* The inductive invariant of the interface and the pool under it.
AllInv(p, g) == ServiceInv(p, g) /\ ApiInv(p)

\* It holds in every state of a program that uses the C interface.
LEMMA AllInvariance ==
    ASSUME NEW p, NEW g, Use(p, g), NoOldSignal, GetResultBeforeExit
    PROVE  ApiSpec => []AllInv(p, g)
<1>1. ApiInit => AllInv(p, g)
    BY ApiUsesPool, InitServiceInv, InitApiInv, Zenon DEF AllInv
<1>2. AllInv(p, g) /\ [ApiNext]_allvars => AllInv(p, g)'
    BY ApiUsesPool, NextServiceInv, NextApiInv, Zenon DEF AllInv
<1> QED
    BY <1>1, <1>2, PTL DEF ApiSpec

\* The interface is well-typed; its index never leaves the array of sections.
THEOREM ApiTypeCorrect ==
    ASSUME NEW p, NEW g, Use(p, g), NoOldSignal, GetResultBeforeExit
    PROVE  ApiSpec => []ApiTypeOK
<1>1. AllInv(p, g) => ApiTypeOK
    BY Zenon DEF AllInv, ApiInv
<1> QED
    BY <1>1, AllInvariance, PTL

\* For every number of workers, of traces, of records and of calls, with one
\* thread that records and one that collects: a trace is neither freed nor
\* changed between execVeri and the end of its test.
THEOREM TracesKept ==
    ASSUME NEW p, NEW g, Use(p, g), NoOldSignal, GetResultBeforeExit
    PROVE  ApiSpec => []TestedAsPassed
<1>1. AllInv(p, g) => TestedAsPassed
    BY Zenon DEF AllInv, ApiInv, PassedOnce, KeptAlive, TestedAsPassed, Passed
<1> QED
    BY <1>1, AllInvariance, PTL

\* For every capacity of a new FastVector and every number of records: no record
\* is stored to a trace that is with the pool or freed, or past the end of its
\* vector.
THEOREM RecordsStored ==
    ASSUME NEW p, NEW g, Use(p, g), NoOldSignal, GetResultBeforeExit
    PROVE  ApiSpec => []RecordsKept
<1>1. AllInv(p, g) => RecordsKept
    <2> SUFFICES ASSUME AllInv(p, g) PROVE RecordsKept
        OBVIOUS
    <2>0. ApiInv(p)
        BY Zenon DEF AllInv
    <2>1. \A t \in Traces : cur_size[t] <= vector_max_size[t]
        BY <2>0, Zenon DEF ApiInv, Recording
    <2>2. ASSUME Ready, existVeriInstance, metadataPtr # NoTrace
          PROVE  memory[metadataPtr] = "live" /\ passed[metadataPtr] = NotPassed
        <3>1. cpc[Main] \notin DtorPhases /\ metadataPtr \in Traces /\ Created(metadataPtr)
            BY <2>0, <2>2, Zenon DEF Ready, Alive, ApiInv, ApiTypeOK, Recording
        <3>2. ~Passed(metadataPtr)
            BY <2>0, <2>2, CurrentUnpassed, Zenon
        <3> QED
            BY <2>0, <3>1, <3>2, ZenonT(60) DEF ApiInv, KeptAlive, Passed
    <2> QED
        BY <2>1, <2>2, Zenon DEF RecordsKept
<1> QED
    BY <1>1, AllInvariance, PTL

=============================================================================
