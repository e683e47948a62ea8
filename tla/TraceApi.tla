------------------------------ MODULE TraceApi ------------------------------
(***************************************************************************)
(* Traces from their creation to their deletion: the C interface of        *)
(* src/src/pmtest.cc on top of the worker pool.  A program uses it in one  *)
(* of two ways.  With "sections", as src/src/test.cc, C_initVeri creates   *)
(* all traces, C_sendTrace submits one after the other and C_exitVeri      *)
(* deletes them.  With "vectors", as the instrumented data_store.c, the    *)
(* program creates, submits and deletes each trace by a call of its own.   *)
(*                                                                         *)
(* One thread, the recorder, makes and submits the records, so that the    *)
(* thread-local variables below are those of the recorder.                 *)
(***************************************************************************)
EXTENDS VeriPool

CONSTANTS
    vector_init_size,   \* capacity of a new FastVector, 200 in the code
    metadataVectorLen,  \* bound: traces created with "sections" and with "vectors"
    MaxRecords          \* bound: records the program puts in each trace

ASSUME ApiAssumption ==
    /\ vector_init_size \in Nat \ {0} /\ MaxRecords \in Nat \ {0}
    /\ metadataVectorLen \in [{"sections", "vectors"} -> 1 .. Cardinality(Traces)]

VARIABLES
    api, recorder,
    metadataVectorPtr,  \* the traces created, in order
    pmtest_cur_idx,     \* how many of them were used
    metadataPtr,        \* the one that is recorded to, or NoTrace
    existVeriInstance,  \* tracking is on
    memory,             \* of each trace: "none", "live", "emptied" or "deleted"
    cur_size, vector_max_size,
    passed              \* history: the traces given to execVeri, with their sizes

sections == <<metadataVectorPtr, pmtest_cur_idx, metadataPtr>>
vectors == <<memory, cur_size, vector_max_size>>
apivars == <<api, recorder, sections, existVeriInstance, vectors, passed>>
allvars == <<vars, apivars>>

NotPassed == <<>>

ApiInit ==
    /\ Init
    /\ \/ api = "sections" /\ recorder = Main
       \/ api = "vectors" /\ recorder \in Producers
    /\ metadataVectorPtr = <<>> /\ pmtest_cur_idx = 0 /\ metadataPtr = NoTrace
    /\ existVeriInstance = FALSE
    /\ memory = [t \in Traces |-> "none"]
    /\ cur_size = [t \in Traces |-> 0]
    /\ vector_max_size = [t \in Traces |-> vector_init_size]
    /\ passed = [t \in Traces |-> NotPassed]

\* The recorder is outside of the library.
Ready == Alive /\ cpc[recorder] = "idle"
Orders == {s \in [1 .. metadataVectorLen[api] -> Traces] :
              \A i, j \in DOMAIN s : i # j => s[i] # s[j]}

\* The loop of C_initVeri, or calls of C_createMetadataVector after C_initThread
CreateVectors ==
    /\ Ready /\ metadataVectorPtr = <<>>
    /\ metadataVectorPtr' \in Orders
    /\ pmtest_cur_idx' = 0
    /\ metadataPtr' = IF api = "sections" THEN metadataVectorPtr'[1] ELSE NoTrace
    /\ memory' = [t \in Traces |-> IF \E i \in DOMAIN metadataVectorPtr' :
                                          metadataVectorPtr'[i] = t THEN "live" ELSE "none"]
    /\ UNCHANGED <<vars, api, recorder, existVeriInstance, cur_size, vector_max_size, passed>>

\* All the program has to record in a trace is recorded.
Full(t) == t # NoTrace /\ cur_size[t] = MaxRecords

\* A program goes on to a new vector when it is done with the one before.
C_getNewMetadataPtr ==
    /\ Ready /\ api = "vectors"
    /\ ~existVeriInstance
    /\ metadataPtr # NoTrace => passed[metadataPtr] # NotPassed
    /\ pmtest_cur_idx < Len(metadataVectorPtr)
    /\ metadataPtr' = metadataVectorPtr[pmtest_cur_idx + 1]
    /\ pmtest_cur_idx' = pmtest_cur_idx + 1
    /\ UNCHANGED <<vars, api, recorder, metadataVectorPtr, existVeriInstance, vectors, passed>>

\* A program that sends sections tracks from the first to the last of them, one
\* that uses vectors tracks while it fills one.
PMTest_START ==
    /\ Ready
    /\ ~existVeriInstance
    /\ metadataPtr # NoTrace /\ cur_size[metadataPtr] = 0
    /\ existVeriInstance' = TRUE
    /\ UNCHANGED <<vars, api, recorder, sections, vectors, passed>>

PMTest_END ==
    /\ Ready
    /\ existVeriInstance
    /\ IF api = "sections" THEN metadataPtr = NoTrace ELSE Full(metadataPtr)
    /\ existVeriInstance' = FALSE
    /\ UNCHANGED <<vars, api, recorder, sections, vectors, passed>>

\* Mutant: a vector grows only after it has overflown.
push_back_late(t) ==
    /\ vector_max_size' = [vector_max_size EXCEPT ![t] = IF cur_size[t] > @ THEN @ * 10 ELSE @]
    /\ cur_size' = [cur_size EXCEPT ![t] = @ + 1]

push_back(t) ==
    /\ vector_max_size' = [vector_max_size EXCEPT ![t] = IF cur_size[t] >= @ THEN @ * 10 ELSE @]
    /\ cur_size' = [cur_size EXCEPT ![t] = @ + 1]

\* A record of any type.  After the last section the program must not record.
C_createMetadata ==
    /\ Ready /\ metadataPtr # NoTrace
    /\ existVeriInstance
    /\ ~Full(metadataPtr)
    /\ push_back(metadataPtr)
    /\ UNCHANGED <<vars, api, recorder, sections, existVeriInstance, memory, passed>>

Pass(t) ==
    /\ Full(t)
    /\ ExecCall(recorder)
    /\ arg'[recorder] = t
    /\ passed' = [passed EXCEPT ![t] = <<cur_size[t]>>]

\* Mutant: the index moves on twice for one section.
C_sendTrace_twice ==
    /\ Ready /\ api = "sections"
    /\ pmtest_cur_idx < Len(metadataVectorPtr)
    /\ Pass(metadataVectorPtr[pmtest_cur_idx + 1])
    /\ pmtest_cur_idx' = pmtest_cur_idx + 2
    /\ metadataPtr' = IF pmtest_cur_idx' < Len(metadataVectorPtr)
                      THEN metadataVectorPtr[pmtest_cur_idx' + 1] ELSE NoTrace
    /\ UNCHANGED <<api, recorder, metadataVectorPtr, existVeriInstance, vectors>>

\* Without a section left C_sendTrace only prints a message.
C_sendTrace ==
    /\ Ready /\ api = "sections"
    /\ pmtest_cur_idx < Len(metadataVectorPtr)
    /\ Pass(metadataVectorPtr[pmtest_cur_idx + 1])
    /\ pmtest_cur_idx' = pmtest_cur_idx + 1
    /\ metadataPtr' = IF pmtest_cur_idx' < Len(metadataVectorPtr)
                      THEN metadataVectorPtr[pmtest_cur_idx' + 1] ELSE NoTrace
    /\ UNCHANGED <<api, recorder, metadataVectorPtr, existVeriInstance, vectors>>

C_execVeri ==
    /\ Ready /\ api = "vectors"
    /\ ~existVeriInstance
    /\ Pass(metadataPtr)
    /\ UNCHANGED <<api, recorder, sections, existVeriInstance, vectors>>

C_getVeri(c) ==
    /\ api = "sections" => metadataVectorPtr # <<>>
    /\ GetCall(c)
    /\ UNCHANGED apivars

\* A program deletes the traces it submitted before its last call of getVeri.
\* The records are freed, the vectors are not.
C_deleteMetadataVector(c) ==
    /\ Alive /\ cpc[c] = "idle" /\ api = "vectors"
    /\ c \in Collectors
    /\ \E t \in due[c] : memory[t] = "live"
    /\ memory' = [t \in Traces |-> IF t \in due[c] THEN "emptied" ELSE memory[t]]
    /\ UNCHANGED <<vars, api, recorder, sections, existVeriInstance, cur_size, vector_max_size,
                   passed>>

\* All sections are deleted before the workers are told to stop.
C_exitVeri ==
    /\ api = "sections" /\ metadataVectorPtr # <<>>
    /\ memory' = [t \in Traces |-> IF memory[t] = "live" THEN "deleted" ELSE memory[t]]
    /\ TermCall
    /\ UNCHANGED <<api, recorder, sections, existVeriInstance, cur_size, vector_max_size, passed>>

C_deleteVeriInstance ==
    /\ api = "vectors"
    /\ TermCall
    /\ UNCHANGED apivars

\* A step of a thread inside the pool
PoolStep ==
    /\ \/ Ctor \/ Term \/ Gone
       \/ \E c \in Clients : Exec(c) \/ Get(c)
       \/ \E i \in Workers : Worker(i) \/ SpuriousWake(i)
    /\ UNCHANGED apivars

ApiNext ==
    \/ CreateVectors \/ C_getNewMetadataPtr \/ PMTest_START \/ PMTest_END \/ C_createMetadata
    \/ C_sendTrace \/ C_execVeri
    \/ \E c \in Clients : C_getVeri(c) \/ C_deleteMetadataVector(c)
    \/ C_exitVeri \/ C_deleteVeriInstance
    \/ PoolStep

ApiSpec == ApiInit /\ [][ApiNext]_allvars

-----------------------------------------------------------------------------
(* Properties                                                              *)

\* The type of every variable of the interface; the pool's are in TypeOK.
ApiTypeOK ==
    /\ api \in {"sections", "vectors"} /\ recorder \in Clients
    /\ metadataVectorPtr \in Seq(Traces)
    /\ pmtest_cur_idx \in 0 .. Len(metadataVectorPtr)
    /\ metadataPtr \in Traces \cup {NoTrace}
    /\ existVeriInstance \in BOOLEAN
    /\ memory \in [Traces -> {"none", "live", "emptied", "deleted"}]
    /\ cur_size \in [Traces -> Nat] /\ vector_max_size \in [Traces -> Nat]
    /\ passed \in [Traces -> {NotPassed} \cup Seq(Nat)]

\* From execVeri until a worker is done with it, a trace is neither freed nor
\* changed: C_sendTrace moves the recorder on, and getVeri holds the thread that
\* calls C_deleteMetadataVector or C_exitVeri until the workers are done.
TestedAsPassed ==
    \A t \in Traces : passed[t] # NotPassed /\ t \notin tested =>
        memory[t] = "live" /\ passed[t] = <<cur_size[t]>>

\* While tracking is on, the trace that is recorded to exists, is not with the
\* pool, and no record is stored past the memory of its vector.
RecordsKept ==
    /\ Ready /\ existVeriInstance /\ metadataPtr # NoTrace =>
          memory[metadataPtr] = "live" /\ passed[metadataPtr] = NotPassed
    /\ \A t \in Traces : cur_size[t] <= vector_max_size[t]

Service == INSTANCE TestService WITH
    submitted <- sent,
    awaited <- [c \in Clients |->
        IF cpc[c] \in WaitPhases \cup DonePhases THEN <<due[c]>> ELSE <<>>],
    closed <- cpc[Main] \in DtorPhases

\* The pool is a test service: getVeri returns when all that was submitted before
\* has been tested, and the destructor starts when nothing is left to test.
ServesTraces == Service!Spec
=============================================================================
