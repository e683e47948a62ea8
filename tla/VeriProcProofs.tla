--------------------------- MODULE VeriProcProofs ---------------------------
(***************************************************************************)
(* What the checking engine guarantees about every trace.                  *)
(***************************************************************************)
EXTENDS VeriProc, FiniteSetTheorems, TLAPS

\* Taking one more record into account: an address becomes excluded, stays
\* so, or is included again.
LEMMA ExcludedStep ==
    ASSUME NEW t, NEW p \in Nat \ {0}, NEW a
    PROVE  Excluded(t, p + 1, a) <=>
             \/ Touches(t, p, "EXCLUDE", a)
             \/ Excluded(t, p, a) /\ ~Touches(t, p, "INCLUDE", a)
<1>1. ASSUME Excluded(t, p + 1, a), ~Touches(t, p, "EXCLUDE", a)
      PROVE  Excluded(t, p, a) /\ ~Touches(t, p, "INCLUDE", a)
    <2>1. PICK i \in 1 .. (p + 1) - 1 :
              /\ Touches(t, i, "EXCLUDE", a)
              /\ \A j \in i + 1 .. (p + 1) - 1 : ~Touches(t, j, "INCLUDE", a)
        BY <1>1, Zenon DEF Excluded
    <2>2. i # p
        BY <1>1, <2>1, Zenon
    <2>3. i \in 1 .. p - 1 /\ p \in i + 1 .. (p + 1) - 1
        BY <2>2, SMTT(30)
    <2>4. \A j \in i + 1 .. p - 1 : j \in i + 1 .. (p + 1) - 1
        OBVIOUS
    <2> QED
        BY <2>1, <2>3, <2>4, Zenon DEF Excluded
<1>2. ASSUME Touches(t, p, "EXCLUDE", a)
      PROVE  Excluded(t, p + 1, a)
    <2>1. p \in 1 .. (p + 1) - 1 /\ p + 1 .. (p + 1) - 1 = {}
        OBVIOUS
    <2> QED
        BY <1>2, <2>1, Zenon DEF Excluded
<1>3. ASSUME Excluded(t, p, a), ~Touches(t, p, "INCLUDE", a)
      PROVE  Excluded(t, p + 1, a)
    <2>1. PICK i \in 1 .. p - 1 :
              /\ Touches(t, i, "EXCLUDE", a)
              /\ \A j \in i + 1 .. p - 1 : ~Touches(t, j, "INCLUDE", a)
        BY <1>3, Zenon DEF Excluded
    <2>2. i \in 1 .. (p + 1) - 1
        OBVIOUS
    <2>3. \A j \in i + 1 .. (p + 1) - 1 : j = p \/ j \in i + 1 .. p - 1
        OBVIOUS
    <2> QED
        BY <1>3, <2>1, <2>2, <2>3, Zenon DEF Excluded
<1> QED
    BY <1>1, <1>2, <1>3, Zenon

\* Taking one more record into account: an address becomes pending by a
\* store, and stays so unless it is flushed before some fence.
LEMMA PendingStep ==
    ASSUME NEW t, NEW p \in Nat \ {0}, NEW a
    PROVE  Pending(t, p + 1, a) <=>
             \/ Stores(t, p, a)
             \/ /\ Pending(t, p, a)
                /\ ~(Flushes(t, p, a) /\ FenceBetween(t, p, Len(t) + 1))
<1> DEFINE Ends(f) == Flushes(t, f, a) /\ FenceBetween(t, f, Len(t) + 1)
<1>0. \A q : Pending(t, q, a) <=>
          \E i \in 1 .. q - 1 :
              Stores(t, i, a) /\ \A f \in i + 1 .. q - 1 : ~Ends(f)
    BY Zenon DEF Pending
<1> HIDE DEF Ends
<1>1. ASSUME Pending(t, p + 1, a), ~Stores(t, p, a)
      PROVE  Pending(t, p, a) /\ ~Ends(p)
    <2>1. PICK i \in 1 .. (p + 1) - 1 :
              Stores(t, i, a) /\ \A f \in i + 1 .. (p + 1) - 1 : ~Ends(f)
        BY <1>0, <1>1, Zenon
    <2>2. i # p
        BY <1>1, <2>1, Zenon
    <2>3. i \in 1 .. p - 1 /\ p \in i + 1 .. (p + 1) - 1
        BY <2>2, SMTT(30)
    <2>4. \A f \in i + 1 .. p - 1 : f \in i + 1 .. (p + 1) - 1
        OBVIOUS
    <2> QED
        BY <1>0, <2>1, <2>3, <2>4, Zenon
<1>2. ASSUME Stores(t, p, a)
      PROVE  Pending(t, p + 1, a)
    <2>1. p \in 1 .. (p + 1) - 1 /\ p + 1 .. (p + 1) - 1 = {}
        OBVIOUS
    <2> QED
        BY <1>0, <1>2, <2>1, Zenon
<1>3. ASSUME Pending(t, p, a), ~Ends(p)
      PROVE  Pending(t, p + 1, a)
    <2>1. PICK i \in 1 .. p - 1 :
              Stores(t, i, a) /\ \A f \in i + 1 .. p - 1 : ~Ends(f)
        BY <1>0, <1>3, Zenon
    <2>2. i \in 1 .. (p + 1) - 1
        OBVIOUS
    <2>3. \A f \in i + 1 .. (p + 1) - 1 : f = p \/ f \in i + 1 .. p - 1
        OBVIOUS
    <2> QED
        BY <1>0, <1>3, <2>1, <2>2, <2>3, Zenon
<1> QED
    BY <1>1, <1>2, <1>3, Zenon DEF Ends

\* A pending address is not durable.
LEMMA PendingNotDurable ==
    ASSUME NEW t \in Seq(Metadata), NEW p \in 1 .. Len(t) + 1, NEW a,
           Pending(t, p, a)
    PROVE  ~Durable(t, p, a)
<1>1. PICK i \in 1 .. p - 1 :
          /\ Stores(t, i, a)
          /\ \A f \in i + 1 .. p - 1 :
              ~(Flushes(t, f, a) /\ FenceBetween(t, f, Len(t) + 1))
    BY Zenon DEF Pending
<1>2. \A f \in i + 1 .. p - 1 :
          FenceBetween(t, f, p) => FenceBetween(t, f, Len(t) + 1)
    <2> TAKE f \in i + 1 .. p - 1
    <2>1. \A k \in f + 1 .. p - 1 : k \in f + 1 .. (Len(t) + 1) - 1
        OBVIOUS
    <2> QED
        BY <2>1, Zenon DEF FenceBetween
<1> QED
    BY <1>1, <1>2, Zenon DEF Durable

\* At a settled position an address that is not durable is pending.
LEMMA NotDurablePending ==
    ASSUME NEW t, NEW p \in Nat, NEW a, Settled(t, p), ~Durable(t, p, a)
    PROVE  Pending(t, p, a)
<1>1. PICK i \in 1 .. p - 1 :
          /\ Stores(t, i, a)
          /\ \A f \in i + 1 .. p - 1 : ~(Flushes(t, f, a) /\ FenceBetween(t, f, p))
    BY Zenon DEF Durable
<1>2. \A f \in i + 1 .. p - 1 : f \in 1 .. p - 1
    OBVIOUS
<1>3. \A f \in i + 1 .. p - 1 :
          Flushes(t, f, a) => ~FenceBetween(t, f, Len(t) + 1)
    BY <1>1, <1>2, Zenon DEF Settled, Flushes, Touches
<1> QED
    BY <1>1, <1>3, Zenon DEF Pending

-----------------------------------------------------------------------------
(* Type correctness.                                                       *)

\* VeriProc starts in a well-typed state on every trace.
LEMMA InitTypeOK == Init => TypeOK
<1> SUFFICES ASSUME Init PROVE TypeOK
    OBVIOUS
<1>1. given \in Seq(Metadata) /\ Len(given) \in Nat
    BY InputsAssumption, SMTT(30) DEF Init
<1> QED
    BY <1>1, SMTT(30) DEF Init, TypeOK, FirstTimestamp

\* A range is a set of natural numbers.
LEMMA IntervalNat ==
    ASSUME NEW m \in Metadata
    PROVE  AddrInterval(m) \subseteq Nat
BY SMTT(30) DEF AddrInterval, Metadata

\* Entering a range into an interval map keeps the map's type.
LEMMA AssignedType ==
    ASSUME NEW map, NEW interval \in SUBSET Nat, NEW value \in Int,
           DOMAIN map \subseteq Nat, \A a \in DOMAIN map : map[a] \in Int
    PROVE  /\ DOMAIN Assigned(map, interval, value) \subseteq Nat
           /\ \A a \in DOMAIN Assigned(map, interval, value) :
                Assigned(map, interval, value)[a] \in Int
BY Zenon DEF Assigned

\* The fields of a message.
LEMMA ReportFields ==
    ASSUME NEW kind, NEW record
    PROVE  /\ Report(kind, record).kind = kind
           /\ Report(kind, record).record = record
           /\ Report(kind, record).at = cur
BY Zenon DEF Report

\* Each operation prints at most its own message.
LEMMA NewReports ==
    ASSUME NEW r \in reports', r \notin reports
    PROVE  /\ Assign => r = Report("ASSIGN ERROR", cur)
           /\ Flush => r = Report("FLUSH WARNING", cur)
           /\ Persist => r \in PersistReports(cur)
           /\ Order => r = Report("ORDER ERROR", cur)
           /\ TransactionEnd =>
                \E i \in TransactionPersistInfo : r \in PersistReports(i)
           /\ TransactionAdd => r = Report("TRANSACTIONADD WARNING", cur)
           /\ Finish => r = Report("TRANSACTIONEND ERROR", 0)
<1>1. Assign => r = Report("ASSIGN ERROR", cur)
    BY Zenon DEF Assign
<1>2. Flush => r = Report("FLUSH WARNING", cur)
    BY Zenon DEF Flush
<1>3. Persist => r \in PersistReports(cur)
    BY Zenon DEF Persist
<1>4. Order => r = Report("ORDER ERROR", cur)
    BY Zenon DEF Order
<1>5. TransactionEnd => \E i \in TransactionPersistInfo : r \in PersistReports(i)
    BY SMTT(30) DEF TransactionEnd
<1>6. TransactionAdd => r = Report("TRANSACTIONADD WARNING", cur)
    BY Zenon DEF TransactionAdd
<1>7. Finish => r = Report("TRANSACTIONEND ERROR", 0)
    BY Zenon DEF Finish
<1> QED
    BY <1>1, <1>2, <1>3, <1>4, <1>5, <1>6, <1>7, Zenon

\* What VeriProc_Persist prints names its record.
LEMMA PersistReportsAre ==
    ASSUME NEW i, NEW r \in PersistReports(i)
    PROVE  r = Report("PERSIST ERROR", i)
BY Zenon DEF PersistReports

\* A message is about the record being processed, about a store recorded in
\* the transaction, or about the whole trace.
LEMMA NewReportPlace ==
    ASSUME Next, NEW r \in reports', r \notin reports
    PROVE  /\ r.at = cur
           /\ \/ r.record = 0
              \/ r.record = cur /\ cur <= Len(veriptr)
              \/ r.record \in TransactionPersistInfo
<1>1. ASSUME NEW kind, r = Report(kind, cur)
      PROVE  r.at = cur /\ r.record = cur
    BY <1>1, ReportFields, Zenon
<1>a. CASE Assign
    <2>1. r = Report("ASSIGN ERROR", cur) /\ cur <= Len(veriptr)
        BY <1>a, NewReports, Zenon DEF Assign, Process
    <2> QED BY <2>1, <1>1, Zenon
<1>b. CASE Flush
    <2>1. r = Report("FLUSH WARNING", cur) /\ cur <= Len(veriptr)
        BY <1>b, NewReports, Zenon DEF Flush, Process
    <2> QED BY <2>1, <1>1, Zenon
<1>c. CASE Persist
    <2>1. r = Report("PERSIST ERROR", cur) /\ cur <= Len(veriptr)
        BY <1>c, NewReports, PersistReportsAre, Zenon DEF Persist, Process
    <2> QED BY <2>1, <1>1, Zenon
<1>d. CASE Order
    <2>1. r = Report("ORDER ERROR", cur) /\ cur <= Len(veriptr)
        BY <1>d, NewReports, Zenon DEF Order, Process
    <2> QED BY <2>1, <1>1, Zenon
<1>e. CASE TransactionEnd
    <2>1. PICK i \in TransactionPersistInfo : r \in PersistReports(i)
        BY <1>e, NewReports, Zenon
    <2>2. r = Report("PERSIST ERROR", i)
        BY <2>1, PersistReportsAre, Zenon
    <2>3. r.at = cur /\ r.record = i
        BY <2>2, ReportFields, Zenon
    <2> QED BY <2>3, Zenon
<1>f. CASE TransactionAdd
    <2>1. r = Report("TRANSACTIONADD WARNING", cur) /\ cur <= Len(veriptr)
        BY <1>f, NewReports, Zenon DEF TransactionAdd, Process
    <2> QED BY <2>1, <1>1, Zenon
<1>g. CASE Finish
    <2>1. r = Report("TRANSACTIONEND ERROR", 0)
        BY <1>g, NewReports, Zenon
    <2>2. r.at = cur /\ r.record = 0
        BY <2>1, ReportFields, Zenon
    <2> QED BY <2>2, Zenon
<1>h. CASE reports' = reports
    BY <1>h, Zenon
<1> QED
    BY <1>a, <1>b, <1>c, <1>d, <1>e, <1>f, <1>g, <1>h, Zenon
    DEF Next, Fence, TransactionBegin, Exclude, Include, Unprocessed, Returned, vars

\* Every step of VeriProc keeps the state well-typed.
LEMMA NextTypeOK == TypeOK /\ [Next]_vars => TypeOK'
<1> SUFFICES ASSUME TypeOK, Next PROVE TypeOK'
    BY Zenon DEF TypeOK, vars
<1> USE DEF TypeOK
<1>0. Len(veriptr) \in Nat /\ DOMAIN veriptr = 1 .. Len(veriptr)
    OBVIOUS
<1>1. ASSUME NEW type, Process(type)
      PROVE  /\ cur \in 1 .. Len(veriptr)
             /\ cur' = cur + 1
             /\ AddrInterval(veriptr[cur]) \subseteq Nat
             /\ returned' = returned /\ given' = given
    <2>1. cur \in 1 .. Len(veriptr) /\ veriptr[cur] \in Metadata
        BY <1>1, SMTT(30) DEF Process
    <2> QED
        BY <1>1, <2>1, IntervalNat, Zenon DEF Process
<1>2. \A r \in reports' : r.record \in 0 .. Len(veriptr) /\ r.at \in 1 .. cur
    <2> TAKE r \in reports'
    <2>1. CASE r \in reports
        BY <2>1, Zenon
    <2>2. CASE r \notin reports
        <3>1. /\ r.at = cur
              /\ \/ r.record = 0
                 \/ r.record = cur /\ cur <= Len(veriptr)
                 \/ r.record \in TransactionPersistInfo
            BY <2>2, NewReportPlace, Zenon
        <3>2. TransactionPersistInfo \subseteq 0 .. Len(veriptr) /\ 0 \in 0 .. Len(veriptr)
            BY <1>0, SMTT(30)
        <3>3. cur <= Len(veriptr) => cur \in 0 .. Len(veriptr)
            BY <1>0, SMTT(30)
        <3>4. r.record \in 0 .. Len(veriptr)
            <4> HIDE DEF TypeOK
            <4> QED BY <3>1, <3>2, <3>3, Zenon
        <3> QED
            BY <1>0, <3>1, <3>4, SMTT(30)
    <2> QED
        BY <2>1, <2>2, Zenon
<1>3. cur' = cur + 1 =>
          \A r \in reports' : r.record \in 0 .. Len(veriptr) /\ r.at \in 1 .. cur'
    BY <1>0, <1>2, SMTT(30)
<1>a. CASE Assign
    <2> DEFINE interval == AddrInterval(veriptr[cur])
               value == timestamp_atleast(timestamp)
    <2>1. Process("ASSIGN")
        BY <1>a, Zenon DEF Assign
    <2>2. value \in Int /\ interval \subseteq Nat
        BY <2>1, <1>1, SMTT(30) DEF timestamp_atleast
    <2>3. OrderInfo' = OrderInfo \/ OrderInfo' = Assigned(OrderInfo, interval, value)
        BY <1>a, Zenon DEF Assign
    <2>4. DOMAIN OrderInfo' \subseteq Nat /\ \A a \in DOMAIN OrderInfo' : OrderInfo'[a] \in Int
        <3> HIDE DEF interval, value
        <3> QED BY <2>2, <2>3, AssignedType, Zenon
    <2>5. PersistInfo' \subseteq Nat /\ TransactionPersistInfo' \subseteq 1 .. Len(veriptr)
        BY <1>a, <2>1, <2>2, <1>1, Zenon DEF Assign
    <2>6. UNCHANGED <<veriptr, ExcludeInfo, TransactionAddInfo, timestamp, transactionCount>>
        BY <1>a, Zenon DEF Assign
    <2> QED
        BY <1>0, <1>1, <1>3, <2>1, <2>4, <2>5, <2>6, SMTT(40)
<1>b. CASE Flush
    <2> DEFINE interval == AddrInterval(veriptr[cur])
               value == timestamp_exactly(timestamp)
    <2>1. Process("FLUSH")
        BY <1>b, Zenon DEF Flush
    <2>2. value \in Int /\ interval \subseteq Nat
        BY <2>1, <1>1, SMTT(30) DEF timestamp_exactly
    <2>3. OrderInfo' = OrderInfo \/ OrderInfo' = Assigned(OrderInfo, interval, value)
        BY <1>b, Zenon DEF Flush
    <2>4. DOMAIN OrderInfo' \subseteq Nat /\ \A a \in DOMAIN OrderInfo' : OrderInfo'[a] \in Int
        <3> HIDE DEF interval, value
        <3> QED BY <2>2, <2>3, AssignedType, Zenon
    <2>5. PersistInfo' \subseteq Nat
        BY <1>b, Zenon DEF Flush, Flushed
    <2>6. UNCHANGED <<veriptr, ExcludeInfo, TransactionAddInfo, TransactionPersistInfo,
                      timestamp, transactionCount>>
        BY <1>b, Zenon DEF Flush
    <2> QED
        BY <1>0, <1>1, <1>3, <2>1, <2>4, <2>5, <2>6, SMTT(30)
<1>c. CASE Fence
    BY <1>c, <1>0, <1>1, SMTT(30) DEF Fence
<1>d. CASE Persist
    BY <1>d, <1>0, <1>1, <1>3, SMTT(30) DEF Persist
<1>e. CASE Order
    <2>1. /\ Process("ORDER")
          /\ UNCHANGED <<veriptr, ExcludeInfo, PersistInfo, TransactionAddInfo, OrderInfo,
                         TransactionPersistInfo, timestamp, transactionCount>>
        BY <1>e, Zenon DEF Order
    <2> QED
        BY <1>0, <1>1, <1>3, <2>1, SMTT(30)
<1>f. CASE TransactionBegin
    <2>1. TransactionPersistInfo' \subseteq 1 .. Len(veriptr)
        BY <1>f, Zenon DEF TransactionBegin
    <2>2. Process("TRANSACTIONBEGIN") /\ transactionCount' \in Int
        BY <1>f, SMTT(30) DEF TransactionBegin
    <2> QED
        BY <1>f, <1>0, <1>1, <2>1, <2>2, SMTT(30) DEF TransactionBegin
<1>g. CASE TransactionEnd
    <2>1. Process("TRANSACTIONEND")
        BY <1>g, Zenon DEF TransactionEnd
    <2>2. \A i \in 1 .. Len(veriptr) : [veriptr[i] EXCEPT !.type = "PERSIST"] \in Metadata
        <3> TAKE i \in 1 .. Len(veriptr)
        <3>1. veriptr[i] \in Metadata
            OBVIOUS
        <3> QED
            BY <3>1, Zenon DEF Metadata, MetadataType
    <2>3. veriptr' \in [1 .. Len(veriptr) -> Metadata]
        BY <1>g, <1>0, <2>2, SMTT(30) DEF TransactionEnd
    <2>4. veriptr' \in Seq(Metadata) /\ Len(veriptr') = Len(veriptr)
        BY <1>0, <2>3, SMTT(30)
    <2> QED
        BY <1>g, <1>0, <1>1, <1>3, <2>1, <2>4, SMTT(40) DEF TransactionEnd
<1>h. CASE TransactionAdd
    <2>1. /\ Process("TRANSACTIONADD")
          /\ UNCHANGED <<veriptr, ExcludeInfo, PersistInfo, OrderInfo,
                         TransactionPersistInfo, timestamp, transactionCount>>
        BY <1>h, Zenon DEF TransactionAdd
    <2>2. TransactionAddInfo' \subseteq Nat
        BY <1>h, <2>1, <1>1, Zenon DEF TransactionAdd
    <2> QED
        BY <1>0, <1>1, <1>3, <2>1, <2>2, SMTT(40)
<1>i. CASE Exclude
    <2>1. /\ Process("EXCLUDE")
          /\ UNCHANGED <<veriptr, PersistInfo, TransactionAddInfo, OrderInfo,
                         TransactionPersistInfo, timestamp, transactionCount>>
        BY <1>i, Zenon DEF Exclude
    <2>2. ExcludeInfo' \subseteq Nat
        BY <1>i, <2>1, <1>1, Zenon DEF Exclude
    <2> QED
        BY <1>0, <1>1, <1>3, <2>1, <2>2, SMTT(30)
<1>j. CASE Include
    <2>1. /\ Process("INCLUDE")
          /\ UNCHANGED <<veriptr, PersistInfo, TransactionAddInfo, OrderInfo,
                         TransactionPersistInfo, timestamp, transactionCount>>
        BY <1>j, Zenon DEF Include
    <2>2. ExcludeInfo' \subseteq Nat
        BY <1>j, <2>1, <1>1, Zenon DEF Include
    <2> QED
        BY <1>0, <1>1, <1>3, <2>1, <2>2, SMTT(40)
<1>k. CASE Unprocessed
    BY <1>k, <1>0, <1>1, SMTT(40) DEF Unprocessed
<1>l. CASE Finish
    BY <1>l, <1>2, Zenon DEF Finish
<1>m. CASE Returned
    BY <1>m, Zenon DEF Returned, vars
<1> QED
    BY <1>a, <1>b, <1>c, <1>d, <1>e, <1>f, <1>g, <1>h, <1>i, <1>j, <1>k, <1>l, <1>m, Zenon
    DEF Next

\* Type correctness of VeriProc, for every set of traces.
THEOREM TypeCorrect == Spec => []TypeOK
<1> QED
    BY InitTypeOK, NextTypeOK, PTL DEF Spec

-----------------------------------------------------------------------------
(* The persistence state.  The inductive invariant says what the engine's  *)
(* sets mean at every position of the trace, for every address.            *)

\* VeriProc overwrites only the types of stores it has already processed.
SameTrace ==
    /\ \A i \in DOMAIN given :
        /\ AddrInterval(veriptr[i]) = AddrInterval(given[i])
        /\ veriptr[i].type = "FENCE" <=> given[i].type = "FENCE"
        /\ i >= cur => veriptr[i] = given[i]
    /\ \A i \in TransactionPersistInfo : i < cur /\ given[i].type = "ASSIGN"

ExcludeExact == \A a : a \in ExcludeInfo <=> Excluded(given, cur, a)

PendingExact == \A a : a \in PersistInfo <=> Pending(given, cur, a)

\* What the messages about persistence say of the trace.
ReportsMean ==
    \A r \in reports :
        /\ r.kind = "PERSIST ERROR" =>
            \E a \in AddrInterval(given[r.record]) : Pending(given, r.at, a)
        /\ r.kind = "FLUSH WARNING" =>
            \A a \in AddrInterval(given[r.record]) : ~Pending(given, r.at, a)

\* Each query about a pending address has been answered with an error.
PendingReported ==
    \A p \in DOMAIN given :
        /\ Answered(p, "PERSIST")
        /\ \E a \in AddrInterval(given[p]) : Pending(given, p, a)
        => Reported("PERSIST ERROR", p, p)

IInv ==
    /\ TypeOK /\ SameTrace /\ ExcludeExact /\ PendingExact
    /\ ReportsMean /\ PendingReported

\* Before the first record nothing is excluded, stored or reported.
LEMMA InitIInv == Init => IInv
<1> SUFFICES ASSUME Init PROVE IInv
    OBVIOUS
<1>1. TypeOK
    BY InitTypeOK, Zenon
<1>2. SameTrace
    BY Zenon DEF Init, SameTrace
<1>3. 1 .. cur - 1 = {}
    BY SMTT(30) DEF Init
<1>4. ExcludeExact /\ PendingExact
    BY <1>3, Zenon DEF Init, ExcludeExact, PendingExact, Excluded, Pending
<1>5. ReportsMean
    BY Zenon DEF Init, ReportsMean
<1>6. PendingReported
    <2>1. \A p \in DOMAIN given : ~(p < cur)
        BY <1>1, SMTT(30) DEF Init, TypeOK
    <2> QED
        BY <2>1, Zenon DEF PendingReported, Answered
<1> QED
    BY <1>1, <1>2, <1>4, <1>5, <1>6, Zenon DEF IInv

\* The record being processed is the one that was submitted.
LEMMA CurrentRecord ==
    ASSUME IInv, NEW type, Process(type)
    PROVE  /\ cur \in DOMAIN given /\ cur \in Nat \ {0} /\ cur' = cur + 1
           /\ given' = given
           /\ veriptr[cur] = given[cur] /\ given[cur].type = type
<1>1. cur \in DOMAIN given /\ cur \in Nat \ {0}
    BY SMTT(30) DEF IInv, TypeOK, Process
<1>2. veriptr[cur] = given[cur]
    BY <1>1, SMTT(30) DEF IInv, SameTrace
<1> QED
    BY <1>1, <1>2, Zenon DEF Process

\* The engine's test for excluded addresses says what it should.
LEMMA OverlapsSkipped ==
    ASSUME IInv, NEW interval
    PROVE  Overlaps(interval, ExcludeInfo) <=> Skipped(given, cur, interval)
BY Zenon DEF IInv, ExcludeExact, Overlaps, Skipped

\* The engine's notion of the tail is that of the submitted trace.
LEMMA InTailMeans ==
    ASSUME IInv
    PROVE  InTail(cur) <=> ~FenceBetween(given, cur, Len(given) + 1)
<1>1. /\ cur \in Nat \ {0} /\ Len(given) \in Nat /\ Len(veriptr) = Len(given)
      /\ DOMAIN given = 1 .. Len(given)
    BY SMTT(30) DEF IInv, TypeOK
<1>2. \A j \in cur + 1 .. Len(given) : j \in DOMAIN given
    BY <1>1, SMTT(30)
<1>3. (Len(given) + 1) - 1 = Len(given)
    BY <1>1, SMTT(30)
<1>4. \A j \in cur + 1 .. Len(given) :
          veriptr[j].type = "FENCE" <=> given[j].type = "FENCE"
    BY <1>2, Zenon DEF IInv, SameTrace
<1> QED
    BY <1>1, <1>3, <1>4, Zenon DEF InTail, FenceBetween

\* Each action processes a record of its type, ends the trace, or stutters.
LEMMA StepKinds ==
    ASSUME Next
    PROVE  \/ \E type : Process(type)
           \/ UNCHANGED <<veriptr, cur, ExcludeInfo, PersistInfo, given>>
BY Zenon DEF Next, Assign, Flush, Fence, Persist, Order, TransactionBegin, TransactionEnd,
       TransactionAdd, Exclude, Include, Unprocessed, Finish, Returned, vars

\* The switch on the type of the record.
LEMMA ActionTypes ==
    ASSUME Next, cur \in Nat, NEW type, Process(type)
    PROVE  \/ Assign /\ type = "ASSIGN"
           \/ Flush /\ type = "FLUSH"
           \/ Fence /\ type = "FENCE"
           \/ Persist /\ type = "PERSIST"
           \/ Order /\ type = "ORDER"
           \/ TransactionBegin /\ type = "TRANSACTIONBEGIN"
           \/ TransactionEnd /\ type = "TRANSACTIONEND"
           \/ TransactionAdd /\ type = "TRANSACTIONADD"
           \/ Exclude /\ type = "EXCLUDE"
           \/ Include /\ type = "INCLUDE"
           \/ Unprocessed /\ type \in {"COMMIT", "BARRIER", "TRANSACTIONDELIM", "ENDING"}
<1>1. cur' # cur
    BY SMTT(30) DEF Process
<1>2. ~Finish /\ ~Returned
    BY <1>1, Zenon DEF Finish, Returned, vars
<1>3. ASSUME NEW other, Process(other)
      PROVE  type = other
    BY <1>3, Zenon DEF Process
<1>4. /\ Assign => Process("ASSIGN")
      /\ Flush => Process("FLUSH")
      /\ Fence => Process("FENCE")
      /\ Persist => Process("PERSIST")
      /\ Order => Process("ORDER")
      /\ TransactionBegin => Process("TRANSACTIONBEGIN")
      /\ TransactionEnd => Process("TRANSACTIONEND")
      /\ TransactionAdd => Process("TRANSACTIONADD")
      /\ Exclude => Process("EXCLUDE")
      /\ Include => Process("INCLUDE")
      /\ Unprocessed =>
            \E other \in {"COMMIT", "BARRIER", "TRANSACTIONDELIM", "ENDING"} : Process(other)
    BY Zenon DEF Assign, Flush, Fence, Persist, Order, TransactionBegin, TransactionEnd,
        TransactionAdd, Exclude, Include, Unprocessed
<1> QED
    BY <1>2, <1>3, <1>4, Zenon DEF Next

\* What the actions do to the two maps that the persist checks use.
LEMMA ActionOf ==
    ASSUME Next, cur \in Nat, NEW type, Process(type)
    PROVE  \/ Assign /\ type = "ASSIGN"
           \/ Flush /\ type = "FLUSH"
           \/ Persist /\ type = "PERSIST"
           \/ Exclude /\ type = "EXCLUDE"
           \/ Include /\ type = "INCLUDE"
           \/ /\ type \notin {"ASSIGN", "FLUSH", "PERSIST", "EXCLUDE", "INCLUDE"}
              /\ ExcludeInfo' = ExcludeInfo /\ PersistInfo' = PersistInfo
<1>1. \/ Assign /\ type = "ASSIGN"
      \/ Flush /\ type = "FLUSH"
      \/ Persist /\ type = "PERSIST"
      \/ Exclude /\ type = "EXCLUDE"
      \/ Include /\ type = "INCLUDE"
      \/ /\ type \notin {"ASSIGN", "FLUSH", "PERSIST", "EXCLUDE", "INCLUDE"}
         /\ \/ Fence \/ Order \/ TransactionBegin \/ TransactionEnd \/ TransactionAdd
            \/ Unprocessed
    BY ActionTypes, Zenon
<1> QED
    BY <1>1, Zenon DEF Fence, Order, TransactionBegin, TransactionEnd, TransactionAdd, Unprocessed

\* No step loses the correspondence between the trace the engine rewrites and
\* the trace that was submitted.
LEMMA SameTraceStep ==
    ASSUME IInv, Next, TypeOK'
    PROVE  SameTrace'
<1>1. given' = given /\ cur' \in {cur, cur + 1} /\ cur \in Nat
    BY StepKinds, SMTT(30) DEF Process, IInv, TypeOK
<1>2. \A i \in TransactionPersistInfo' : i < cur' /\ given[i].type = "ASSIGN"
    <2> TAKE i \in TransactionPersistInfo'
    <2>1. CASE i \in TransactionPersistInfo
        BY <1>1, <2>1, SMTT(30) DEF IInv, TypeOK, SameTrace
    <2>2. CASE i \notin TransactionPersistInfo
        <3>1. Assign /\ i = cur
            BY <2>2, Zenon DEF Next, Assign, Flush, Fence, Persist, Order, TransactionBegin,
                TransactionEnd, TransactionAdd, Exclude, Include, Unprocessed, Finish,
                Returned, vars
        <3>2. Process("ASSIGN")
            BY <3>1, Zenon DEF Assign
        <3>3. given[cur].type = "ASSIGN" /\ cur' = cur + 1
            BY <3>2, CurrentRecord, Zenon
        <3> QED
            BY <1>1, <3>1, <3>3, SMTT(30)
    <2> QED
        BY <2>1, <2>2, Zenon
<1>3. ASSUME NEW i \in DOMAIN given
      PROVE  /\ AddrInterval(veriptr'[i]) = AddrInterval(given[i])
             /\ veriptr'[i].type = "FENCE" <=> given[i].type = "FENCE"
             /\ i >= cur' => veriptr'[i] = given[i]
    <2>1. CASE veriptr'[i] = veriptr[i]
        <3>1. i >= cur' => i >= cur
            BY <1>1, SMTT(30) DEF IInv, TypeOK
        <3> QED
            BY <2>1, <3>1, Zenon DEF IInv, SameTrace
    <2>2. CASE veriptr'[i] # veriptr[i]
        <3>1. TransactionEnd
            BY <2>2, Zenon DEF Next, Assign, Flush, Fence, Persist, Order, TransactionBegin,
                TransactionAdd, Exclude, Include, Unprocessed, Finish, Returned, vars
        <3>2. i \in DOMAIN veriptr
            BY SMTT(30) DEF IInv, TypeOK
        <3>3. /\ i \in TransactionPersistInfo
              /\ veriptr'[i] = [veriptr[i] EXCEPT !.type = "PERSIST"]
            BY <2>2, <3>1, <3>2, Zenon DEF TransactionEnd
        <3>4. veriptr[i] \in Metadata
            BY <3>2, SMTT(30) DEF IInv, TypeOK
        <3>5. veriptr'[i].type = "PERSIST"
            BY <3>3, <3>4, Zenon DEF Metadata
        <3>6. AddrInterval(veriptr'[i]) = AddrInterval(veriptr[i])
            BY <3>3, <3>4, Zenon DEF Metadata, AddrInterval
        <3>7. given[i].type = "ASSIGN" /\ ~(i >= cur')
            BY <1>1, <3>3, SMTT(30) DEF IInv, TypeOK, SameTrace
        <3> QED
            BY <3>5, <3>6, <3>7, Zenon DEF IInv, SameTrace
    <2> QED
        BY <2>1, <2>2, Zenon
<1> QED
    BY <1>1, <1>2, <1>3, Zenon DEF SameTrace

\* VeriProc_Exclude and VeriProc_Include keep track of what is excluded.
LEMMA ExcludeExactStep ==
    ASSUME IInv, Next
    PROVE  ExcludeExact'
<1>1. CASE UNCHANGED <<veriptr, cur, ExcludeInfo, PersistInfo, given>>
    BY <1>1, Zenon DEF IInv, ExcludeExact
<1>2. ASSUME NEW type, Process(type)
      PROVE  ExcludeExact'
    <2>1. /\ cur \in Nat \ {0} /\ cur' = cur + 1 /\ given' = given
          /\ veriptr[cur] = given[cur] /\ given[cur].type = type
        BY <1>2, CurrentRecord, Zenon
    <2>2. \A a : Excluded(given, cur + 1, a) <=>
              \/ Touches(given, cur, "EXCLUDE", a)
              \/ Excluded(given, cur, a) /\ ~Touches(given, cur, "INCLUDE", a)
        BY <2>1, ExcludedStep, Zenon
    <2>3. CASE Exclude
        <3>1. type = "EXCLUDE"
            BY <1>2, <2>3, Zenon DEF Exclude, Process
        <3> QED
            BY <2>1, <2>2, <2>3, <3>1, Zenon DEF Exclude, IInv, ExcludeExact, Touches
    <2>4. CASE Include
        <3>1. type = "INCLUDE"
            BY <1>2, <2>4, Zenon DEF Include, Process
        <3> QED
            BY <2>1, <2>2, <2>4, <3>1, Zenon DEF Include, IInv, ExcludeExact, Touches
    <2>5. CASE ~Exclude /\ ~Include
        <3>1. type \notin {"EXCLUDE", "INCLUDE"} /\ ExcludeInfo' = ExcludeInfo
            BY <1>2, <2>1, <2>5, ActionOf, Zenon DEF Assign, Flush, Persist
        <3> QED
            BY <2>1, <2>2, <3>1, Zenon DEF IInv, ExcludeExact, Touches
    <2> QED
        BY <2>3, <2>4, <2>5, Zenon
<1> QED
    BY <1>1, <1>2, StepKinds, Zenon

\* VeriProc_Assign and VeriProc_Flush keep track of what is pending.
LEMMA PendingExactStep ==
    ASSUME IInv, Next
    PROVE  PendingExact'
<1>1. CASE UNCHANGED <<veriptr, cur, ExcludeInfo, PersistInfo, given>>
    BY <1>1, Zenon DEF IInv, PendingExact
<1>2. ASSUME NEW type, Process(type)
      PROVE  PendingExact'
    <2> DEFINE interval == AddrInterval(given[cur])
    <2>1. /\ cur \in Nat \ {0} /\ cur' = cur + 1 /\ given' = given
          /\ veriptr[cur] = given[cur] /\ given[cur].type = type
        BY <1>2, CurrentRecord, Zenon
    <2>2. ASSUME NEW a
          PROVE  Pending(given, cur + 1, a) <=>
                   \/ Stores(given, cur, a)
                   \/ a \in PersistInfo /\ ~(Flushes(given, cur, a) /\ ~InTail(cur))
        <3>1. Pending(given, cur + 1, a) <=>
                \/ Stores(given, cur, a)
                \/ /\ Pending(given, cur, a)
                   /\ ~(Flushes(given, cur, a) /\ FenceBetween(given, cur, Len(given) + 1))
            BY <2>1, PendingStep, Zenon
        <3>2. FenceBetween(given, cur, Len(given) + 1) <=> ~InTail(cur)
            BY InTailMeans, Zenon
        <3>3. Pending(given, cur, a) <=> a \in PersistInfo
            BY Zenon DEF IInv, PendingExact
        <3> QED
            BY <3>1, <3>2, <3>3, Zenon
    <2>3. Ignored(interval) <=> interval = {} \/ Skipped(given, cur, interval)
        BY OverlapsSkipped, Zenon DEF Ignored
    <2>4. \A a : Stores(given, cur, a) <=> type = "ASSIGN" /\ a \in interval /\ ~Ignored(interval)
        BY <2>1, <2>3, Zenon DEF Stores, Touches
    <2>5. \A a : Flushes(given, cur, a) <=> type = "FLUSH" /\ a \in interval /\ ~Ignored(interval)
        BY <2>1, <2>3, Zenon DEF Flushes, Touches
    <2> SUFFICES \A a : a \in PersistInfo' <=>
            \/ type = "ASSIGN" /\ a \in interval /\ ~Ignored(interval)
            \/ /\ a \in PersistInfo
               /\ ~(type = "FLUSH" /\ a \in interval /\ ~Ignored(interval) /\ ~InTail(cur))
        BY <2>1, <2>2, <2>4, <2>5, Zenon DEF PendingExact
    <2>6. CASE Assign /\ type = "ASSIGN"
        BY <2>1, <2>6, Zenon DEF Assign
    <2>7. CASE Flush /\ type = "FLUSH"
        BY <2>1, <2>7, Zenon DEF Flush, Flushed
    <2>8. CASE type \notin {"ASSIGN", "FLUSH"} /\ PersistInfo' = PersistInfo
        BY <2>8, Zenon
    <2> QED
        BY <1>2, <2>1, <2>6, <2>7, <2>8, ActionOf, Zenon DEF Persist, Exclude, Include
<1> QED
    BY <1>1, <1>2, StepKinds, Zenon

\* A message of VeriProc_Persist is about a record with a pending address.
LEMMA PersistReportsPending ==
    ASSUME IInv, NEW i \in DOMAIN given, NEW r \in PersistReports(i)
    PROVE  /\ r.kind = "PERSIST ERROR" /\ r.record = i /\ r.at = cur
           /\ \E a \in AddrInterval(given[i]) : Pending(given, cur, a)
<1>1. r = Report("PERSIST ERROR", i)
    BY PersistReportsAre, Zenon
<1>2. Overlaps(AddrInterval(veriptr[i]), PersistInfo)
    BY Zenon DEF PersistReports
<1>3. AddrInterval(veriptr[i]) = AddrInterval(given[i])
    BY Zenon DEF IInv, SameTrace
<1> QED
    BY <1>1, <1>2, <1>3, ReportFields, Zenon DEF Overlaps, IInv, PendingExact

\* No step prints a message about persistence that the trace belies.
LEMMA ReportsMeanStep ==
    ASSUME IInv, Next
    PROVE  ReportsMean'
<1>1. given' = given
    BY StepKinds, Zenon DEF Process
<1> SUFFICES ASSUME NEW r \in reports', r \notin reports
             PROVE  /\ r.kind = "PERSIST ERROR" =>
                        \E a \in AddrInterval(given[r.record]) : Pending(given, r.at, a)
                    /\ r.kind = "FLUSH WARNING" =>
                        \A a \in AddrInterval(given[r.record]) : ~Pending(given, r.at, a)
    BY <1>1, Zenon DEF IInv, ReportsMean
<1>2. ASSUME NEW i \in DOMAIN given, r \in PersistReports(i)
      PROVE  /\ r.kind = "PERSIST ERROR" /\ r.record = i /\ r.at = cur
             /\ \E a \in AddrInterval(given[i]) : Pending(given, cur, a)
    BY <1>2, PersistReportsPending, Zenon
<1>3. ASSUME NEW kind, NEW record, r = Report(kind, record)
      PROVE  r.kind = kind /\ r.record = record /\ r.at = cur
    BY <1>3, ReportFields, Zenon
<1>a. CASE Assign
    <2>1. r = Report("ASSIGN ERROR", cur)
        BY <1>a, NewReports, Zenon
    <2>2. r.kind = "ASSIGN ERROR"
        BY <1>3, <2>1, Zenon
    <2> QED
        BY <2>2, Zenon
<1>b. CASE Flush
    <2>1. r = Report("FLUSH WARNING", cur)
        BY <1>b, NewReports, Zenon
    <2>2. r.kind = "FLUSH WARNING" /\ r.record = cur /\ r.at = cur
        BY <1>3, <2>1, Zenon
    <2>3. Process("FLUSH") /\ Unmodified(AddrInterval(veriptr[cur]))
        BY <1>b, Zenon DEF Flush
    <2>4. veriptr[cur] = given[cur]
        BY <2>3, CurrentRecord, Zenon
    <2>5. \A a \in AddrInterval(given[cur]) : ~Pending(given, cur, a)
        BY <2>3, <2>4, Zenon DEF Unmodified, Overlaps, IInv, PendingExact
    <2> QED
        BY <2>2, <2>5, Zenon
<1>c. CASE Persist
    <2>1. cur \in DOMAIN given
        BY <1>c, CurrentRecord, Zenon DEF Persist
    <2> QED
        BY <1>c, <1>2, <2>1, NewReports, Zenon
<1>d. CASE Order
    <2>1. r = Report("ORDER ERROR", cur)
        BY <1>d, NewReports, Zenon
    <2>2. r.kind = "ORDER ERROR"
        BY <1>3, <2>1, Zenon
    <2> QED
        BY <2>2, Zenon
<1>e. CASE TransactionEnd
    <2>1. PICK i \in TransactionPersistInfo : r \in PersistReports(i)
        BY <1>e, NewReports, Zenon
    <2>2. i \in DOMAIN given
        BY SMTT(30) DEF IInv, TypeOK
    <2> QED
        BY <1>2, <2>1, <2>2, Zenon
<1>f. CASE TransactionAdd
    <2>1. r = Report("TRANSACTIONADD WARNING", cur)
        BY <1>f, NewReports, Zenon
    <2>2. r.kind = "TRANSACTIONADD WARNING"
        BY <1>3, <2>1, Zenon
    <2> QED
        BY <2>2, Zenon
<1>g. CASE Finish
    <2>1. r = Report("TRANSACTIONEND ERROR", 0)
        BY <1>g, NewReports, Zenon
    <2>2. r.kind = "TRANSACTIONEND ERROR"
        BY <1>3, <2>1, Zenon
    <2> QED
        BY <2>2, Zenon
<1>h. CASE reports' = reports
    BY <1>h, Zenon
<1> QED
    BY <1>a, <1>b, <1>c, <1>d, <1>e, <1>f, <1>g, <1>h, Zenon
    DEF Next, Fence, TransactionBegin, Exclude, Include, Unprocessed, Returned, vars

\* VeriProc_Persist reports a record with a pending address.
LEMMA PendingReportedStep ==
    ASSUME IInv, Next
    PROVE  PendingReported'
<1>1. given' = given /\ reports \subseteq reports'
    <2>1. given' = given
        BY StepKinds, Zenon DEF Process
    <2>2. reports \subseteq reports'
        BY Zenon DEF Next, Assign, Flush, Fence, Persist, Order, TransactionBegin,
            TransactionEnd, TransactionAdd, Exclude, Include, Unprocessed, Finish,
            Returned, vars
    <2> QED
        BY <2>1, <2>2, Zenon
<1> SUFFICES ASSUME NEW p \in DOMAIN given, Answered(p, "PERSIST")',
                    \E a \in AddrInterval(given[p]) : Pending(given, p, a)
             PROVE  [kind |-> "PERSIST ERROR", record |-> p, at |-> p] \in reports'
    BY <1>1, Zenon DEF PendingReported, Reported
<1>2. CASE p < cur
    <2>1. Answered(p, "PERSIST")
        BY <1>1, <1>2, Zenon DEF Answered
    <2>2. Reported("PERSIST ERROR", p, p)
        BY <2>1, Zenon DEF IInv, PendingReported
    <2> QED
        BY <1>1, <2>2, Zenon DEF Reported
<1>3. CASE ~(p < cur)
    <2>0. p < cur' /\ given[p].type = "PERSIST" /\ ~Skipped(given, p, AddrInterval(given[p]))
        BY <1>1, Zenon DEF Answered
    <2>1. cur \in Nat /\ p \in Nat
        BY SMTT(30) DEF IInv, TypeOK
    <2>2. PICK type : Process(type)
        <3>1. cur' # cur
            BY <1>3, <2>0, Zenon
        <3> QED
            BY <3>1, StepKinds, Zenon
    <2>3. cur' = cur + 1 /\ veriptr[cur] = given[cur] /\ given[cur].type = type
        BY <2>2, CurrentRecord, Zenon
    <2>4. p = cur
        BY <1>3, <2>0, <2>1, <2>3, SMTT(40)
    <2>5. type = "PERSIST"
        BY <2>0, <2>3, <2>4, Zenon
    <2>6. Persist
        BY <2>1, <2>2, <2>5, ActionOf, Zenon
    <2>7. /\ Overlaps(AddrInterval(veriptr[cur]), PersistInfo)
          /\ AddrInterval(veriptr[cur]) # {}
        BY <2>3, <2>4, Zenon DEF IInv, PendingExact, Overlaps
    <2>8. ~Overlaps(AddrInterval(veriptr[cur]), ExcludeInfo)
        BY <2>0, <2>3, <2>4, OverlapsSkipped, Zenon
    <2>9. Report("PERSIST ERROR", cur) \in PersistReports(cur)
        BY <2>7, <2>8, Zenon DEF PersistReports, Ignored
    <2> QED
        BY <2>4, <2>6, <2>9, Zenon DEF Persist, Report
<1> QED
    BY <1>2, <1>3, Zenon

\* The invariant is inductive.
LEMMA NextIInv == IInv /\ [Next]_vars => IInv'
<1>1. ASSUME IInv, Next PROVE IInv'
    <2>1. TypeOK'
        BY <1>1, NextTypeOK, Zenon DEF IInv
    <2> QED
        BY <1>1, <2>1, SameTraceStep, ExcludeExactStep, PendingExactStep,
           ReportsMeanStep, PendingReportedStep, Zenon DEF IInv
<1>2. ASSUME IInv, UNCHANGED vars PROVE IInv'
    BY <1>2, Zenon DEF IInv, vars, TypeOK, SameTrace, ExcludeExact, PendingExact, ReportsMean,
        PendingReported, Answered, Reported
<1> QED
    BY <1>1, <1>2, Zenon

\* The engine's state always means what the invariant says.
THEOREM StateMeaning == Spec => []IInv
<1> QED
    BY InitIInv, NextIInv, PTL DEF Spec

\* PersistInfo is exact on every trace, not only on the short ones (the sets
\* kept by VeriProc_Assign and VeriProc_Flush).
THEOREM PersistInfoIsExact == Spec => []PersistInfoExact
<1>1. IInv => PersistInfoExact
    BY Zenon DEF IInv, PendingExact, PersistInfoExact
<1> QED
    BY <1>1, StateMeaning, PTL

\* No trace makes VeriProc_Persist raise a false alarm.
THEOREM NoFalsePersistError == Spec => []PersistErrorsReal
<1>0. ASSUME IInv
      PROVE  given \in Seq(Metadata) /\ \A n \in 1 .. cur : n \in 1 .. Len(given) + 1
    <2>1. /\ given \in Seq(Metadata) /\ Len(given) \in Nat
          /\ cur \in 1 .. Len(given) + 1
        BY <1>0, SMTT(30) DEF IInv, TypeOK
    <2>2. \A n \in 1 .. cur : n \in 1 .. Len(given) + 1
        BY <2>1, SMTT(30)
    <2> QED
        BY <2>1, <2>2, Zenon
<1>1. IInv => PersistErrorsReal
    <2> SUFFICES ASSUME IInv, NEW r \in reports, r.kind = "PERSIST ERROR"
                 PROVE  \E a \in AddrInterval(given[r.record]) : ~Durable(given, r.at, a)
        BY Zenon DEF PersistErrorsReal
    <2>1. PICK a \in AddrInterval(given[r.record]) : Pending(given, r.at, a)
        BY Zenon DEF IInv, ReportsMean
    <2>2. \A q \in reports : q.at \in 1 .. cur
        BY Zenon DEF IInv, TypeOK
    <2>3. r.at \in 1 .. Len(given) + 1
        BY <1>0, <2>2, Zenon
    <2> QED
        BY <1>0, <2>1, <2>3, PendingNotDurable, Zenon
<1> QED
    BY <1>1, StateMeaning, PTL

\* On every trace, VeriProc_Persist at a settled position misses nothing.
THEOREM SettledPersistSound == Spec => []PersistSoundIfSettled
<1>1. IInv => PersistSoundIfSettled
    <2> SUFFICES ASSUME IInv, NEW p \in DOMAIN given,
                        Answered(p, "PERSIST"), Settled(given, p),
                        NEW a \in AddrInterval(given[p]), ~Durable(given, p, a)
                 PROVE  Reported("PERSIST ERROR", p, p)
        BY Zenon DEF PersistSoundIfSettled
    <2>1. p \in Nat
        BY SMTT(30) DEF IInv, TypeOK
    <2>2. Pending(given, p, a)
        BY <2>1, NotDurablePending, Zenon
    <2> QED
        BY <2>2, Zenon DEF IInv, PendingReported
<1> QED
    BY <1>1, StateMeaning, PTL

\* On every trace, a flush that VeriProc_Flush calls unnecessary is so.
THEOREM NoFalseFlushWarning == Spec => []FlushWarningsReal
<1>1. IInv => FlushWarningsReal
    <2> SUFFICES ASSUME IInv, NEW r \in reports, r.kind = "FLUSH WARNING",
                        NEW a \in AddrInterval(given[r.record]),
                        NEW i \in 1 .. r.at - 1, Stores(given, i, a)
                 PROVE  \E f \in i + 1 .. r.at - 1 : Flushes(given, f, a)
        BY Zenon DEF FlushWarningsReal
    <2>1. ~Pending(given, r.at, a)
        BY Zenon DEF IInv, ReportsMean
    <2> QED
        BY <2>1, Zenon DEF Pending
<1> QED
    BY <1>1, StateMeaning, PTL

-----------------------------------------------------------------------------
(* Counting the records of one type.                                       *)

\* The records of one type before a position are finitely many.
LEMMA CountType ==
    ASSUME NEW t, NEW p \in Nat, NEW type
    PROVE  IsFiniteSet(Before(t, p, type)) /\ CountBefore(t, p, type) \in Nat
<1>1. IsFiniteSet(1 .. p - 1)
    BY FS_Interval, SMTT(30)
<1>2. Before(t, p, type) \in SUBSET (1 .. p - 1)
    BY Zenon DEF Before
<1>3. IsFiniteSet(Before(t, p, type))
    BY <1>1, <1>2, FS_Subset, Zenon
<1> QED
    BY <1>3, FS_CardinalityType, Zenon DEF CountBefore

\* Taking one more record into account.
LEMMA CountStep ==
    ASSUME NEW t, NEW p \in Nat \ {0}, NEW type
    PROVE  CountBefore(t, p + 1, type) =
             IF t[p].type = type THEN CountBefore(t, p, type) + 1
             ELSE CountBefore(t, p, type)
<1>1. IsFiniteSet(Before(t, p, type))
    BY CountType, Zenon
<1>2. /\ p \notin Before(t, p, type)
      /\ Before(t, p + 1, type) =
            IF t[p].type = type THEN Before(t, p, type) \cup {p} ELSE Before(t, p, type)
    <2>1. 1 .. (p + 1) - 1 = (1 .. p - 1) \cup {p}
        OBVIOUS
    <2> QED
        BY <2>1, SMTT(30) DEF Before
<1>3. Cardinality(Before(t, p, type) \cup {p}) = Cardinality(Before(t, p, type)) + 1
    BY <1>1, <1>2, FS_AddElement, Zenon
<1> QED
    BY <1>2, <1>3, Zenon DEF CountBefore

\* There is nothing before the first record.
LEMMA CountFirst ==
    ASSUME NEW t, NEW type
    PROVE  CountBefore(t, 1, type) = 0
<1>1. Before(t, 1, type) = {}
    BY SMTT(30) DEF Before
<1> QED
    BY <1>1, FS_EmptySet, Zenon DEF CountBefore

\* A count grows between two positions exactly if there is such a record
\* from the one up to the other.
LEMMA CountBetween ==
    ASSUME NEW t, NEW type, NEW i \in Nat \ {0}, NEW j \in Nat, i <= j
    PROVE  /\ CountBefore(t, i, type) <= CountBefore(t, j, type)
           /\ CountBefore(t, i, type) = CountBefore(t, j, type) <=>
                \A k \in i .. j - 1 : t[k].type # type
<1>1. IsFiniteSet(Before(t, j, type)) /\ IsFiniteSet(Before(t, i, type))
    BY CountType, Zenon
<1>2. Before(t, i, type) \in SUBSET Before(t, j, type)
    BY SMTT(30) DEF Before
<1>3. /\ CountBefore(t, i, type) <= CountBefore(t, j, type)
      /\ CountBefore(t, j, type) = CountBefore(t, i, type) <=>
            Before(t, j, type) = Before(t, i, type)
    BY <1>1, <1>2, FS_Subset, Zenon DEF CountBefore
<1>4. Before(t, j, type) = Before(t, i, type) <=>
          \A k \in i .. j - 1 : t[k].type # type
    <2>1. ASSUME Before(t, j, type) = Before(t, i, type),
                 NEW k \in i .. j - 1, t[k].type = type
          PROVE  FALSE
        <3>1. k \in Before(t, j, type) /\ k \notin Before(t, i, type)
            BY <2>1, SMTT(30) DEF Before
        <3> QED
            BY <2>1, <3>1, Zenon
    <2>2. ASSUME \A k \in i .. j - 1 : t[k].type # type
          PROVE  Before(t, j, type) \subseteq Before(t, i, type)
        BY <2>2, SMTT(30) DEF Before
    <2> QED
        BY <1>2, <2>1, <2>2, Zenon
<1> QED
    BY <1>3, <1>4, Zenon

\* How the nesting of transactions changes with one record.
LEMMA DepthStep ==
    ASSUME NEW t, NEW p \in Nat \ {0}
    PROVE  /\ Depth(t, p) \in Int
           /\ Depth(t, p + 1) =
                IF t[p].type = "TRANSACTIONBEGIN" THEN Depth(t, p) + 1
                ELSE IF t[p].type = "TRANSACTIONEND" THEN Depth(t, p) - 1
                ELSE Depth(t, p)
<1>1. \A type : CountBefore(t, p, type) \in Nat
    BY CountType, Zenon
<1>2. \A type : CountBefore(t, p + 1, type) =
          IF t[p].type = type THEN CountBefore(t, p, type) + 1
          ELSE CountBefore(t, p, type)
    BY CountStep, Zenon
<1> QED
    BY <1>1, <1>2, SMTT(30) DEF Depth

-----------------------------------------------------------------------------
(* Transactions.  The counter is the nesting depth, also of traces that    *)
(* are not well nested.                                                    *)

DepthExact == transactionCount = Depth(given, cur)

\* TransactionAddInfo is never cleared: it holds what was added in any
\* transaction so far.
AddExact ==
    \A a : a \in TransactionAddInfo <=> \E j \in 1 .. cur - 1 : Adds(given, j, a)

\* The stores of the transaction that is open are recorded.
StoresRecorded ==
    \A i \in 1 .. cur - 1 :
        SameTransaction(given, i, cur) /\ (\E a : Stores(given, i, a)) =>
            i \in TransactionPersistInfo

\* Which stores are reported as not added.
AssignExact ==
    \A i \in DOMAIN given :
        Reported("ASSIGN ERROR", i, i) <=>
            /\ Answered(i, "ASSIGN") /\ Depth(given, i) > 0
            /\ \A a \in AddrInterval(given[i]), j \in 1 .. i - 1 : ~Adds(given, j, a)

\* The end of the outermost transaction has reported its pending stores.
EndReported ==
    \A p \in DOMAIN given :
        p < cur /\ given[p].type = "TRANSACTIONEND" /\ Depth(given, p) = 1 =>
            \A i \in 1 .. p - 1 :
                /\ SameTransaction(given, i, p)
                /\ ~Skipped(given, p, AddrInterval(given[i]))
                /\ \E a \in AddrInterval(given[i]) :
                    Stores(given, i, a) /\ Pending(given, p, a)
                => Reported("PERSIST ERROR", i, p)

\* The message at the end is printed only there.
UnclosedExact ==
    /\ returned = "yes" => cur = Len(given) + 1
    /\ Reported("TRANSACTIONEND ERROR", 0, Len(given) + 1) <=>
            returned = "yes" /\ Depth(given, Len(given) + 1) > 0

TransInv ==
    DepthExact /\ AddExact /\ StoresRecorded /\ AssignExact /\ EndReported /\ UnclosedExact

\* Nothing has happened yet.
LEMMA InitTransInv == Init => TransInv
<1> SUFFICES ASSUME Init PROVE TransInv
    OBVIOUS
<1>1. cur = 1 /\ 1 .. cur - 1 = {} /\ reports = {} /\ returned = "no"
    BY SMTT(30) DEF Init
<1>2. given \in Seq(Metadata) /\ Len(given) \in Nat /\ DOMAIN given = 1 .. Len(given)
    BY InputsAssumption, SMTT(30) DEF Init
<1>3. DepthExact
    BY <1>1, CountFirst, SMTT(30) DEF Init, DepthExact, Depth
<1>4. AddExact /\ StoresRecorded
    BY <1>1, Zenon DEF Init, AddExact, StoresRecorded
<1>5. \A p \in DOMAIN given : ~(p < cur)
    BY <1>1, <1>2, SMTT(30)
<1>6. AssignExact /\ EndReported
    BY <1>1, <1>5, Zenon DEF AssignExact, EndReported, Answered, Reported
<1>7. UnclosedExact
    BY <1>1, Zenon DEF UnclosedExact, Reported
<1> QED
    BY <1>3, <1>4, <1>6, <1>7, Zenon DEF TransInv

\* A step processes a record, ends the trace or changes nothing.
LEMMA TraceSteps ==
    ASSUME Next
    PROVE  (\E type : Process(type)) \/ Finish \/ UNCHANGED vars
BY Zenon DEF Next, Assign, Flush, Fence, Persist, Order, TransactionBegin, TransactionEnd,
       TransactionAdd, Exclude, Include, Unprocessed, Returned

\* VeriProc_TransactionBegin and _TransactionEnd count the nesting.
LEMMA DepthExactStep ==
    ASSUME IInv, DepthExact, Next
    PROVE  DepthExact'
<1>1. CASE Finish \/ UNCHANGED vars
    BY <1>1, Zenon DEF Finish, vars, DepthExact
<1>2. ASSUME NEW type, Process(type)
      PROVE  DepthExact'
    <2>1. /\ cur \in Nat \ {0} /\ cur' = cur + 1 /\ given' = given
          /\ given[cur].type = type
        BY <1>2, CurrentRecord, Zenon
    <2>2. /\ Depth(given, cur) \in Int
          /\ Depth(given, cur + 1) =
                IF type = "TRANSACTIONBEGIN" THEN Depth(given, cur) + 1
                ELSE IF type = "TRANSACTIONEND" THEN Depth(given, cur) - 1
                ELSE Depth(given, cur)
        BY <2>1, DepthStep, Zenon
    <2> SUFFICES transactionCount' = Depth(given, cur + 1)
        BY <2>1, Zenon DEF DepthExact
    <2>3. transactionCount = Depth(given, cur)
        BY Zenon DEF DepthExact
    <2>4. CASE TransactionBegin /\ type = "TRANSACTIONBEGIN"
        BY <2>2, <2>3, <2>4, Zenon DEF TransactionBegin
    <2>5. CASE TransactionEnd /\ type = "TRANSACTIONEND"
        BY <2>2, <2>3, <2>5, Zenon DEF TransactionEnd
    <2>6. CASE /\ type \notin {"TRANSACTIONBEGIN", "TRANSACTIONEND"}
               /\ transactionCount' = transactionCount
        BY <2>2, <2>3, <2>6, Zenon
    <2>7. \/ TransactionBegin /\ type = "TRANSACTIONBEGIN"
          \/ TransactionEnd /\ type = "TRANSACTIONEND"
          \/ /\ type \notin {"TRANSACTIONBEGIN", "TRANSACTIONEND"}
             /\ transactionCount' = transactionCount
        BY <1>2, <2>1, ActionTypes, Zenon DEF Assign, Flush, Fence, Persist, Order,
            TransactionAdd, Exclude, Include, Unprocessed
    <2> QED
        BY <2>4, <2>5, <2>6, <2>7, Zenon
<1> QED
    BY <1>1, <1>2, TraceSteps, Zenon

\* VeriProc_TransactionAdd keeps what is added inside a transaction.
LEMMA AddExactStep ==
    ASSUME IInv, DepthExact, AddExact, Next
    PROVE  AddExact'
<1>1. CASE Finish \/ UNCHANGED vars
    BY <1>1, Zenon DEF Finish, vars, AddExact
<1>2. ASSUME NEW type, Process(type)
      PROVE  AddExact'
    <2> DEFINE added == IF type = "TRANSACTIONADD" /\ transactionCount > 0
                        THEN AddrInterval(given[cur]) ELSE {}
    <2>1. /\ cur \in Nat \ {0} /\ cur' = cur + 1 /\ given' = given
          /\ veriptr[cur] = given[cur] /\ given[cur].type = type
        BY <1>2, CurrentRecord, Zenon
    <2>2. TransactionAddInfo' = TransactionAddInfo \cup added
        <3>1. CASE TransactionAdd /\ type = "TRANSACTIONADD"
            BY <2>1, <3>1, Zenon DEF TransactionAdd
        <3>2. CASE type # "TRANSACTIONADD" /\ TransactionAddInfo' = TransactionAddInfo
            BY <3>2, Zenon
        <3>3. \/ TransactionAdd /\ type = "TRANSACTIONADD"
              \/ type # "TRANSACTIONADD" /\ TransactionAddInfo' = TransactionAddInfo
            BY <1>2, <2>1, ActionTypes, Zenon DEF Assign, Flush, Fence, Persist, Order,
                TransactionBegin, TransactionEnd, Exclude, Include, Unprocessed
        <3> QED
            BY <3>1, <3>2, <3>3, Zenon
    <2>3. \A a : Adds(given, cur, a) <=> a \in added
        BY <2>1, Zenon DEF Adds, Touches, DepthExact
    <2>4. 1 .. cur' - 1 = (1 .. cur - 1) \cup {cur}
        BY <2>1, SMTT(30)
    <2> HIDE DEF added
    <2> QED
        BY <2>1, <2>2, <2>3, <2>4, Zenon DEF AddExact
<1> QED
    BY <1>1, <1>2, TraceSteps, Zenon

\* A transaction that is open after a record was open before it, if the
\* position asked for is not that record itself.
LEMMA SameTransactionBack ==
    ASSUME NEW t, NEW p \in Nat \ {0}, NEW i \in 1 .. p, SameTransaction(t, i, p + 1)
    PROVE  Depth(t, p) > 0 /\ SameTransaction(t, i, p)
<1>1. \A q \in i .. p : q \in i .. p + 1
    OBVIOUS
<1>2. p \in i .. p + 1
    OBVIOUS
<1> QED
    BY <1>1, <1>2, Zenon DEF SameTransaction

\* A tracked store is not ignored.
LEMMA StoreTracked ==
    ASSUME IInv, NEW a, Stores(given, cur, a)
    PROVE  given[cur].type = "ASSIGN" /\ ~Ignored(AddrInterval(given[cur]))
<1>1. /\ given[cur].type = "ASSIGN" /\ a \in AddrInterval(given[cur])
      /\ ~Skipped(given, cur, AddrInterval(given[cur]))
    BY Zenon DEF Stores, Touches
<1>2. ~Overlaps(AddrInterval(given[cur]), ExcludeInfo)
    BY <1>1, OverlapsSkipped, Zenon
<1> QED
    BY <1>1, <1>2, Zenon DEF Ignored

\* VeriProc_Assign records the stores of a transaction, and only the start of
\* an outermost transaction forgets them.
LEMMA StoresRecordedStep ==
    ASSUME IInv, DepthExact, StoresRecorded, Next
    PROVE  StoresRecorded'
<1>1. CASE Finish \/ UNCHANGED vars
    BY <1>1, Zenon DEF Finish, vars, StoresRecorded
<1>2. ASSUME NEW type, Process(type)
      PROVE  StoresRecorded'
    <2>1. /\ cur \in Nat \ {0} /\ cur' = cur + 1 /\ given' = given
          /\ veriptr[cur] = given[cur] /\ given[cur].type = type
        BY <1>2, CurrentRecord, Zenon
    <2>2. 1 .. cur' - 1 = 1 .. cur
        BY <2>1, SMTT(30)
    <2> SUFFICES ASSUME NEW i \in 1 .. cur, SameTransaction(given, i, cur + 1),
                        NEW a, Stores(given, i, a)
                 PROVE  i \in TransactionPersistInfo'
        BY <2>1, <2>2, Zenon DEF StoresRecorded
    <2>3. transactionCount > 0 /\ SameTransaction(given, i, cur)
        BY <2>1, SameTransactionBack, Zenon DEF DepthExact
    <2>4. CASE i = cur
        <3>1. type = "ASSIGN" /\ ~Ignored(AddrInterval(veriptr[cur]))
            BY <2>1, <2>4, StoreTracked, Zenon
        <3>2. Assign
            BY <1>2, <2>1, <3>1, ActionTypes, Zenon
        <3> QED
            BY <2>3, <2>4, <3>1, <3>2, Zenon DEF Assign
    <2>5. CASE i # cur
        <3>1. i \in 1 .. cur - 1
            BY <2>1, <2>5, SMTT(30)
        <3>2. i \in TransactionPersistInfo
            BY <2>3, <3>1, Zenon DEF StoresRecorded
        <3>3. TransactionPersistInfo \subseteq TransactionPersistInfo'
            <4>1. transactionCount # 0
                BY <2>3, SMTT(30)
            <4> QED
                BY <1>2, <2>1, <4>1, ActionTypes, Zenon DEF Assign, Flush, Fence, Persist, Order,
                    TransactionBegin, TransactionEnd, TransactionAdd, Exclude, Include,
                    Unprocessed
        <3> QED
            BY <3>2, <3>3, Zenon
    <2> QED
        BY <2>4, <2>5, Zenon
<1> QED
    BY <1>1, <1>2, TraceSteps, Zenon

\* Which operation prints a message, and about what.
LEMMA ReportedBy ==
    ASSUME Next, NEW r \in reports', r \notin reports
    PROVE  /\ r.at = cur
           /\ r.kind = "ASSIGN ERROR" => Assign /\ r.record = cur
           /\ r.kind = "ORDER ERROR" => Order /\ r.record = cur
           /\ r.kind = "TRANSACTIONEND ERROR" => Finish
<1>3. r.at = cur
    BY NewReportPlace, Zenon
<1>4. ASSUME NEW kind, NEW record, r = Report(kind, record)
      PROVE  r.kind = kind /\ r.record = record
    BY <1>4, ReportFields, Zenon
<1>5. CASE Assign
    <2>1. r = Report("ASSIGN ERROR", cur)
        BY <1>5, NewReports, Zenon
    <2>2. r.kind = "ASSIGN ERROR" /\ r.record = cur
        BY <1>4, <2>1, Zenon
    <2> QED BY <1>3, <1>5, <2>2, Zenon
<1>6. CASE Flush
    <2>1. r = Report("FLUSH WARNING", cur)
        BY <1>6, NewReports, Zenon
    <2>2. r.kind = "FLUSH WARNING"
        BY <1>4, <2>1, Zenon
    <2> QED BY <1>3, <2>2, Zenon
<1>7. CASE Persist
    <2>1. r = Report("PERSIST ERROR", cur)
        BY <1>7, NewReports, PersistReportsAre, Zenon
    <2>2. r.kind = "PERSIST ERROR"
        BY <1>4, <2>1, Zenon
    <2> QED BY <1>3, <2>2, Zenon
<1>8. CASE Order
    <2>1. r = Report("ORDER ERROR", cur)
        BY <1>8, NewReports, Zenon
    <2>2. r.kind = "ORDER ERROR" /\ r.record = cur
        BY <1>4, <2>1, Zenon
    <2> QED BY <1>3, <1>8, <2>2, Zenon
<1>9. CASE TransactionEnd
    <2>1. PICK j \in TransactionPersistInfo : r \in PersistReports(j)
        BY <1>9, NewReports, Zenon
    <2>2. r = Report("PERSIST ERROR", j)
        BY <2>1, PersistReportsAre, Zenon
    <2>3. r.kind = "PERSIST ERROR"
        BY <1>4, <2>2, Zenon
    <2> QED BY <1>3, <2>3, Zenon
<1>10. CASE TransactionAdd
    <2>1. r = Report("TRANSACTIONADD WARNING", cur)
        BY <1>10, NewReports, Zenon
    <2>2. r.kind = "TRANSACTIONADD WARNING"
        BY <1>4, <2>1, Zenon
    <2> QED BY <1>3, <2>2, Zenon
<1>11. CASE Finish
    <2>1. r = Report("TRANSACTIONEND ERROR", 0)
        BY <1>11, NewReports, Zenon
    <2>2. r.kind = "TRANSACTIONEND ERROR"
        BY <1>4, <2>1, Zenon
    <2> QED BY <1>3, <1>11, <2>2, Zenon
<1>12. CASE reports' = reports
    BY <1>12, Zenon
<1> QED
    BY <1>5, <1>6, <1>7, <1>8, <1>9, <1>10, <1>11, <1>12, Zenon
    DEF Next, Fence, TransactionBegin, Exclude, Include, Unprocessed, Returned, vars

\* Messages stay on the terminal, and the submitted trace is only read.
LEMMA ReportsKept ==
    ASSUME Next
    PROVE  /\ given' = given /\ reports \subseteq reports'
           /\ \A kind, i, p : Reported(kind, i, p) => Reported(kind, i, p)'
<1>1. given' = given
    BY StepKinds, Zenon DEF Process
<1>2. reports \subseteq reports'
    BY Zenon DEF Next, Assign, Flush, Fence, Persist, Order, TransactionBegin,
        TransactionEnd, TransactionAdd, Exclude, Include, Unprocessed, Finish,
        Returned, vars
<1> QED
    BY <1>1, <1>2, Zenon DEF Reported

\* VeriProc_Assign reports a store in a transaction exactly if no address of
\* it was added.
LEMMA AssignExactStep ==
    ASSUME IInv, DepthExact, AddExact, AssignExact, Next
    PROVE  AssignExact'
<1> DEFINE Missing(i) ==
        \A a \in AddrInterval(given[i]), j \in 1 .. i - 1 : ~Adds(given, j, a)
<1>0. given' = given
    BY ReportsKept, Zenon
<1>5. \A n : [kind |-> "ASSIGN ERROR", record |-> n, at |-> n] \in reports' \ reports =>
          Assign /\ n = cur
    <2> TAKE n
    <2> DEFINE r == [kind |-> "ASSIGN ERROR", record |-> n, at |-> n]
    <2>1. r.kind = "ASSIGN ERROR" /\ r.record = n
        OBVIOUS
    <2> HIDE DEF r
    <2>2. r \in reports' \ reports => Assign /\ n = cur
        BY <2>1, ReportedBy, Zenon
    <2> QED
        BY <2>2, Zenon DEF r
<1> SUFFICES ASSUME NEW i \in DOMAIN given
             PROVE  Reported("ASSIGN ERROR", i, i)' <=>
                      Answered(i, "ASSIGN")' /\ Depth(given, i) > 0 /\ Missing(i)
    BY <1>0, Zenon DEF AssignExact
<1>1. Reported("ASSIGN ERROR", i, i) <=>
          Answered(i, "ASSIGN") /\ Depth(given, i) > 0 /\ Missing(i)
    BY Zenon DEF AssignExact
<1>2. cur \in Nat /\ i \in Nat
    BY SMTT(30) DEF IInv, TypeOK
<1> HIDE DEF Missing
<1>3. CASE i = cur /\ Assign
    <2>1. Process("ASSIGN")
        BY <1>3, Zenon DEF Assign
    <2>2. /\ cur' = cur + 1 /\ given[cur].type = "ASSIGN" /\ veriptr[cur] = given[cur]
        BY <2>1, CurrentRecord, Zenon
    <2> DEFINE interval == AddrInterval(given[i])
    <2>3. ~Reported("ASSIGN ERROR", i, i)
        <3>1. ~Answered(i, "ASSIGN")
            BY <1>2, <1>3, SMTT(30) DEF Answered
        <3> QED
            BY <1>1, <3>1, Zenon
    <2>4. Reported("ASSIGN ERROR", i, i)' <=>
            ~Ignored(interval) /\ transactionCount > 0 /\ ~Overlaps(interval, TransactionAddInfo)
        <3>1. [kind |-> "ASSIGN ERROR", record |-> i, at |-> i] \notin reports
            BY <2>3, Zenon DEF Reported
        <3>2. Report("ASSIGN ERROR", cur) = [kind |-> "ASSIGN ERROR", record |-> i, at |-> i]
            BY <1>3, Zenon DEF Report
        <3>3. veriptr[cur] = given[i]
            BY <1>3, <2>2, Zenon
        <3> HIDE DEF interval
        <3>4. reports' = reports \cup
                IF /\ ~Ignored(interval) /\ transactionCount > 0
                   /\ ~Overlaps(interval, TransactionAddInfo)
                THEN {Report("ASSIGN ERROR", cur)} ELSE {}
            BY <1>3, <3>3, Zenon DEF Assign, interval
        <3> QED
            BY <3>1, <3>2, <3>4, Zenon DEF Reported
    <2>5. Answered(i, "ASSIGN")' <=> ~Ignored(interval)
        <3>1. i < cur' /\ given'[i].type = "ASSIGN" /\ given' = given
            BY <1>0, <1>2, <1>3, <2>2, SMTT(30)
        <3>2. Overlaps(interval, ExcludeInfo) <=> Skipped(given, i, interval)
            BY <1>3, OverlapsSkipped, Zenon
        <3> QED
            BY <3>1, <3>2, Zenon DEF Answered, Ignored
    <2>6. Missing(i) <=> ~Overlaps(interval, TransactionAddInfo)
        BY <1>3, Zenon DEF Missing, AddExact, Overlaps
    <2>7. transactionCount = Depth(given, i)
        BY <1>3, Zenon DEF DepthExact
    <2> HIDE DEF interval
    <2> QED
        BY <2>4, <2>5, <2>6, <2>7, Zenon
<1>4. CASE ~(i = cur /\ Assign)
    <2>1. Reported("ASSIGN ERROR", i, i)' <=> Reported("ASSIGN ERROR", i, i)
        <3>1. ASSUME Reported("ASSIGN ERROR", i, i)', ~Reported("ASSIGN ERROR", i, i)
              PROVE  FALSE
            BY <1>4, <1>5, <3>1, Zenon DEF Reported
        <3> QED
            BY <3>1, ReportsKept, Zenon
    <2>2. Answered(i, "ASSIGN")' <=> Answered(i, "ASSIGN")
        <3>1. CASE cur' = cur
            BY <1>0, <3>1, Zenon DEF Answered
        <3>2. ASSUME NEW type, Process(type)
              PROVE  Answered(i, "ASSIGN")' <=> Answered(i, "ASSIGN")
            <4>1. cur' = cur + 1 /\ given[cur].type = type
                BY <3>2, CurrentRecord, Zenon
            <4>2. i = cur => given[i].type # "ASSIGN"
                BY <1>2, <1>4, <3>2, <4>1, ActionTypes, Zenon
            <4>3. i # cur => (i < cur' <=> i < cur)
                BY <1>2, <4>1, SMTT(30)
            <4> QED
                BY <1>0, <4>2, <4>3, Zenon DEF Answered
        <3> QED
            BY <3>1, <3>2, TraceSteps, Zenon DEF Finish, vars
    <2> QED
        BY <1>1, <2>1, <2>2, Zenon
<1> QED
    BY <1>3, <1>4, Zenon

\* VeriProc_TransactionEnd reports the pending stores of the transaction.
LEMMA EndReportedStep ==
    ASSUME IInv, DepthExact, StoresRecorded, EndReported, Next
    PROVE  EndReported'
<1>0. given' = given
    BY ReportsKept, Zenon
<1> SUFFICES ASSUME NEW p \in DOMAIN given, p < cur', given[p].type = "TRANSACTIONEND",
                    Depth(given, p) = 1, NEW i \in 1 .. p - 1,
                    SameTransaction(given, i, p),
                    ~Skipped(given, p, AddrInterval(given[i])),
                    NEW a \in AddrInterval(given[i]), Stores(given, i, a),
                    Pending(given, p, a)
             PROVE  Reported("PERSIST ERROR", i, p)'
    BY <1>0, Zenon DEF EndReported
<1>1. CASE p < cur
    <2>1. Reported("PERSIST ERROR", i, p)
        BY <1>1, Zenon DEF EndReported
    <2> QED
        BY <2>1, ReportsKept, Zenon
<1>2. CASE ~(p < cur)
    <2>1. cur \in Nat /\ p \in Nat
        BY SMTT(30) DEF IInv, TypeOK
    <2>2. PICK type : Process(type)
        <3>1. cur' # cur
            BY <1>2, Zenon
        <3> QED
            BY <3>1, TraceSteps, Zenon DEF Finish, vars
    <2>3. cur' = cur + 1 /\ given[cur].type = type
        BY <2>2, CurrentRecord, Zenon
    <2>4. p = cur
        BY <1>2, <2>1, <2>3, SMTT(30)
    <2>5. TransactionEnd
        BY <2>1, <2>2, <2>3, <2>4, ActionTypes, Zenon
    <2>6. i \in TransactionPersistInfo /\ transactionCount = 1
        BY <2>4, Zenon DEF StoresRecorded, DepthExact
    <2>7. i \in DOMAIN given
        BY <2>6, SMTT(30) DEF IInv, TypeOK
    <2>8. AddrInterval(veriptr[i]) = AddrInterval(given[i])
        BY <2>7, Zenon DEF IInv, SameTrace
    <2>9. ~Ignored(AddrInterval(veriptr[i])) /\ Overlaps(AddrInterval(veriptr[i]), PersistInfo)
        BY <2>4, <2>8, OverlapsSkipped, Zenon DEF Ignored, Overlaps, IInv, PendingExact
    <2>10. Report("PERSIST ERROR", i) \in PersistReports(i)
        BY <2>9, Zenon DEF PersistReports
    <2>11. Report("PERSIST ERROR", i) \in reports'
        BY <2>5, <2>6, <2>10, Zenon DEF TransactionEnd
    <2> QED
        BY <2>4, <2>11, Zenon DEF Report, Reported
<1> QED
    BY <1>1, <1>2, Zenon

\* VeriProc reports at its end that a transaction is open, and only then.
LEMMA UnclosedExactStep ==
    ASSUME IInv, DepthExact, UnclosedExact, Next
    PROVE  UnclosedExact'
<1> DEFINE Said == Reported("TRANSACTIONEND ERROR", 0, Len(given) + 1)
<1>0. given' = given /\ Len(given) \in Nat /\ Len(veriptr) = Len(given) /\ cur \in Nat
    BY ReportsKept, SMTT(30) DEF IInv, TypeOK
<1>1. ASSUME NEW type, Process(type)
      PROVE  UnclosedExact'
    <2>1. cur' = cur + 1 /\ cur <= Len(given) /\ returned' = returned
        BY <1>0, <1>1, Zenon DEF Process
    <2>2. returned # "yes"
        <3>1. returned = "yes" => cur = Len(given) + 1
            BY Zenon DEF UnclosedExact
        <3> QED
            BY <1>0, <2>1, <3>1, SMTT(30)
    <2>3. ~Finish
        BY <1>0, <2>1, Zenon DEF Finish
    <2>4. ~Said'
        BY <1>0, <2>2, <2>3, ReportedBy, Zenon DEF UnclosedExact, Reported
    <2> QED
        BY <1>0, <2>1, <2>2, <2>4, Zenon DEF UnclosedExact
<1>2. CASE Finish
    <2>1. returned # "yes" /\ returned' = "yes" /\ cur' = cur /\ cur = Len(given) + 1
        BY <1>0, <1>2, Zenon DEF Finish
    <2>2. ~Said
        BY <2>1, Zenon DEF UnclosedExact
    <2>3. Said' <=> transactionCount > 0
        BY <1>0, <1>2, <2>1, <2>2, Zenon DEF Finish, Unclosed, Report, Reported
    <2>4. transactionCount = Depth(given, Len(given) + 1)
        BY <2>1, Zenon DEF DepthExact
    <2> QED
        BY <1>0, <2>1, <2>3, <2>4, Zenon DEF UnclosedExact
<1>3. CASE UNCHANGED vars
    BY <1>3, Zenon DEF UnclosedExact, Reported, vars
<1> QED
    BY <1>1, <1>2, <1>3, TraceSteps, Zenon

\* Both invariants together are inductive.
LEMMA NextTransInv == IInv /\ TransInv /\ [Next]_vars => TransInv'
<1>1. ASSUME IInv, TransInv, Next PROVE TransInv'
    BY <1>1, DepthExactStep, AddExactStep, StoresRecordedStep, AssignExactStep,
       EndReportedStep, UnclosedExactStep, Zenon DEF TransInv
<1>2. ASSUME TransInv, UNCHANGED vars PROVE TransInv'
    BY <1>2, Zenon DEF TransInv, vars, DepthExact, AddExact, StoresRecorded, AssignExact,
        EndReported, UnclosedExact, Reported, Answered
<1> QED
    BY <1>1, <1>2, Zenon

\* The engine's notion of a transaction is that of the trace.
THEOREM TransactionMeaning == Spec => [](IInv /\ TransInv)
<1> QED
    BY InitIInv, NextIInv, InitTransInv, NextTransInv, PTL DEF Spec

\* On every trace, VeriProc_TransactionEnd at the end of an outermost
\* transaction misses no store that is not durable then.
THEOREM TransactionEndIsSound == Spec => []TransactionEndSound
<1>1. IInv /\ TransInv => TransactionEndSound
    <2> SUFFICES ASSUME IInv, TransInv, NEW p \in DOMAIN given, p < cur,
                        given[p].type = "TRANSACTIONEND", Depth(given, p) = 1,
                        Settled(given, p), NEW i \in 1 .. p - 1,
                        SameTransaction(given, i, p),
                        ~Skipped(given, p, AddrInterval(given[i])),
                        NEW a \in AddrInterval(given[i]), Stores(given, i, a),
                        ~Durable(given, p, a)
                 PROVE  Reported("PERSIST ERROR", i, p)
        BY Zenon DEF TransactionEndSound
    <2>1. p \in Nat
        BY SMTT(30) DEF IInv, TypeOK
    <2>2. Pending(given, p, a)
        BY <2>1, NotDurablePending, Zenon
    <2> QED
        BY <2>2, Zenon DEF TransInv, EndReported
<1> QED
    BY <1>1, TransactionMeaning, PTL

\* On every trace, VeriProc_Assign reports exactly the stores of transactions
\* no address of which has been added.
THEOREM AssignErrorsExact == Spec => []AssignErrorExact
<1>1. TransInv => AssignErrorExact
    BY Zenon DEF TransInv, AssignExact, AssignErrorExact, TransactionStore
<1> QED
    BY <1>1, TransactionMeaning, PTL

\* VeriProc reports exactly the traces that leave a transaction open.
THEOREM UnclosedIsReported == Spec => []UnclosedReported
<1>1. TransInv => UnclosedReported
    BY Zenon DEF TransInv, UnclosedExact, UnclosedReported
<1> QED
    BY <1>1, TransactionMeaning, PTL

\* An operation or query on an empty range, or a record that is not processed, has
\* no effect in any trace.
THEOREM EmptyRecordsIgnored == Spec => EmptyIgnored
<1> DEFINE Rest == <<veriptr, ExcludeInfo, PersistInfo, TransactionAddInfo, OrderInfo,
                     TransactionPersistInfo, timestamp, transactionCount, reports>>
           Empty == cur \in DOMAIN given /\ Vacuous(given[cur])
<1>1. ASSUME IInv, Next, Empty PROVE UNCHANGED Rest
    <2>1. CASE UNCHANGED vars
        BY <2>1, Zenon DEF vars
    <2>2. CASE Finish
        <3>1. given \in Seq(Metadata) /\ Len(veriptr) = Len(given)
            BY <1>1, Zenon DEF IInv, TypeOK
        <3>2. cur = Len(veriptr) + 1
            BY <2>2, Zenon DEF Finish
        <3>3. cur \notin DOMAIN given
            BY <3>1, <3>2, SMTT(30)
        <3> QED
            BY <1>1, <3>3, Zenon
    <2>3. ASSUME NEW type, Process(type) PROVE UNCHANGED Rest
        <3>1. /\ cur \in Nat /\ veriptr[cur] = given[cur] /\ given[cur].type = type
            BY <1>1, <2>3, CurrentRecord, Zenon
        <3>2. given[cur] \in Metadata
            BY <1>1, SMTT(30) DEF IInv, TypeOK
        <3>3. /\ given[cur].size = 0 => AddrInterval(veriptr[cur]) = {}
              /\ given[cur].size_late = 0 => AddrIntervalLate(veriptr[cur]) = {}
            BY <3>1, <3>2, SMTT(30) DEF Metadata, AddrInterval, AddrIntervalLate
        <3>4. \A info : ~Overlaps({}, info)
            BY Zenon DEF Overlaps
        <3>5. Ignored({})
            BY Zenon DEF Ignored
        <3>6. /\ type \in Ranged /\ type # "ORDER" => AddrInterval(veriptr[cur]) = {}
              /\ type = "ORDER" =>
                    AddrInterval(veriptr[cur]) = {} \/ AddrIntervalLate(veriptr[cur]) = {}
              /\ type \in Ranged \cup {"COMMIT", "BARRIER", "TRANSACTIONDELIM", "ENDING"}
            <4>1. Vacuous(given[cur])
                BY <1>1, Zenon
            <4> QED
                BY <3>1, <3>3, <4>1, SMTT(30) DEF Vacuous, Ranged
        <3>7. CASE Assign /\ type = "ASSIGN"
            BY <3>5, <3>6, <3>7, Zenon DEF Assign, Ranged
        <3>8. CASE Flush /\ type = "FLUSH"
            BY <3>5, <3>6, <3>8, Zenon DEF Flush, Ranged
        <3>9. CASE Persist /\ type = "PERSIST"
            BY <3>5, <3>6, <3>9, Zenon DEF Persist, PersistReports, Ranged
        <3>10. CASE Order /\ type = "ORDER"
            BY <3>5, <3>6, <3>10, Zenon DEF Order
        <3>11. CASE TransactionAdd /\ type = "TRANSACTIONADD"
            BY <3>4, <3>6, <3>11, Zenon DEF TransactionAdd, Ranged
        <3>12. CASE Exclude /\ type = "EXCLUDE"
            BY <3>6, <3>12, Zenon DEF Exclude, Ranged
        <3>13. CASE Include /\ type = "INCLUDE"
            BY <3>6, <3>13, Zenon DEF Include, Ranged
        <3>14. CASE Unprocessed
            BY <3>14, Zenon DEF Unprocessed
        <3> QED
            BY <1>1, <2>3, <3>1, <3>6, <3>7, <3>8, <3>9, <3>10, <3>11, <3>12, <3>13, <3>14,
               ActionTypes, Zenon DEF Ranged
    <2> QED
        BY <1>1, <2>1, <2>2, <2>3, TraceSteps, Zenon
<1>2. IInv /\ [Next]_vars => [Empty => UNCHANGED Rest]_vars
    BY <1>1, Zenon
<1> QED
    BY <1>2, StateMeaning, PTL DEF Spec, EmptyIgnored

-----------------------------------------------------------------------------
(* Ordering.                                                               *)

\* A set of natural numbers has a smallest element, and if it is bounded a
\* largest.
LEMMA NatMin ==
    ASSUME NEW S \in SUBSET Nat, S # {}
    PROVE  \E x \in S : \A y \in S : x <= y
<1> DEFINE R == {ss \in Nat \X Nat : ss[1] < ss[2]}
<1>1. IsWellFoundedOn(R, Nat)
    BY NatLessThanWellFounded, Zenon DEF OpToRel
<1>2. PICK x \in S : \A y \in S : <<y, x>> \notin R
    <2> HIDE DEF R
    <2> QED BY <1>1, WFMin, Zenon
<1>3. \A y \in S : x <= y
    <2> TAKE y \in S
    <2>1. x \in Nat /\ y \in Nat
        OBVIOUS
    <2>2. ~(y < x)
        BY <1>2, <2>1, Zenon
    <2> QED
        BY <2>1, <2>2, SMTT(30)
<1> QED
    BY <1>3, Zenon

\* A nonempty bounded set of naturals has a greatest element.
LEMMA NatMax ==
    ASSUME NEW n \in Nat, NEW S \in SUBSET (0 .. n), S # {}
    PROVE  \E x \in S : \A y \in S : y <= x
<1> DEFINE T == {n - x : x \in S}
<1>1. T \in SUBSET Nat /\ T # {}
    <2>1. \A x \in S : n - x \in Nat
        OBVIOUS
    <2> QED
        BY <2>1, Zenon
<1>2. PICK z \in T : \A y \in T : z <= y
    <2> HIDE DEF T
    <2> QED BY <1>1, NatMin, Zenon
<1>3. PICK x \in S : z = n - x
    BY <1>2, Zenon
<1>4. \A y \in S : z <= n - y
    BY <1>2, Zenon
<1>5. \A y \in S : y <= x
    BY <1>3, <1>4, SMTT(30)
<1> QED
    BY <1>5, Zenon

\* What Max and Min of FiniteSetsExt are, for such sets.
LEMMA MaxIs ==
    ASSUME NEW n \in Nat, NEW S \in SUBSET (0 .. n), S # {}
    PROVE  Max(S) \in S /\ \A y \in S : y <= Max(S)
<1>1. \E x \in S : \A y \in S : x >= y
    <2>1. PICK x \in S : \A y \in S : y <= x
        BY NatMax, Zenon
    <2>2. \A y \in S : x >= y
        BY <2>1, Zenon
    <2> QED BY <2>2, Zenon
<1>2. Max(S) \in S /\ \A y \in S : Max(S) >= y
    BY <1>1, Zenon DEF Max
<1> QED
    BY <1>2, Zenon

\* What the operator Min returns.
LEMMA MinIs ==
    ASSUME NEW S \in SUBSET Nat, S # {}
    PROVE  Min(S) \in S /\ \A y \in S : Min(S) <= y
<1>1. \E x \in S : \A y \in S : x =< y
    BY NatMin, Zenon
<1> QED
    BY <1>1, Zenon DEF Min

\* The comparison of early_max with late_min compares every pair.
LEMMA MaxMin ==
    ASSUME NEW m \in Nat, NEW S \in SUBSET (1 .. m), NEW T \in SUBSET (1 .. m)
    PROVE  Max({0} \cup S) >= Min({m + 1} \cup T) <=> \E x \in S, y \in T : x >= y
<1> DEFINE A == {0} \cup S
           B == {m + 1} \cup T
<1>1. Max(A) \in A /\ \A y \in A : y <= Max(A)
    <2>1. A \in SUBSET (0 .. m) /\ A # {}
        OBVIOUS
    <2> HIDE DEF A
    <2> QED BY <2>1, MaxIs, Zenon
<1>2. Min(B) \in B /\ \A y \in B : Min(B) <= y
    <2>1. B \in SUBSET Nat /\ B # {}
        OBVIOUS
    <2> HIDE DEF B
    <2> QED BY <2>1, MinIs, Zenon
<1>3. ASSUME Max(A) >= Min(B) PROVE \E x \in S, y \in T : x >= y
    <2>1. PICK x, y : x = Max(A) /\ y = Min(B)
        OBVIOUS
    <2>2. x \in {0} \cup S /\ y \in {m + 1} \cup T /\ x >= y
        BY <1>1, <1>2, <1>3, <2>1, Zenon
    <2>3. x \in S /\ y \in T
        BY <2>2, SMTT(30)
    <2> QED BY <2>2, <2>3, Zenon
<1>4. ASSUME NEW x \in S, NEW y \in T, x >= y PROVE Max(A) >= Min(B)
    <2>1. x <= Max(A) /\ Min(B) <= y
        BY <1>1, <1>2, Zenon
    <2>2. Max(A) \in Int /\ Min(B) \in Int
        <3>1. A \subseteq Int /\ B \subseteq Int
            OBVIOUS
        <3> HIDE DEF A, B
        <3> QED BY <1>1, <1>2, <3>1, Zenon
    <2> HIDE DEF A, B
    <2> QED BY <1>4, <2>1, <2>2, SMTT(30)
<1> QED
    BY <1>3, <1>4, Zenon

\* The timestamp of a position: one more than the fences before it.
Time(t, p) == CountBefore(t, p, "FENCE") + 1

\* Record i gives address a a timestamp: it is a store or a flush that is not
\* in the tail.
Marks(t, i, a) ==
    Stores(t, i, a) \/ (Flushes(t, i, a) /\ FenceBetween(t, i, Len(t) + 1))

\* Before p, record i is the last one to give a a timestamp.
LastMark(t, p, i, a) ==
    i \in 1 .. p - 1 /\ Marks(t, i, a) /\ \A j \in i + 1 .. p - 1 : ~Marks(t, j, a)

\* The timestamp is negative if it stands for "at that time or later".
MarkedAt(t, i) == IF t[i].type = "ASSIGN" THEN -Time(t, i) ELSE Time(t, i)

\* Before p, a was last flushed, and that earlier than b was last marked.
InTime(t, p, a, b) ==
    \E f, m \in 1 .. p - 1 :
        /\ LastMark(t, p, f, a) /\ t[f].type = "FLUSH"
        /\ LastMark(t, p, m, b)
        /\ Time(t, f) < Time(t, m)

\* What the engine knows about order at its position in the trace.
TimesExact ==
    /\ given \in Inputs
    /\ timestamp = Time(given, cur)
    /\ \A a : a \in DOMAIN OrderInfo <=> \E i : LastMark(given, cur, i, a)
    /\ \A a, i : LastMark(given, cur, i, a) => OrderInfo[a] = MarkedAt(given, i)

\* Which queries about order have been answered with an error.
OrderReports ==
    \A p \in DOMAIN given :
        Reported("ORDER ERROR", p, p) <=>
            /\ AnsweredOrder(p)
            /\ \E a \in AddrInterval(given[p]), b \in AddrIntervalLate(given[p]) :
                ~InTime(given, p, a, b)

\* Time does not run backwards, and passes exactly at the fences.
LEMMA TimePasses ==
    ASSUME NEW t, NEW i \in Nat \ {0}, NEW j \in Nat, i <= j
    PROVE  /\ Time(t, i) \in Nat \ {0} /\ Time(t, j) \in Nat
           /\ Time(t, i) <= Time(t, j)
           /\ Time(t, i) < Time(t, j) <=> \E k \in i .. j - 1 : t[k].type = "FENCE"
<1>1. /\ CountBefore(t, i, "FENCE") \in Nat /\ CountBefore(t, j, "FENCE") \in Nat
      /\ CountBefore(t, i, "FENCE") <= CountBefore(t, j, "FENCE")
      /\ CountBefore(t, i, "FENCE") = CountBefore(t, j, "FENCE") <=>
            \A k \in i .. j - 1 : t[k].type # "FENCE"
    <2>1. i \in Nat
        OBVIOUS
    <2> QED
        BY <2>1, CountType, CountBetween, Zenon
<1> QED
    BY <1>1, SMTT(30) DEF Time

\* Taking one more record into account.
LEMMA LastMarkStep ==
    ASSUME NEW t, NEW p \in Nat \ {0}, NEW a, NEW i
    PROVE  LastMark(t, p + 1, i, a) <=>
             \/ i = p /\ Marks(t, p, a)
             \/ LastMark(t, p, i, a) /\ ~Marks(t, p, a)
<1>1. ASSUME LastMark(t, p + 1, i, a), i # p
      PROVE  LastMark(t, p, i, a) /\ ~Marks(t, p, a)
    <2>1. /\ i \in 1 .. (p + 1) - 1 /\ Marks(t, i, a)
          /\ \A j \in i + 1 .. (p + 1) - 1 : ~Marks(t, j, a)
        BY <1>1, Zenon DEF LastMark
    <2>2. i \in 1 .. p - 1 /\ p \in i + 1 .. (p + 1) - 1
        BY <1>1, <2>1, SMTT(30)
    <2>3. \A j \in i + 1 .. p - 1 : j \in i + 1 .. (p + 1) - 1
        BY <2>2, SMTT(30)
    <2> QED
        BY <2>1, <2>2, <2>3, Zenon DEF LastMark
<1>2. ASSUME i = p, Marks(t, p, a)
      PROVE  LastMark(t, p + 1, i, a)
    <2>1. p \in 1 .. (p + 1) - 1 /\ p + 1 .. (p + 1) - 1 = {}
        OBVIOUS
    <2> QED
        BY <1>2, <2>1, Zenon DEF LastMark
<1>3. ASSUME LastMark(t, p, i, a), ~Marks(t, p, a)
      PROVE  LastMark(t, p + 1, i, a)
    <2>1. /\ i \in 1 .. p - 1 /\ Marks(t, i, a)
          /\ \A j \in i + 1 .. p - 1 : ~Marks(t, j, a)
        BY <1>3, Zenon DEF LastMark
    <2>2. i \in 1 .. (p + 1) - 1
        BY <2>1, SMTT(30)
    <2>3. \A j \in i + 1 .. (p + 1) - 1 : j = p \/ j \in i + 1 .. p - 1
        BY <2>1, SMTT(30)
    <2> QED
        BY <1>3, <2>1, <2>2, <2>3, Zenon DEF LastMark
<1>4. LastMark(t, p + 1, p, a) => Marks(t, p, a)
    BY Zenon DEF LastMark
<1> QED
    BY <1>1, <1>2, <1>3, <1>4, Zenon

\* If any record marks a there is a last one, and only one.
LEMMA LastMarkExists ==
    ASSUME NEW t, NEW p \in Nat, NEW a, NEW i \in 1 .. p - 1, Marks(t, i, a)
    PROVE  \E m \in 1 .. p - 1 : LastMark(t, p, m, a) /\ i <= m
<1> DEFINE S == {k \in 1 .. p - 1 : Marks(t, k, a)}
<1>1. S \in SUBSET (0 .. p) /\ i \in S
    OBVIOUS
<1>2. PICK m \in S : \A k \in S : k <= m
    <2> HIDE DEF S
    <2> QED BY <1>1, NatMax, Zenon
<1>3. \A k \in m + 1 .. p - 1 : k \in 1 .. p - 1 /\ ~(k <= m)
    BY <1>2, SMTT(30)
<1>4. LastMark(t, p, m, a)
    BY <1>2, <1>3, Zenon DEF LastMark
<1> QED
    BY <1>1, <1>2, <1>4, Zenon

\* Before p there is at most one last mark.
LEMMA LastMarkUnique ==
    ASSUME NEW t, NEW p \in Nat, NEW a, NEW i, NEW j,
           LastMark(t, p, i, a), LastMark(t, p, j, a)
    PROVE  i = j
<1>1. i \in 1 .. p - 1 /\ j \in 1 .. p - 1
    BY Zenon DEF LastMark
<1>2. ~(i < j)
    <2>1. i < j => j \in i + 1 .. p - 1
        BY <1>1, SMTT(30)
    <2> QED BY <2>1, Zenon DEF LastMark
<1>3. ~(j < i)
    <2>1. j < i => i \in j + 1 .. p - 1
        BY <1>1, SMTT(30)
    <2> QED BY <2>1, Zenon DEF LastMark
<1> QED
    BY <1>1, <1>2, <1>3, SMTT(30)

\* What the record being processed does to the timestamps of its addresses
\* (VeriProc_Assign and VeriProc_Flush).
LEMMA OrderInfoStep ==
    ASSUME IInv, TimesExact, Next, NEW type, Process(type)
    PROVE  \A a :
             /\ a \in DOMAIN OrderInfo' <=> a \in DOMAIN OrderInfo \/ Marks(given, cur, a)
             /\ Marks(given, cur, a) => OrderInfo'[a] = MarkedAt(given, cur)
             /\ a \in DOMAIN OrderInfo /\ ~Marks(given, cur, a) =>
                    OrderInfo'[a] = OrderInfo[a]
<1> DEFINE interval == AddrInterval(given[cur])
           skip == Ignored(interval) \/ (type = "FLUSH" /\ InTail(cur))
           marking == ~skip /\ type \in {"ASSIGN", "FLUSH"}
<1>1. /\ cur \in Nat \ {0} /\ veriptr[cur] = given[cur] /\ given[cur].type = type
    BY CurrentRecord, Zenon
<1>2. timestamp \in Nat \ {0} /\ timestamp = Time(given, cur)
    BY <1>1, SMTT(30) DEF IInv, TypeOK, TimesExact
<1>3. \A a : Marks(given, cur, a) <=> marking /\ a \in interval
    <2>1. Ignored(interval) <=> interval = {} \/ Skipped(given, cur, interval)
        BY OverlapsSkipped, Zenon DEF Ignored
    <2>2. \A a : Stores(given, cur, a) <=> type = "ASSIGN" /\ a \in interval /\ ~Ignored(interval)
        BY <1>1, <2>1, Zenon DEF Stores, Touches
    <2>3. \A a : Flushes(given, cur, a) <=> type = "FLUSH" /\ a \in interval /\ ~Ignored(interval)
        BY <1>1, <2>1, Zenon DEF Flushes, Touches
    <2>4. InTail(cur) <=> ~FenceBetween(given, cur, Len(given) + 1)
        BY InTailMeans, Zenon
    <2> HIDE DEF interval
    <2> QED
        BY <2>2, <2>3, <2>4, Zenon DEF Marks
<1>4. \/ marking /\ OrderInfo' = Assigned(OrderInfo, interval, MarkedAt(given, cur))
      \/ ~marking /\ OrderInfo' = OrderInfo
    <2>1. CASE Assign /\ type = "ASSIGN"
        <3>1. timestamp_atleast(timestamp) = MarkedAt(given, cur)
            BY <1>1, <1>2, <2>1, SMTT(30) DEF timestamp_atleast, MarkedAt
        <3>2. OrderInfo' = IF Ignored(interval) THEN OrderInfo
                           ELSE Assigned(OrderInfo, interval, timestamp_atleast(timestamp))
            BY <1>1, <2>1, Zenon DEF Assign
        <3> HIDE DEF interval
        <3> QED BY <2>1, <3>1, <3>2, Zenon
    <2>2. CASE Flush /\ type = "FLUSH"
        <3>1. timestamp_exactly(timestamp) = MarkedAt(given, cur)
            BY <1>1, <1>2, <2>2, SMTT(30) DEF timestamp_exactly, MarkedAt
        <3>2. OrderInfo' = IF Ignored(interval) \/ InTail(cur) THEN OrderInfo
                           ELSE Assigned(OrderInfo, interval, timestamp_exactly(timestamp))
            BY <1>1, <2>2, Zenon DEF Flush
        <3> HIDE DEF interval
        <3> QED BY <2>2, <3>1, <3>2, Zenon
    <2>3. CASE type \notin {"ASSIGN", "FLUSH"} /\ OrderInfo' = OrderInfo
        BY <2>3, Zenon
    <2>4. \/ Assign /\ type = "ASSIGN"
          \/ Flush /\ type = "FLUSH"
          \/ type \notin {"ASSIGN", "FLUSH"} /\ OrderInfo' = OrderInfo
        BY <1>1, ActionTypes, Zenon DEF Fence, Persist, Order, TransactionBegin, TransactionEnd,
            TransactionAdd, Exclude, Include, Unprocessed
    <2> HIDE DEF marking
    <2> QED
        BY <2>1, <2>2, <2>3, <2>4, Zenon
<1> HIDE DEF marking, interval
<1> QED
    BY <1>3, <1>4, Zenon DEF Assigned

\* The clock of the engine is that of the trace (the fences of VeriProc).
LEMMA TimestampStep ==
    ASSUME IInv, TimesExact, Next, NEW type, Process(type)
    PROVE  timestamp' = Time(given, cur + 1)
<1>1. /\ cur \in Nat \ {0} /\ given[cur].type = type /\ timestamp = Time(given, cur)
    BY CurrentRecord, Zenon DEF TimesExact
<1>2. CountBefore(given, cur, "FENCE") \in Nat
    BY <1>1, CountType, Zenon
<1>3. Time(given, cur + 1) =
        IF type = "FENCE" THEN Time(given, cur) + 1 ELSE Time(given, cur)
    BY <1>1, <1>2, CountStep, Zenon DEF Time
<1>4. \/ type = "FENCE" /\ timestamp' = timestamp + 1
      \/ type # "FENCE" /\ timestamp' = timestamp
    BY <1>1, ActionTypes, Zenon DEF Assign, Flush, Fence, Persist, Order, TransactionBegin,
        TransactionEnd, TransactionAdd, Exclude, Include, Unprocessed
<1> QED
    BY <1>1, <1>3, <1>4, SMTT(30)

\* No step falsifies what the engine knows about order.
LEMMA TimesExactStep ==
    ASSUME IInv, TimesExact, Next
    PROVE  TimesExact'
<1>1. CASE Finish \/ UNCHANGED vars
    BY <1>1, Zenon DEF Finish, vars, TimesExact
<1>2. ASSUME NEW type, Process(type)
      PROVE  TimesExact'
    <2>1. cur \in Nat \ {0} /\ cur' = cur + 1 /\ given' = given
        BY <1>2, CurrentRecord, Zenon
    <2>2. \A a, i : LastMark(given, cur + 1, i, a) <=>
              \/ i = cur /\ Marks(given, cur, a)
              \/ LastMark(given, cur, i, a) /\ ~Marks(given, cur, a)
        BY <2>1, LastMarkStep, Zenon
    <2>3. \A a :
             /\ a \in DOMAIN OrderInfo' <=> a \in DOMAIN OrderInfo \/ Marks(given, cur, a)
             /\ Marks(given, cur, a) => OrderInfo'[a] = MarkedAt(given, cur)
             /\ a \in DOMAIN OrderInfo /\ ~Marks(given, cur, a) =>
                    OrderInfo'[a] = OrderInfo[a]
        BY <1>2, OrderInfoStep, Zenon
    <2>4. /\ \A a : a \in DOMAIN OrderInfo <=> \E i : LastMark(given, cur, i, a)
          /\ \A a, i : LastMark(given, cur, i, a) => OrderInfo[a] = MarkedAt(given, i)
        BY Zenon DEF TimesExact
    <2>5. \A a : a \in DOMAIN OrderInfo' <=> \E i : LastMark(given, cur + 1, i, a)
        BY <2>2, <2>3, <2>4, Zenon
    <2>6. \A a, i : LastMark(given, cur + 1, i, a) => OrderInfo'[a] = MarkedAt(given, i)
        BY <2>2, <2>3, <2>4, Zenon
    <2>7. given \in Inputs /\ timestamp' = Time(given, cur + 1)
        BY <1>2, TimestampStep, Zenon DEF TimesExact
    <2> QED
        BY <2>1, <2>5, <2>6, <2>7, Zenon DEF TimesExact
<1> QED
    BY <1>1, <1>2, TraceSteps, Zenon

\* A timestamp in OrderInfo is that of the last mark, and in the range of int.
LEMMA TimestampMeans ==
    ASSUME IInv, TimesExact, NEW a \in DOMAIN OrderInfo
    PROVE  \E i \in 1 .. cur - 1 :
             /\ LastMark(given, cur, i, a)
             /\ Time(given, i) \in 1 .. INT_MAX - 1
             /\ timestamp_exactly(OrderInfo[a]) = Time(given, i)
             /\ timestamp_isexacttime(OrderInfo[a]) <=> given[i].type = "FLUSH"
             /\ given[i].type = "FLUSH" => OrderInfo[a] = Time(given, i)
<1>1. PICK i : LastMark(given, cur, i, a) /\ OrderInfo[a] = MarkedAt(given, i)
    BY Zenon DEF TimesExact
<1>2. i \in 1 .. cur - 1 /\ given[i].type \in {"ASSIGN", "FLUSH"}
    BY <1>1, Zenon DEF LastMark, Marks, Stores, Flushes, Touches
<1>3. cur \in Nat /\ i \in Nat \ {0} /\ i <= cur
    BY <1>2, SMTT(30) DEF IInv, TypeOK
<1>4. Time(given, i) \in Nat \ {0} /\ Time(given, i) <= timestamp
    BY <1>3, TimePasses, Zenon DEF TimesExact
<1>5. timestamp \in Nat /\ timestamp <= Len(given) + 1 /\ Len(given) \in Nat
    BY SMTT(30) DEF IInv, TypeOK
<1>6. Len(given) + 1 < INT_MAX /\ INT_MAX \in Nat
    BY InputsAssumption, Zenon DEF TimesExact
<1>7. Time(given, i) \in 1 .. INT_MAX - 1
    BY <1>4, <1>5, <1>6, SMTT(30)
<1>8. CASE given[i].type = "ASSIGN"
    <2>1. OrderInfo[a] = -Time(given, i) /\ given[i].type # "FLUSH"
        BY <1>1, <1>8, Zenon DEF MarkedAt
    <2>2. timestamp_exactly(OrderInfo[a]) = Time(given, i)
        BY <1>4, <2>1, SMTT(30) DEF timestamp_exactly
    <2>3. ~timestamp_isexacttime(OrderInfo[a])
        BY <1>4, <2>1, SMTT(30) DEF timestamp_isexacttime
    <2> QED
        BY <1>1, <1>2, <1>7, <2>1, <2>2, <2>3, Zenon
<1>9. CASE given[i].type = "FLUSH"
    <2>1. OrderInfo[a] = Time(given, i)
        BY <1>1, <1>9, Zenon DEF MarkedAt
    <2>2. timestamp_exactly(OrderInfo[a]) = Time(given, i)
        BY <1>4, <2>1, SMTT(30) DEF timestamp_exactly
    <2>3. timestamp_isexacttime(OrderInfo[a])
        BY <1>4, <2>1, SMTT(30) DEF timestamp_isexacttime
    <2> QED
        BY <1>1, <1>2, <1>7, <1>9, <2>1, <2>2, <2>3, Zenon
<1> QED
    BY <1>2, <1>8, <1>9, Zenon

\* What the comparison of two timestamps says.
LEMMA InTimeMeans ==
    ASSUME IInv, TimesExact, NEW a, NEW b
    PROVE  InTime(given, cur, a, b) <=>
             /\ a \in DOMAIN OrderInfo /\ b \in DOMAIN OrderInfo
             /\ timestamp_isexacttime(OrderInfo[a])
             /\ OrderInfo[a] < timestamp_exactly(OrderInfo[b])
<1>0. cur \in Nat
    BY SMTT(30) DEF IInv, TypeOK
<1>1. InTime(given, cur, a, b) => a \in DOMAIN OrderInfo /\ b \in DOMAIN OrderInfo
    BY Zenon DEF InTime, TimesExact
<1>2. ASSUME a \in DOMAIN OrderInfo, b \in DOMAIN OrderInfo
      PROVE  InTime(given, cur, a, b) <=>
               /\ timestamp_isexacttime(OrderInfo[a])
               /\ OrderInfo[a] < timestamp_exactly(OrderInfo[b])
    <2>1. PICK f \in 1 .. cur - 1 :
             /\ LastMark(given, cur, f, a)
             /\ timestamp_isexacttime(OrderInfo[a]) <=> given[f].type = "FLUSH"
             /\ given[f].type = "FLUSH" => OrderInfo[a] = Time(given, f)
        BY <1>2, TimestampMeans, Zenon
    <2>2. PICK m \in 1 .. cur - 1 :
             /\ LastMark(given, cur, m, b)
             /\ timestamp_exactly(OrderInfo[b]) = Time(given, m)
        BY <1>2, TimestampMeans, Zenon
    <2>3. InTime(given, cur, a, b) <=>
            given[f].type = "FLUSH" /\ Time(given, f) < Time(given, m)
        <3>1. \A g, n : LastMark(given, cur, g, a) /\ LastMark(given, cur, n, b) =>
                  g = f /\ n = m
            BY <1>0, <2>1, <2>2, LastMarkUnique, Zenon
        <3> QED
            BY <2>1, <2>2, <3>1, Zenon DEF InTime
    <2> QED
        BY <2>1, <2>2, <2>3, Zenon
<1> QED
    BY <1>1, <1>2, Zenon

\* The engine's comparison of the two ranges is about every pair of addresses.
LEMMA OrderFailsMeans ==
    ASSUME IInv, TimesExact, NEW early, NEW late, early # {}, late # {}
    PROVE  OrderFails(early, late) <=>
             \E a \in early, b \in late : ~InTime(given, cur, a, b)
<1> DEFINE S == {OrderInfo[a] : a \in early}
           T == {timestamp_exactly(OrderInfo[a]) : a \in late}
<1>0. INT_MAX \in Nat /\ 1 < INT_MAX /\ INT_MAX - 1 \in Nat /\ (INT_MAX - 1) + 1 = INT_MAX
    <2>1. Len(given) \in Nat /\ Len(given) + 1 < INT_MAX /\ INT_MAX \in Nat
        BY InputsAssumption, SMTT(30) DEF TimesExact, IInv, TypeOK
    <2> QED
        BY <2>1, SMTT(30)
<1>1. CASE ~(early \cup late \subseteq DOMAIN OrderInfo)
    <2>1. OrderFails(early, late)
        BY <1>1, Zenon DEF OrderFails
    <2>2. \E a \in early, b \in late : a \notin DOMAIN OrderInfo \/ b \notin DOMAIN OrderInfo
        BY <1>1, Zenon
    <2> QED
        BY <2>1, <2>2, InTimeMeans, Zenon
<1>2. CASE early \cup late \subseteq DOMAIN OrderInfo
    <2>1. OrderFails(early, late) <=> early_max(early) >= late_min(late)
        BY <1>2, Zenon DEF OrderFails
    <2>2. T \in SUBSET (1 .. INT_MAX - 1)
        BY <1>2, TimestampMeans, Zenon
    <2>3. CASE \E a \in early : ~timestamp_isexacttime(OrderInfo[a])
        <3>1. early_max(early) = INT_MAX
            BY <2>3, Zenon DEF early_max
        <3>2. late_min(late) <= INT_MAX
            <4>1. {INT_MAX} \cup T \in SUBSET Nat /\ {INT_MAX} \cup T # {}
                BY <1>0, <2>2, SMTT(30)
            <4>2. Min({INT_MAX} \cup T) <= INT_MAX
                <5> HIDE DEF T
                <5> QED BY <4>1, MinIs, Zenon
            <4> QED
                BY <4>2, Zenon DEF late_min
        <3>3. late_min(late) \in Nat
            <4>1. {INT_MAX} \cup T \in SUBSET Nat /\ {INT_MAX} \cup T # {}
                BY <1>0, <2>2, SMTT(30)
            <4>2. Min({INT_MAX} \cup T) \in Nat
                <5> HIDE DEF T
                <5> QED BY <4>1, MinIs, Zenon
            <4> QED
                BY <4>2, Zenon DEF late_min
        <3>4. OrderFails(early, late)
            BY <1>0, <2>1, <3>1, <3>2, <3>3, Zenon
        <3> QED
            BY <2>3, <3>4, InTimeMeans, Zenon
    <2>4. CASE \A a \in early : timestamp_isexacttime(OrderInfo[a])
        <3>1. S \in SUBSET (1 .. INT_MAX - 1)
            BY <1>2, <2>4, TimestampMeans, Zenon
        <3>2. early_max(early) = Max({0} \cup S) /\ late_min(late) = Min({INT_MAX} \cup T)
            BY <2>4, Zenon DEF early_max, late_min
        <3>3. early_max(early) >= late_min(late) <=> \E x \in S, y \in T : x >= y
            <4> HIDE DEF S, T
            <4> QED BY <1>0, <2>2, <3>1, <3>2, MaxMin, Zenon
        <3>4. (\E x \in S, y \in T : x >= y) <=>
                 \E a \in early, b \in late : OrderInfo[a] >= timestamp_exactly(OrderInfo[b])
            OBVIOUS
        <3>5. \A a \in early, b \in late :
                 OrderInfo[a] >= timestamp_exactly(OrderInfo[b]) <=>
                     ~(OrderInfo[a] < timestamp_exactly(OrderInfo[b]))
            <4> TAKE a \in early, b \in late
            <4>1. OrderInfo[a] \in Int /\ timestamp_exactly(OrderInfo[b]) \in Int
                BY <2>2, <3>1, SMTT(30)
            <4> QED BY <4>1, SMTT(30)
        <3>6. \A a \in early, b \in late :
                 InTime(given, cur, a, b) <=> OrderInfo[a] < timestamp_exactly(OrderInfo[b])
            BY <1>2, <2>4, InTimeMeans, Zenon
        <3> HIDE DEF S, T
        <3> QED
            BY <2>1, <3>3, <3>4, <3>5, <3>6, Zenon
    <2> QED
        BY <2>3, <2>4, Zenon
<1> QED
    BY <1>1, <1>2, Zenon

\* VeriProc_Order reports exactly the pairs that are not in time.
LEMMA OrderReportsStep ==
    ASSUME IInv, TimesExact, OrderReports, Next
    PROVE  OrderReports'
<1> DEFINE Broken(p) ==
        \E a \in AddrInterval(given[p]), b \in AddrIntervalLate(given[p]) :
            ~InTime(given, p, a, b)
<1>0. given' = given
    BY ReportsKept, Zenon
<1>5. \A n : [kind |-> "ORDER ERROR", record |-> n, at |-> n] \in reports' \ reports =>
          Order /\ n = cur
    <2> TAKE n
    <2> DEFINE r == [kind |-> "ORDER ERROR", record |-> n, at |-> n]
    <2>1. r.kind = "ORDER ERROR" /\ r.record = n
        OBVIOUS
    <2> HIDE DEF r
    <2>2. r \in reports' \ reports => Order /\ n = cur
        BY <2>1, ReportedBy, Zenon
    <2> QED
        BY <2>2, Zenon DEF r
<1> SUFFICES ASSUME NEW p \in DOMAIN given
             PROVE  Reported("ORDER ERROR", p, p)' <=> AnsweredOrder(p)' /\ Broken(p)
    BY <1>0, Zenon DEF OrderReports
<1>1. Reported("ORDER ERROR", p, p) <=> AnsweredOrder(p) /\ Broken(p)
    BY Zenon DEF OrderReports
<1>2. cur \in Nat /\ p \in Nat
    BY SMTT(30) DEF IInv, TypeOK
<1> HIDE DEF Broken
<1>3. CASE p = cur /\ Order
    <2>1. Process("ORDER")
        BY <1>3, Zenon DEF Order
    <2>2. /\ cur' = cur + 1 /\ given[cur].type = "ORDER" /\ veriptr[cur] = given[cur]
        BY <2>1, CurrentRecord, Zenon
    <2> DEFINE early == AddrInterval(given[p])
               late == AddrIntervalLate(given[p])
    <2>3. ~Reported("ORDER ERROR", p, p)
        <3>1. ~AnsweredOrder(p)
            BY <1>2, <1>3, SMTT(30) DEF AnsweredOrder, Answered
        <3> QED
            BY <1>1, <3>1, Zenon
    <2>4. Reported("ORDER ERROR", p, p)' <=>
            ~(Ignored(early) \/ Ignored(late)) /\ OrderFails(early, late)
        <3>1. [kind |-> "ORDER ERROR", record |-> p, at |-> p] \notin reports
            BY <2>3, Zenon DEF Reported
        <3>2. Report("ORDER ERROR", cur) = [kind |-> "ORDER ERROR", record |-> p, at |-> p]
            BY <1>3, Zenon DEF Report
        <3>3. veriptr[cur] = given[p]
            BY <1>3, <2>2, Zenon
        <3> HIDE DEF early, late
        <3>4. reports' = reports \cup
                IF ~(Ignored(early) \/ Ignored(late)) /\ OrderFails(early, late)
                THEN {Report("ORDER ERROR", cur)} ELSE {}
            BY <1>3, <3>3, Zenon DEF Order, early, late
        <3> QED
            BY <3>1, <3>2, <3>4, Zenon DEF Reported
    <2>5. AnsweredOrder(p)' <=> ~(Ignored(early) \/ Ignored(late))
        <3>1. p < cur' /\ given'[p].type = "ORDER" /\ given' = given
            BY <1>0, <1>2, <1>3, <2>2, SMTT(30)
        <3>2. /\ Overlaps(early, ExcludeInfo) <=> Skipped(given, p, early)
              /\ Overlaps(late, ExcludeInfo) <=> Skipped(given, p, late)
            BY <1>3, OverlapsSkipped, Zenon
        <3> QED
            BY <3>1, <3>2, Zenon DEF AnsweredOrder, Answered, Ignored
    <2>6. ~(Ignored(early) \/ Ignored(late)) => (OrderFails(early, late) <=> Broken(p))
        <3>1. ~(Ignored(early) \/ Ignored(late)) => early # {} /\ late # {}
            BY Zenon DEF Ignored
        <3> QED
            BY <1>3, <3>1, OrderFailsMeans, Zenon DEF Broken
    <2> HIDE DEF early, late
    <2> QED
        BY <2>4, <2>5, <2>6, Zenon
<1>4. CASE ~(p = cur /\ Order)
    <2>1. Reported("ORDER ERROR", p, p)' <=> Reported("ORDER ERROR", p, p)
        <3>1. ASSUME Reported("ORDER ERROR", p, p)', ~Reported("ORDER ERROR", p, p)
              PROVE  FALSE
            BY <1>4, <1>5, <3>1, Zenon DEF Reported
        <3> QED
            BY <3>1, ReportsKept, Zenon
    <2>2. AnsweredOrder(p)' <=> AnsweredOrder(p)
        <3>1. CASE cur' = cur
            BY <1>0, <3>1, Zenon DEF AnsweredOrder, Answered
        <3>2. ASSUME NEW type, Process(type)
              PROVE  AnsweredOrder(p)' <=> AnsweredOrder(p)
            <4>1. cur' = cur + 1 /\ given[cur].type = type
                BY <3>2, CurrentRecord, Zenon
            <4>2. p = cur => given[p].type # "ORDER"
                BY <1>2, <1>4, <3>2, <4>1, ActionTypes, Zenon
            <4>3. p # cur => (p < cur' <=> p < cur)
                BY <1>2, <4>1, SMTT(30)
            <4> QED
                BY <1>0, <4>2, <4>3, Zenon DEF AnsweredOrder, Answered
        <3> QED
            BY <3>1, <3>2, TraceSteps, Zenon DEF Finish, vars
    <2> QED
        BY <1>1, <2>1, <2>2, Zenon
<1> QED
    BY <1>3, <1>4, Zenon

\* A store is a mark, and a flush without a fence since a store has the time
\* of that store.
LEMMA StoreMarks ==
    ASSUME NEW t, NEW p \in Nat, NEW b, NEW j \in 1 .. p - 1, LastStore(t, p, j, b),
           \A f \in j + 1 .. p - 1 : Flushes(t, f, b) => ~FenceBetween(t, j, f)
    PROVE  \A m : LastMark(t, p, m, b) => m >= j /\ Time(t, m) = Time(t, j)
<1> SUFFICES ASSUME NEW m, LastMark(t, p, m, b)
             PROVE  m >= j /\ Time(t, m) = Time(t, j)
    OBVIOUS
<1>1. Marks(t, j, b) /\ t[j].type = "ASSIGN"
    BY Zenon DEF LastStore, Marks, Stores, Touches
<1>2. m \in 1 .. p - 1 /\ Marks(t, m, b)
    BY Zenon DEF LastMark
<1>3. m >= j
    <2>1. m < j => j \in m + 1 .. p - 1
        BY <1>2, SMTT(30)
    <2> QED
        BY <1>1, <1>2, <2>1, SMTT(30) DEF LastMark
<1>4. CASE m = j
    BY <1>3, <1>4, Zenon
<1>5. CASE m # j
    <2>1. m \in j + 1 .. p - 1
        BY <1>2, <1>3, <1>5, SMTT(30)
    <2>2. Flushes(t, m, b)
        BY <1>2, <2>1, Zenon DEF Marks, LastStore
    <2>3. ~FenceBetween(t, j, m)
        BY <2>1, <2>2, Zenon
    <2>4. \A k \in j .. m - 1 : k = j \/ k \in j + 1 .. m - 1
        BY <1>2, SMTT(30)
    <2>5. ~ \E k \in j .. m - 1 : t[k].type = "FENCE"
        BY <1>1, <2>3, <2>4, Zenon DEF FenceBetween
    <2>6. j \in Nat \ {0} /\ m \in Nat /\ j <= m
        BY <1>2, <1>3, SMTT(30)
    <2>7. /\ Time(t, j) \in Nat /\ Time(t, m) \in Nat
          /\ Time(t, j) <= Time(t, m) /\ ~(Time(t, j) < Time(t, m))
        BY <2>5, <2>6, TimePasses, Zenon
    <2> QED
        BY <1>3, <2>7, SMTT(30)
<1> QED
    BY <1>4, <1>5, Zenon

\* The last store is unique.
LEMMA LastStoreUnique ==
    ASSUME NEW t, NEW p \in Nat, NEW a, NEW i \in 1 .. p - 1, NEW j \in 1 .. p - 1,
           LastStore(t, p, i, a), LastStore(t, p, j, a)
    PROVE  i = j
<1>1. ~(i < j)
    <2>1. i < j => j \in i + 1 .. p - 1
        OBVIOUS
    <2> QED BY <2>1, Zenon DEF LastStore
<1>2. ~(j < i)
    <2>1. j < i => i \in j + 1 .. p - 1
        OBVIOUS
    <2> QED BY <2>1, Zenon DEF LastStore
<1> QED
    BY <1>1, <1>2, SMTT(30)

\* Under the hypotheses on the flushes, comparing timestamps is comparing the
\* moments at which the last values are durable and are stored.
LEMMA InTimeIsOrdered ==
    ASSUME NEW t, NEW p \in Nat, Len(t) \in Nat, p <= Len(t), NEW a, NEW b,
           FlushedOnce(t, p, a), FlushedAtOnce(t, p, b)
    PROVE  OrderedBefore(t, p, a, b) <=> InTime(t, p, a, b)
<1>1. PICK i \in 1 .. p - 1 :
        /\ LastStore(t, p, i, a)
        /\ \A f, g \in i + 1 .. p - 1 : Flushes(t, f, a) /\ Flushes(t, g, a) => f = g
    BY Zenon DEF FlushedOnce
<1>2. PICK j \in 1 .. p - 1 :
        /\ LastStore(t, p, j, b)
        /\ \A f \in j + 1 .. p - 1 : Flushes(t, f, b) => ~FenceBetween(t, j, f)
    BY Zenon DEF FlushedAtOnce
<1>3. Marks(t, i, a) /\ Marks(t, j, b) /\ t[i].type = "ASSIGN"
    BY <1>1, <1>2, Zenon DEF LastStore, Marks, Stores, Touches
<1>4. \A m : LastMark(t, p, m, b) => m >= j /\ Time(t, m) = Time(t, j)
    BY <1>2, StoreMarks, Zenon
<1>5. ASSUME OrderedBefore(t, p, a, b)
      PROVE  InTime(t, p, a, b)
    <2>1. PICK f \in i + 1 .. j - 1 : Flushes(t, f, a) /\ FenceBetween(t, f, j)
        BY <1>1, <1>2, <1>5, Zenon DEF OrderedBefore
    <2>2. f \in 1 .. p - 1 /\ f \in i + 1 .. p - 1 /\ f \in Nat \ {0} /\ j \in Nat /\ f <= j
        OBVIOUS
    <2>3. PICK k \in f + 1 .. j - 1 : t[k].type = "FENCE"
        BY <2>1, Zenon DEF FenceBetween
    <2>4. k \in f + 1 .. (Len(t) + 1) - 1 /\ k \in f .. j - 1
        OBVIOUS
    <2>5. Marks(t, f, a)
        BY <2>1, <2>3, <2>4, Zenon DEF Marks, FenceBetween
    <2>6. \A n \in f + 1 .. p - 1 : n \in i + 1 .. p - 1 /\ n # f
        OBVIOUS
    <2>7. LastMark(t, p, f, a)
        BY <1>1, <2>1, <2>2, <2>5, <2>6, Zenon DEF LastMark, Marks, LastStore
    <2>8. PICK m \in 1 .. p - 1 : LastMark(t, p, m, b)
        BY <1>3, LastMarkExists, Zenon
    <2>9. Time(t, f) < Time(t, m)
        <3>1. Time(t, f) < Time(t, j)
            BY <2>2, <2>3, <2>4, TimePasses, Zenon
        <3> QED
            BY <1>4, <2>8, <3>1, Zenon
    <2> QED
        BY <2>1, <2>2, <2>7, <2>8, <2>9, Zenon DEF InTime, Flushes, Touches
<1>6. ASSUME InTime(t, p, a, b)
      PROVE  OrderedBefore(t, p, a, b)
    <2>1. PICK f \in 1 .. p - 1, m \in 1 .. p - 1 :
            /\ LastMark(t, p, f, a) /\ t[f].type = "FLUSH"
            /\ LastMark(t, p, m, b)
            /\ Time(t, f) < Time(t, m)
        BY <1>6, Zenon DEF InTime
    <2>2. i < f
        <3>1. f < i => i \in f + 1 .. p - 1
            OBVIOUS
        <3>2. ~(f < i) /\ i # f
            BY <1>3, <2>1, <3>1, Zenon DEF LastMark
        <3> QED
            BY <3>2, SMTT(30)
    <2>3. Flushes(t, f, a)
        BY <2>1, Zenon DEF LastMark, Marks, Stores, Touches
    <2>4. Time(t, f) < Time(t, j)
        BY <1>4, <2>1, Zenon
    <2>5. f \in Nat \ {0} /\ j \in Nat \ {0}
        OBVIOUS
    <2>6. f < j
        <3>1. j <= f => Time(t, j) <= Time(t, f) /\ Time(t, j) \in Nat /\ Time(t, f) \in Nat
            BY <2>5, TimePasses, Zenon
        <3> QED
            BY <2>4, <2>5, <3>1, SMTT(30)
    <2>7. PICK k \in f .. j - 1 : t[k].type = "FENCE"
        <3>1. f \in Nat \ {0} /\ j \in Nat /\ f <= j
            BY <2>5, <2>6, SMTT(30)
        <3> QED
            BY <2>4, <3>1, TimePasses, Zenon
    <2>8. k \in f + 1 .. j - 1
        <3>1. k # f
            BY <2>1, <2>7, Zenon
        <3> QED
            BY <3>1, SMTT(30)
    <2>9. f \in i + 1 .. j - 1 /\ FenceBetween(t, f, j)
        BY <2>2, <2>6, <2>7, <2>8, SMTT(30) DEF FenceBetween
    <2>10. \A x, y \in 1 .. p - 1 :
              LastStore(t, p, x, a) /\ LastStore(t, p, y, b) => x = i /\ y = j
        BY <1>1, <1>2, LastStoreUnique, Zenon
    <2> QED
        BY <2>3, <2>9, <2>10, Zenon DEF OrderedBefore
<1> QED
    BY <1>5, <1>6, Zenon

\* At the start nothing is marked and nothing is reported.
LEMMA InitOrder ==
    ASSUME Init
    PROVE  TimesExact /\ OrderReports
<1>1. /\ given \in Inputs /\ cur = 1 /\ timestamp = 1 /\ reports = {} /\ DOMAIN OrderInfo = {}
    BY SMTT(30) DEF Init, FirstTimestamp
<1>2. Time(given, 1) = 1
    BY CountFirst, SMTT(30) DEF Time
<1>3. \A i, a : ~LastMark(given, 1, i, a)
    BY SMTT(30) DEF LastMark
<1>4. TimesExact
    BY <1>1, <1>2, <1>3, Zenon DEF TimesExact
<1>5. \A p \in DOMAIN given : ~(p < 1)
    BY <1>1, InitIInv, SMTT(30) DEF IInv, TypeOK
<1>6. OrderReports
    BY <1>1, <1>5, Zenon DEF OrderReports, Reported, AnsweredOrder, Answered
<1> QED
    BY <1>4, <1>6, Zenon

\* A step keeps the timestamps and the reports about order exact.
LEMMA NextOrder ==
    ASSUME IInv, TimesExact, OrderReports, [Next]_vars
    PROVE  TimesExact' /\ OrderReports'
<1>1. CASE Next
    BY <1>1, TimesExactStep, OrderReportsStep, Zenon
<1>2. CASE UNCHANGED vars
    BY <1>2, Zenon DEF vars, TimesExact, OrderReports, Reported, AnsweredOrder, Answered
<1> QED
    BY <1>1, <1>2, Zenon

\* The answers are about the last values, where the timestamps can tell.
LEMMA OrderReportsMean ==
    ASSUME IInv, OrderReports
    PROVE  OrderExact
<1> SUFFICES ASSUME NEW p \in DOMAIN given, AnsweredOrder(p),
                    \A a \in AddrInterval(given[p]) : FlushedOnce(given, p, a),
                    \A b \in AddrIntervalLate(given[p]) : FlushedAtOnce(given, p, b)
             PROVE  Reported("ORDER ERROR", p, p) <=>
                      \E a \in AddrInterval(given[p]), b \in AddrIntervalLate(given[p]) :
                          ~OrderedBefore(given, p, a, b)
    BY Zenon DEF OrderExact
<1>1. p \in Nat /\ Len(given) \in Nat /\ p <= Len(given)
    BY SMTT(30) DEF IInv, TypeOK
<1>2. \A a \in AddrInterval(given[p]), b \in AddrIntervalLate(given[p]) :
         OrderedBefore(given, p, a, b) <=> InTime(given, p, a, b)
    BY <1>1, InTimeIsOrdered, Zenon
<1>3. Reported("ORDER ERROR", p, p) <=>
         \E a \in AddrInterval(given[p]), b \in AddrIntervalLate(given[p]) :
             ~InTime(given, p, a, b)
    BY Zenon DEF OrderReports
<1> QED
    BY <1>2, <1>3, Zenon

\* isOrderedBefore is silent exactly if every early address is durable before
\* every late one is stored, when the early addresses are flushed once and the
\* late ones in the section they are stored in.
THEOREM OrderIsExact == Spec => []OrderExact
<1>1. Init => IInv /\ TimesExact /\ OrderReports
    BY InitIInv, InitOrder, Zenon
<1>2. IInv /\ TimesExact /\ OrderReports /\ [Next]_vars => (IInv /\ TimesExact /\ OrderReports)'
    BY NextIInv, NextOrder, Zenon
<1>3. IInv /\ OrderReports => OrderExact
    BY OrderReportsMean, Zenon
<1> QED
    BY <1>1, <1>2, <1>3, PTL DEF Spec

=============================================================================
