------------------------------ MODULE VeriProc ------------------------------
(***************************************************************************)
(* The checking engine: PMTest::VeriProc and the VeriProc_* functions of   *)
(* src/src/pmtest.cc, run on one trace.                                    *)
(*                                                                         *)
(* The trace is a sequence of Metadata records.  An interval set is the    *)
(* set of the addresses in it, an interval map a function on such a set;   *)
(* find(interval) returns a segment exactly when some address of the       *)
(* interval is in the set.  A message on the terminal is an element of     *)
(* reports: its kind, the record it is about (0 for the message at the     *)
(* end), and the position of the record being processed.                   *)
(***************************************************************************)
EXTENDS TraceSemantics, FiniteSetsExt

CONSTANTS
    Inputs,         \* the traces that may be submitted
    PMTEST_WARN,    \* TRUE if the build prints warnings
    INT_MAX         \* numeric_limits<int>::max()

\* Timestamps are ints: a trace has fewer fences than an int can count.
ASSUME InputsAssumption ==
    /\ Inputs \subseteq Seq(Metadata)
    /\ PMTEST_WARN \in BOOLEAN
    /\ INT_MAX \in Nat
    /\ \A t \in Inputs : Len(t) + 1 < INT_MAX

VARIABLES
    veriptr,        \* the trace, some of whose types VeriProc overwrites
    cur,            \* the record to process next
    ExcludeInfo, PersistInfo, TransactionAddInfo, \* sets of addresses
    OrderInfo,      \* address |-> signed timestamp
    TransactionPersistInfo, \* the positions in veriptr of the recorded stores
    timestamp, transactionCount,
    reports,
    returned,       \* "yes" once VeriProc has returned, "no" before
    given           \* history: the trace as it was submitted

vars == <<veriptr, cur, ExcludeInfo, PersistInfo, TransactionAddInfo, OrderInfo,
          TransactionPersistInfo, timestamp, transactionCount, reports, returned,
          given>>

\* info.find(interval) != info.end()
Overlaps(interval, info) == interval \cap info # {}

Report(kind, record) == [kind |-> kind, record |-> record, at |-> cur]

\* Mutant: the test size > 0 is dropped.
IgnoredNotEmpty(interval) == Overlaps(interval, ExcludeInfo)

\* The tests "size > 0" and "not excluded", on which an operation returns
\* before it does anything.
Ignored(interval) == interval = {} \/ Overlaps(interval, ExcludeInfo)

\* A negative timestamp -t stands for "at t or later".
timestamp_atleast(t) == IF t >= 0 THEN -t ELSE t
timestamp_exactly(t) == IF t <= 0 THEN -t ELSE t
timestamp_isexacttime(t) == t >= 0

\* OrderInfo += make_pair(interval, value), with the combiner inplace_assign
Assigned(map, interval, value) ==
    [a \in (DOMAIN map) \cup interval |-> IF a \in interval THEN value ELSE map[a]]

-----------------------------------------------------------------------------
\* Mutant: the timestamp starts at 0, which has no sign.
FirstTimestampZero == 0

FirstTimestamp == 1

Init ==
    /\ given \in Inputs
    /\ veriptr = given
    /\ cur = 1
    /\ ExcludeInfo = {} /\ PersistInfo = {} /\ TransactionAddInfo = {}
    /\ OrderInfo = << >>
    /\ TransactionPersistInfo = {}
    /\ timestamp = FirstTimestamp
    /\ transactionCount = 0
    /\ reports = {}
    /\ returned = "no"

\* Every record is processed once, in trace order: the frames end at the
\* fences, each fence is the first record of the frame after it, and the
\* tail follows.
Process(type) ==
    /\ cur <= Len(veriptr)
    /\ veriptr[cur].type = type
    /\ cur' = cur + 1
    /\ UNCHANGED <<returned, given>>

\* Mutant: no record is treated as being in the tail.
InTailNever(i) == FALSE

\* Record i is in the tail: no fence comes after it.
InTail(i) == \A j \in i + 1 .. Len(veriptr) : veriptr[j].type # "FENCE"

Assign ==
    /\ Process("ASSIGN")
    /\ LET interval == AddrInterval(veriptr[cur])
           skip == Ignored(interval)
           recorded == ~skip /\ transactionCount > 0
       IN /\ PersistInfo' = IF skip THEN PersistInfo ELSE PersistInfo \cup interval
          /\ OrderInfo' =
                IF skip THEN OrderInfo
                ELSE Assigned(OrderInfo, interval, timestamp_atleast(timestamp))
          /\ TransactionPersistInfo' =
                TransactionPersistInfo \cup (IF recorded THEN {cur} ELSE {})
          /\ reports' = reports \cup
                IF recorded /\ ~Overlaps(interval, TransactionAddInfo)
                THEN {Report("ASSIGN ERROR", cur)} ELSE {}
    /\ UNCHANGED <<veriptr, ExcludeInfo, TransactionAddInfo, timestamp,
                   transactionCount>>

\* Mutant: only a range that is modified as a whole is removed.
FlushedWhole(interval) ==
    IF interval \subseteq PersistInfo THEN PersistInfo \ interval ELSE PersistInfo

\* PersistInfo -= interval
Flushed(interval) == PersistInfo \ interval

\* Mutant: a range that is modified in part is called unmodified.
UnmodifiedInPart(interval) == ~(interval \subseteq PersistInfo)

\* The condition of FLUSH WARNING
Unmodified(interval) == ~Overlaps(interval, PersistInfo)

\* A flush in the tail is ignored.
Flush ==
    /\ Process("FLUSH")
    /\ LET interval == AddrInterval(veriptr[cur])
           skip == Ignored(interval) \/ InTail(cur)
       IN /\ PersistInfo' = IF skip THEN PersistInfo ELSE Flushed(interval)
          /\ OrderInfo' =
                IF skip THEN OrderInfo
                ELSE Assigned(OrderInfo, interval, timestamp_exactly(timestamp))
          /\ reports' = reports \cup
                IF PMTEST_WARN /\ ~skip /\ Unmodified(interval)
                THEN {Report("FLUSH WARNING", cur)} ELSE {}
    /\ UNCHANGED <<veriptr, ExcludeInfo, TransactionAddInfo, TransactionPersistInfo,
                   timestamp, transactionCount>>

\* Mutant: a fence counts for the frame it ends and the one it begins.
FenceTwice ==
    /\ Process("FENCE")
    /\ timestamp' = timestamp + 2
    /\ UNCHANGED <<veriptr, ExcludeInfo, PersistInfo, TransactionAddInfo, OrderInfo,
                   TransactionPersistInfo, transactionCount, reports>>

Fence ==
    /\ Process("FENCE")
    /\ timestamp' = timestamp + 1
    /\ UNCHANGED <<veriptr, ExcludeInfo, PersistInfo, TransactionAddInfo, OrderInfo,
                   TransactionPersistInfo, transactionCount, reports>>

\* VeriProc_Persist on record i, which may be a store recorded earlier
PersistReports(i) ==
    LET interval == AddrInterval(veriptr[i])
    IN IF ~Ignored(interval) /\ Overlaps(interval, PersistInfo)
       THEN {Report("PERSIST ERROR", i)} ELSE {}

Persist ==
    /\ Process("PERSIST")
    /\ reports' = reports \cup PersistReports(cur)
    /\ UNCHANGED <<veriptr, ExcludeInfo, PersistInfo, TransactionAddInfo, OrderInfo,
                   TransactionPersistInfo, timestamp, transactionCount>>

early_max(early) ==
    IF \E a \in early : ~timestamp_isexacttime(OrderInfo[a]) THEN INT_MAX
    ELSE Max({0} \cup {OrderInfo[a] : a \in early})

late_min(late) ==
    Min({INT_MAX} \cup {timestamp_exactly(OrderInfo[a]) : a \in late})

\* Both ranges must have timestamps, the early ones all smaller.
OrderFails(early, late) ==
    IF early \cup late \subseteq DOMAIN OrderInfo
    THEN early_max(early) >= late_min(late)
    ELSE TRUE

Order ==
    /\ Process("ORDER")
    /\ LET early == AddrInterval(veriptr[cur])
           late == AddrIntervalLate(veriptr[cur])
           skip == Ignored(early) \/ Ignored(late)
       IN reports' = reports \cup
             IF ~skip /\ OrderFails(early, late)
             THEN {Report("ORDER ERROR", cur)} ELSE {}
    /\ UNCHANGED <<veriptr, ExcludeInfo, PersistInfo, TransactionAddInfo, OrderInfo,
                   TransactionPersistInfo, timestamp, transactionCount>>

\* Mutant: a nested begin forgets the stores of the outer one.
TransactionBeginClears ==
    /\ Process("TRANSACTIONBEGIN")
    /\ TransactionPersistInfo' =
          {}
    /\ transactionCount' = transactionCount + 1
    /\ UNCHANGED <<veriptr, ExcludeInfo, PersistInfo, TransactionAddInfo, OrderInfo,
                   timestamp, reports>>

TransactionBegin ==
    /\ Process("TRANSACTIONBEGIN")
    /\ TransactionPersistInfo' =
          IF transactionCount = 0 THEN {} ELSE TransactionPersistInfo
    /\ transactionCount' = transactionCount + 1
    /\ UNCHANGED <<veriptr, ExcludeInfo, PersistInfo, TransactionAddInfo, OrderInfo,
                   timestamp, reports>>

\* The end of the outermost transaction turns each store recorded in it into
\* a persistence query, in place, and answers it.
TransactionEnd ==
    /\ Process("TRANSACTIONEND")
    /\ transactionCount' = transactionCount - 1
    /\ LET queries == IF transactionCount = 1 THEN TransactionPersistInfo ELSE {}
       IN /\ veriptr' = [i \in DOMAIN veriptr |->
                IF i \in queries THEN [veriptr[i] EXCEPT !.type = "PERSIST"]
                ELSE veriptr[i]]
          /\ reports' = reports \cup UNION {PersistReports(i) : i \in queries}
    /\ UNCHANGED <<ExcludeInfo, PersistInfo, TransactionAddInfo, OrderInfo,
                   TransactionPersistInfo, timestamp>>

\* Mutant: additions outside a transaction count.
TransactionAddAnywhere ==
    /\ Process("TRANSACTIONADD")
    /\ LET interval == AddrInterval(veriptr[cur])
       IN /\ TransactionAddInfo' = TransactionAddInfo \cup interval
          /\ reports' = reports \cup
                IF PMTEST_WARN /\ Overlaps(interval, TransactionAddInfo)
                THEN {Report("TRANSACTIONADD WARNING", cur)} ELSE {}
    /\ UNCHANGED <<veriptr, ExcludeInfo, PersistInfo, OrderInfo,
                   TransactionPersistInfo, timestamp, transactionCount>>

TransactionAdd ==
    /\ Process("TRANSACTIONADD")
    /\ LET interval == IF transactionCount > 0 THEN AddrInterval(veriptr[cur]) ELSE {}
       IN /\ TransactionAddInfo' = TransactionAddInfo \cup interval
          /\ reports' = reports \cup
                IF PMTEST_WARN /\ Overlaps(interval, TransactionAddInfo)
                THEN {Report("TRANSACTIONADD WARNING", cur)} ELSE {}
    /\ UNCHANGED <<veriptr, ExcludeInfo, PersistInfo, OrderInfo,
                   TransactionPersistInfo, timestamp, transactionCount>>

Exclude ==
    /\ Process("EXCLUDE")
    /\ ExcludeInfo' = ExcludeInfo \cup AddrInterval(veriptr[cur])
    /\ UNCHANGED <<veriptr, PersistInfo, TransactionAddInfo, OrderInfo,
                   TransactionPersistInfo, timestamp, transactionCount, reports>>

Include ==
    /\ Process("INCLUDE")
    /\ ExcludeInfo' = ExcludeInfo \ AddrInterval(veriptr[cur])
    /\ UNCHANGED <<veriptr, PersistInfo, TransactionAddInfo, OrderInfo,
                   TransactionPersistInfo, timestamp, transactionCount, reports>>

\* "Unidentified or unprocessed type."
Unprocessed ==
    /\ \E type \in {"COMMIT", "BARRIER", "TRANSACTIONDELIM", "ENDING"} : Process(type)
    /\ UNCHANGED <<veriptr, ExcludeInfo, PersistInfo, TransactionAddInfo, OrderInfo,
                   TransactionPersistInfo, timestamp, transactionCount, reports>>

\* Mutant: one open transaction goes unnoticed.
UnclosedOffByOne == transactionCount > 1

\* The condition of TRANSACTIONEND ERROR
Unclosed == transactionCount > 0

Finish ==
    /\ cur = Len(veriptr) + 1 /\ returned = "no"
    /\ returned' = "yes"
    /\ reports' = reports \cup
          IF Unclosed THEN {Report("TRANSACTIONEND ERROR", 0)} ELSE {}
    /\ UNCHANGED <<veriptr, cur, ExcludeInfo, PersistInfo, TransactionAddInfo,
                   OrderInfo, TransactionPersistInfo, timestamp, transactionCount,
                   given>>

Returned == returned = "yes" /\ UNCHANGED vars

Next ==
    \/ Assign \/ Flush \/ Fence \/ Persist \/ Order
    \/ TransactionBegin \/ TransactionEnd \/ TransactionAdd
    \/ Exclude \/ Include \/ Unprocessed \/ Finish \/ Returned

Spec == Init /\ [][Next]_vars

-----------------------------------------------------------------------------
(* Properties.  The verdicts of the engine against TraceSemantics.         *)

\* The type of every variable.
TypeOK ==
    /\ given \in Seq(Metadata)
    /\ veriptr \in Seq(Metadata)
    /\ Len(veriptr) = Len(given)
    /\ cur \in 1 .. Len(veriptr) + 1
    /\ ExcludeInfo \subseteq Nat /\ PersistInfo \subseteq Nat
    /\ TransactionAddInfo \subseteq Nat
    /\ DOMAIN OrderInfo \subseteq Nat
    /\ \A a \in DOMAIN OrderInfo : OrderInfo[a] \in Int
    /\ TransactionPersistInfo \subseteq 1 .. Len(veriptr)
    /\ timestamp \in 1 .. cur
    /\ transactionCount \in Int
    /\ returned \in {"no", "yes"}
    /\ \A r \in reports : r.record \in 0 .. Len(veriptr) /\ r.at \in 1 .. cur

Reported(kind, record, at) ==
    [kind |-> kind, record |-> record, at |-> at] \in reports

\* Position p holds a query of this type, it has been processed, and it is
\* about some address, none of them excluded.
Answered(p, type) ==
    /\ p < cur /\ given[p].type = type
    /\ AddrInterval(given[p]) # {}
    /\ ~Skipped(given, p, AddrInterval(given[p]))

\* PersistInfo holds exactly the addresses with a tracked store that no
\* flush follows, other than a flush in the tail (VeriProc_Assign and
\* VeriProc_Flush over the whole trace).
PersistInfoExact ==
    \A a \in PersistInfo \cup UNION {AddrInterval(given[i]) : i \in DOMAIN given} :
        a \in PersistInfo <=> Pending(given, cur, a)

\* No false alarm: what isPersist, or the end of a transaction, reports as
\* not persisted has an address that is not durable at that point.
PersistErrorsReal ==
    \A r \in reports : r.kind = "PERSIST ERROR" =>
        \E a \in AddrInterval(given[r.record]) : ~Durable(given, r.at, a)

\* A query that no flush is waiting for, which includes every query after
\* the last fence, reports each range that is not durable.
PersistSoundIfSettled ==
    \A p \in DOMAIN given :
        /\ Answered(p, "PERSIST") /\ Settled(given, p)
        /\ \E a \in AddrInterval(given[p]) : ~Durable(given, p, a)
        => Reported("PERSIST ERROR", p, p)

\* isPersist stays silent only about what is durable.
PersistSound ==
    \A p \in DOMAIN given :
        /\ Answered(p, "PERSIST")
        /\ \E a \in AddrInterval(given[p]) : ~Durable(given, p, a)
        => Reported("PERSIST ERROR", p, p)

\* A flush is called unnecessary only if every store to its range already
\* has a flush after it.
FlushWarningsReal ==
    \A r \in reports : r.kind = "FLUSH WARNING" =>
        \A a \in AddrInterval(given[r.record]), i \in 1 .. r.at - 1 :
            Stores(given, i, a) => \E f \in i + 1 .. r.at - 1 : Flushes(given, f, a)

AnsweredOrder(p) ==
    /\ Answered(p, "ORDER")
    /\ AddrIntervalLate(given[p]) # {}
    /\ ~Skipped(given, p, AddrIntervalLate(given[p]))

\* isOrderedBefore is silent exactly if every early address is durable before
\* every late one is stored, provided that the early addresses are flushed
\* once and the late ones not in a later section than they are stored in.
OrderExact ==
    \A p \in DOMAIN given :
        LET early == AddrInterval(given[p])
            late == AddrIntervalLate(given[p])
        IN /\ AnsweredOrder(p)
           /\ \A a \in early : FlushedOnce(given, p, a)
           /\ \A b \in late : FlushedAtOnce(given, p, b)
           => (Reported("ORDER ERROR", p, p) <=>
                 \E a \in early, b \in late : ~OrderedBefore(given, p, a, b))

\* The end of the outermost transaction reports each store made in it that
\* is not durable then, if no flush is waiting for a later fence.
TransactionEndSound ==
    \A p \in DOMAIN given :
        /\ p < cur /\ given[p].type = "TRANSACTIONEND"
        /\ WellNested(given, p) /\ Depth(given, p) = 1 /\ Settled(given, p)
        => \A i \in 1 .. p - 1 :
            /\ SameTransaction(given, i, p)
            /\ ~Skipped(given, p, AddrInterval(given[i]))
            /\ \E a \in AddrInterval(given[i]) :
                Stores(given, i, a) /\ ~Durable(given, p, a)
            => Reported("PERSIST ERROR", i, p)

\* A store inside a transaction, tracked and not preceded by an unmatched
\* TransactionEnd.
TransactionStore(i) ==
    /\ Answered(i, "ASSIGN")
    /\ WellNested(given, i) /\ Depth(given, i) > 0

\* A store inside a transaction is reported exactly if no address of it has
\* been added in this or in an earlier transaction of the trace.
AssignErrorExact ==
    \A i \in DOMAIN given : TransactionStore(i) =>
        (Reported("ASSIGN ERROR", i, i) <=>
            \A a \in AddrInterval(given[i]), j \in 1 .. i - 1 : ~Adds(given, j, a))

\* A store inside a transaction passes only if each address of it was added
\* before, in the same transaction.
LoggedInTransaction ==
    \A i \in DOMAIN given :
        TransactionStore(i) /\ ~Reported("ASSIGN ERROR", i, i) =>
            \A a \in AddrInterval(given[i]) : \E j \in 1 .. i - 1 :
                Adds(given, j, a) /\ SameTransaction(given, j, i)

\* The records with nothing to do: an operation or a query on an empty range,
\* and the types without a handler
Ranged == {"ASSIGN", "FLUSH", "PERSIST", "ORDER", "TRANSACTIONADD", "EXCLUDE", "INCLUDE"}
Vacuous(record) ==
    \/ record.type \in Ranged /\ record.size = 0
    \/ record.type = "ORDER" /\ record.size_late = 0
    \/ record.type \in {"COMMIT", "BARRIER", "TRANSACTIONDELIM", "ENDING"}

\* A record about an empty range, of whatever type, an order query with either
\* range empty, or a record of a type the engine has no handler for changes
\* nothing and is reported by nothing (the tests cur->size > 0, and the default
\* of the switch).
EmptyIgnored ==
    [][ /\ cur \in DOMAIN given
        /\ Vacuous(given[cur])
        => UNCHANGED <<veriptr, ExcludeInfo, PersistInfo, TransactionAddInfo,
                       OrderInfo, TransactionPersistInfo, timestamp,
                       transactionCount, reports>>
      ]_vars

\* A transaction that is begun and not ended is reported, and nothing else
\* is reported as such.
UnclosedReported ==
    returned = "yes" /\ WellNested(given, Len(given) + 1) =>
        (Reported("TRANSACTIONEND ERROR", 0, Len(given) + 1) <=>
            Depth(given, Len(given) + 1) > 0)

=============================================================================
