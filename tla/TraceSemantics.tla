--------------------------- MODULE TraceSemantics ---------------------------
(***************************************************************************)
(* The records of a trace (struct Metadata of src/include/pmtest.hh) and   *)
(* what a trace means, independently of how the checking engine computes   *)
(* it: which stores are certain to be in persistent memory, in which       *)
(* order, and which are logged.  Nothing here has state.                   *)
(***************************************************************************)
EXTENDS Integers, Sequences, FiniteSets

MetadataType ==
    {"ASSIGN", "FLUSH", "COMMIT", "BARRIER", "FENCE", "PERSIST", "ORDER",
     "TRANSACTIONDELIM", "ENDING", "TRANSACTIONBEGIN", "TRANSACTIONEND",
     "TRANSACTIONADD", "EXCLUDE", "INCLUDE"}

Metadata == [type : MetadataType, addr : Nat, size : Nat,
             addr_late : Nat, size_late : Nat]

\* right_open(addr, addr + size): empty if and only if size = 0.
AddrInterval(m) == m.addr .. m.addr + m.size - 1
AddrIntervalLate(m) == m.addr_late .. m.addr_late + m.size_late - 1

-----------------------------------------------------------------------------
(* In what follows t is a trace, i, j, f, p are positions in it, and a, b  *)
(* are addresses.                                                          *)

Touches(t, i, type, a) == t[i].type = type /\ a \in AddrInterval(t[i])

\* Just before p, address a is excluded from tracking.
Excluded(t, p, a) ==
    \E i \in 1 .. p - 1 :
        /\ Touches(t, i, "EXCLUDE", a)
        /\ \A j \in i + 1 .. p - 1 : ~Touches(t, j, "INCLUDE", a)

\* The engine disregards an operation any byte of which is excluded.
Skipped(t, p, interval) == \E a \in interval : Excluded(t, p, a)

Stores(t, i, a) ==
    Touches(t, i, "ASSIGN", a) /\ ~Skipped(t, i, AddrInterval(t[i]))

Flushes(t, i, a) ==
    Touches(t, i, "FLUSH", a) /\ ~Skipped(t, i, AddrInterval(t[i]))

FenceBetween(t, i, j) == \E k \in i + 1 .. j - 1 : t[k].type = "FENCE"

\* A flush takes effect for certain once a fence follows it.
Durable(t, p, a) ==
    \A i \in 1 .. p - 1 : Stores(t, i, a) =>
        \E f \in i + 1 .. p - 1 : Flushes(t, f, a) /\ FenceBetween(t, f, p)

\* Before p, a store to a is followed by no flush that any fence follows.
Pending(t, p, a) ==
    \E i \in 1 .. p - 1 :
        /\ Stores(t, i, a)
        /\ \A f \in i + 1 .. p - 1 :
            ~(Flushes(t, f, a) /\ FenceBetween(t, f, Len(t) + 1))

\* No flush before p is still waiting for a fence that comes only after p.
Settled(t, p) ==
    \A f \in 1 .. p - 1 :
        t[f].type = "FLUSH" /\ ~FenceBetween(t, f, p) =>
            ~FenceBetween(t, f, Len(t) + 1)

LastStore(t, p, i, a) ==
    Stores(t, i, a) /\ \A j \in i + 1 .. p - 1 : ~Stores(t, j, a)

\* The last value of a is durable before the last value of b is stored.
OrderedBefore(t, p, a, b) ==
    \A i, j \in 1 .. p - 1 :
        LastStore(t, p, i, a) /\ LastStore(t, p, j, b) =>
            \E f \in i + 1 .. j - 1 : Flushes(t, f, a) /\ FenceBetween(t, f, j)

\* Before p, address a has been stored, and flushed at most once since.
FlushedOnce(t, p, a) ==
    \E i \in 1 .. p - 1 :
        /\ LastStore(t, p, i, a)
        /\ \A f, g \in i + 1 .. p - 1 :
            Flushes(t, f, a) /\ Flushes(t, g, a) => f = g

\* Before p, address a has been stored, and since then flushed at most
\* before the next fence.
FlushedAtOnce(t, p, a) ==
    \E i \in 1 .. p - 1 :
        /\ LastStore(t, p, i, a)
        /\ \A f \in i + 1 .. p - 1 : Flushes(t, f, a) => ~FenceBetween(t, i, f)

-----------------------------------------------------------------------------
\* The records of one type before p
Before(t, p, type) == {i \in 1 .. p - 1 : t[i].type = type}

CountBefore(t, p, type) == Cardinality(Before(t, p, type))

\* How many transactions are open just before p.
Depth(t, p) ==
    CountBefore(t, p, "TRANSACTIONBEGIN") - CountBefore(t, p, "TRANSACTIONEND")

\* Up to p no transaction is ended that was not begun.
WellNested(t, p) == \A q \in 1 .. p : Depth(t, q) >= 0

\* Positions i and p > i are in the same outermost transaction.
SameTransaction(t, i, p) == \A q \in i .. p : Depth(t, q) > 0

\* A TransactionAdd at j, inside a transaction, covers address a.
Adds(t, j, a) == Touches(t, j, "TRANSACTIONADD", a) /\ Depth(t, j) > 0

=============================================================================
