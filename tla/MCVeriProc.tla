----------------------------- MODULE MCVeriProc -----------------------------
(* Instances of VeriProc for TLC: all traces up to a length over a small   *)
(* set of records, on the addresses 0 and 1.                               *)
EXTENDS VeriProc

CONSTANT MaxLength

R(type, addr, size) ==
    [type |-> type, addr |-> addr, size |-> size, addr_late |-> 0, size_late |-> 0]

RangeOrder(addr, size, addr_late, size_late) ==
    [type |-> "ORDER", addr |-> addr, size |-> size,
     addr_late |-> addr_late, size_late |-> size_late]

FenceRecord == R("FENCE", 0, 0)

PersistRecords ==
    {FenceRecord, R("ASSIGN", 0, 2), R("ASSIGN", 1, 1), R("FLUSH", 0, 1),
     R("FLUSH", 0, 2), R("PERSIST", 0, 2), R("EXCLUDE", 1, 1), R("INCLUDE", 0, 2)}

OrderRecords ==
    {FenceRecord, R("ASSIGN", 0, 1), R("ASSIGN", 1, 1), R("ASSIGN", 0, 2),
     R("FLUSH", 0, 1), R("FLUSH", 1, 1), RangeOrder(0, 1, 1, 1)}

TransactionRecords ==
    {FenceRecord, R("TRANSACTIONBEGIN", 0, 0), R("TRANSACTIONEND", 0, 0),
     R("TRANSACTIONADD", 0, 1), R("ASSIGN", 0, 2), R("ASSIGN", 1, 1),
     R("FLUSH", 0, 2)}

\* Every remaining type, empty ranges included.
OtherRecords ==
    {R(type, 0, 1) : type \in {"COMMIT", "BARRIER", "TRANSACTIONDELIM", "ENDING", "ASSIGN"}}
        \cup {R(type, 0, 0) : type \in {"ASSIGN", "FLUSH", "PERSIST", "TRANSACTIONADD",
                                       "EXCLUDE", "INCLUDE", "TRANSACTIONBEGIN"}}
        \cup {RangeOrder(0, 1, 1, 0), RangeOrder(0, 0, 1, 1), FenceRecord}

TracesOver(records, length) == UNION {[1 .. n -> records] : n \in 0 .. length}

TransactionTraces == TracesOver(TransactionRecords, MaxLength)

\* One record more without the overlapping stores, so that a whole transaction,
\* or two stores flushed and fenced in turn, fit in.
LongTraces ==
    TracesOver(OrderRecords \ {R("ASSIGN", 0, 2)}, MaxLength + 1)
        \cup TracesOver(TransactionRecords \ {R("ASSIGN", 1, 1)}, MaxLength + 1)

AllTraces ==
    TracesOver(PersistRecords, MaxLength) \cup TracesOver(OrderRecords, MaxLength)
        \cup TransactionTraces \cup TracesOver(OtherRecords, 3) \cup LongTraces

=============================================================================
