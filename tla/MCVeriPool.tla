----------------------------- MODULE MCVeriPool -----------------------------
(* Instances of VeriPool for TLC.                                          *)
EXTENDS VeriPool, TLC

CONSTANTS main, helper, t1, t2, t3

Flags(t, g, d) == [term |-> t, get |-> g, done |-> d]

\* Fresh pages of the kernel, and the memory of an instance destroyed before.
CleanHeap == {Flags(FALSE, FALSE, FALSE), Flags(TRUE, FALSE, FALSE)}

\* Any bytes.
DirtyHeap == {Flags(t, g, d) : t, g, d \in BOOLEAN}

TraceSymmetry == Permutations(Traces)

=============================================================================
