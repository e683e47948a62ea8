----------------------------- MODULE MCTraceApi -----------------------------
(* An instance of TraceApi for TLC.                                        *)
EXTENDS TraceApi, TLC

CONSTANTS main, helper, t1, t2, t3

Flags(t, g, d) == [term |-> t, get |-> g, done |-> d]

\* Fresh pages of the kernel, and the memory of an instance destroyed before.
CleanHeap == {Flags(FALSE, FALSE, FALSE), Flags(TRUE, FALSE, FALSE)}

Lengths == [api_used \in {"sections", "vectors"} |-> IF api_used = "sections" THEN 3 ELSE 2]

TraceSymmetry == Permutations(Traces)

=============================================================================
