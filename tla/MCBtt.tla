------------------------------- MODULE MCBtt -------------------------------
(***************************************************************************)
(* Workloads for Btt.  Every write has contents of its own, so that a read *)
(* of an old version of a block shows.                                     *)
(***************************************************************************)
EXTENDS Btt, TLC

Read(x) == [op |-> "read", lba |-> x, val |-> NotYet]
Write(x, v) == [op |-> "write", lba |-> x, val |-> v]
SetZero(x) == [op |-> "set_zero", lba |-> x, val |-> Zero]
SetError(x) == [op |-> "set_error", lba |-> x, val |-> Error]

\* A read of block 0 overlaps two later writes of a lane, the second of which
\* takes the block that the first has freed.
Reuse == <<Write(0, 1), Read(0), Write(0, 2), Read(1), Write(0, 3)>>

\* The first requests of a new pool race for the layout.
FirstWrites == <<SetError(0), Write(0, 1), Write(1, 2), Read(0)>>

\* Two writes of a block, a zeroing and reads of it
SameBlock == <<Write(0, 1), SetZero(0), Write(0, 2), Read(0)>>

MCWorkloads == {Reuse, FirstWrites, SameBlock}

\* A zeroing overtakes a read; later writes free the block and take it again.
Overtaken ==
    <<Write(0, 1), Read(0), SetZero(0), Write(0, 2), Read(1), Write(0, 3)>>
OvertakenRead == {Overtaken}

Symmetric == Permutations(Threads)

=============================================================================
