-------------------------- MODULE MCWholeFileReads --------------------------
(* The read gate with a limit of two and five calls, for TLC. *)
EXTENDS WholeFileReads, TLC

CONSTANTS c1, c2, c3, c4, c5

FiveCalls == {c1, c2, c3, c4, c5}
Symmetry == Permutations(Calls)
=============================================================================
