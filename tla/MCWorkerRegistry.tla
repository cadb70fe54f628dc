-------------------------- MODULE MCWorkerRegistry --------------------------
(* Two generations of two subscribers, and a third one's first, for TLC. *)
EXTENDS WorkerRegistry, TLC

CONSTANTS s1, s2, s3, s4, s5

FiveSubs == {s1, s2, s3, s4, s5}
Symmetry == Permutations(Subs)
=============================================================================
