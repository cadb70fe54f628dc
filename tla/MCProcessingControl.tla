------------------------ MODULE MCProcessingControl ------------------------
(* Two queues and two commands at a time, for TLC. *)
EXTENDS ProcessingControl, TLC

CONSTANTS q1, q2, c1, c2

TwoQueues == {q1, q2}
TwoCommands == {c1, c2}
Symmetry == Permutations(Queues) \cup Permutations(Commands)
=============================================================================
