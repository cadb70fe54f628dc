--------------------------- MODULE MCServiceGate ---------------------------
(* A gate with few units, for TLC.  Three units are enough for one that    *)
(* dials, one that waits and one that tries to overtake it.                *)
EXTENDS ServiceGate, TLC

CONSTANTS u1, u2, u3

ThreeUnits == {u1, u2, u3}
Symmetry == Permutations(Units)
=============================================================================
