---------------------------- MODULE MCLibraryScan ----------------------------
EXTENDS LibraryScan, TLC

Symmetry == Permutations(Ingesters) \cup Permutations(Scanners)
=============================================================================
