--------------------------- MODULE MC_PTAuthPass ---------------------------
EXTENDS PTAuthPass, TLC

Symmetry == Permutations(Vars) \cup Permutations(Types)
=============================================================================
