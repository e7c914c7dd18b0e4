----------------------------- MODULE MCIPcheck -----------------------------
EXTENDS IPcheck, TLC

Symmetry == Permutations(Clients)
=============================================================================
