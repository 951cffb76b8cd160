---------------------------- MODULE MCUserEntry ----------------------------
EXTENDS UserEntry, TLC

Symmetry == Permutations(Sessions) \cup Permutations(Devices)
=============================================================================
