---------------------------- MODULE MCTaskSystem -----------------------------
EXTENDS TaskSystem, TLC
Symmetry == Permutations(Sessions) \cup Permutations(Nodes)
==============================================================================
