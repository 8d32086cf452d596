------------------------------ MODULE MCRelease ------------------------------
EXTENDS ReleaseRefinement, TLC
Symmetry == Permutations(Versions) \cup Permutations(Releases) \cup Permutations(Requests)
==============================================================================
