------------------------------ MODULE MCNetPools ------------------------------
(* Two pools that overlap in one subnet, on one node or on one node each.  *)
EXTENDS NetPools, TLC
CONSTANTS k1, k2, n1, n2
TheNodes == [k \in {k1, k2} |-> n1]
TwoNodes == (k1 :> n1) @@ (k2 :> n2)
TheBase  == (k1 :> 0) @@ (k2 :> 1)
SameBase == [k \in {k1, k2} |-> 0]
TheSize  == (k1 :> 2) @@ (k2 :> 1)
Symmetry == Permutations(Workers) \cup Permutations(Projects)
==============================================================================
