------------------------------ MODULE MCRouting ------------------------------
(* Every instance is on the same node.                                     *)
EXTENDS Routing

OnFirst == [i \in Instances |-> CHOOSE n \in Nodes : TRUE]
==============================================================================
