------------------------------ MODULE MCConsole ------------------------------
(***************************************************************************)
(* Two live components over two connections, two tabs with two approvals,  *)
(* and a simulator with two products, of which one has a price to choose.  *)
(***************************************************************************)
EXTENDS Console, TLC

CONSTANTS c1, c2, feed1, feed2

MCListPrice == [kettle |-> 2, lamp |-> 3]
MCPrices == [kettle |-> {2, 3}, lamp |-> {3}]
MCFirstDraft == [product |-> "kettle", price |-> 2, elasticity |-> 1]

Symmetry == Permutations(Connections) \cup Permutations(Views)
=============================================================================
