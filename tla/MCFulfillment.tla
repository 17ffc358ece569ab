--------------------------- MODULE MCFulfillment ----------------------------
(***************************************************************************)
(* The fulfilment pipeline on small instances: model values for jobs,      *)
(* orders, polls and the one caller, which lives in the application.       *)
(* Jobs, orders and polls are interchangeable.                             *)
(***************************************************************************)
EXTENDS Fulfillment, TLC

CONSTANTS j1, j2, o1, o2, p1, p2, app

Symmetry == Permutations(Polls) \cup Permutations(Jobs) \cup Permutations(Orders)
=============================================================================
