---------------------------- MODULE MCSimulation ----------------------------
(***************************************************************************)
(* Resets and setbacks on a small instance: one identifier for the job of  *)
(* the old business and one for that of the new, both for the same order.  *)
(***************************************************************************)
EXTENDS Simulation, TLC

CONSTANTS j1, j2, o1, p1, p2, app

Symmetry == Permutations(Polls) \cup Permutations(Jobs)
=============================================================================
