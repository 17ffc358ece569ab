----------------------------- MODULE MCJobQueue -----------------------------
(***************************************************************************)
(* The job queue on small instances: model values for jobs and polls.      *)
(* Polls are interchangeable, and so are the jobs that have a handler.     *)
(***************************************************************************)
EXTENDS JobQueue, TLC

CONSTANTS j1, j2, j3, p1, p2

Symmetry == Permutations(Polls) \cup Permutations(Jobs \ Unhandled)
=============================================================================
