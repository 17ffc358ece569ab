------------------------------ MODULE TaskGraph ------------------------------
(***************************************************************************)
(* What running a plan promises, with no attempts, waves, rows or model in *)
(* sight: a graph of tasks is drawn once; a task ends, well or badly, only *)
(* after everything it depends on has ended well; what can no longer run   *)
(* is blocked, and only then; an end is final; the plan closes when every  *)
(* task has an end.                                                        *)
(***************************************************************************)
VARIABLES
  graph,  \* the tasks each task depends on
  fate,   \* how each task ended
  closed

taskGraphVars == <<graph, fate, closed>>

Nodes == DOMAIN graph
Open == {n \in Nodes : fate[n] = "open"}
CanRun(n) == n \in Open /\ \A d \in graph[n] : fate[d] = "done"

TaskGraphInit ==
  /\ graph = [n \in {} |-> {}]
  /\ fate = [n \in {} |-> "open"]
  /\ closed = FALSE

Draw ==
  /\ Nodes = {}
  /\ DOMAIN graph' # {}
  /\ \A n \in DOMAIN graph' : graph'[n] \subseteq DOMAIN graph' \ {n}
  /\ fate' = [n \in DOMAIN graph' |-> "open"]
  /\ UNCHANGED closed

\* Some tasks that can run end.
End ==
  /\ DOMAIN fate' = Nodes
  /\ \A n \in Nodes :
       fate'[n] # fate[n] => CanRun(n) /\ fate'[n] \in {"done", "failed"}
  /\ UNCHANGED <<graph, closed>>

Block ==
  /\ Open # {}
  /\ \A n \in Open : ~CanRun(n)
  /\ fate' = [n \in Nodes |-> IF n \in Open THEN "blocked" ELSE fate[n]]
  /\ UNCHANGED <<graph, closed>>

Close ==
  /\ Nodes # {}
  /\ Open = {}
  /\ closed' = TRUE
  /\ UNCHANGED <<graph, fate>>

TaskGraphNext == ~closed /\ (Draw \/ End \/ Block \/ Close)

TaskGraphSpec == TaskGraphInit /\ [][TaskGraphNext]_taskGraphVars
=============================================================================
