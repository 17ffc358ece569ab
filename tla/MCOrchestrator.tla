--------------------------- MODULE MCOrchestrator ---------------------------
(***************************************************************************)
(* Plans on a small instance: every graph of two tasks over known and      *)
(* unknown keys and agents, and graphs of three tasks with agents that     *)
(* disagree, as answers of the model.                                      *)
(***************************************************************************)
EXTENDS Orchestrator

MCRec(tool, entity, moves, worth) ==
  [tool |-> tool, entity |-> entity, moves |-> moves, worth |-> worth]

MCEntities == {"p1", "c1", "o1"}

Cut == MCRec("update_price", "p1", "down", 2)
DeeperCut == MCRec("update_price", "p1", "down", 4)
Increase == MCRec("propose_budget_change", "c1", "up", 1)
Restock == MCRec("none", "p1", "none", 0)
Purchase == MCRec("create_purchase_order", "p1", "none", 3)

MCAdvice ==
  [a \in AgentIds |->
     CASE a = "pricing" -> {<<Cut>>, <<DeeperCut, Restock>>}
       [] a = "marketing" -> {<<Increase>>}
       [] a = "inventory" -> {<<Restock>>}
       [] a = "procurement" -> {<<Purchase>>}
       [] OTHER -> {<<>>}]

SmallKeys == {"x", "y"}
AnyTask ==
  {Task(k, a, d) : k \in SmallKeys, a \in {"ceo", "pricing", "nobody"},
                   d \in SUBSET {"x", "y", "?"}}

First == {t \in AnyTask : t.key = "x"}
PairsAndSingles == {<<t>> : t \in First} \cup {<<t, u>> : t \in First, u \in AnyTask}

Triangles ==
  {<<Task("x", "marketing", d), Task("y", "pricing", e), Task("z", "ceo", f)>> :
     d, e \in SUBSET {"x", "y", "z"}, f \in {{"x"}, {"x", "y"}, {"z"}}}

MCProposals == PairsAndSingles \cup Triangles

MCQuestions == {{"checkout"}, {"price", "margin"}, {"supplier", "delay"}, {}}

MCRequests ==
  {"planner", "x", "y", "z", "assess", "source", "decide", "efficiency", "price", "stock",
   "triage", "analyse", "handover"}
=============================================================================
