------------------------------ MODULE Planner -------------------------------
(***************************************************************************)
(* Which task graph a trigger gets: the templates of orchestration/plans.ts *)
(* and the checks of orchestration/llm-planner.ts that a graph proposed by  *)
(* a model has to pass.  A plan is a sequence of tasks; its titles and the  *)
(* model's reasoning are left out.                                          *)
(***************************************************************************)
EXTENDS Naturals, SequencesExt

CONSTANT MaxTasks  \* MAX_TASKS

AgentIds == {"ceo", "analytics", "inventory", "pricing", "marketing", "customer",
             "procurement", "fulfillment"}

Task(key, agentId, dependsOn) ==
  [key |-> key, agentId |-> agentId, dependsOn |-> dependsOn]

KeysOf(tasks) == {t.key : t \in Range(tasks)}

\* The task of a key; in a template and in an accepted plan there is one.
TaskOf(tasks, key) == CHOOSE t \in Range(tasks) : t.key = key

-----------------------------------------------------------------------------
(* The templates, in the order they are searched.                          *)

Template(tasks, triggers, metrics, intents) ==
  [tasks |-> tasks, triggers |-> triggers, metrics |-> metrics, intents |-> intents]

RevenueInvestigation ==
  Template(<<Task("analyse", "analytics", {}),
             Task("stock", "inventory", {"analyse"}),
             Task("price", "pricing", {"analyse"}),
             Task("voice", "customer", {"analyse"}),
             Task("decide", "ceo", {"analyse", "stock", "price", "voice"})>>,
           {"REVENUE_ANOMALY", "PAYMENT_FAILED"},
           {"revenue", "conversion"},
           {"why did sales drop", "revenue", "conversion", "sales fell", "checkout"})

\* stockout_response and supply_disruption ask the same agents in the same order.
Replenishment(triggers, metrics, intents) ==
  Template(<<Task("assess", "inventory", {}),
             Task("source", "procurement", {"assess"}),
             Task("decide", "ceo", {"assess", "source"})>>,
           triggers, metrics, intents)

StockoutResponse ==
  Replenishment({"INVENTORY_LOW", "INVENTORY_OUT", "DEMAND_SPIKE"}, {"stockouts"},
                {"stockout", "inventory", "restock", "out of stock"})

SupplyDisruption ==
  Replenishment({"SUPPLIER_DELAYED"}, {}, {"supplier", "delay", "lead time"})

CampaignReview ==
  Template(<<Task("efficiency", "marketing", {}),
             Task("decide", "ceo", {"efficiency"})>>,
           {"CAMPAIGN_PERFORMANCE_CHANGED"}, {},
           {"campaign", "marketing", "roas", "ad spend"})

CompetitorResponse ==
  Template(<<Task("price", "pricing", {}),
             Task("stock", "inventory", {}),
             Task("decide", "ceo", {"price", "stock"})>>,
           {"COMPETITOR_PRICE_CHANGED", "PRICE_CHANGED"}, {"margin"},
           {"competitor", "price", "margin", "undercut"})

ServiceRecovery ==
  Template(<<Task("triage", "customer", {}),
             Task("analyse", "analytics", {"triage"}),
             Task("decide", "ceo", {"triage", "analyse"})>>,
           {"CUSTOMER_MESSAGE_RECEIVED", "REFUND_REQUESTED", "CUSTOMER_RETURN_CREATED"},
           {"refund_rate", "repeat_rate"},
           {"ticket", "refund", "customer", "complaint", "return"})

FulfilmentRun ==
  Template(<<Task("handover", "fulfillment", {}),
             Task("decide", "ceo", {"handover"})>>,
           {"PAYMENT_SUCCESS", "ORDER_CREATED"}, {},
           {"fulfil", "fulfill", "dispatch", "ship orders", "handover", "supplier"})

FullBusinessReview ==
  Template(<<Task("analyse", "analytics", {}),
             Task("stock", "inventory", {}),
             Task("price", "pricing", {}),
             Task("campaigns", "marketing", {}),
             Task("voice", "customer", {}),
             Task("source", "procurement", {"stock"}),
             Task("decide", "ceo", {"analyse", "price", "campaigns", "voice", "source"})>>,
           {}, {"profit"},
           {"profit", "review everything", "full review", "increase profit", "grow"})

PlanTemplates ==
  <<RevenueInvestigation, StockoutResponse, CampaignReview, CompetitorResponse,
    ServiceRecovery, SupplyDisruption, FulfilmentRun, FullBusinessReview>>

(* templateForEvent, templateForGoal, templateForIntent.  A question is    *)
(* the set of the intents' phrases that occur in its text.                 *)

TemplateSet == Range(PlanTemplates)
Triggers == UNION {t.triggers : t \in TemplateSet}
Metrics == UNION {t.metrics : t \in TemplateSet}

FirstWith(fits(_)) == SelectInSeq(PlanTemplates, fits)

FirstOrDefault(fits(_)) ==
  IF FirstWith(fits) = 0 THEN FullBusinessReview ELSE PlanTemplates[FirstWith(fits)]

\* Events outside Triggers select no template, and start no plan.
TemplateForEvent(type) == FirstOrDefault(LAMBDA t : type \in t.triggers)
TemplateForGoal(metric) == FirstOrDefault(LAMBDA t : metric \in t.metrics)

TemplateForIntent(phrases) ==
  LET Hit(t) == Max({Len(i) : i \in t.intents \cap phrases} \cup {0})
  IN  FirstOrDefault(LAMBDA t : /\ Hit(t) > 0
                               /\ \A u \in TemplateSet : Hit(u) <= Hit(t))

-----------------------------------------------------------------------------
(* The checks.                                                             *)

\* PlanSchema: the bounds on the shape of what the model returns.
SchemaValid(tasks) ==
  /\ tasks \in Seq(Range(tasks))
  /\ Len(tasks) \in 1 .. MaxTasks
  /\ \A t \in Range(tasks) : Cardinality(t.dependsOn) <= MaxTasks

KeysAreUnique(tasks) ==
  \A i, j \in DOMAIN tasks : tasks[i].key = tasks[j].key => i = j

\* A search: the keys that are left to visit, those whose visit is open, and those
\* whose visit is done.
Searches(tasks) ==
  LET keys == KeysOf(tasks)
  IN  [left : SUBSET keys, open : SUBSET keys, done : SUBSET keys]

\* Mutant: a task counts as done before what it depends on has been visited.
VisitTooLate(tasks, visited, s) ==
  IF s.left = {} THEN [done |-> s.done, cycle |-> FALSE]
  ELSE LET key == CHOOSE k \in s.left : TRUE
           below == visited[[left |-> TaskOf(tasks, key).dependsOn,
                             open |-> s.open \cup {key}, done |-> s.done \cup {key}]]
           seen == CASE key \in s.done -> [done |-> s.done, cycle |-> FALSE]
                     [] key \in s.open \ s.done -> [done |-> s.done, cycle |-> TRUE]
                     [] OTHER -> below
       IN  IF seen.cycle THEN seen
           ELSE visited[[left |-> s.left \ {key}, open |-> s.open, done |-> seen.done]]

\* visit, of one key after the other: one whose visit is open closes a cycle, one
\* that is done is not visited again.  `visited' holds what the calls below return.
\* The order of the keys is left open, and does not matter.
Visit(tasks, visited, s) ==
  IF s.left = {} THEN [done |-> s.done, cycle |-> FALSE]
  ELSE LET key == CHOOSE k \in s.left : TRUE
           below == visited[[left |-> TaskOf(tasks, key).dependsOn,
                             open |-> s.open \cup {key}, done |-> s.done]]
           seen == CASE key \in s.done -> [done |-> s.done, cycle |-> FALSE]
                     [] key \in s.open \ s.done -> [done |-> s.done, cycle |-> TRUE]
                     [] OTHER -> [done |-> below.done \cup {key}, cycle |-> below.cycle]
       IN  IF seen.cycle THEN seen
           ELSE visited[[left |-> s.left \ {key}, open |-> s.open, done |-> seen.done]]

\* findCycle: a depth-first search along dependsOn.
FindsCycle(tasks) ==
  LET visited[s \in Searches(tasks)] == Visit(tasks, visited, s)
  IN  visited[[left |-> KeysOf(tasks), open |-> {}, done |-> {}]].cycle

\* Tasks no other task depends on.
Terminal(tasks) ==
  {t \in Range(tasks) : \A u \in Range(tasks) : t.key \notin u.dependsOn}

\* validate returns null.
Accepted(tasks) ==
  /\ \A t \in Range(tasks) : t.agentId \in AgentIds
  /\ KeysAreUnique(tasks)
  /\ \A t \in Range(tasks) : t.dependsOn \subseteq KeysOf(tasks) \ {t.key}
  /\ ~FindsCycle(tasks)
  /\ \E t \in Terminal(tasks) : t.agentId = "ceo"

-----------------------------------------------------------------------------
(* What the checks are for, said without a search.                         *)

\* Every set of tasks has one that depends on none of the set: the walk of the
\* graph can never be left with tasks that wait for each other.
Acyclic(tasks) ==
  \A S \in (SUBSET KeysOf(tasks)) \ {{}} :
    \E k \in S : TaskOf(tasks, k).dependsOn \cap S = {}

\* A plan the walk can finish and whose findings end with a synthesis.
Runnable(tasks) ==
  /\ KeysAreUnique(tasks)
  /\ \A t \in Range(tasks) : t.agentId \in AgentIds /\ t.dependsOn \subseteq KeysOf(tasks)
  /\ Acyclic(tasks)
  /\ \E t \in Terminal(tasks) : t.agentId = "ceo"

=============================================================================
