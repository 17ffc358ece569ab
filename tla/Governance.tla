----------------------------- MODULE Governance -----------------------------
(***************************************************************************)
(* The policy engine of policies/governance.ts: what evaluate answers for  *)
(* one call of a tool that changes something.  A call passes permission,   *)
(* policy, risk, budget and autonomy, and the severest of their answers is *)
(* the decision.  The engine keeps no state: what it reads, the agents'    *)
(* used budgets and the products' prices, are parameters here.             *)
(*                                                                         *)
(* Amounts of money are in one unit for every limit, so a small instance   *)
(* scales the limits of policies/rules.ts down and keeps their order.      *)
(***************************************************************************)
EXTENDS Integers

CONSTANTS
  RefundLimit,    \* maxAutoRefundPaise
  PurchaseLimit,  \* maxAutoPurchaseOrderPaise
  HardCeiling,    \* hardCeilingPaise
  CampaignStep,   \* maxDailyBudgetChangePaise
  ReorderStep,    \* maxReorderPointDelta
  DailyBudget,    \* agents.daily_budget_paise of each agent, 0 for none
  Cost            \* products.cost_paise of each product

Agents ==
  {"ceo", "analytics", "inventory", "pricing", "marketing", "customer", "procurement",
   "fulfillment"}

\* The permissions to change something that each agent's definition lists.
Grants ==
  [ceo |-> {"WRITE_PLANS"}, analytics |-> {}, inventory |-> {"WRITE_INVENTORY"},
   pricing |-> {"WRITE_PRICES"}, marketing |-> {"WRITE_CAMPAIGNS"},
   customer |-> {"WRITE_TICKETS", "WRITE_REFUNDS"},
   procurement |-> {"WRITE_PURCHASE_ORDERS"}, fulfillment |-> {"WRITE_FULFILLMENT"}]

\* The permission each of the tools that change something asks for.
Permission ==
  [record_plan_note |-> "WRITE_PLANS", adjust_reorder_point |-> "WRITE_INVENTORY",
   receive_purchase_order |-> "WRITE_INVENTORY", update_price |-> "WRITE_PRICES",
   propose_budget_change |-> "WRITE_CAMPAIGNS", pause_campaign |-> "WRITE_CAMPAIGNS",
   reply_ticket |-> "WRITE_TICKETS", create_refund |-> "WRITE_REFUNDS",
   create_purchase_order |-> "WRITE_PURCHASE_ORDERS", fulfill_order |-> "WRITE_FULFILLMENT"]

Tools == DOMAIN Permission

\* What a call says, as far as the engine looks at it.  The amount is the money
\* it moves, the new price of update_price or the size of a reorder-point change.
CallRecord(entities, amounts) ==
  [agent : Agents, tool : Tools, entity : entities, amount : amounts,
   suspect : BOOLEAN,  \* suspectedFraud of a refund
   quoted : BOOLEAN]   \* the supplier of a purchase order has quoted the product

Permitted(c) == Permission[c.tool] \in Grants[c.agent]

\* A purchase order nobody quoted has no computable cost and counts as 0.
Impact(c) ==
  IF \/ c.tool \in {"create_refund", "propose_budget_change", "fulfill_order"}
     \/ c.tool = "create_purchase_order" /\ c.quoted
  THEN c.amount
  ELSE 0

\* Mutant: the 25 percent are taken of the cost, a markup.
UnderMarkup(c) == 4 * c.amount < 5 * Cost[c.entity]

\* The margin at the new price is under 25 percent of that price.
BelowFloor(c) == 3 * c.amount < 4 * Cost[c.entity]

\* The new price is more than 10 percent away from the present one.
BeyondStep(c, price) ==
  \/ 10 * (c.amount - price[c.entity]) > price[c.entity]
  \/ 10 * (price[c.entity] - c.amount) > price[c.entity]

Denied(c, price) ==
  \/ ~Permitted(c)
  \/ Impact(c) > HardCeiling
  \/ c.tool = "update_price" /\ (BelowFloor(c) \/ BeyondStep(c, price))
  \/ c.tool = "create_purchase_order" /\ ~c.quoted
  \/ c.tool = "propose_budget_change" /\ c.amount > CampaignStep
  \/ c.tool = "adjust_reorder_point" /\ c.amount > ReorderStep

\* Mutant: the limit is compared with the call alone, whatever was used before.
OverBudgetAlone(c, used) ==
  /\ DailyBudget[c.agent] > 0
  /\ Impact(c) > DailyBudget[c.agent]

\* Agents without a daily budget are not checked at all.
OverBudget(c, used) ==
  /\ DailyBudget[c.agent] > 0
  /\ Impact(c) > 0
  /\ Impact(c) > DailyBudget[c.agent] - used[c.agent]

\* Mutant: only the lowest level of autonomy is held back.
HeldBackAtOne(agent) == FALSE

\* Marketing and procurement have autonomy 2, every other agent 3.
HeldBack(agent) == agent \in {"marketing", "procurement"}

\* No tool rates itself above MEDIUM, so the risk that asks for a human is the
\* one derived from money, and its threshold that of a purchase order.
NeedsHuman(c, used) ==
  \/ c.tool = "create_refund" /\ (Impact(c) > RefundLimit \/ c.suspect)
  \/ Impact(c) > PurchaseLimit
  \/ OverBudget(c, used)
  \/ HeldBack(c.agent)

Decision(c, used, price) ==
  IF Denied(c, price) THEN "DENY"
  ELSE IF NeedsHuman(c, used) THEN "REQUIRE_APPROVAL"
  ELSE "ALLOW"

Severity == [ALLOW |-> 0, REQUIRE_APPROVAL |-> 1, DENY |-> 2]
=============================================================================
