------------------------------ MODULE Commerce ------------------------------
(***************************************************************************)
(* The business data the specialists read and the tools that change it:    *)
(* products and prices, stock and purchase orders, campaigns, tickets and  *)
(* refunds (database/queries.ts, tools/definitions.ts).  A database is one *)
(* record d whose fields are the columns somebody writes; what only the    *)
(* seed writes is a constant.  A tool is an operator from a database and a *)
(* call to the database afterwards, and Throws says when it raises an      *)
(* error instead, with every statement of its transaction undone.          *)
(*                                                                         *)
(* Money is in paise, as in the code.  Ratios the code keeps as rounded    *)
(* floats are integers in the unit of the last digit kept.                 *)
(***************************************************************************)
EXTENDS Governance, Listing, SequencesExt

CONSTANTS
  Products, Suppliers, Campaigns, Orders,
  Row,            \* where each product and campaign stands in its table
  None,           \* no order, no supplier
  Sold,           \* units of each product sold in the last 14 days
  Forecast,       \* the weighted daily demand of each product, in hundredths
  SourceOf,       \* inventory.supplier_id of each product
  Quotes,         \* supplier_quotes: [supplier, unit, lead, minimum] of each product
  Reliability,    \* suppliers.reliability_score
  Spend,          \* campaigns.spend_paise
  Newest,         \* the tickets, ORDER BY created_at DESC
  Theme,          \* what classify makes of each ticket's text
  OrderOf,        \* tickets.order_id
  OrderTotal,     \* orders.total_paise
  TransactionId,  \* the hash in the identifier of a refund, by order and amount
  SurgeTickets    \* the tickets that a surge of returns files

Tickets == Range(Newest)

\* The specialists ask for 50 products and 200 orders (agents/pricing.ts,
\* agents/customer.ts): the data has no more.  A supplier quotes a product once.
ASSUME CommerceAssumption ==
  /\ IsFiniteSet(Products) /\ Cardinality(Products) <= 50
  /\ IsFiniteSet(Orders) /\ Cardinality(Orders) <= 200
  /\ IsFiniteSet(Campaigns)
  /\ Row \in [Products \cup Campaigns -> Nat]
  /\ \A x, y \in Products \cup Campaigns :
       {x, y} \subseteq Products \/ {x, y} \subseteq Campaigns => (Row[x] = Row[y] => x = y)
  /\ Cost \in [Products -> Nat \ {0}]
  /\ Sold \in [Products -> Nat] /\ Forecast \in [Products -> Nat]
  /\ SourceOf \in [Products -> Suppliers] /\ Reliability \in [Suppliers -> Nat]
  /\ \A p \in Products :
       /\ IsFiniteSet(Quotes[p])
       /\ Quotes[p] \subseteq [supplier : Suppliers, unit : Nat, lead : Nat, minimum : Nat]
       /\ \A q, r \in Quotes[p] : q.supplier = r.supplier => q = r
  /\ Spend \in [Campaigns -> Nat \ {0}]
  /\ Newest \in Seq(Tickets)
  /\ OrderOf \in [Tickets -> Orders \cup {None}] /\ None \notin Orders
  /\ OrderTotal \in [Orders -> Nat \ {0}]
  /\ SurgeTickets \subseteq {t \in Tickets : OrderOf[t] # None}

\* The columns; of the refunds, whatever identifies them.
Database(d) ==
  /\ DOMAIN d = {"price", "market", "onHand", "lead", "purchases", "budget", "revenue",
                 "paused", "ticket", "refunds"}
  /\ d.price \in [Products -> Nat \ {0}] /\ d.market \in [Products -> Nat \ {0}]
  /\ d.onHand \in [Products -> Nat] /\ d.lead \in [Products -> Nat]
  /\ d.budget \in [Campaigns -> Nat] /\ d.revenue \in [Campaigns -> Nat]
  /\ d.paused \in SUBSET Campaigns
  /\ d.ticket \in [Tickets -> {"ABSENT", "OPEN", "ANSWERED", "ESCALATED"}]

-----------------------------------------------------------------------------
\* Math.round and Math.ceil of a quotient with a positive divisor.
RoundDiv(a, b) == (a + b \div 2) \div b
CeilDiv(a, b) == -((-a) \div b)

AtMost(n, seq) == SubSeq(seq, 1, IF Len(seq) < n THEN Len(seq) ELSE n)

Larger(a, b) == IF a > b THEN a ELSE b
Smaller(a, b) == IF a < b THEN a ELSE b

-----------------------------------------------------------------------------
(* Calls.  The fields Governance looks at, and those only the tool reads.  *)

Call(agent, tool, entity, amount) ==
  [agent |-> agent, tool |-> tool, entity |-> entity, amount |-> amount,
   suspect |-> FALSE, quoted |-> TRUE, supplier |-> None, quantity |-> 0,
   escalate |-> FALSE]

UnitCost(p, s) == (CHOOSE q \in Quotes[p] : q.supplier = s).unit

PurchaseCall(p, s, quantity) ==
  [Call("procurement", "create_purchase_order", p, quantity * UnitCost(p, s))
   EXCEPT !.supplier = s, !.quantity = quantity]

ReceiveCall(p, quantity) ==
  [Call("inventory", "receive_purchase_order", p, 0) EXCEPT !.quantity = quantity]

PriceCall(p, price) == Call("pricing", "update_price", p, price)
PauseCall(c) == Call("marketing", "pause_campaign", c, 0)
BudgetCall(c, delta) == Call("marketing", "propose_budget_change", c, delta)
RefundCall(o, amount) == Call("customer", "create_refund", o, amount)

ReplyCall(t, escalate) ==
  [Call("customer", "reply_ticket", t, 0) EXCEPT !.escalate = escalate]

-----------------------------------------------------------------------------
(* What the reading tools answer.                                          *)

\* The order of a report: by one column, then by the order of the query behind
\* it, and what that leaves open by the order of the table.
InOrder(S, first, second) ==
  {e \in S \X S :
     \/ first[e[1]] < first[e[2]]
     \/ first[e[1]] = first[e[2]]
        /\ \/ second[e[1]] < second[e[2]]
           \/ second[e[1]] = second[e[2]] /\ Row[e[1]] < Row[e[2]]}

\* Cover minus lead time, rounded to a tenth of a day; 999 days without sales.
SlackTenths(d, p) ==
  IF Sold[p] = 0 THEN 9990
  ELSE RoundDiv(10 * (14 * d.onHand[p] - d.lead[p] * Sold[p]), Sold[p])

\* HIGH or CRITICAL: nothing left, or the stockout lands before the resupply.
AtRisk(d, p) ==
  \/ d.onHand[p] = 0
  \/ Sold[p] > 0 /\ 14 * d.onHand[p] < d.lead[p] * Sold[p]

\* get_inventory: the least slack first.
StockoutRisks(d) == InOrder(Products, [p \in Products |-> SlackTenths(d, p)], d.onHand)

HorizonUnits(p, days) == CeilDiv(Forecast[p] * days, 100)

VelocityHundredths(p) == RoundDiv(100 * Sold[p], 14)

\* Tenths of a percent.
Gap(d, p) == RoundDiv(1000 * (d.price[p] - d.market[p]), d.market[p])
Margin(d, p) == RoundDiv(1000 * (d.price[p] - Cost[p]), d.price[p])

\* The widest gap first.
CompetitorPrices(d) == InOrder(Products, [p \in Products |-> -Gap(d, p)], Row)

Roas(d, c) == RoundDiv(100 * d.revenue[c], Spend[c])

\* The best return first.
CampaignEfficiency(d) ==
  InOrder(Campaigns, [c \in Campaigns |-> -Roas(d, c)], [c \in Campaigns |-> -d.revenue[c]])

Verdict(d, c) ==
  CASE d.revenue[c] >= 4 * Spend[c] -> "HIGH_PERFORMER"
    [] d.revenue[c] >= 2 * Spend[c] /\ d.revenue[c] < 4 * Spend[c] -> "HEALTHY"
    [] d.revenue[c] >= Spend[c] /\ d.revenue[c] < 2 * Spend[c] -> "UNDERPERFORMING"
    [] OTHER -> "WASTING"

Open(d) == {t \in Tickets : d.ticket[t] = "OPEN"}

OpenTickets(d) == Among(Newest, Open(d))

-----------------------------------------------------------------------------
(* What the writing tools do.                                              *)

UpdateProductPrice(d, c) == [d EXCEPT !.price[c.entity] = c.amount]

UpdateCampaignBudget(d, c) == [d EXCEPT !.budget[c.entity] = @ + c.amount]

SetCampaignStatus(d, c) == [d EXCEPT !.paused = @ \cup {c.entity}]

AnswerTicket(d, c) ==
  [d EXCEPT !.ticket[c.entity] = IF c.escalate THEN "ESCALATED" ELSE "ANSWERED"]

RefundId(c) == TransactionId[<<c.entity, c.amount>>]

RecordRefund(d, c) ==
  [d EXCEPT !.refunds =
     Append(@, [id |-> RefundId(c), order |-> c.entity, amount |-> c.amount])]

CreatePurchaseOrder(d, c) ==
  [d EXCEPT !.purchases = Append(@,
     [product |-> c.entity, supplier |-> c.supplier, quantity |-> c.quantity,
      status |-> "PLACED"])]

\* The purchase order it is said to be for is neither looked up nor marked.
AdjustStock(d, c) == [d EXCEPT !.onHand[c.entity] = @ + c.quantity]

\* Mutant: the identifier of a refund is no primary key.
ThrowsUnlessUnique(d, c) ==
  \/ c.tool = "create_refund" /\ c.amount > OrderTotal[c.entity]
  \/ c.tool = "reply_ticket" /\ d.ticket[c.entity] # "OPEN"

Throws(d, c) ==
  \/ c.tool = "create_refund"
     /\ \/ c.amount > OrderTotal[c.entity]
        \/ \E i \in DOMAIN d.refunds : d.refunds[i].id = RefundId(c)
  \/ c.tool = "reply_ticket" /\ d.ticket[c.entity] # "OPEN"
  \/ c.tool = "create_purchase_order"
     /\ \E q \in Quotes[c.entity] : q.supplier = c.supplier /\ c.quantity < q.minimum

\* The other tools read, and change nothing.
Execute(d, c) ==
  CASE c.tool = "update_price" -> UpdateProductPrice(d, c)
    [] c.tool = "propose_budget_change" -> UpdateCampaignBudget(d, c)
    [] c.tool = "pause_campaign" -> SetCampaignStatus(d, c)
    [] c.tool = "reply_ticket" -> AnswerTicket(d, c)
    [] c.tool = "create_refund" -> RecordRefund(d, c)
    [] c.tool = "create_purchase_order" -> CreatePurchaseOrder(d, c)
    [] c.tool = "receive_purchase_order" -> AdjustStock(d, c)
    [] OTHER -> d
=============================================================================
