------------------------------- MODULE Reviews -------------------------------
(***************************************************************************)
(* The business between its actors: specialists that review it while other *)
(* reviews are under way, an operator who decides about what is parked,    *)
(* clients of the MCP server, and scenarios that change the data behind    *)
(* everybody's back (simulation/scenarios.ts).                             *)
(*                                                                         *)
(* A review reads the database, waits for a model to word its answer, and  *)
(* only then are its proposals handed to the executor, one call at a time. *)
(* Everybody else moves in between.  One call of the executor is one step  *)
(* here: module Executor looks inside it.                                  *)
(***************************************************************************)
EXTENDS Specialists

CONSTANTS
  Runs,          \* reviews that may be under way at once
  Desks,         \* bound: the specialists of one behaviour share their data
  SeedData,      \* the database as seedDemo leaves it
  ClientPrices,  \* the prices a client of the pricing agent may ask for
  Arrivals,      \* the quantities a client may report as received
  ClientRefunds, \* the amounts a client may ask to refund
  ClientReplies, \* the tickets a client may answer
  MaxReviews, MaxScenarios, MaxClientCalls  \* bounds

ASSUME ReviewsAssumption ==
  /\ Desks \subseteq {"supply", "prices", "campaigns", "service"}
  /\ Database(SeedData) /\ SeedData.refunds = <<>>
  /\ \A t \in Tickets : SeedData.ticket[t] \in {"ABSENT", "OPEN"}
  /\ ClientPrices \cup Arrivals \cup ClientRefunds \subseteq Nat \ {0}
  /\ ClientReplies \subseteq Tickets
  /\ {RefundLimit, PurchaseLimit, HardCeiling, CampaignStep} \subseteq Nat
  /\ CampaignStep <= HardCeiling
  /\ DailyBudget \in [Agents -> Nat]
  /\ MaxReviews \in Nat /\ MaxScenarios \in Nat /\ MaxClientCalls \in Nat

VARIABLES
  db,         \* the tables
  used,       \* agents.budget_used_paise
  run,        \* what each review has still to do
  requests,   \* the approvals that are PENDING
  desk,       \* the part of the business this behaviour is about
  refusals,   \* the agents' own proposals that were denied or failed
  collapsed,  \* campaigns whose return has collapsed
  passedOver, \* tickets for a refund beyond the two a review takes up
  asked,      \* orders a review has proposed to refund
  dropped,    \* tickets answered by a run that broke off, or by a client
  reviews, scenarios, clientCalls

history == <<refusals, collapsed, passedOver, asked, dropped>>
counters == <<reviews, scenarios, clientCalls>>
reviewsVars == <<db, used, run, requests, desk, history, counters>>

\* A review's returns are the tickets it has yet to propose refunds for.
Idle ==
  [agent |-> "none", needs |-> <<>>, replies |-> <<>>, returns |-> <<>>, proposals |-> {},
   price |-> <<>>]

Review(agent, proposals) == [Idle EXCEPT !.agent = agent, !.proposals = proposals]

ReviewsInit ==
  /\ db = SeedData
  /\ used = [a \in Agents |-> 0]
  /\ run = [r \in Runs |-> Idle]
  /\ requests = {}
  /\ desk \in Desks
  /\ refusals = {} /\ collapsed = {}
  /\ passedOver = {} /\ asked = {} /\ dropped = {}
  /\ reviews = 0 /\ scenarios = 0 /\ clientCalls = 0

-----------------------------------------------------------------------------
(* One call of the executor, made by a review, the operator or a client.   *)

Pending(c) == \E q \in requests : q.tool = c.tool /\ q.entity = c.entity

\* What becomes of the agents' own proposals is kept, with the price the review
\* has seen and the one its proposal met.
Refuse(c, by, status) ==
  refusals' = refusals \cup
    IF by = "client" THEN {}
    ELSE {[call |-> c, status |-> status,
           seen |-> IF c.tool = "update_price" THEN run[by].price[c.entity] ELSE 0,
           met |-> IF c.tool = "update_price" THEN db.price[c.entity] ELSE 0]}

Park(c) ==
  /\ requests' = IF Pending(c) THEN requests ELSE requests \cup {c}
  /\ UNCHANGED <<db, used, refusals>>

Perform(c, by) ==
  IF Throws(db, c)
  THEN Refuse(c, by, "FAILED") /\ UNCHANGED <<db, used>>
  ELSE /\ db' = Execute(db, c)
       /\ used' = [used EXCEPT ![c.agent] = @ + Impact(c)]
       /\ UNCHANGED refusals

\* An approval waives the question for a human and nothing else.
CallTool(c, by) ==
  LET decision == Decision(c, used, db.price)
  IN IF decision = "REQUIRE_APPROVAL" /\ by # "operator"
     THEN Park(c)
     ELSE /\ requests' = IF by = "operator" THEN requests \ {c} ELSE requests
          /\ IF decision = "DENY"
             THEN Refuse(c, by, "DENIED") /\ UNCHANGED <<db, used>>
             ELSE Perform(c, by)

-----------------------------------------------------------------------------
(* Reviews.                                                                *)

Start(r, d, review) ==
  /\ desk = d
  /\ run[r] = Idle
  /\ reviews < MaxReviews
  /\ reviews' = reviews + 1
  /\ run' = [run EXCEPT ![r] = review]
  /\ UNCHANGED <<db, used, requests, desk, refusals, collapsed, passedOver, asked, dropped,
                 scenarios, clientCalls>>

\* The first task of the plan against stockouts, and of that against delays.
InventoryRun(r) == Start(r, "supply", [Review("inventory", {}) EXCEPT !.needs = Needs(db)])

\* The second: what Inventory has found may be old by now.
ProcurementRun(r) ==
  /\ run[r].agent = "inventory"
  /\ run' = [run EXCEPT ![r].agent = "procurement", ![r].needs = <<>>,
                        ![r].proposals = ProcurementProposals(run[r].needs, db)]
  /\ UNCHANGED <<db, used, requests, desk, history, counters>>

ProcurementAlone(r) ==
  Start(r, "supply", Review("procurement", ProcurementProposals(<<>>, db)))

PricingRun(r) ==
  /\ desk = "prices"
  /\ \E proposals \in PricingProposals(db) :
       Start(r, "prices", [Review("pricing", proposals) EXCEPT !.price = db.price])

MarketingRun(r) == Start(r, "campaigns", Review("marketing", MarketingProposals(db)))

\* The queue is read once, for the answers and for the refunds.
CustomerRun(r) ==
  Start(r, "service", [Review("customer", {}) EXCEPT !.replies = Replies(db),
                                                    !.returns = Refundable(db)])

\* The rest of the review, when nothing is left of it the run is over.
Remaining(r, replies, proposals) ==
  run' = [run EXCEPT ![r] =
            IF replies = <<>> /\ @.returns = <<>> /\ proposals = {} THEN Idle
            ELSE [@ EXCEPT !.replies = replies, !.proposals = proposals]]

\* The customer agent answers within its run.
Reply(r) ==
  LET c == Head(run[r].replies)
  IN /\ run[r].replies # <<>>
     /\ CallTool(c, r)
     /\ Remaining(r, Tail(run[r].replies), run[r].proposals)
     /\ UNCHANGED <<desk, collapsed, passedOver, asked, dropped, counters>>

\* Only when all have been answered are the refunds worked out.
ProposeRefunds(r) ==
  LET returns == run[r].returns
  IN /\ run[r].replies = <<>> /\ returns # <<>>
     /\ run' = [run EXCEPT ![r].returns = <<>>, ![r].proposals = RefundsFor(returns)]
     /\ asked' = asked \cup {c.entity : c \in RefundsFor(returns)}
     /\ passedOver' = passedOver \cup {returns[i] : i \in {j \in DOMAIN returns : j > 2}}
     /\ UNCHANGED <<db, used, requests, desk, refusals, collapsed, dropped, counters>>

\* A statement or a reading tool throws before the refunds are proposed.  The
\* orchestrator's retry is a new run on what is still open; what the run has
\* answered is not.  The other specialists change nothing before they propose.
ReviewFails(r) ==
  /\ run[r].replies # <<>> \/ run[r].returns # <<>>
  /\ run' = [run EXCEPT ![r] = Idle]
  /\ dropped' = dropped \cup {t \in Range(run[r].returns) : db.ticket[t] # "OPEN"}
  /\ UNCHANGED <<db, used, requests, desk, refusals, collapsed, passedOver, asked,
                 counters>>

\* What a plan proposes is attempted at its end, in the order of its ranking.
Attempt(r) ==
  /\ run[r].replies = <<>> /\ run[r].returns = <<>>
  /\ \E c \in run[r].proposals :
       /\ CallTool(c, r)
       /\ Remaining(r, <<>>, run[r].proposals \ {c})
  /\ UNCHANGED <<desk, collapsed, passedOver, asked, dropped, counters>>

\* A review that found nothing to propose.
Conclude(r) ==
  /\ run[r].agent \notin {"none", "inventory"}
  /\ run[r].replies = <<>> /\ run[r].returns = <<>> /\ run[r].proposals = {}
  /\ run' = [run EXCEPT ![r] = Idle]
  /\ UNCHANGED <<db, used, requests, desk, history, counters>>

-----------------------------------------------------------------------------
(* The operator.  A denial or a failure leaves the request APPROVED.       *)

Approve(c) ==
  /\ c \in requests
  /\ CallTool(c, "operator")
  /\ UNCHANGED <<run, desk, collapsed, passedOver, asked, dropped, counters>>

Reject(c) ==
  /\ c \in requests
  /\ requests' = requests \ {c}
  /\ UNCHANGED <<db, used, run, desk, history, counters>>

-----------------------------------------------------------------------------
(* Clients of the MCP server, each bound to one agent.                     *)

ClientCalls ==
  CASE desk = "prices" -> {PriceCall(p, n) : p \in Products, n \in ClientPrices}
    [] desk = "supply" -> {ReceiveCall(p, n) : p \in Products, n \in Arrivals}
    [] desk = "service" -> {RefundCall(o, n) : o \in Orders, n \in ClientRefunds}
                            \cup {ReplyCall(t, e) : t \in ClientReplies, e \in BOOLEAN}
    [] OTHER -> {}

CallAsBoundAgent ==
  /\ clientCalls < MaxClientCalls
  /\ clientCalls' = clientCalls + 1
  /\ \E c \in ClientCalls : CallTool(c, "client")
  /\ dropped' = dropped \cup
       {t \in Tickets : db.ticket[t] = "OPEN" /\ db'.ticket[t] # "OPEN"}
  /\ UNCHANGED <<run, desk, collapsed, passedOver, asked, reviews, scenarios>>

-----------------------------------------------------------------------------
(* Scenarios.                                                              *)

Scenario(d, after) ==
  /\ desk = d
  /\ scenarios < MaxScenarios
  /\ scenarios' = scenarios + 1
  /\ db' = after
  /\ UNCHANGED <<used, run, requests, desk, refusals, passedOver, asked, dropped,
                 reviews, clientCalls>>

\* The fastest seller is cut to two days of sales.
Stockout ==
  /\ LET target == CHOOSE p \in Products : \A x \in Products : Sold[x] <= Sold[p]
     IN Scenario("supply", [db EXCEPT !.onHand[target] =
                              Larger(1, (2 * VelocityHundredths(target)) \div 100)])
  /\ UNCHANGED collapsed

\* The lead times of the supplier and of its stock; the quotes stay as they are.
SupplierDelay ==
  /\ LET late == CHOOSE s \in Suppliers : \A x \in Suppliers : Reliability[s] <= Reliability[x]
         delay(o) == IF o.supplier = late /\ o.status = "PLACED"
                     THEN [o EXCEPT !.status = "DELAYED"] ELSE o
     IN Scenario("supply",
          [db EXCEPT !.lead = [p \in Products |-> @[p] + IF SourceOf[p] = late THEN 12 ELSE 0],
                     !.purchases = [i \in DOMAIN @ |-> delay(@[i])]])
  /\ UNCHANGED collapsed

CompetitorPrice ==
  /\ LET margins == [p \in Products |-> -Margin(db, p)]
         dearest == Range(AtMost(5, Listed(Products, InOrder(Products, margins, Row))))
     IN Scenario("prices",
          [db EXCEPT !.market = [p \in Products |->
             IF p \in dearest THEN RoundDiv(88 * db.price[p], 100) ELSE @[p]]])
  /\ UNCHANGED collapsed

\* The first of the report falls to 0.4 of what it spends, running or paused.
CampaignFailure ==
  LET report == Listed(Campaigns, CampaignEfficiency(db))
      best == Head(report)
  IN /\ desk = "campaigns" /\ report # <<>>
     /\ Scenario("campaigns", [db EXCEPT !.revenue[best] = RoundDiv(4 * Spend[best], 10)])
     /\ collapsed' = collapsed \cup {best}

ReturnSurge ==
  /\ \A t \in SurgeTickets : db.ticket[t] = "ABSENT"
  /\ Scenario("service",
       [db EXCEPT !.ticket = [t \in Tickets |-> IF t \in SurgeTickets THEN "OPEN" ELSE @[t]]])
  /\ UNCHANGED collapsed

-----------------------------------------------------------------------------
Next ==
  \/ \E r \in Runs : \/ InventoryRun(r) \/ ProcurementRun(r) \/ ProcurementAlone(r)
                     \/ PricingRun(r) \/ MarketingRun(r) \/ CustomerRun(r)
                     \/ Reply(r) \/ ProposeRefunds(r) \/ ReviewFails(r)
                     \/ Attempt(r) \/ Conclude(r)
  \/ \E c \in requests : Approve(c) \/ Reject(c)
  \/ CallAsBoundAgent
  \/ Stockout \/ SupplierDelay \/ CompetitorPrice \/ CampaignFailure \/ ReturnSurge

ReviewsSpec == ReviewsInit /\ [][Next]_reviewsVars

-----------------------------------------------------------------------------
(* Properties.                                                             *)

\* What the agents propose stays inside policy (agents/pricing.ts), so one of
\* their own calls is refused for few reasons: the price has moved since the
\* review; a tenth of an odd price is rounded up and then is more than a tenth;
\* a price under the margin floor is raised, and the floor is not looked at, so
\* that it stays under it; the least purchase is beyond the ceiling; the refund
\* was made before, or one of another order has the same identifier, or it is of
\* more than the ceiling, or a client asked for more than the order's total;
\* another review or a client has replied.
RefusalsAreExplained ==
  \A f \in refusals :
    CASE f.call.tool = "update_price" ->
           \/ f.met # f.seen
           \/ f.seen % 10 \in 5..9
           \/ BelowFloor(f.call) /\ f.call.amount > f.seen
      [] f.call.tool = "create_purchase_order" ->
           /\ f.status = "DENIED"
           /\ \A q \in Quotes[f.call.entity] :
                f.call.quantity * q.unit > HardCeiling \/ q.supplier # f.call.supplier
      [] f.call.tool = "create_refund" ->
           \/ \E i \in DOMAIN db.refunds : db.refunds[i].id = RefundId(f.call)
           \/ f.call.amount > Smaller(OrderTotal[f.call.entity], HardCeiling)
      [] f.call.tool = "reply_ticket" -> db.ticket[f.call.entity] # "OPEN"
      [] OTHER -> FALSE

\* The amounts refunded on an order in full.
InFull(o) ==
  {i \in DOMAIN db.refunds : db.refunds[i].order = o /\ db.refunds[i].amount = OrderTotal[o]}

\* Nobody asks whether an order has been refunded.  Overlapping reviews that
\* read the same ticket, two tickets about one order and a client all propose
\* its whole total, at once or parked for a human; one of them is made.
RefundsFitTheOrder == \A o \in Orders : Cardinality(InFull(o)) <= 1

\* A ticket leaves the queue for good when it is answered, and a run answers all
\* of them before it proposes refunds, for two alone (agents/customer.ts).  A
\* refund nobody ever proposes is one of a ticket beyond the first two of its
\* run, of one whose run broke off after the answer, or of one a client has
\* answered; of every other answered ticket, in reviews that overlap as well, the
\* refund has been proposed or a run still has it before it.
OverlookedReturnsAreExplained ==
  \A t \in Tickets :
    /\ Theme[t] \in {"refund", "product"} /\ OrderOf[t] # None
    /\ db.ticket[t] \in {"ANSWERED", "ESCALATED"} /\ OrderOf[t] \notin asked
    => t \in passedOver \cup dropped \/ \E r \in Runs : t \in Range(run[r].returns)

\* Both halves of a reallocation wait for a human, each for itself and while the
\* returns change (agents/marketing.ts, one report for both).  A campaign that
\* is to have more money, or has it, and that is to be paused, or is, has
\* collapsed in between: on figures no scenario has changed, no two reviews ask
\* for both.  It says nothing of the order: an increase that was parked before
\* the collapse can still be approved after it.
MoneyFollowsReturns ==
  \A c \in Campaigns :
    LET raised == \/ db.budget[c] > SeedData.budget[c]
                  \/ \E q \in requests : q.tool = "propose_budget_change" /\ q.entity = c
        stopped == c \in db.paused \/ PauseCall(c) \in requests
    IN raised /\ stopped => c \in collapsed
=============================================================================
