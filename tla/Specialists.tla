----------------------------- MODULE Specialists -----------------------------
(***************************************************************************)
(* The rules of the specialist agents (agents/*.ts): what each of them     *)
(* proposes when it has read the database d.  A model words the answer of  *)
(* an agent and is never asked for a number, so the calls an agent         *)
(* proposes are a function of what it has read; where the projected profit *)
(* depends on more than the model of the data keeps, a set of answers.     *)
(***************************************************************************)
EXTENDS Commerce

SafetyDays == 7
ReplyBatch == 6

-----------------------------------------------------------------------------
(* Inventory sizes the reorders and holds no permission to buy.            *)

Worst(d, n) == AtMost(n, Listed({p \in Products : AtRisk(d, p)}, StockoutRisks(d)))

\* Forecast demand until the resupply and a week more, minus what is there.
\* What is already on order is not looked at.
Needs(d) ==
  LET need(p) == [product |-> p, urgency |-> SlackTenths(d, p),
                  quantity |-> HorizonUnits(p, d.lead[p] + SafetyDays) - d.onHand[p]]
      worst == Worst(d, 5)
      short == {p \in Range(worst) : need(p).quantity > 0}
  IN [i \in DOMAIN Among(worst, short) |-> need(Among(worst, short)[i])]

\* Run without Inventory, Procurement estimates from the sales velocity.
OwnNeeds(d) ==
  LET units(p) == CeilDiv(VelocityHundredths(p) * (d.lead[p] + 7), 100) - d.onHand[p]
      worst == Worst(d, 4)
  IN [i \in DOMAIN worst |->
        [product |-> worst[i], urgency |-> SlackTenths(d, worst[i]),
         quantity |-> Larger(1, units(worst[i]))]]

Fastest(pool) ==
  CHOOSE q \in pool : \A r \in pool :
    \/ q.lead < r.lead
    \/ q.lead = r.lead /\ Reliability[q.supplier] >= Reliability[r.supplier]

Cheapest(pool) ==
  CHOOSE q \in pool : \A r \in pool :
    \/ q.unit < r.unit
    \/ q.unit = r.unit /\ Reliability[q.supplier] >= Reliability[r.supplier]

\* The lead times compared are those of the quotes.
Purchase(need) ==
  LET viable == {q \in Quotes[need.product] : need.quantity >= q.minimum}
      pool == IF viable # {} THEN viable ELSE Quotes[need.product]
      chosen == IF need.urgency < 0 THEN Fastest(pool) ELSE Cheapest(pool)
  IN PurchaseCall(need.product, chosen.supplier, Larger(need.quantity, chosen.minimum))

ProcurementProposals(delegated, d) ==
  LET needs == AtMost(4, IF delegated # <<>> THEN delegated ELSE OwnNeeds(d))
  IN {Purchase(needs[i]) : i \in {j \in DOMAIN needs : Quotes[needs[j].product] # {}}}

-----------------------------------------------------------------------------
(* Pricing closes the gap to the competitor inside both limits.            *)

\* The cost is worked out again from the rounded margin.
CostFromMargin(d, p) == RoundDiv(d.price[p] * (1000 - Margin(d, p)), 1000)

\* Mutant: the step is measured on the competitor's price.
ProposeMarketStep(d, p) ==
  Smaller(RoundDiv(98 * d.market[p], 100), RoundDiv(11 * d.market[p], 10))

ProposePrice(d, p) ==
  IF Gap(d, p) > 0
  THEN Larger(RoundDiv(99 * d.market[p], 100),
              Larger(RoundDiv(9 * d.price[p], 10), CeilDiv(4 * CostFromMargin(d, p), 3)))
  ELSE Smaller(RoundDiv(98 * d.market[p], 100), RoundDiv(11 * d.price[p], 10))

\* A move against the gap is none.
Closes(d, p) ==
  IF Gap(d, p) > 0 THEN ProposePrice(d, p) < d.price[p] ELSE ProposePrice(d, p) > d.price[p]

PriceCandidates(d) ==
  LET over == {p \in Products : Gap(d, p) > 60 /\ Margin(d, p) > 330}
      under == {p \in Products : Gap(d, p) < -80 /\ Margin(d, p) < 450}
      first(n, S) == Range(AtMost(n, Listed(S, CompetitorPrices(d))))
  IN {p \in first(3, over) \cup first(2, under) : Closes(d, p)}

\* With the elasticity of -1.4 profit has its one peak at 3.5 times the cost:
\* a move towards the peak pays, one away from it does not, and of one across
\* it the peak alone does not tell.
Profitable(d, p) ==
  LET from == 2 * d.price[p]
      to == 2 * ProposePrice(d, p)
      peak == 7 * Cost[p]
  IN CASE from < to /\ to <= peak -> {TRUE}
       [] from < to /\ peak <= from -> {FALSE}
       [] to < from /\ peak <= to -> {TRUE}
       [] to < from /\ from <= peak -> {FALSE}
       [] OTHER -> BOOLEAN

PricingProposals(d) ==
  LET may(b) == {p \in PriceCandidates(d) : b \in Profitable(d, p)}
      sure == may(TRUE) \ may(FALSE)
  IN {{PriceCall(p, ProposePrice(d, p)) : p \in sure \cup doubtful} :
       doubtful \in SUBSET (may(TRUE) \cap may(FALSE))}

-----------------------------------------------------------------------------
(* Marketing pauses what loses money and moves the budget to the best.     *)

\* Best return first, as they come from the efficiency report.
Running(d, verdict) == {c \in Campaigns \ d.paused : Verdict(d, c) = verdict}

Wasting(d) == Listed(Running(d, "WASTING"), CampaignEfficiency(d))

\* Mutant: the report is read from the wrong end.
BestFromBelow(d) == Reverse(Listed(Campaigns \ d.paused, CampaignEfficiency(d)))

Best(d) == Listed(Running(d, "HIGH_PERFORMER"), CampaignEfficiency(d))

\* The budgets of all that waste, also of those beyond the two to be paused.
Freed(d) == Total([i \in DOMAIN Wasting(d) |-> d.budget[Wasting(d)[i]]])

Pauses(d) == {PauseCall(c) : c \in Range(AtMost(2, Wasting(d)))}

MarketingProposals(d) ==
  LET delta == Smaller(Freed(d), CampaignStep)
  IN Pauses(d) \cup
     IF Best(d) # <<>> /\ delta > 0 THEN {BudgetCall(Head(Best(d)), delta)} ELSE {}

-----------------------------------------------------------------------------
(* Customer answers the open tickets and proposes refunds.                 *)

Themed(d, theme) == Among(Newest, {t \in Open(d) : Theme[t] = theme})

\* The theme of the most tickets, and of several such the one met first.
TopTheme(d) ==
  LET open == OpenTickets(d)
      count(i) == Len(Themed(d, Theme[open[i]]))
      most == {i \in DOMAIN open : \A j \in DOMAIN open : count(j) <= count(i)}
  IN IF open = <<>> THEN "other" ELSE Theme[open[CHOOSE i \in most : \A j \in most : i <= j]]

Systemic(d) == TopTheme(d) # "other" /\ Len(Themed(d, TopTheme(d))) >= 2

Replies(d) ==
  LET answering == AtMost(ReplyBatch, OpenTickets(d))
  IN [i \in DOMAIN answering |->
        ReplyCall(answering[i], Systemic(d) /\ Theme[answering[i]] = TopTheme(d))]

\* Mutant: only refund requests count, and a damaged item is none.
RefundableOnRequest(d) == Themed(d, "refund")

Refundable(d) == Among(Newest, {t \in Open(d) : Theme[t] \in {"refund", "product"}})

\* Of the tickets that were refundable when the queue was read: the whole total
\* of the order, for the first two alone.
RefundsFor(returns) ==
  {RefundCall(OrderOf[t], OrderTotal[OrderOf[t]]) :
     t \in {u \in Range(AtMost(2, returns)) : OrderOf[u] # None}}
=============================================================================
