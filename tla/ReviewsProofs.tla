---------------------------- MODULE ReviewsProofs ----------------------------
(***************************************************************************)
(* What the passing run of Reviews checks, for any data the code can       *)
(* hold, any number of runs and any order of reviews, decisions, client    *)
(* calls and scenarios.                                                    *)
(*                                                                         *)
(* First what the specialists propose, taken apart to the columns they     *)
(* read; then what becomes of a call; then that every step is one of four  *)
(* kinds (StepsAreMoves), which the invariants of the campaigns, the       *)
(* tickets, the refunds and the refusals are shown to survive.             *)
(***************************************************************************)
EXTENDS Reviews, ListingProofs

-----------------------------------------------------------------------------
(* Reports and queues.                                                     *)

\* Math.round of a quotient is an integer, and of natural numbers a natural one.
LEMMA RoundDivIsANumber ==
  ASSUME NEW a \in Int, NEW b \in Nat \ {0}
  PROVE  RoundDiv(a, b) \in Int /\ (a >= 0 => RoundDiv(a, b) \in Nat)
<1>1. b \div 2 \in Nat
  OBVIOUS
<1>2. ASSUME NEW n \in Int PROVE n \div b \in Int /\ (n >= 0 => n \div b \in Nat)
  OBVIOUS
<1>. QED BY <1>1, <1>2 DEF RoundDiv

\* The order of a report leaves nothing open.
LEMMA ReportsAreOrdered ==
  ASSUME NEW S, S = Products \/ S = Campaigns, NEW first \in [S -> Int],
         NEW second \in [S -> Int], NEW U \in SUBSET S
  PROVE  IsFiniteSet(U) /\ StrictOrder(U, InOrder(S, first, second))
<1>1. IsFiniteSet(U)
  BY CommerceAssumption, FS_Subset DEF CommerceAssumption
<1>2. \A x \in S : Row[x] \in Nat
  BY CommerceAssumption DEF CommerceAssumption
<1>3. \A x, y \in S : Row[x] = Row[y] => x = y
  BY CommerceAssumption DEF CommerceAssumption
<1>. DEFINE before(x, y) ==
       \/ first[x] < first[y]
       \/ first[x] = first[y]
          /\ \/ second[x] < second[y]
             \/ second[x] = second[y] /\ Row[x] < Row[y]
<1>4. \A x, y \in S : <<x, y>> \in InOrder(S, first, second) <=> before(x, y)
  BY DEF InOrder
<1>5. /\ \A x \in S : ~before(x, x)
      /\ \A x, y \in S : x # y => before(x, y) \/ before(y, x)
      /\ \A x, y, z \in S : before(x, y) /\ before(y, z) => before(x, z)
  <2>1. \A x \in S : first[x] \in Int /\ second[x] \in Int
    OBVIOUS
  <2>. QED BY <1>2, <1>3, <2>1
<1>. HIDE DEF before
<1>. QED BY <1>1, <1>4, <1>5 DEF StrictOrder

\* The first n of a list.
LEMMA FrontHas ==
  ASSUME NEW T, NEW list \in Seq(T), NEW n \in Nat
  PROVE  /\ AtMost(n, list) \in Seq(T)
         /\ \A i \in DOMAIN AtMost(n, list) : AtMost(n, list)[i] = list[i] /\ i \in DOMAIN list
         /\ \A i \in DOMAIN list : i <= n => i \in DOMAIN AtMost(n, list)
<1>. DEFINE m == IF Len(list) < n THEN Len(list) ELSE n
<1>1. Len(list) \in Nat /\ DOMAIN list = 1 .. Len(list)
  OBVIOUS
<1>2. m \in 0 .. Len(list) /\ AtMost(n, list) = SubSeq(list, 1, m)
  BY <1>1 DEF AtMost
<1>3. \A i \in DOMAIN list : i <= n => i <= m
  BY <1>1
<1>. HIDE DEF m
<1>4. /\ SubSeq(list, 1, m) \in Seq(T) /\ Len(SubSeq(list, 1, m)) = m
      /\ \A i \in 1 .. m : SubSeq(list, 1, m)[i] = list[i]
  BY <1>1, <1>2, SubSeqProperties
<1>. QED BY <1>1, <1>2, <1>3, <1>4

\* The report on the campaigns, or on some of them.
LEMMA CampaignsAreListed ==
  ASSUME NEW d, Database(d), NEW U \in SUBSET Campaigns
  PROVE  LET list == Listed(U, CampaignEfficiency(d))
         IN  /\ list \in Seq(U) /\ Len(list) = Cardinality(U)
             /\ \A x \in U : \E i \in DOMAIN list : list[i] = x
             /\ \A i, j \in DOMAIN list : list[i] = list[j] => i = j
<1>1. \A c \in Campaigns : d.revenue[c] \in Nat /\ Spend[c] \in Nat \ {0}
  BY CommerceAssumption DEF CommerceAssumption, Database
<1>2. \A c \in Campaigns : Roas(d, c) \in Int
  BY <1>1, RoundDivIsANumber DEF Roas
<1>3. /\ [c \in Campaigns |-> -Roas(d, c)] \in [Campaigns -> Int]
      /\ [c \in Campaigns |-> -d.revenue[c]] \in [Campaigns -> Int]
  BY <1>1, <1>2
<1>4. IsFiniteSet(U) /\ StrictOrder(U, CampaignEfficiency(d))
  BY <1>3, ReportsAreOrdered DEF CampaignEfficiency
<1>. QED BY <1>4, ListedHas

\* The tickets that are in S, as they are listed.
LEMMA TicketsAreListed ==
  ASSUME NEW S \in SUBSET Tickets
  PROVE  /\ Among(Newest, S) \in Seq(S)
         /\ \A t \in S : \E i \in DOMAIN Among(Newest, S) : Among(Newest, S)[i] = t
<1>1. Newest \in Seq(Tickets)
  BY CommerceAssumption DEF CommerceAssumption
<1>2. \A t \in S : \E n \in DOMAIN Newest : Newest[n] = t
  BY DEF Tickets, Range
<1>3. S \cap Tickets = S
  OBVIOUS
<1>. HIDE DEF Tickets
<1>. QED BY <1>1, <1>2, <1>3, AmongHas

-----------------------------------------------------------------------------
(* What the specialists propose.                                           *)

\* Of what a list has in front, everything is on the list.
LEMMA FrontOfRange ==
  ASSUME NEW T, NEW list \in Seq(T), NEW n \in Nat
  PROVE  Range(AtMost(n, list)) \in SUBSET T
<1>. AtMost(n, list) \in Seq(T)
  BY FrontHas
<1>. QED BY DEF Range

\* Marketing pauses what loses money, and raises what returns most by the step
\* at most.
LEMMA MarketingProposes ==
  ASSUME NEW d, Database(d), NEW c \in MarketingProposals(d)
  PROVE  \/ \E x \in Running(d, "WASTING") : c = PauseCall(x)
         \/ \E x \in Running(d, "HIGH_PERFORMER") :
              \E n \in Nat : n <= CampaignStep /\ c = BudgetCall(x, n)
<1>. DEFINE delta == Smaller(Freed(d), CampaignStep)
<1>1. /\ Running(d, "WASTING") \in SUBSET Campaigns
      /\ Running(d, "HIGH_PERFORMER") \in SUBSET Campaigns
  BY DEF Running
<1>2. Wasting(d) \in Seq(Running(d, "WASTING"))
  BY <1>1, CampaignsAreListed DEF Wasting
<1>3. Best(d) \in Seq(Running(d, "HIGH_PERFORMER"))
  BY <1>1, CampaignsAreListed DEF Best
<1>4. CASE c \in Pauses(d)
  <2>1. \A x \in Range(AtMost(2, Wasting(d))) : x \in Running(d, "WASTING")
    BY <1>2, FrontOfRange
  <2>. QED BY <1>4, <2>1 DEF Pauses
<1>5. CASE c \notin Pauses(d)
  <2>1. Best(d) # <<>> /\ c = BudgetCall(Head(Best(d)), delta)
    BY <1>5 DEF MarketingProposals
  <2>2. Head(Best(d)) \in Running(d, "HIGH_PERFORMER")
    BY <1>3, <2>1
  <2>3. Freed(d) \in Nat
    <3>. DEFINE budgets == [i \in DOMAIN Wasting(d) |-> d.budget[Wasting(d)[i]]]
    <3>1. /\ Len(Wasting(d)) \in Nat /\ DOMAIN Wasting(d) = 1 .. Len(Wasting(d))
          /\ \A i \in 1 .. Len(Wasting(d)) : Wasting(d)[i] \in Campaigns
      BY <1>1, <1>2
    <3>2. \A i \in 1 .. Len(Wasting(d)) : budgets[i] \in Nat
      BY <3>1 DEF Database
    <3>3. budgets = [i \in 1 .. Len(Wasting(d)) |-> budgets[i]]
      BY <3>1
    <3>. HIDE DEF budgets
    <3>4. budgets \in Seq(Nat)
      BY <3>1, <3>2, <3>3, ListOf
    <3>. QED BY <3>4, TotalIsANumber DEF Freed, budgets
  <2>4. CampaignStep \in Nat
    BY ReviewsAssumption DEF ReviewsAssumption
  <2>5. delta \in Nat /\ delta <= CampaignStep
    BY <2>3, <2>4 DEF Smaller
  <2>. QED BY <2>1, <2>2, <2>5
<1>. QED BY <1>4, <1>5

-----------------------------------------------------------------------------
(* Tickets.                                                                *)

Refundables(d) == {t \in Open(d) : Theme[t] \in {"refund", "product"}}

\* A review answers open tickets only.
LEMMA RepliesAreAboutOpenTickets ==
  ASSUME NEW d
  PROVE  Replies(d) \in Seq({ReplyCall(t, e) : t \in Open(d), e \in BOOLEAN})
<1>. DEFINE answering == AtMost(ReplyBatch, OpenTickets(d))
            call(t) == ReplyCall(t, Systemic(d) /\ Theme[t] = TopTheme(d))
            Answers == {ReplyCall(t, e) : t \in Open(d), e \in BOOLEAN}
<1>1. Open(d) \in SUBSET Tickets
  BY DEF Open
<1>2. OpenTickets(d) \in Seq(Open(d))
  BY <1>1, TicketsAreListed DEF OpenTickets
<1>3. answering \in Seq(Open(d))
  BY <1>2, FrontHas DEF ReplyBatch
<1>4. Replies(d) = [i \in DOMAIN answering |-> call(answering[i])]
  BY DEF Replies
<1>5. \A t \in Open(d) : call(t) \in Answers
  <2>1. \A t : (Systemic(d) /\ Theme[t] = TopTheme(d)) \in BOOLEAN
    BY DEF Systemic
  <2>2. \A t \in Open(d), e \in BOOLEAN : ReplyCall(t, e) \in Answers
    OBVIOUS
  <2>. HIDE DEF Answers
  <2>. QED BY <2>1, <2>2
<1>. HIDE DEF answering, Answers, call
<1>6. Len(answering) \in Nat /\ DOMAIN answering = 1 .. Len(answering)
  BY <1>3
<1>7. \A i \in 1 .. Len(answering) : Replies(d)[i] \in Answers
  <2>1. \A i \in 1 .. Len(answering) : answering[i] \in Open(d)
    BY <1>3
  <2>. QED BY <1>4, <1>5, <1>6, <2>1
<1>8. Replies(d) = [i \in 1 .. Len(answering) |-> Replies(d)[i]]
  BY <1>4, <1>6
<1>. QED BY <1>6, <1>7, <1>8, ListOf DEF Answers

\* What is refundable is a list of tickets, and has all of them.
LEMMA RefundableHas ==
  ASSUME NEW d
  PROVE  /\ Refundable(d) \in Seq(Tickets)
         /\ Refundables(d) \subseteq Range(Refundable(d))
<1>. DEFINE list == Refundable(d)
<1>1. Refundables(d) \in SUBSET Tickets
  BY DEF Refundables, Open
<1>2. /\ list \in Seq(Refundables(d))
      /\ \A x \in Refundables(d) : \E i \in DOMAIN list : list[i] = x
  <2>1. list = Among(Newest, Refundables(d))
    BY DEF Refundable, Refundables
  <2>. HIDE DEF list
  <2>. QED BY <1>1, <2>1, TicketsAreListed
<1>. HIDE DEF list
<1>. QED BY <1>1, <1>2 DEF Range, list

\* A ticket a run has before it is among the first two, and its order's refund is
\* proposed, or it is beyond them.
LEMMA ReturnsAreSeen ==
  ASSUME NEW list \in Seq(Tickets), NEW t \in Range(list), OrderOf[t] # None
  PROVE  \/ RefundCall(OrderOf[t], OrderTotal[OrderOf[t]]) \in RefundsFor(list)
         \/ \E j \in DOMAIN list : j > 2 /\ list[j] = t
<1>1. PICK j \in DOMAIN list : list[j] = t
  BY DEF Range
<1>2. j \in Nat
  OBVIOUS
<1>3. CASE j <= 2
  <2>1. j \in DOMAIN AtMost(2, list) /\ AtMost(2, list)[j] = t
    BY <1>1, <1>3, FrontHas
  <2>2. t \in {u \in Range(AtMost(2, list)) : OrderOf[u] # None}
    BY <2>1 DEF Range
  <2>. QED BY <2>2 DEF RefundsFor
<1>4. CASE j > 2
  BY <1>1, <1>4
<1>. QED BY <1>2, <1>3, <1>4

\* A refund that is proposed is of an order.
LEMMA RefundsAreOfOrders ==
  ASSUME NEW list \in Seq(Tickets), NEW c \in RefundsFor(list)
  PROVE  \E o \in Orders : c = RefundCall(o, OrderTotal[o])
<1>1. Range(AtMost(2, list)) \in SUBSET Tickets
  BY FrontOfRange
<1>2. \A t \in Tickets : OrderOf[t] # None => OrderOf[t] \in Orders
  BY CommerceAssumption DEF CommerceAssumption
<1>. QED BY <1>1, <1>2 DEF RefundsFor

-----------------------------------------------------------------------------
(* Prices.                                                                 *)

\* A proposed price is one the policy lets through, unless a tenth of the present
\* one is rounded up, or a price under the floor is raised.
Fits(c, price) ==
  \/ price[c.entity] % 10 \in 5 .. 9
  \/ BelowFloor(c) /\ c.amount > price[c.entity]
  \/ ~BelowFloor(c) /\ ~BeyondStep(c, price)

\* The quotient of integers, and what it leaves.
LEMMA Quotients ==
  ASSUME NEW a \in Int, NEW b \in Nat \ {0}
  PROVE  /\ RoundDiv(a, b) \in Int
         /\ b * RoundDiv(a, b) <= a + b \div 2
         /\ a + b \div 2 < b * RoundDiv(a, b) + b
<1>. DEFINE n == a + b \div 2
            q == n \div b
<1>1. n \in Int
  OBVIOUS
<1>. HIDE DEF n
<1>2. q \in Int /\ n = b * q + (n % b) /\ n % b \in 0 .. b - 1
  BY <1>1
<1>3. b * q \in Int
  BY <1>2
<1>. HIDE DEF q
<1>4. b * q <= n /\ n < b * q + b
  BY <1>1, <1>2, <1>3
<1>. QED BY <1>2, <1>4 DEF RoundDiv, n, q

\* A tenth of a price that ends in less than 5 is rounded down.
LEMMA StepsAreRounded ==
  ASSUME NEW p \in Nat \ {0}, p % 10 \notin 5 .. 9
  PROVE  /\ RoundDiv(9 * p, 10) \in Nat \ {0} /\ 10 * RoundDiv(9 * p, 10) >= 9 * p
         /\ RoundDiv(11 * p, 10) \in Nat \ {0} /\ 10 * RoundDiv(11 * p, 10) <= 11 * p
BY DEF RoundDiv

\* A lowered price of a product with 33 percent of margin keeps to the floor.
\* Below 10 rupees the cost that is worked out again from the margin is exact;
\* above, a tenth off the price is not enough to reach the floor.
LEMMA LoweredKeepsToTheFloor ==
  ASSUME NEW p \in Nat \ {0}, NEW k \in Nat \ {0},
         NEW m, m = RoundDiv(1000 * (p - k), p), m > 330,
         NEW n \in Nat, n >= RoundDiv(9 * p, 10),
         n >= CeilDiv(4 * RoundDiv(p * (1000 - m), 1000), 3)
  PROVE  ~(3 * n < 4 * k)
<1>1. /\ m \in Int /\ p * m \in Int
      /\ p * m <= 1000 * (p - k) + p \div 2
      /\ 1000 * (p - k) + p \div 2 < p * m + p
  <2>1. 1000 * (p - k) \in Int
    OBVIOUS
  <2>2. m \in Int /\ p * m <= 1000 * (p - k) + p \div 2
        /\ 1000 * (p - k) + p \div 2 < p * m + p
    BY <2>1, Quotients
  <2>. QED BY <2>2
<1>2. PICK x \in Int : x = p * m
  BY <1>1
<1>3. p * (1000 - m) = 1000 * p - x
  BY <1>1, <1>2
<1>4. p \div 2 \in Nat /\ 2 * (p \div 2) <= p /\ p <= 2 * (p \div 2) + 1
  OBVIOUS
<1>5. CASE p < 1000
  <2>1. RoundDiv(1000 * p - x, 1000) = k
    <3>1. /\ 1000 * k <= 1000 * p - x + 500
          /\ 1000 * p - x + 500 < 1000 * k + 1000
      BY <1>1, <1>2, <1>4, <1>5
    <3>2. 1000 * p - x + 500 \in Int
      BY <1>2
    <3>. HIDE DEF RoundDiv
    <3>3. (1000 * p - x + 500) \div 1000 = k
      BY <3>1, <3>2
    <3>. QED BY <3>3 DEF RoundDiv
  <2>2. n >= CeilDiv(4 * k, 3)
    BY <1>3, <2>1
  <2>. QED BY <2>2 DEF CeilDiv
<1>6. CASE p >= 1000
  <2>1. p * m >= 331 * p
    <3>1. m >= 331
      BY <1>1
    <3>. QED BY <1>1, <3>1
  <2>2. 1000 * k <= 669 * p + p \div 2
    BY <1>1, <1>2, <1>4, <2>1
  <2>3. 10 * n >= 9 * p - 5
    BY DEF RoundDiv
  <2>. QED BY <1>4, <1>6, <2>2, <2>3
<1>. QED BY <1>5, <1>6

\* The price a review proposes fits the limits as they are when it reads them.
LEMMA PricesFit ==
  ASSUME NEW d, Database(d), NEW p \in PriceCandidates(d)
  PROVE  /\ p \in Products /\ ProposePrice(d, p) \in Nat \ {0}
         /\ Fits(PriceCall(p, ProposePrice(d, p)), d.price)
<1>. DEFINE over == {q \in Products : Gap(d, q) > 60 /\ Margin(d, q) > 330}
            under == {q \in Products : Gap(d, q) < -80 /\ Margin(d, q) < 450}
<1>1. \A q \in Products : /\ d.price[q] \in Nat \ {0} /\ d.market[q] \in Nat \ {0}
                          /\ Cost[q] \in Nat \ {0}
  BY CommerceAssumption DEF CommerceAssumption, Database
<1>2. \A q \in Products : Gap(d, q) \in Int
  <2>. TAKE q \in Products
  <2>1. 1000 * (d.price[q] - d.market[q]) \in Int /\ d.market[q] \in Nat \ {0}
    BY <1>1
  <2>. QED BY <2>1, RoundDivIsANumber DEF Gap
<1>3. \A S \in SUBSET Products : Listed(S, CompetitorPrices(d)) \in Seq(S)
  <2>. TAKE S \in SUBSET Products
  <2>1. /\ [q \in Products |-> -Gap(d, q)] \in [Products -> Int]
        /\ Row \in [Products \cup Campaigns -> Nat]
    BY <1>2, CommerceAssumption DEF CommerceAssumption
  <2>. DEFINE row == [q \in Products |-> Row[q]]
  <2>2. row \in [Products -> Int]
    BY <2>1
  <2>3. CompetitorPrices(d) = InOrder(Products, [q \in Products |-> -Gap(d, q)], row)
    BY DEF CompetitorPrices, InOrder
  <2>4. IsFiniteSet(S) /\ StrictOrder(S, CompetitorPrices(d))
    BY <2>1, <2>2, <2>3, ReportsAreOrdered
  <2>. QED BY <2>4, ListedHas
<1>4. p \in over \cup under /\ Closes(d, p)
  <2>1. over \in SUBSET Products /\ under \in SUBSET Products
    OBVIOUS
  <2>2. /\ p \in Range(AtMost(3, Listed(over, CompetitorPrices(d))))
                 \cup Range(AtMost(2, Listed(under, CompetitorPrices(d))))
        /\ Closes(d, p)
    BY DEF PriceCandidates
  <2>. HIDE DEF over, under
  <2>. QED BY <1>3, <2>1, <2>2, FrontOfRange
<1>5. p \in Products
  BY <1>4
<1>. DEFINE c == PriceCall(p, ProposePrice(d, p))
            old == d.price[p]
            m == Margin(d, p)
            nine == RoundDiv(9 * old, 10)
            eleven == RoundDiv(11 * old, 10)
            floor == CeilDiv(4 * CostFromMargin(d, p), 3)
            low == RoundDiv(99 * d.market[p], 100)
            high == RoundDiv(98 * d.market[p], 100)
<1>6. c.entity = p /\ c.amount = ProposePrice(d, p)
  BY DEF PriceCall, Call
<1>7. old \in Nat \ {0} /\ Cost[p] \in Nat \ {0} /\ d.market[p] \in Nat \ {0}
  BY <1>1, <1>5
<1>8. nine \in Nat \ {0} /\ eleven \in Nat \ {0} /\ low \in Nat /\ high \in Nat
  BY <1>7 DEF RoundDiv
<1>9. m \in Int /\ old * (1000 - m) \in Int
  <2>. HIDE DEF old
  <2>1. 1000 * (old - Cost[p]) \in Int
    BY <1>7
  <2>2. m = RoundDiv(1000 * (old - Cost[p]), old)
    BY DEF Margin, old
  <2>. HIDE DEF m
  <2>3. m \in Int
    BY <1>7, <2>1, <2>2, RoundDivIsANumber
  <2>. QED BY <1>7, <2>3
<1>10. CostFromMargin(d, p) \in Int /\ floor \in Int
  <2>1. CostFromMargin(d, p) \in Int
    BY <1>9, RoundDivIsANumber DEF CostFromMargin
  <2>. QED BY <2>1 DEF CeilDiv
<1>11. CASE Gap(d, p) > 60 /\ Margin(d, p) > 330
  <2>1. Gap(d, p) > 0
    BY <1>2, <1>5, <1>11
  <2>2. ProposePrice(d, p) = Larger(low, Larger(nine, floor)) /\ ProposePrice(d, p) < old
    BY <1>4, <2>1 DEF ProposePrice, Closes
  <2>3. /\ ProposePrice(d, p) \in Nat \ {0}
        /\ ProposePrice(d, p) >= nine /\ ProposePrice(d, p) >= floor
    <3>. HIDE DEF low, nine, floor
    <3>. QED BY <1>8, <1>10, <2>2 DEF Larger
  <2>4. ~BelowFloor(c)
    <3>. DEFINE n == ProposePrice(d, p)
    <3>1. PICK k : k = Cost[p]
      OBVIOUS
    <3>2. /\ m = RoundDiv(1000 * (old - k), old) /\ m > 330
          /\ n >= CeilDiv(4 * RoundDiv(old * (1000 - m), 1000), 3)
          /\ n \in Nat /\ n >= RoundDiv(9 * old, 10)
          /\ old \in Nat \ {0} /\ k \in Nat \ {0}
      BY <1>7, <1>11, <2>3, <3>1 DEF Margin, CostFromMargin
    <3>. HIDE DEF m, old, n
    <3>3. ~(3 * n < 4 * k)
      BY <3>2, LoweredKeepsToTheFloor
    <3>. QED BY <1>6, <3>1, <3>3 DEF BelowFloor, n
  <2>5. old % 10 \in 5 .. 9 \/ ~BeyondStep(c, d.price)
    <3>. SUFFICES ASSUME old % 10 \notin 5 .. 9 PROVE ~BeyondStep(c, d.price)
      OBVIOUS
    <3>1. 10 * nine >= 9 * old
      BY <1>7, StepsAreRounded
    <3>. HIDE DEF nine
    <3>. QED BY <1>6, <1>7, <1>8, <2>2, <2>3, <3>1 DEF BeyondStep
  <2>. QED BY <1>5, <1>6, <2>3, <2>4, <2>5 DEF Fits
<1>begun. CASE Gap(d, p) < -80 /\ Margin(d, p) < 450
  <2>1. ~(Gap(d, p) > 0)
    BY <1>2, <1>5, <1>begun
  <2>2. ProposePrice(d, p) = Smaller(high, eleven) /\ ProposePrice(d, p) > old
    BY <1>4, <2>1 DEF ProposePrice, Closes
  <2>3. /\ ProposePrice(d, p) \in Nat \ {0}
        /\ ProposePrice(d, p) <= eleven
    <3>. HIDE DEF high, eleven
    <3>. QED BY <1>7, <1>8, <2>2 DEF Smaller
  <2>4. old % 10 \in 5 .. 9 \/ ~BeyondStep(c, d.price)
    <3>. SUFFICES ASSUME old % 10 \notin 5 .. 9 PROVE ~BeyondStep(c, d.price)
      OBVIOUS
    <3>1. 10 * eleven <= 11 * old
      BY <1>7, StepsAreRounded
    <3>. HIDE DEF eleven
    <3>. QED BY <1>6, <1>7, <1>8, <2>2, <2>3, <3>1 DEF BeyondStep
  <2>. QED BY <1>5, <1>6, <2>2, <2>3, <2>4 DEF Fits
<1>. QED BY <1>4, <1>11, <1>begun

-----------------------------------------------------------------------------
(* Procurement.                                                            *)

Need == [product : Products, urgency : Int, quantity : Int]

\* Of what costs or takes the least, the most reliable.
LEMMA LeastThenMost ==
  ASSUME NEW S, IsFiniteSet(S), S # {}, NEW least \in [S -> Nat], NEW most \in [S -> Nat]
  PROVE  \E q \in S : \A r \in S :
           \/ least[q] < least[r]
           \/ least[q] = least[r] /\ most[q] >= most[r]
<1>1. PICK q0 \in S : \A r \in S : least[q0] <= least[r]
  <2>. DEFINE V == {least[q] : q \in S}
  <2>1. V \in SUBSET Nat /\ V # {}
    OBVIOUS
  <2>2. PICK v \in V : \A k \in V : v <= k
    <3>. HIDE DEF V
    <3>. QED BY <2>1, HasALeast
  <2>. QED BY <2>2
<1>. DEFINE T == {q \in S : least[q] = least[q0]}
            W == {most[q] : q \in T}
<1>2. W \in SUBSET Nat /\ W # {}
  OBVIOUS
<1>3. IsFiniteSet(W)
  <2>1. IsFiniteSet(T)
    BY FS_Subset
  <2>2. [q \in T |-> most[q]] \in Surjection(T, W)
    BY DEF Surjection
  <2>. HIDE DEF T, W
  <2>. QED BY <2>1, <2>2, FS_Surjection
<1>4. PICK w \in W : \A k \in W : k <= w
  <2>. HIDE DEF W
  <2>. QED BY <1>2, <1>3, HasAGreatest
<1>5. PICK q \in T : most[q] = w
  OBVIOUS
<1>6. ASSUME NEW r \in S
      PROVE  \/ least[q] < least[r]
             \/ least[q] = least[r] /\ most[q] >= most[r]
  <2>1. least[q0] <= least[r] /\ least[q] = least[q0] /\ least[r] \in Nat /\ least[q] \in Nat
    BY <1>1, <1>5
  <2>2. CASE least[r] = least[q0]
    <3>1. most[r] \in W
      BY <2>2
    <3>. QED BY <1>2, <1>4, <1>5, <2>1, <2>2, <3>1
  <2>. QED BY <2>1, <2>2
<1>. QED BY <1>6

\* A purchase is of one of the quotes, and not under the supplier's minimum.
PurchaseCalls ==
  UNION {{PurchaseCall(p, x[1].supplier, x[2]) :
            x \in {y \in Quotes[p] \X Nat : y[2] >= y[1].minimum}} : p \in Products}

LEMMA PurchasesFollowQuotes ==
  ASSUME NEW need \in Need, Quotes[need.product] # {}
  PROVE  Purchase(need) \in PurchaseCalls
<1>. DEFINE p == need.product
            viable == {q \in Quotes[p] : need.quantity >= q.minimum}
            pool == IF viable # {} THEN viable ELSE Quotes[p]
            chosen == IF need.urgency < 0 THEN Fastest(pool) ELSE Cheapest(pool)
            n == Larger(need.quantity, chosen.minimum)
<1>1. p \in Products /\ need.quantity \in Int
  BY DEF Need
<1>2. /\ IsFiniteSet(Quotes[p])
      /\ Quotes[p] \subseteq [supplier : Suppliers, unit : Nat, lead : Nat, minimum : Nat]
      /\ Reliability \in [Suppliers -> Nat]
  BY <1>1, CommerceAssumption DEF CommerceAssumption
<1>3. pool \in SUBSET Quotes[p] /\ pool # {} /\ IsFiniteSet(pool)
  <2>1. pool \in SUBSET Quotes[p] /\ pool # {}
    OBVIOUS
  <2>. HIDE DEF pool, p
  <2>. QED BY <1>2, <2>1, FS_Subset
<1>. HIDE DEF pool
<1>4. Fastest(pool) \in pool
  <2>. DEFINE least == [q \in pool |-> q.lead]
              most == [q \in pool |-> Reliability[q.supplier]]
  <2>1. least \in [pool -> Nat] /\ most \in [pool -> Nat]
    BY <1>2, <1>3
  <2>. HIDE DEF least, most
  <2>2. PICK q \in pool : \A r \in pool :
           \/ least[q] < least[r]
           \/ least[q] = least[r] /\ most[q] >= most[r]
    BY <1>3, <2>1, LeastThenMost
  <2>. QED BY <2>2 DEF Fastest, least, most
<1>5. Cheapest(pool) \in pool
  <2>. DEFINE least == [q \in pool |-> q.unit]
              most == [q \in pool |-> Reliability[q.supplier]]
  <2>1. least \in [pool -> Nat] /\ most \in [pool -> Nat]
    BY <1>2, <1>3
  <2>. HIDE DEF least, most
  <2>2. PICK q \in pool : \A r \in pool :
           \/ least[q] < least[r]
           \/ least[q] = least[r] /\ most[q] >= most[r]
    BY <1>3, <2>1, LeastThenMost
  <2>. QED BY <2>2 DEF Cheapest, least, most
<1>6. chosen \in Quotes[p]
  BY <1>3, <1>4, <1>5
<1>7. Purchase(need) = PurchaseCall(p, chosen.supplier, n)
  BY DEF Purchase, pool
<1>. HIDE DEF chosen
<1>8. n \in Nat /\ n >= chosen.minimum
  <2>1. chosen.minimum \in Nat
    BY <1>2, <1>6
  <2>. QED BY <1>1, <2>1 DEF Larger
<1>. HIDE DEF n, p
<1>9. <<chosen, n>> \in {y \in Quotes[p] \X Nat : y[2] >= y[1].minimum}
  BY <1>6, <1>8
<1>. QED BY <1>1, <1>7, <1>9 DEF PurchaseCalls

\* What the stock and the demand say of a product are integers.
LEMMA StockIsCounted ==
  ASSUME NEW d, Database(d), NEW p \in Products
  PROVE  /\ SlackTenths(d, p) \in Int
         /\ HorizonUnits(p, d.lead[p] + SafetyDays) - d.onHand[p] \in Int
         /\ CeilDiv(VelocityHundredths(p) * (d.lead[p] + 7), 100) - d.onHand[p] \in Int
<1>1. /\ d.onHand[p] \in Nat /\ d.lead[p] \in Nat /\ Sold[p] \in Nat /\ Forecast[p] \in Nat
  BY CommerceAssumption DEF CommerceAssumption, Database
<1>2. ASSUME NEW a \in Int PROVE CeilDiv(a, 100) \in Int
  BY DEF CeilDiv
<1>3. SlackTenths(d, p) \in Int
  <2>1. 10 * (14 * d.onHand[p] - d.lead[p] * Sold[p]) \in Int
    BY <1>1
  <2>. QED BY <1>1, <2>1, RoundDivIsANumber DEF SlackTenths
<1>4. Forecast[p] * (d.lead[p] + SafetyDays) \in Int
  BY <1>1 DEF SafetyDays
<1>5. VelocityHundredths(p) * (d.lead[p] + 7) \in Int
  <2>1. VelocityHundredths(p) \in Int
    BY <1>1, RoundDivIsANumber DEF VelocityHundredths
  <2>. QED BY <1>1, <2>1
<1>. QED BY <1>1, <1>2, <1>3, <1>4, <1>5 DEF HorizonUnits

LEMMA WorstAreProducts ==
  ASSUME NEW d, Database(d), NEW n \in Nat
  PROVE  Worst(d, n) \in Seq(Products)
<1>. DEFINE U == {p \in Products : AtRisk(d, p)}
            slack == [p \in Products |-> SlackTenths(d, p)]
<1>1. slack \in [Products -> Int] /\ d.onHand \in [Products -> Int]
  BY StockIsCounted DEF Database
<1>2. U \in SUBSET Products /\ StockoutRisks(d) = InOrder(Products, slack, d.onHand)
  BY DEF StockoutRisks
<1>3. Worst(d, n) = AtMost(n, Listed(U, StockoutRisks(d)))
  BY DEF Worst
<1>. HIDE DEF U, slack
<1>4. IsFiniteSet(U) /\ StrictOrder(U, StockoutRisks(d))
  BY <1>1, <1>2, ReportsAreOrdered
<1>5. Listed(U, StockoutRisks(d)) \in Seq(Products)
  <2>1. Listed(U, StockoutRisks(d)) \in Seq(U)
    BY <1>4, ListedHas
  <2>. QED BY <1>2, <2>1
<1>. QED BY <1>3, <1>5, FrontHas

LEMMA NeedsAreNeeds ==
  ASSUME NEW d, Database(d)
  PROVE  Needs(d) \in Seq(Need) /\ OwnNeeds(d) \in Seq(Need)
<1>. DEFINE need(p) == [product |-> p, urgency |-> SlackTenths(d, p),
                  quantity |-> HorizonUnits(p, d.lead[p] + SafetyDays) - d.onHand[p]]
            units(p) == CeilDiv(VelocityHundredths(p) * (d.lead[p] + 7), 100) - d.onHand[p]
            own(p) == [product |-> p, urgency |-> SlackTenths(d, p),
                       quantity |-> Larger(1, units(p))]
            short == {p \in Range(Worst(d, 5)) : need(p).quantity > 0}
            chosen == Among(Worst(d, 5), short)
            worst == Worst(d, 4)
<1>1. \A p \in Products : need(p) \in Need /\ own(p) \in Need
  BY StockIsCounted DEF Need, Larger
<1>2. chosen \in Seq(Products) /\ worst \in Seq(Products)
  <2>1. Worst(d, 5) \in Seq(Products) /\ worst \in Seq(Products)
    BY WorstAreProducts
  <2>. HIDE DEF short
  <2>2. chosen \in Seq(short \cap Products)
    BY <2>1, AmongHas
  <2>. QED BY <2>1, <2>2
<1>3. /\ Needs(d) = [i \in DOMAIN chosen |-> need(chosen[i])]
      /\ OwnNeeds(d) = [i \in DOMAIN worst |-> own(worst[i])]
  BY DEF Needs, OwnNeeds
<1>. HIDE DEF need, own, chosen, worst
<1>4. ASSUME NEW list \in Seq(Products)
      PROVE  /\ [i \in DOMAIN list |-> need(list[i])] \in Seq(Need)
             /\ [i \in DOMAIN list |-> own(list[i])] \in Seq(Need)
  <2>1. /\ Len(list) \in Nat /\ DOMAIN list = 1 .. Len(list)
        /\ \A i \in 1 .. Len(list) : list[i] \in Products
    BY <1>4
  <2>. QED BY <1>1, <2>1
<1>. QED BY <1>2, <1>3, <1>4

LEMMA ProcurementProposes ==
  ASSUME NEW d, Database(d), NEW delegated \in Seq(Need)
  PROVE  ProcurementProposals(delegated, d) \in SUBSET PurchaseCalls
<1>. DEFINE needs == AtMost(4, IF delegated # <<>> THEN delegated ELSE OwnNeeds(d))
<1>1. needs \in Seq(Need)
  <2>1. (IF delegated # <<>> THEN delegated ELSE OwnNeeds(d)) \in Seq(Need)
    BY NeedsAreNeeds
  <2>. QED BY <2>1, FrontHas
<1>2. ProcurementProposals(delegated, d) =
        {Purchase(needs[i]) : i \in {j \in DOMAIN needs : Quotes[needs[j].product] # {}}}
  BY DEF ProcurementProposals
<1>. HIDE DEF needs
<1>3. \A i \in DOMAIN needs : needs[i] \in Need
  BY <1>1
<1>. QED BY <1>2, <1>3, PurchasesFollowQuotes

-----------------------------------------------------------------------------
(* The calls that are made, and what becomes of them.                      *)

PriceCalls == {PriceCall(p, n) : p \in Products, n \in Nat \ {0}}
BudgetCalls == {BudgetCall(x, n) : x \in Campaigns, n \in 0 .. CampaignStep}
PauseCalls == {PauseCall(x) : x \in Campaigns}
ReplyCalls == {ReplyCall(t, e) : t \in Tickets, e \in BOOLEAN}
RefundCalls == {RefundCall(o, n) : o \in Orders, n \in Nat}
ReceiveCalls == {ReceiveCall(p, n) : p \in Products, n \in Nat}

Parkable == BudgetCalls \cup PauseCalls \cup RefundCalls \cup ReceiveCalls \cup PurchaseCalls
Calls == Parkable \cup PriceCalls \cup ReplyCalls

LEMMA PriceCallsSay ==
  ASSUME NEW c \in PriceCalls
  PROVE  /\ c.tool = "update_price" /\ c.agent = "pricing" /\ c.entity \in Products
         /\ c.amount \in Nat \ {0}
BY DEF PriceCalls, PriceCall, Call

LEMMA BudgetCallsSay ==
  ASSUME NEW c \in BudgetCalls
  PROVE  /\ c.tool = "propose_budget_change" /\ c.agent = "marketing"
         /\ c.entity \in Campaigns /\ c.amount \in 0 .. CampaignStep
BY DEF BudgetCalls, BudgetCall, Call

LEMMA PauseCallsSay ==
  ASSUME NEW c \in PauseCalls
  PROVE  c.tool = "pause_campaign" /\ c.agent = "marketing" /\ c.entity \in Campaigns
BY DEF PauseCalls, PauseCall, Call

LEMMA ReplyCallsSay ==
  ASSUME NEW c \in ReplyCalls
  PROVE  c.tool = "reply_ticket" /\ c.agent = "customer" /\ c.entity \in Tickets
<1>1. PICK t \in Tickets, e \in BOOLEAN : c = ReplyCall(t, e)
  BY DEF ReplyCalls
<1>. QED BY <1>1 DEF ReplyCall, Call

LEMMA RefundCallsSay ==
  ASSUME NEW c \in RefundCalls
  PROVE  /\ c.tool = "create_refund" /\ c.agent = "customer" /\ c.entity \in Orders
         /\ c.amount \in Nat
BY DEF RefundCalls, RefundCall, Call

LEMMA ReceiveCallsSay ==
  ASSUME NEW c \in ReceiveCalls
  PROVE  /\ c.tool = "receive_purchase_order" /\ c.agent = "inventory"
         /\ c.entity \in Products /\ c.quantity \in Nat
<1>1. PICK p \in Products, n \in Nat : c = ReceiveCall(p, n)
  BY DEF ReceiveCalls
<1>. QED BY <1>1 DEF ReceiveCall, Call

\* A supplier quotes a product once, so what a purchase costs is what it quotes.
LEMMA PurchaseCallsSay ==
  ASSUME NEW c \in PurchaseCalls
  PROVE  /\ c.tool = "create_purchase_order" /\ c.agent = "procurement" /\ c.quoted
         /\ c.entity \in Products /\ c.quantity \in Nat
         /\ \A q \in Quotes[c.entity] :
              q.supplier = c.supplier => c.amount = c.quantity * q.unit /\ ~(c.quantity < q.minimum)
<1>0. PICK p \in Products : \E x \in Quotes[p] \X Nat :
        x[2] >= x[1].minimum /\ c = PurchaseCall(p, x[1].supplier, x[2])
  BY DEF PurchaseCalls
<1>1. PICK x \in Quotes[p] \X Nat :
        x[2] >= x[1].minimum /\ c = PurchaseCall(p, x[1].supplier, x[2])
  BY <1>0
<1>2. /\ Quotes[p] \subseteq [supplier : Suppliers, unit : Nat, lead : Nat, minimum : Nat]
      /\ \A q, r \in Quotes[p] : q.supplier = r.supplier => q = r
  BY CommerceAssumption DEF CommerceAssumption
<1>3. x[1] \in Quotes[p] /\ x[2] \in Nat /\ x[1].minimum \in Nat
  BY <1>2
<1>4. UnitCost(p, x[1].supplier) = x[1].unit
  <2>1. (CHOOSE q \in Quotes[p] : q.supplier = x[1].supplier) = x[1]
    BY <1>2, <1>3
  <2>. QED BY <2>1 DEF UnitCost
<1>5. /\ c.tool = "create_purchase_order" /\ c.agent = "procurement" /\ c.quoted
      /\ c.entity = p /\ c.quantity = x[2] /\ c.supplier = x[1].supplier
      /\ c.amount = x[2] * x[1].unit
  BY <1>1, <1>4 DEF PurchaseCall, Call
<1>6. \A q \in Quotes[p] : q.supplier = x[1].supplier => q = x[1]
  BY <1>2, <1>3
<1>. QED BY <1>1, <1>3, <1>5, <1>6

\* Whatever is asked for has the permission of who asks, and is denied for its
\* price, or because a purchase or a refund is beyond the ceiling.
LEMMA DenialsAreFew ==
  ASSUME NEW c \in Calls, NEW price, Denied(c, price)
  PROVE  \/ c \in PriceCalls /\ (BelowFloor(c) \/ BeyondStep(c, price))
         \/ c \in PurchaseCalls \cup RefundCalls /\ c.amount > HardCeiling
<1>1. HardCeiling \in Nat /\ CampaignStep \in Nat /\ CampaignStep <= HardCeiling
  BY ReviewsAssumption DEF ReviewsAssumption
<1>2. CASE c \in PriceCalls
  BY <1>1, <1>2, PriceCallsSay DEF Denied, Permitted, Permission, Grants, Impact
<1>3. CASE c \in BudgetCalls
  BY <1>1, <1>3, BudgetCallsSay DEF Denied, Permitted, Permission, Grants, Impact
<1>4. CASE c \in PauseCalls
  BY <1>1, <1>4, PauseCallsSay DEF Denied, Permitted, Permission, Grants, Impact
<1>5. CASE c \in ReplyCalls
  BY <1>1, <1>5, ReplyCallsSay DEF Denied, Permitted, Permission, Grants, Impact
<1>6. CASE c \in RefundCalls
  BY <1>1, <1>6, RefundCallsSay DEF Denied, Permitted, Permission, Grants, Impact
<1>7. CASE c \in ReceiveCalls
  BY <1>1, <1>7, ReceiveCallsSay DEF Denied, Permitted, Permission, Grants, Impact
<1>8. CASE c \in PurchaseCalls
  BY <1>1, <1>8, PurchaseCallsSay DEF Denied, Permitted, Permission, Grants, Impact
<1>. QED BY <1>2, <1>3, <1>4, <1>5, <1>6, <1>7, <1>8 DEF Calls, Parkable

\* A change of price or an answer is denied or made, and never waits for a human.
LEMMA MoneyIsParked ==
  ASSUME NEW c \in Calls, Decision(c, used, db.price) = "REQUIRE_APPROVAL"
  PROVE  c \in Parkable
<1>. SUFFICES ASSUME c \in PriceCalls \cup ReplyCalls PROVE FALSE
  BY DEF Calls
<1>1. PurchaseLimit \in Nat
  BY ReviewsAssumption DEF ReviewsAssumption
<1>2. NeedsHuman(c, used)
  BY DEF Decision
<1>3. /\ Impact(c) = 0 /\ c.agent \in {"pricing", "customer"}
      /\ c.tool \in {"update_price", "reply_ticket"}
  BY PriceCallsSay, ReplyCallsSay DEF Impact
<1>. QED BY <1>1, <1>2, <1>3 DEF NeedsHuman, OverBudget, HeldBack

\* What a call does to the tables, field by field.
LEMMA CallsDo ==
  ASSUME NEW d, Database(d), NEW c
  PROVE  LET e == Execute(d, c)
         IN  /\ DOMAIN e = DOMAIN d
             /\ e.market = d.market /\ e.lead = d.lead /\ e.revenue = d.revenue
             /\ e.price = IF c.tool = "update_price"
                          THEN [d.price EXCEPT ![c.entity] = c.amount] ELSE d.price
             /\ e.onHand = IF c.tool = "receive_purchase_order"
                           THEN [d.onHand EXCEPT ![c.entity] = @ + c.quantity] ELSE d.onHand
             /\ e.budget = IF c.tool = "propose_budget_change"
                           THEN [d.budget EXCEPT ![c.entity] = @ + c.amount] ELSE d.budget
             /\ e.paused = IF c.tool = "pause_campaign"
                           THEN d.paused \cup {c.entity} ELSE d.paused
             /\ e.ticket = IF c.tool = "reply_ticket"
                           THEN [d.ticket EXCEPT ![c.entity] =
                                   IF c.escalate THEN "ESCALATED" ELSE "ANSWERED"]
                           ELSE d.ticket
             /\ e.refunds = IF c.tool = "create_refund"
                            THEN Append(d.refunds,
                                   [id |-> RefundId(c), order |-> c.entity, amount |-> c.amount])
                            ELSE d.refunds
<1>1. DOMAIN d = {"price", "market", "onHand", "lead", "purchases", "budget", "revenue",
                  "paused", "ticket", "refunds"}
  BY DEF Database
<1>2. CASE c.tool = "update_price"
  BY <1>1, <1>2 DEF Execute, UpdateProductPrice
<1>3. CASE c.tool = "propose_budget_change"
  BY <1>1, <1>3 DEF Execute, UpdateCampaignBudget
<1>4. CASE c.tool = "pause_campaign"
  BY <1>1, <1>4 DEF Execute, SetCampaignStatus
<1>5. CASE c.tool = "reply_ticket"
  BY <1>1, <1>5 DEF Execute, AnswerTicket
<1>6. CASE c.tool = "create_refund"
  BY <1>1, <1>6 DEF Execute, RecordRefund
<1>7. CASE c.tool = "create_purchase_order"
  BY <1>1, <1>7 DEF Execute, CreatePurchaseOrder
<1>8. CASE c.tool = "receive_purchase_order"
  BY <1>1, <1>8 DEF Execute, AdjustStock
<1>9. CASE c.tool \notin {"update_price", "propose_budget_change", "pause_campaign",
                         "reply_ticket", "create_refund", "create_purchase_order",
                         "receive_purchase_order"}
  BY <1>1, <1>9 DEF Execute
<1>. QED BY <1>2, <1>3, <1>4, <1>5, <1>6, <1>7, <1>8, <1>9

\* A call leaves every column what it is.
LEMMA CallsKeepColumns ==
  ASSUME NEW d, Database(d), NEW c \in Calls
  PROVE  Database(Execute(d, c))
<1>. DEFINE e == Execute(d, c)
<1>0. CampaignStep \in Nat
  BY ReviewsAssumption DEF ReviewsAssumption
<1>1. /\ DOMAIN e = DOMAIN d /\ e.market = d.market /\ e.lead = d.lead
      /\ e.revenue = d.revenue
      /\ e.price = IF c.tool = "update_price"
                          THEN [d.price EXCEPT ![c.entity] = c.amount] ELSE d.price
      /\ e.onHand = IF c.tool = "receive_purchase_order"
                           THEN [d.onHand EXCEPT ![c.entity] = @ + c.quantity] ELSE d.onHand
      /\ e.budget = IF c.tool = "propose_budget_change"
                           THEN [d.budget EXCEPT ![c.entity] = @ + c.amount] ELSE d.budget
      /\ e.paused = IF c.tool = "pause_campaign"
                           THEN d.paused \cup {c.entity} ELSE d.paused
      /\ e.ticket = IF c.tool = "reply_ticket"
                    THEN [d.ticket EXCEPT ![c.entity] =
                            IF c.escalate THEN "ESCALATED" ELSE "ANSWERED"]
                    ELSE d.ticket
  BY CallsDo
<1>. SUFFICES Database(e)
  OBVIOUS
<1>. HIDE DEF e
<1>2. CASE c \in PriceCalls
  BY <1>1, <1>2, PriceCallsSay DEF Database
<1>3. CASE c \in BudgetCalls
  BY <1>0, <1>1, <1>3, BudgetCallsSay DEF Database
<1>4. CASE c \in PauseCalls
  BY <1>1, <1>4, PauseCallsSay DEF Database
<1>5. CASE c \in ReplyCalls
  BY <1>1, <1>5, ReplyCallsSay DEF Database
<1>6. CASE c \in RefundCalls
  BY <1>1, <1>6, RefundCallsSay DEF Database
<1>7. CASE c \in ReceiveCalls
  BY <1>1, <1>7, ReceiveCallsSay DEF Database
<1>8. CASE c \in PurchaseCalls
  BY <1>1, <1>8, PurchaseCallsSay DEF Database
<1>. QED BY <1>2, <1>3, <1>4, <1>5, <1>6, <1>7, <1>8 DEF Calls, Parkable

\* What is kept of a refusal.
IsRefusal(f, c, by) ==
  /\ by # "client"
  /\ f.call = c
  /\ \/ f.status = "DENIED" /\ Denied(c, db.price)
     \/ f.status = "FAILED" /\ Throws(db, c)
  /\ c.tool = "update_price" =>
       f.seen = run[by].price[c.entity] /\ f.met = db.price[c.entity]

\* A call changes the tables or leaves them alone, and is parked, refused or made.
LEMMA CallsGoThrough ==
  ASSUME NEW c \in Calls, NEW by, CallTool(c, by), Database(db)
  PROVE  /\ db' = db \/ (~Throws(db, c) /\ db' = Execute(db, c))
         /\ requests' \subseteq requests \cup ({c} \cap Parkable)
         /\ \/ refusals' = refusals
            \/ \E f : refusals' = refusals \cup {f} /\ IsRefusal(f, c, by) /\ db' = db
<1>. DEFINE decision == Decision(c, used, db.price)
            rec(status) ==
              [call |-> c, status |-> status,
               seen |-> IF c.tool = "update_price" THEN run[by].price[c.entity] ELSE 0,
               met |-> IF c.tool = "update_price" THEN db.price[c.entity] ELSE 0]
<1>1. ASSUME NEW status, Refuse(c, by, status)
      PROVE  refusals' = refusals \/ (by # "client" /\ refusals' = refusals \cup {rec(status)})
  BY <1>1 DEF Refuse
<1>2. \A status : /\ rec(status).call = c /\ rec(status).status = status
                  /\ c.tool = "update_price" =>
                       /\ rec(status).seen = run[by].price[c.entity]
                       /\ rec(status).met = db.price[c.entity]
  OBVIOUS
<1>. HIDE DEF rec
<1>3. CASE decision = "REQUIRE_APPROVAL" /\ by # "operator"
  <2>1. Park(c) /\ c \in Parkable
    BY <1>3, MoneyIsParked DEF CallTool
  <2>. QED BY <2>1 DEF Park
<1>4. CASE ~(decision = "REQUIRE_APPROVAL" /\ by # "operator")
  <2>1. /\ requests' = IF by = "operator" THEN requests \ {c} ELSE requests
        /\ IF decision = "DENY"
           THEN Refuse(c, by, "DENIED") /\ UNCHANGED <<db, used>>
           ELSE Perform(c, by)
    BY <1>4 DEF CallTool
  <2>2. CASE decision = "DENY"
    <3>1. Denied(c, db.price)
      BY <2>2 DEF Decision
    <3>. QED BY <1>1, <1>2, <2>1, <2>2, <3>1 DEF IsRefusal
  <2>3. CASE decision # "DENY" /\ Throws(db, c)
    BY <1>1, <1>2, <2>1, <2>3 DEF Perform, IsRefusal
  <2>4. CASE decision # "DENY" /\ ~Throws(db, c)
    BY <2>1, <2>4 DEF Perform
  <2>. QED BY <2>2, <2>3, <2>4
<1>. QED BY <1>3, <1>4

-----------------------------------------------------------------------------
(* The tables, the reviews and the requests.                               *)

ReviewRecord ==
  [agent : Agents \cup {"none"}, needs : Seq(Need), replies : Seq(ReplyCalls),
   returns : Seq(Tickets), proposals : SUBSET Calls,
   price : {<<>>} \cup [Products -> Nat \ {0}]]

Shape ==
  /\ Database(db)
  /\ run \in [Runs -> ReviewRecord]
  /\ requests \in SUBSET Parkable

\* What a review has still to call.
ToCall(review) == Range(review.replies) \cup review.proposals

Handed(r) == ToCall(run[r])

LEMMA IdleIsAReview ==
  /\ Idle \in ReviewRecord
  /\ Idle.replies = <<>> /\ Idle.proposals = {} /\ Idle.needs = <<>> /\ Idle.returns = <<>>
<1>1. /\ <<>> \in Seq(Need) /\ <<>> \in Seq(ReplyCalls) /\ <<>> \in Seq(Tickets)
      /\ <<>> \in {<<>>} \cup [Products -> Nat \ {0}]
      /\ {} \in SUBSET Calls /\ "none" \in Agents \cup {"none"}
  OBVIOUS
<1>. QED BY <1>1 DEF Idle, ReviewRecord

\* What is left of a review.
LEMMA RemainsOfReviews ==
  ASSUME Shape, NEW r \in Runs, NEW replies \in Seq(ReplyCalls), NEW proposals \in SUBSET Calls,
         Remaining(r, replies, proposals),
         Range(replies) \cup proposals \subseteq Handed(r)
  PROVE  \E review \in ReviewRecord :
           /\ run' = [run EXCEPT ![r] = review]
           /\ ToCall(review) \subseteq Handed(r) /\ review.returns = run[r].returns
           /\ review.price = run[r].price \/ ToCall(review) = {}
<1>0. run[r] \in ReviewRecord
  BY DEF Shape
<1>. DEFINE over == replies = <<>> /\ run[r].returns = <<>> /\ proposals = {}
<1>1. CASE over
  <2>1. run' = [run EXCEPT ![r] = Idle]
    BY <1>1 DEF Remaining
  <2>2. ToCall(Idle) = {}
    BY IdleIsAReview DEF Range, ToCall
  <2>. QED BY <1>1, <2>1, <2>2, IdleIsAReview
<1>2. CASE ~over
  <2>. DEFINE review == [run[r] EXCEPT !.replies = replies, !.proposals = proposals]
  <2>1. run' = [run EXCEPT ![r] = review]
    BY <1>2 DEF Remaining, Shape
  <2>2. /\ review \in ReviewRecord /\ review.replies = replies /\ review.proposals = proposals
        /\ review.price = run[r].price /\ review.returns = run[r].returns
    BY <1>0 DEF ReviewRecord
  <2>. HIDE DEF review
  <2>. QED BY <2>1, <2>2 DEF ToCall
<1>. QED BY <1>1, <1>2

\* Where a call that is made comes from, and what is left of its review.
Comes(c, by) ==
  \/ c \in requests /\ by = "operator"
  \/ by \in Runs /\ c \in Handed(by)
  \/ /\ by = "client" /\ c \in PriceCalls \cup ReceiveCalls \cup RefundCalls \cup ReplyCalls
     /\ \A t \in Tickets : db.ticket[t] = "OPEN" /\ db'.ticket[t] # "OPEN" => t \in dropped'

Leaves ==
  \/ run' = run
  \/ \E r \in Runs, review \in ReviewRecord :
       /\ run' = [run EXCEPT ![r] = review]
       /\ ToCall(review) \subseteq Handed(r) /\ review.returns = run[r].returns
       /\ review.price = run[r].price \/ ToCall(review) = {}

Calling(c, by) ==
  /\ CallTool(c, by) /\ Comes(c, by) /\ Leaves
  /\ UNCHANGED <<collapsed, passedOver, asked>> /\ dropped \subseteq dropped'

LEMMA CallsAreHanded ==
  ASSUME Shape,
         \/ \E r \in Runs : Reply(r) \/ Attempt(r)
         \/ \E c \in requests : Approve(c)
         \/ CallAsBoundAgent
  PROVE  \E c \in Calls : \E by : Calling(c, by)
<1>0. requests \subseteq Calls
  BY DEF Shape, Calls
<1>1. ASSUME NEW r \in Runs
      PROVE  /\ run[r].replies \in Seq(ReplyCalls) /\ run[r].proposals \in SUBSET Calls
             /\ ReplyCalls \subseteq Calls
  BY DEF Shape, ReviewRecord, Calls, Parkable
<1>2. ASSUME NEW r \in Runs, Reply(r)
      PROVE  \E c \in Calls : \E by : Calling(c, by)
  <2>. DEFINE c == Head(run[r].replies)
              replies == Tail(run[r].replies)
  <2>1. /\ run[r].replies # <<>> /\ CallTool(c, r)
        /\ Remaining(r, replies, run[r].proposals)
        /\ UNCHANGED <<collapsed, passedOver, asked, dropped>>
    BY <1>2 DEF Reply
  <2>2. PICK list \in Seq(ReplyCalls) : list = run[r].replies
    BY <1>1
  <2>3. /\ Head(list) \in ReplyCalls /\ Tail(list) \in Seq(ReplyCalls)
        /\ Head(list) \in Range(list) /\ Range(Tail(list)) \subseteq Range(list)
    <3>1. /\ Len(list) \in Nat /\ Len(list) # 0 /\ DOMAIN list = 1 .. Len(list)
          /\ Tail(list) \in Seq(ReplyCalls) /\ DOMAIN Tail(list) = 1 .. Len(list) - 1
          /\ \A i \in 1 .. Len(list) - 1 : Tail(list)[i] = list[i + 1]
          /\ Head(list) = list[1]
      BY <2>1, <2>2
    <3>2. \A i \in 1 .. Len(list) - 1 : i + 1 \in 1 .. Len(list)
      BY <3>1
    <3>3. 1 \in 1 .. Len(list)
      BY <3>1
    <3>4. list[1] \in ReplyCalls
      BY <3>1, <3>3
    <3>. QED BY <3>1, <3>2, <3>3, <3>4 DEF Range
  <2>4. /\ c \in Calls /\ c \in Handed(r)
        /\ replies \in Seq(ReplyCalls) /\ Range(replies) \cup run[r].proposals \subseteq Handed(r)
    BY <1>1, <2>2, <2>3 DEF Handed, ToCall
  <2>5. Leaves
    <3>. HIDE DEF replies
    <3>. QED BY <1>1, <2>1, <2>4, RemainsOfReviews DEF Leaves
  <2>6. Comes(c, r)
    BY <2>4 DEF Comes
  <2>. HIDE DEF c
  <2>. QED BY <2>1, <2>4, <2>5, <2>6 DEF Calling
<1>3. ASSUME NEW r \in Runs, Attempt(r)
      PROVE  \E c \in Calls : \E by : Calling(c, by)
  <2>1. PICK c \in run[r].proposals :
          CallTool(c, r) /\ Remaining(r, <<>>, run[r].proposals \ {c})
    BY <1>3 DEF Attempt
  <2>2. UNCHANGED <<collapsed, passedOver, asked, dropped>>
    BY <1>3 DEF Attempt
  <2>3. c \in Calls /\ c \in Handed(r)
    BY <1>1, <2>1 DEF Handed, ToCall
  <2>4. /\ <<>> \in Seq(ReplyCalls) /\ run[r].proposals \ {c} \in SUBSET Calls
        /\ Range(<<>>) \cup (run[r].proposals \ {c}) \subseteq Handed(r)
    <3>1. Range(<<>>) = {}
      BY DEF Range
    <3>. QED BY <1>1, <3>1 DEF Handed, ToCall
  <2>5. Leaves
    BY <1>1, <2>1, <2>4, RemainsOfReviews DEF Leaves
  <2>6. Comes(c, r)
    BY <2>3 DEF Comes
  <2>. QED BY <2>1, <2>2, <2>3, <2>5, <2>6 DEF Calling
<1>4. ASSUME NEW c \in requests, Approve(c)
      PROVE  \E k \in Calls : \E by : Calling(k, by)
  <2>1. /\ CallTool(c, "operator") /\ run' = run
        /\ UNCHANGED <<collapsed, passedOver, asked, dropped>>
    BY <1>4 DEF Approve
  <2>2. Leaves /\ Comes(c, "operator")
    BY <2>1 DEF Comes, Leaves
  <2>. QED BY <1>0, <2>1, <2>2 DEF Calling
<1>5. ASSUME CallAsBoundAgent
      PROVE  \E c \in Calls : \E by : Calling(c, by)
  <2>1. PICK c \in ClientCalls : CallTool(c, "client")
    BY <1>5 DEF CallAsBoundAgent
  <2>2. /\ run' = run /\ UNCHANGED <<collapsed, passedOver, asked>>
        /\ dropped \subseteq dropped'
        /\ \A t \in Tickets : db.ticket[t] = "OPEN" /\ db'.ticket[t] # "OPEN" => t \in dropped'
    BY <1>5 DEF CallAsBoundAgent
  <2>3. /\ ClientPrices \subseteq Nat \ {0} /\ Arrivals \subseteq Nat \ {0}
        /\ ClientRefunds \subseteq Nat \ {0} /\ ClientReplies \subseteq Tickets
    BY ReviewsAssumption DEF ReviewsAssumption
  <2>4. c \in PriceCalls \cup ReceiveCalls \cup RefundCalls \cup ReplyCalls
    BY <2>3 DEF ClientCalls, PriceCalls, ReceiveCalls, RefundCalls, ReplyCalls
  <2>5. c \in Calls
    BY <2>4 DEF Calls, Parkable
  <2>6. Leaves /\ Comes(c, "client")
    BY <2>2, <2>4 DEF Comes, Leaves
  <2>. QED BY <2>1, <2>2, <2>5, <2>6 DEF Calling
<1>. QED BY <1>2, <1>3, <1>4, <1>5

\* An answered ticket that leaves a run has been asked for, gone past or dropped.
Accounted(r, review) ==
  /\ asked \subseteq asked' /\ passedOver \subseteq passedOver' /\ dropped \subseteq dropped'
  /\ \A t \in Range(run[r].returns) :
       \/ db.ticket[t] = "OPEN" \/ OrderOf[t] = None
       \/ t \in Range(review.returns)
       \/ OrderOf[t] \in asked' \/ t \in passedOver' \cup dropped'

\* What a review that begins, goes on or ends has to call.
Begins(r, review) ==
  /\ run' = [run EXCEPT ![r] = review]
  /\ UNCHANGED <<db, requests, refusals, collapsed>>
  /\ Accounted(r, review)
  /\ \/ ToCall(review) = {}
     \/ /\ ToCall(review) \subseteq Handed(r) \cup PurchaseCalls
        /\ \/ review.price = run[r].price /\ review.returns = run[r].returns
           \/ ToCall(review) \subseteq PurchaseCalls
     \/ /\ ToCall(review) \subseteq PriceCalls /\ review.price = db.price
        /\ \A c \in ToCall(review) : Fits(c, db.price)
     \/ ToCall(review) \subseteq MarketingProposals(db)
     \/ ToCall(review) \subseteq RefundCalls
     \/ /\ ToCall(review) \subseteq {ReplyCall(t, e) : t \in Open(db), e \in BOOLEAN}
        /\ Refundables(db) \subseteq Range(review.returns)

\* A run that was idle has nothing to account for.
LEMMA NewRunsAccount ==
  ASSUME NEW r, run[r] = Idle, UNCHANGED <<asked, passedOver, dropped>>, NEW review
  PROVE  Accounted(r, review)
<1>1. Range(run[r].returns) = {}
  BY IdleIsAReview DEF Range
<1>. QED BY <1>1 DEF Accounted

LEMMA NewReviews ==
  ASSUME NEW a \in Agents, NEW S \in SUBSET Calls
  PROVE  /\ Review(a, S) \in ReviewRecord
         /\ Review(a, S).replies = <<>> /\ Review(a, S).proposals = S
BY IdleIsAReview DEF Review, ReviewRecord

LEMMA ReviewsBegin ==
  ASSUME Shape, NEW r \in Runs,
         \/ InventoryRun(r) \/ ProcurementRun(r) \/ ProcurementAlone(r) \/ PricingRun(r)
         \/ MarketingRun(r) \/ CustomerRun(r) \/ ProposeRefunds(r) \/ ReviewFails(r)
         \/ Conclude(r)
  PROVE  \E review \in ReviewRecord : Begins(r, review)
<1>0. /\ Database(db) /\ run \in [Runs -> ReviewRecord] /\ run[r] \in ReviewRecord
      /\ {"inventory", "procurement", "pricing", "marketing", "customer"} \subseteq Agents
  BY DEF Shape, Agents
<1>1. /\ Idle \in ReviewRecord /\ ToCall(Idle) = {} /\ Range(<<>>) = {}
      /\ <<>> \in Seq(Need) /\ <<>> \in Seq(ReplyCalls)
  BY IdleIsAReview DEF Range, ToCall
<1>2. ASSUME NEW a \in Agents, NEW S \in SUBSET Calls
      PROVE  Review(a, S) \in ReviewRecord /\ ToCall(Review(a, S)) = S
  BY <1>1, NewReviews DEF ReviewRecord, ToCall
<1>begun. ASSUME NEW d, NEW review, Start(r, d, review)
          PROVE  /\ run' = [run EXCEPT ![r] = review]
                 /\ UNCHANGED <<db, requests, refusals, collapsed>>
                 /\ Accounted(r, review)
  <2>1. run[r] = Idle /\ UNCHANGED <<asked, passedOver, dropped>>
    BY <1>begun DEF Start
  <2>. QED BY <1>begun, <2>1, NewRunsAccount DEF Start
<1>3. CASE InventoryRun(r)
  <2>. DEFINE review == [Review("inventory", {}) EXCEPT !.needs = Needs(db)]
  <2>1. Start(r, "supply", review)
    BY <1>3 DEF InventoryRun
  <2>2. Needs(db) \in Seq(Need)
    BY <1>0, NeedsAreNeeds
  <2>3. review \in ReviewRecord /\ ToCall(review) = {}
    <3>1. {} \in SUBSET Calls
      OBVIOUS
    <3>2. PICK base \in ReviewRecord :
            base = Review("inventory", {}) /\ base.replies = <<>> /\ base.proposals = {}
      BY <1>0, <3>1, NewReviews
    <3>3. /\ [base EXCEPT !.needs = Needs(db)] \in ReviewRecord
          /\ [base EXCEPT !.needs = Needs(db)].replies = <<>>
          /\ [base EXCEPT !.needs = Needs(db)].proposals = {}
      BY <2>2, <3>2 DEF ReviewRecord
    <3>. QED BY <1>1, <3>2, <3>3 DEF ToCall
  <2>. HIDE DEF review
  <2>4. Begins(r, review)
    BY <1>begun, <2>1, <2>3 DEF Begins
  <2>. QED BY <2>3, <2>4
<1>4. CASE ProcurementRun(r)
  <2>. DEFINE S == ProcurementProposals(run[r].needs, db)
              review == [run[r] EXCEPT !.agent = "procurement", !.needs = <<>>, !.proposals = S]
  <2>1. run[r].needs \in Seq(Need)
    BY <1>0 DEF ReviewRecord
  <2>2. S \in SUBSET PurchaseCalls /\ S \in SUBSET Calls
    BY <1>0, <2>1, ProcurementProposes DEF Calls, Parkable
  <2>. HIDE DEF S
  <2>3. PICK base \in ReviewRecord : base = run[r]
    BY <1>0
  <2>. DEFINE next == [base EXCEPT !.agent = "procurement", !.needs = <<>>, !.proposals = S]
  <2>4. /\ next \in ReviewRecord /\ next.replies = base.replies /\ next.proposals = S
        /\ next.price = base.price /\ next.returns = base.returns
    BY <1>0, <1>1, <2>2, <2>3 DEF ReviewRecord
  <2>5. review \in ReviewRecord /\ ToCall(review) \subseteq Handed(r) \cup PurchaseCalls
        /\ review.price = run[r].price /\ review.returns = run[r].returns
    BY <2>2, <2>3, <2>4 DEF ToCall, Handed
  <2>6. run' = [run EXCEPT ![r] = review]
    BY <1>0, <1>4 DEF ProcurementRun, S
  <2>7. UNCHANGED <<db, requests, refusals, collapsed, passedOver, asked, dropped>>
    BY <1>4 DEF ProcurementRun, history
  <2>. HIDE DEF review
  <2>8. Begins(r, review)
    BY <2>5, <2>6, <2>7 DEF Begins, Accounted
  <2>. QED BY <2>5, <2>8
<1>5. CASE ProcurementAlone(r)
  <2>. DEFINE S == ProcurementProposals(<<>>, db)
  <2>1. S \in SUBSET PurchaseCalls /\ S \in SUBSET Calls
    BY <1>0, <1>1, ProcurementProposes DEF Calls, Parkable
  <2>2. Start(r, "supply", Review("procurement", S))
    BY <1>5 DEF ProcurementAlone
  <2>. HIDE DEF S
  <2>3. /\ Review("procurement", S) \in ReviewRecord
        /\ ToCall(Review("procurement", S)) = S
    BY <1>0, <1>2, <2>1
  <2>4. Begins(r, Review("procurement", S))
    BY <1>begun, <2>1, <2>2, <2>3 DEF Begins
  <2>. QED BY <2>3, <2>4
<1>6. CASE PricingRun(r)
  <2>1. PICK S \in PricingProposals(db) :
          Start(r, "prices", [Review("pricing", S) EXCEPT !.price = db.price])
    BY <1>6 DEF PricingRun
  <2>2. \A c \in S : c \in PriceCalls /\ Fits(c, db.price)
    <3>1. \A c \in S : \E p \in PriceCandidates(db) : c = PriceCall(p, ProposePrice(db, p))
      BY DEF PricingProposals
    <3>. QED BY <1>0, <3>1, PricesFit DEF PriceCalls
  <2>. DEFINE review == [Review("pricing", S) EXCEPT !.price = db.price]
  <2>3. S \in SUBSET Calls
    BY <2>2 DEF Calls
  <2>4. review \in ReviewRecord /\ ToCall(review) = S /\ review.price = db.price
    <3>1. db.price \in [Products -> Nat \ {0}]
      BY <1>0 DEF Database
    <3>2. PICK base \in ReviewRecord :
            base = Review("pricing", S) /\ base.replies = <<>> /\ base.proposals = S
      BY <1>0, <2>3, NewReviews
    <3>3. /\ [base EXCEPT !.price = db.price] \in ReviewRecord
          /\ [base EXCEPT !.price = db.price].replies = <<>>
          /\ [base EXCEPT !.price = db.price].proposals = S
          /\ [base EXCEPT !.price = db.price].price = db.price
      BY <3>1, <3>2 DEF ReviewRecord
    <3>. QED BY <1>1, <3>2, <3>3 DEF ToCall
  <2>6. Start(r, "prices", review)
    BY <2>1
  <2>. HIDE DEF review
  <2>7. Begins(r, review)
    BY <1>begun, <2>2, <2>4, <2>6 DEF Begins
  <2>. QED BY <2>4, <2>7
<1>7. CASE MarketingRun(r)
  <2>. DEFINE S == MarketingProposals(db)
  <2>1. \A c \in S : c \in Calls
    <3>. SUFFICES ASSUME NEW c \in S PROVE c \in Calls
      OBVIOUS
    <3>1. /\ Running(db, "WASTING") \in SUBSET Campaigns
          /\ Running(db, "HIGH_PERFORMER") \in SUBSET Campaigns
      BY DEF Running
    <3>2. \/ \E x \in Campaigns : c = PauseCall(x)
          \/ \E x \in Campaigns : \E n \in Nat : n <= CampaignStep /\ c = BudgetCall(x, n)
      BY <1>0, <3>1, MarketingProposes
    <3>3. CampaignStep \in Nat
      BY ReviewsAssumption DEF ReviewsAssumption
    <3>. HIDE DEF S
    <3>. QED BY <3>2, <3>3 DEF Calls, Parkable, PauseCalls, BudgetCalls
  <2>2. Start(r, "campaigns", Review("marketing", S))
    BY <1>7 DEF MarketingRun
  <2>3. S \in SUBSET Calls /\ S \subseteq MarketingProposals(db)
    BY <2>1
  <2>. HIDE DEF S
  <2>4. Review("marketing", S) \in ReviewRecord /\ ToCall(Review("marketing", S)) = S
    BY <1>0, <1>2, <2>3
  <2>5. Begins(r, Review("marketing", S))
    BY <1>begun, <2>2, <2>3, <2>4 DEF Begins
  <2>. QED BY <2>4, <2>5
<1>8. CASE CustomerRun(r)
  <2>. DEFINE T == {ReplyCall(t, e) : t \in Open(db), e \in BOOLEAN}
              review == [Review("customer", {}) EXCEPT !.replies = Replies(db),
                                                       !.returns = Refundable(db)]
  <2>1. Replies(db) \in Seq(T) /\ T \subseteq ReplyCalls
    <3>1. Replies(db) \in Seq(T)
      BY RepliesAreAboutOpenTickets
    <3>2. Open(db) \subseteq Tickets
      BY DEF Open
    <3>. QED BY <3>1, <3>2 DEF ReplyCalls
  <2>2. Start(r, "service", review)
    BY <1>8 DEF CustomerRun
  <2>. HIDE DEF T
  <2>3. Replies(db) \in Seq(ReplyCalls) /\ Range(Replies(db)) \subseteq T
    BY <2>1 DEF Range
  <2>4. /\ review \in ReviewRecord /\ review.replies = Replies(db)
        /\ review.returns = Refundable(db) /\ review.proposals = {}
    <3>1. {} \in SUBSET Calls
      OBVIOUS
    <3>2. PICK base \in ReviewRecord : base = Review("customer", {}) /\ base.proposals = {}
      BY <1>0, <3>1, NewReviews
    <3>. DEFINE next == [base EXCEPT !.replies = Replies(db), !.returns = Refundable(db)]
    <3>3. /\ next \in ReviewRecord /\ next.replies = Replies(db)
          /\ next.returns = Refundable(db) /\ next.proposals = {}
      BY <2>3, <3>2, RefundableHas DEF ReviewRecord
    <3>. QED BY <3>2, <3>3
  <2>. HIDE DEF review
  <2>5. ToCall(review) \subseteq T /\ Refundables(db) \subseteq Range(review.returns)
    BY <2>3, <2>4, RefundableHas DEF ToCall
  <2>6. Begins(r, review)
    BY <1>begun, <2>2, <2>5 DEF Begins, T
  <2>. QED BY <2>4, <2>6
<1>9. CASE ProposeRefunds(r)
  <2>. DEFINE returns == run[r].returns
              S == RefundsFor(returns)
              review == [run[r] EXCEPT !.returns = <<>>, !.proposals = S]
  <2>1. /\ run[r].replies = <<>> /\ run' = [run EXCEPT ![r] = review]
        /\ asked' = asked \cup {c.entity : c \in S}
        /\ passedOver' = passedOver \cup {returns[i] : i \in {j \in DOMAIN returns : j > 2}}
        /\ UNCHANGED <<db, requests, refusals, collapsed, dropped>>
    BY <1>0, <1>9 DEF ProposeRefunds
  <2>2. returns \in Seq(Tickets)
    BY <1>0 DEF ReviewRecord
  <2>3. S \subseteq RefundCalls /\ S \in SUBSET Calls
    <3>1. \A o \in Orders : OrderTotal[o] \in Nat
      BY CommerceAssumption DEF CommerceAssumption
    <3>2. \A c \in S : c \in RefundCalls
      BY <2>2, <3>1, RefundsAreOfOrders DEF RefundCalls
    <3>. QED BY <3>2 DEF Calls, Parkable
  <2>4. \A t \in Range(returns) : \/ OrderOf[t] = None
                                  \/ OrderOf[t] \in asked' \/ t \in passedOver'
    <3>. SUFFICES ASSUME NEW t \in Range(returns), OrderOf[t] # None
                  PROVE  OrderOf[t] \in asked' \/ t \in passedOver'
      OBVIOUS
    <3>1. CASE RefundCall(OrderOf[t], OrderTotal[OrderOf[t]]) \in S
      <4>1. RefundCall(OrderOf[t], OrderTotal[OrderOf[t]]).entity = OrderOf[t]
        BY DEF RefundCall, Call
      <4>. HIDE DEF S
      <4>. QED BY <2>1, <3>1, <4>1
    <3>2. CASE \E j \in DOMAIN returns : j > 2 /\ returns[j] = t
      BY <2>1, <3>2
    <3>. HIDE DEF returns
    <3>. QED BY <2>2, <3>1, <3>2, ReturnsAreSeen
  <2>. HIDE DEF S, returns
  <2>5. PICK base \in ReviewRecord : base = run[r]
    BY <1>0
  <2>. DEFINE next == [base EXCEPT !.returns = <<>>, !.proposals = S]
  <2>6. /\ next \in ReviewRecord /\ next.replies = base.replies /\ next.proposals = S
    <3>1. <<>> \in Seq(Tickets)
      OBVIOUS
    <3>. QED BY <2>3, <2>5, <3>1 DEF ReviewRecord
  <2>7. review \in ReviewRecord /\ ToCall(review) = S
    BY <1>1, <2>1, <2>5, <2>6 DEF ToCall
  <2>. HIDE DEF review
  <2>8. Accounted(r, review)
    BY <2>1, <2>4 DEF Accounted, returns
  <2>9. Begins(r, review)
    BY <2>1, <2>3, <2>7, <2>8 DEF Begins
  <2>. QED BY <2>7, <2>9
<1>10. CASE ReviewFails(r)
  <2>1. /\ run' = [run EXCEPT ![r] = Idle]
        /\ dropped' = dropped \cup {t \in Range(run[r].returns) : db.ticket[t] # "OPEN"}
        /\ UNCHANGED <<db, requests, refusals, collapsed, passedOver, asked>>
    BY <1>10 DEF ReviewFails
  <2>2. Accounted(r, Idle)
    BY <2>1 DEF Accounted
  <2>3. Begins(r, Idle)
    BY <1>1, <2>1, <2>2 DEF Begins
  <2>. QED BY <1>1, <2>3
<1>11. CASE Conclude(r)
  <2>1. /\ run' = [run EXCEPT ![r] = Idle] /\ run[r].returns = <<>>
        /\ UNCHANGED <<db, requests, refusals, collapsed, passedOver, asked, dropped>>
    BY <1>11 DEF Conclude, history
  <2>2. Accounted(r, Idle)
    BY <1>1, <2>1 DEF Accounted
  <2>3. Begins(r, Idle)
    BY <1>1, <2>1, <2>2 DEF Begins
  <2>. QED BY <1>1, <2>3
<1>. QED BY <1>3, <1>4, <1>5, <1>6, <1>7, <1>8, <1>9, <1>10, <1>11

\* A step is one of a review that begins, goes on or ends, a call, a scenario,
\* or takes nothing but a request away.
Moves ==
  \/ \E r \in Runs, review \in ReviewRecord : Begins(r, review)
  \/ \E c \in Calls : \E by : Calling(c, by)
  \/ /\ requests' \subseteq requests
     /\ UNCHANGED <<db, run, refusals, collapsed, passedOver, asked, dropped>>
  \/ Stockout \/ SupplierDelay \/ CompetitorPrice \/ CampaignFailure \/ ReturnSurge

LEMMA StepsAreMoves ==
  ASSUME Shape, [Next]_reviewsVars
  PROVE  Moves
<1>1. ASSUME NEW r \in Runs,
             \/ InventoryRun(r) \/ ProcurementRun(r) \/ ProcurementAlone(r) \/ PricingRun(r)
             \/ MarketingRun(r) \/ CustomerRun(r) \/ ProposeRefunds(r) \/ ReviewFails(r)
             \/ Conclude(r)
      PROVE  Moves
  BY <1>1, ReviewsBegin DEF Moves
<1>2. ASSUME \/ \E r \in Runs : Reply(r) \/ Attempt(r)
             \/ \E c \in requests : Approve(c)
             \/ CallAsBoundAgent
      PROVE  Moves
  BY <1>2, CallsAreHanded DEF Moves
<1>3. ASSUME NEW c \in requests, Reject(c)
      PROVE  Moves
  BY <1>3 DEF Moves, Reject, history
<1>4. CASE UNCHANGED reviewsVars
  BY <1>4 DEF Moves, reviewsVars, history
<1>5. CASE Stockout \/ SupplierDelay \/ CompetitorPrice \/ CampaignFailure \/ ReturnSurge
  BY <1>5 DEF Moves
<1>. QED BY <1>1, <1>2, <1>3, <1>4, <1>5 DEF Next

\* What a scenario changes, of what is reasoned about below.
Happens ==
  /\ UNCHANGED <<run, requests, refusals, passedOver, asked, dropped>>
  /\ Database(db')
  /\ db'.price = db.price /\ db'.budget = db.budget /\ db'.paused = db.paused
  /\ db'.refunds = db.refunds
  /\ \/ db'.ticket = db.ticket
     \/ \A t \in Tickets :
          \/ db'.ticket[t] = db.ticket[t]
          \/ db'.ticket[t] = "OPEN" /\ db.ticket[t] = "ABSENT"
  /\ \/ collapsed' = collapsed /\ db'.revenue = db.revenue
     \/ \E best \in Campaigns :
          /\ collapsed' = collapsed \cup {best}
          /\ db'.revenue = [db.revenue EXCEPT ![best] = RoundDiv(4 * Spend[best], 10)]

LEMMA ScenariosHappen ==
  ASSUME Database(db),
         Stockout \/ SupplierDelay \/ CompetitorPrice \/ CampaignFailure \/ ReturnSurge
  PROVE  Happens
<1>1. ASSUME NEW desks, NEW after, Scenario(desks, after), Database(after)
      PROVE  /\ UNCHANGED <<run, requests, refusals, passedOver, asked, dropped>>
             /\ Database(db') /\ db' = after
  BY <1>1 DEF Scenario
<1>2. CASE Stockout
  <2>. DEFINE target == CHOOSE p \in Products : \A x \in Products : Sold[x] <= Sold[p]
              left == Larger(1, (2 * VelocityHundredths(target)) \div 100)
              after == [db EXCEPT !.onHand[target] = left]
  <2>1. Scenario("supply", after) /\ UNCHANGED collapsed
    BY <1>2 DEF Stockout
  <2>. HIDE DEF target
  <2>2. target \in Products => left \in Nat
    <3>. SUFFICES ASSUME target \in Products PROVE left \in Nat
      OBVIOUS
    <3>1. Sold[target] \in Nat
      BY CommerceAssumption DEF CommerceAssumption
    <3>2. VelocityHundredths(target) \in Int
      BY <3>1, RoundDivIsANumber DEF VelocityHundredths
    <3>3. (2 * VelocityHundredths(target)) \div 100 \in Int
      BY <3>2
    <3>. QED BY <3>3 DEF Larger
  <2>. HIDE DEF left
  <2>3. /\ Database(after) /\ after.price = db.price /\ after.budget = db.budget
        /\ after.paused = db.paused /\ after.refunds = db.refunds
        /\ after.ticket = db.ticket /\ after.revenue = db.revenue
    BY <2>2 DEF Database
  <2>. HIDE DEF after
  <2>. QED BY <1>1, <2>1, <2>3 DEF Happens
<1>3. CASE SupplierDelay
  <2>1. PICK late, purchases :
          LET after == [db EXCEPT
                !.lead = [p \in Products |-> @[p] + IF SourceOf[p] = late THEN 12 ELSE 0],
                !.purchases = purchases]
          IN Scenario("supply", after) /\ UNCHANGED collapsed
    BY <1>3 DEF SupplierDelay
  <2>. DEFINE after == [db EXCEPT
                !.lead = [p \in Products |-> @[p] + IF SourceOf[p] = late THEN 12 ELSE 0],
                !.purchases = purchases]
  <2>2. Scenario("supply", after) /\ UNCHANGED collapsed
    BY <2>1
  <2>3. /\ Database(after) /\ after.price = db.price /\ after.budget = db.budget
        /\ after.paused = db.paused /\ after.refunds = db.refunds
        /\ after.ticket = db.ticket /\ after.revenue = db.revenue
    BY DEF Database
  <2>. HIDE DEF after
  <2>. QED BY <1>1, <2>2, <2>3 DEF Happens
<1>4. CASE CompetitorPrice
  <2>1. PICK dearest :
          LET after == [db EXCEPT !.market = [p \in Products |->
                IF p \in dearest THEN RoundDiv(88 * db.price[p], 100) ELSE @[p]]]
          IN Scenario("prices", after) /\ UNCHANGED collapsed
    BY <1>4 DEF CompetitorPrice
  <2>. DEFINE after == [db EXCEPT !.market = [p \in Products |->
                IF p \in dearest THEN RoundDiv(88 * db.price[p], 100) ELSE @[p]]]
  <2>2. Scenario("prices", after) /\ UNCHANGED collapsed
    BY <2>1
  <2>3. \A n \in Nat \ {0} : RoundDiv(88 * n, 100) \in Nat \ {0}
    BY DEF RoundDiv
  <2>4. /\ Database(after) /\ after.price = db.price /\ after.budget = db.budget
        /\ after.paused = db.paused /\ after.refunds = db.refunds
        /\ after.ticket = db.ticket /\ after.revenue = db.revenue
    BY <2>3 DEF Database
  <2>. HIDE DEF after
  <2>. QED BY <1>1, <2>2, <2>4 DEF Happens
<1>5. CASE CampaignFailure
  <2>. DEFINE report == Listed(Campaigns, CampaignEfficiency(db))
              best == Head(report)
              low == RoundDiv(4 * Spend[best], 10)
              after == [db EXCEPT !.revenue[best] = low]
  <2>1. /\ report # <<>> /\ Scenario("campaigns", after)
        /\ collapsed' = collapsed \cup {best}
    BY <1>5 DEF CampaignFailure
  <2>2. report \in Seq(Campaigns)
    BY CampaignsAreListed
  <2>. HIDE DEF report
  <2>3. best \in Campaigns
    BY <2>1, <2>2
  <2>. HIDE DEF best
  <2>4. low \in Nat
    <3>1. Spend[best] \in Nat
      BY <2>3, CommerceAssumption DEF CommerceAssumption
    <3>. QED BY <3>1, RoundDivIsANumber
  <2>. HIDE DEF low
  <2>5. /\ Database(after) /\ after.price = db.price /\ after.budget = db.budget
        /\ after.paused = db.paused /\ after.refunds = db.refunds
        /\ after.ticket = db.ticket /\ after.revenue = [db.revenue EXCEPT ![best] = low]
    BY <2>3, <2>4 DEF Database
  <2>. HIDE DEF after
  <2>6. /\ UNCHANGED <<run, requests, refusals, passedOver, asked, dropped>>
        /\ Database(db') /\ db' = after
    BY <1>1, <2>1, <2>5
  <2>. QED BY <2>1, <2>3, <2>5, <2>6 DEF Happens, low
<1>6. CASE ReturnSurge
  <2>. DEFINE after ==
         [db EXCEPT !.ticket = [t \in Tickets |-> IF t \in SurgeTickets THEN "OPEN" ELSE @[t]]]
  <2>1. /\ \A t \in SurgeTickets : db.ticket[t] = "ABSENT"
        /\ Scenario("service", after) /\ UNCHANGED collapsed
    BY <1>6 DEF ReturnSurge
  <2>2. /\ Database(after) /\ after.price = db.price /\ after.budget = db.budget
        /\ after.paused = db.paused /\ after.refunds = db.refunds
        /\ after.revenue = db.revenue
        /\ after.ticket = [t \in Tickets |-> IF t \in SurgeTickets THEN "OPEN" ELSE db.ticket[t]]
    BY DEF Database
  <2>3. \A t \in Tickets : \/ after.ticket[t] = db.ticket[t]
                           \/ after.ticket[t] = "OPEN" /\ db.ticket[t] = "ABSENT"
    BY <2>1, <2>2
  <2>. HIDE DEF after
  <2>. QED BY <1>1, <2>1, <2>2, <2>3 DEF Happens
<1>. QED BY <1>2, <1>3, <1>4, <1>5, <1>6

LEMMA ShapeInit == ReviewsInit => Shape
<1>. SUFFICES ASSUME ReviewsInit PROVE Shape
  OBVIOUS
<1>1. Database(db)
  BY ReviewsAssumption DEF ReviewsAssumption, ReviewsInit
<1>2. run \in [Runs -> ReviewRecord] /\ requests = {}
  BY IdleIsAReview DEF ReviewsInit
<1>. QED BY <1>1, <1>2 DEF Shape

LEMMA ShapeStep ==
  ASSUME Shape, [Next]_reviewsVars
  PROVE  Shape'
<1>0. Database(db) /\ run \in [Runs -> ReviewRecord] /\ requests \in SUBSET Parkable
  BY DEF Shape
<1>. SUFFICES Database(db') /\ run' \in [Runs -> ReviewRecord] /\ requests' \in SUBSET Parkable
  BY DEF Shape, Database
<1>1. ASSUME NEW r \in Runs, NEW review \in ReviewRecord, Begins(r, review)
      PROVE  Database(db') /\ run' \in [Runs -> ReviewRecord] /\ requests' \in SUBSET Parkable
  <2>1. db' = db /\ requests' = requests /\ run' = [run EXCEPT ![r] = review]
    BY <1>1 DEF Begins
  <2>. HIDE DEF ReviewRecord
  <2>. QED BY <1>0, <2>1
<1>2. ASSUME NEW c \in Calls, NEW by, Calling(c, by)
      PROVE  Database(db') /\ run' \in [Runs -> ReviewRecord] /\ requests' \in SUBSET Parkable
  <2>1. /\ db' = db \/ (~Throws(db, c) /\ db' = Execute(db, c))
        /\ requests' \subseteq requests \cup ({c} \cap Parkable)
    BY <1>0, <1>2, CallsGoThrough DEF Calling
  <2>2. Database(db')
    BY <1>0, <2>1, CallsKeepColumns
  <2>3. run' \in [Runs -> ReviewRecord]
    BY <1>0, <1>2 DEF Calling, Leaves
  <2>. QED BY <1>0, <2>1, <2>2, <2>3
<1>3. CASE /\ requests' \subseteq requests
           /\ UNCHANGED <<db, run, refusals, collapsed, passedOver, asked, dropped>>
  BY <1>0, <1>3
<1>4. CASE Stockout \/ SupplierDelay \/ CompetitorPrice \/ CampaignFailure \/ ReturnSurge
  BY <1>0, <1>4, ScenariosHappen DEF Happens
<1>5. Moves
  BY StepsAreMoves
<1>. QED BY <1>1, <1>2, <1>3, <1>4, <1>5 DEF Moves

-----------------------------------------------------------------------------
(* Campaigns.                                                              *)

\* What a review pauses or raises, and had reason to when it began: figures change
\* for one reason alone, and a campaign that has collapsed never performs again.
Pausable ==
  SeedData.paused \cup collapsed \cup {x \in Campaigns : Verdict(SeedData, x) = "WASTING"}

Raisable ==
  collapsed \cup {x \in Campaigns \ SeedData.paused : Verdict(SeedData, x) = "HIGH_PERFORMER"}

Moved(c) ==
  /\ c.tool = "pause_campaign" => c.entity \in Pausable
  /\ c.tool = "propose_budget_change" => c.entity \in Raisable

MoneyInv ==
  /\ collapsed \subseteq Campaigns
  /\ \A x \in Campaigns \ collapsed : db.revenue[x] = SeedData.revenue[x]
  /\ \A x \in collapsed : db.revenue[x] = RoundDiv(4 * Spend[x], 10)
  /\ SeedData.paused \subseteq db.paused /\ db.paused \subseteq Pausable
  /\ \A x \in Campaigns : db.budget[x] > SeedData.budget[x] => x \in Raisable
  /\ \A c \in requests : Moved(c)
  /\ \A r \in Runs : \A c \in Handed(r) : Moved(c)

LEMMA CollapsedIsWasting ==
  ASSUME Shape, MoneyInv, NEW x \in collapsed
  PROVE  x \in Campaigns /\ Verdict(db, x) = "WASTING"
<1>1. x \in Campaigns /\ db.revenue[x] = RoundDiv(4 * Spend[x], 10)
  BY DEF MoneyInv
<1>2. Spend[x] \in Nat \ {0}
  BY <1>1, CommerceAssumption DEF CommerceAssumption
<1>3. PICK s \in Nat \ {0} : s = Spend[x]
  BY <1>2
<1>4. RoundDiv(4 * s, 10) \in Nat /\ RoundDiv(4 * s, 10) < s
  BY DEF RoundDiv
<1>5. PICK n \in Nat : n = db.revenue[x] /\ n < s
  BY <1>1, <1>3, <1>4
<1>6. ~(n >= 4 * s) /\ ~(n >= 2 * s) /\ ~(n >= s)
  BY <1>5
<1>. QED BY <1>1, <1>3, <1>5, <1>6 DEF Verdict

LEMMA OthersPerformAsSeeded ==
  ASSUME MoneyInv, NEW x \in Campaigns \ collapsed
  PROVE  Verdict(db, x) = Verdict(SeedData, x)
BY DEF MoneyInv, Verdict

\* Of all calls two kinds touch the money of a campaign.
LEMMA CallsMoveMoney ==
  ASSUME Shape, NEW c \in Calls, ~Throws(db, c), db' = Execute(db, c)
  PROVE  /\ db'.revenue = db.revenue
         /\ db'.paused = IF c.tool = "pause_campaign" THEN db.paused \cup {c.entity} ELSE db.paused
         /\ db'.budget = IF c.tool = "propose_budget_change"
                         THEN [db.budget EXCEPT ![c.entity] = @ + c.amount] ELSE db.budget
BY CallsDo DEF Shape

LEMMA MoneyInit == ReviewsInit => MoneyInv
<1>. SUFFICES ASSUME ReviewsInit PROVE MoneyInv
  OBVIOUS
<1>1. /\ db = SeedData /\ requests = {} /\ collapsed = {}
      /\ \A r \in Runs : run[r] = Idle
  BY DEF ReviewsInit
<1>2. Database(SeedData)
  BY ReviewsAssumption DEF ReviewsAssumption
<1>3. \A r \in Runs : Handed(r) = {}
  BY <1>1, IdleIsAReview DEF Handed, ToCall, Range
<1>4. \A x \in Campaigns : ~(SeedData.budget[x] > SeedData.budget[x])
  <2>1. \A x \in Campaigns : SeedData.budget[x] \in Nat
    BY <1>2 DEF Database
  <2>. QED BY <2>1
<1>. QED BY <1>1, <1>3, <1>4 DEF MoneyInv, Pausable

LEMMA MoneyStep ==
  ASSUME Shape, MoneyInv, [Next]_reviewsVars
  PROVE  MoneyInv'
<1>0. /\ Database(db) /\ Database(SeedData) /\ run \in [Runs -> ReviewRecord]
      /\ requests \in SUBSET Parkable
  BY ReviewsAssumption DEF Shape, ReviewsAssumption
<1>1. ASSUME NEW r \in Runs, NEW review \in ReviewRecord, Begins(r, review)
      PROVE  MoneyInv'
  <2>1. /\ run' = [run EXCEPT ![r] = review]
        /\ UNCHANGED <<db, requests, collapsed>>
    BY <1>1 DEF Begins
  <2>2. Handed(r)' = ToCall(review) /\ \A o \in Runs \ {r} : Handed(o)' = Handed(o)
    BY <1>0, <2>1 DEF Handed
  <2>3. \A c : Moved(c)' <=> Moved(c)
    BY <2>1 DEF Moved, Pausable, Raisable
  <2>4. ASSUME NEW c \in ToCall(review) PROVE Moved(c)
    <3>1. CASE c \in Handed(r)
      BY <3>1 DEF MoneyInv
    <3>2. CASE c \in PurchaseCalls
      BY <3>2, PurchaseCallsSay DEF Moved
    <3>3. CASE c \in PriceCalls
      BY <3>3, PriceCallsSay DEF Moved
    <3>4. CASE c \in MarketingProposals(db)
      <4>1. CASE \E x \in Running(db, "WASTING") : c = PauseCall(x)
        <5>1. PICK x \in Running(db, "WASTING") : c = PauseCall(x)
          BY <4>1
        <5>2. x \in Campaigns /\ Verdict(db, x) = "WASTING"
          BY <5>1 DEF Running
        <5>3. x \in Pausable
          BY <5>2, OthersPerformAsSeeded DEF Pausable
        <5>. QED BY <5>1, <5>3 DEF Moved, PauseCall, Call
      <4>2. CASE \E x \in Running(db, "HIGH_PERFORMER") :
                   \E n \in Nat : n <= CampaignStep /\ c = BudgetCall(x, n)
        <5>1. PICK x \in Running(db, "HIGH_PERFORMER") : \E n \in Nat : c = BudgetCall(x, n)
          BY <4>2
        <5>2. x \in Campaigns \ db.paused /\ Verdict(db, x) = "HIGH_PERFORMER"
          BY <5>1 DEF Running
        <5>3. x \notin collapsed
          BY <5>2, CollapsedIsWasting
        <5>4. x \in Raisable
          BY <5>2, <5>3, OthersPerformAsSeeded DEF Raisable, MoneyInv
        <5>. QED BY <5>1, <5>4 DEF Moved, BudgetCall, Call
      <4>. QED BY <1>0, <3>4, <4>1, <4>2, MarketingProposes
    <3>5. CASE c \in RefundCalls
      BY <3>5, RefundCallsSay DEF Moved
    <3>6. CASE c \in {ReplyCall(t, e) : t \in Open(db), e \in BOOLEAN}
      <4>1. PICK t \in Open(db), e \in BOOLEAN : c = ReplyCall(t, e)
        BY <3>6
      <4>. QED BY <4>1 DEF Moved, ReplyCall, Call
    <3>. QED BY <1>1, <3>1, <3>2, <3>3, <3>4, <3>5, <3>6 DEF Begins
  <2>5. \A o \in Runs : \A c \in Handed(o)' : Moved(c)
    BY <2>2, <2>4 DEF MoneyInv
  <2>6. Pausable' = Pausable /\ Raisable' = Raisable
    BY <2>1 DEF Pausable, Raisable
  <2>. QED BY <2>1, <2>3, <2>5, <2>6 DEF MoneyInv
<1>2. ASSUME NEW c \in Calls, NEW by, Calling(c, by)
      PROVE  MoneyInv'
  <2>1. /\ db' = db \/ (~Throws(db, c) /\ db' = Execute(db, c))
        /\ requests' \subseteq requests \cup ({c} \cap Parkable)
        /\ UNCHANGED collapsed /\ Comes(c, by) /\ Leaves
    BY <1>0, <1>2, CallsGoThrough DEF Calling
  <2>2. Pausable' = Pausable /\ Raisable' = Raisable /\ \A k : Moved(k)' <=> Moved(k)
    BY <2>1 DEF Moved, Pausable, Raisable
  <2>3. Moved(c)
    <3>1. CASE c \in requests
      BY <3>1 DEF MoneyInv
    <3>2. CASE by \in Runs /\ c \in Handed(by)
      BY <3>2 DEF MoneyInv
    <3>3. CASE c \in PriceCalls \cup ReceiveCalls \cup RefundCalls \cup ReplyCalls
      BY <3>3, PriceCallsSay, ReceiveCallsSay, RefundCallsSay, ReplyCallsSay DEF Moved
    <3>. QED BY <2>1, <3>1, <3>2, <3>3 DEF Comes
  <2>4. \A k \in requests' : Moved(k)
    BY <2>1, <2>3 DEF MoneyInv
  <2>5. \A o \in Runs : Handed(o)' \subseteq Handed(o)
    BY <1>0, <2>1 DEF Leaves, Handed
  <2>6. \A o \in Runs : \A k \in Handed(o)' : Moved(k)
    BY <2>5 DEF MoneyInv
  <2>7. /\ db'.revenue = db.revenue
        /\ SeedData.paused \subseteq db'.paused /\ db'.paused \subseteq Pausable
    BY <2>1, <2>3, CallsMoveMoney DEF MoneyInv, Moved
  <2>8. ASSUME NEW x \in Campaigns, db'.budget[x] > SeedData.budget[x] PROVE x \in Raisable
    <3>1. CASE db'.budget[x] = db.budget[x]
      BY <2>8, <3>1 DEF MoneyInv
    <3>2. CASE db'.budget[x] # db.budget[x]
      <4>1. c.tool = "propose_budget_change" /\ c.entity = x
        <5>1. db' # db
          BY <3>2
        <5>2. db'.budget = IF c.tool = "propose_budget_change"
                           THEN [db.budget EXCEPT ![c.entity] = @ + c.amount] ELSE db.budget
          BY <2>1, <5>1, CallsMoveMoney
        <5>3. db.budget \in [Campaigns -> Nat]
          BY <1>0 DEF Database
        <5>. QED BY <3>2, <5>2, <5>3
      <4>. QED BY <2>3, <4>1 DEF Moved
    <3>. QED BY <3>1, <3>2
  <2>. QED BY <2>1, <2>2, <2>4, <2>6, <2>7, <2>8 DEF MoneyInv
<1>3. CASE /\ requests' \subseteq requests
           /\ UNCHANGED <<db, run, refusals, collapsed, passedOver, asked, dropped>>
  <2>1. Pausable' = Pausable /\ Raisable' = Raisable /\ \A k : Moved(k)' <=> Moved(k)
    BY <1>3 DEF Moved, Pausable, Raisable
  <2>2. \A o \in Runs : Handed(o)' = Handed(o)
    BY <1>3 DEF Handed
  <2>. QED BY <1>3, <2>1, <2>2 DEF MoneyInv
<1>4. CASE Stockout \/ SupplierDelay \/ CompetitorPrice \/ CampaignFailure \/ ReturnSurge
  <2>1. Happens
    BY <1>0, <1>4, ScenariosHappen
  <2>2. collapsed \subseteq collapsed'
    BY <2>1 DEF Happens
  <2>3. Pausable \subseteq Pausable' /\ Raisable \subseteq Raisable'
    BY <2>2 DEF Pausable, Raisable
  <2>4. \A k : Moved(k) => Moved(k)'
    BY <2>3 DEF Moved
  <2>5. \A o \in Runs : Handed(o)' = Handed(o)
    BY <2>1 DEF Handed, Happens
  <2>6. /\ collapsed' \subseteq Campaigns
        /\ \A x \in Campaigns \ collapsed' : db'.revenue[x] = SeedData.revenue[x]
        /\ \A x \in collapsed' : db'.revenue[x] = RoundDiv(4 * Spend[x], 10)
    <3>1. CASE collapsed' = collapsed /\ db'.revenue = db.revenue
      BY <3>1 DEF MoneyInv
    <3>2. CASE \E best \in Campaigns :
                 /\ collapsed' = collapsed \cup {best}
                 /\ db'.revenue = [db.revenue EXCEPT ![best] = RoundDiv(4 * Spend[best], 10)]
      <4>1. PICK best \in Campaigns :
                 /\ collapsed' = collapsed \cup {best}
                 /\ db'.revenue = [db.revenue EXCEPT ![best] = RoundDiv(4 * Spend[best], 10)]
        BY <3>2
      <4>2. db.revenue \in [Campaigns -> Nat]
        BY <1>0 DEF Database
      <4>. QED BY <4>1, <4>2 DEF MoneyInv
    <3>. QED BY <2>1, <3>1, <3>2 DEF Happens
  <2>. QED BY <2>1, <2>3, <2>4, <2>5, <2>6 DEF MoneyInv, Happens
<1>5. Moves
  BY StepsAreMoves
<1>. QED BY <1>1, <1>2, <1>3, <1>4, <1>5 DEF Moves

\* A campaign that is to be raised or has been, and is to be paused or has been,
\* has collapsed: the figures change for no other reason, a campaign is paused for
\* wasting and raised for performing, and on the same figures it does one of them,
\* for any campaigns and any reviews that overlap.
THEOREM RaisedAndPausedHasCollapsed == ReviewsSpec => []MoneyFollowsReturns
<1>1. Shape /\ MoneyInv => MoneyFollowsReturns
  <2>. SUFFICES ASSUME Shape, MoneyInv, Database(SeedData), NEW x \in Campaigns,
                       \/ db.budget[x] > SeedData.budget[x]
                       \/ \E q \in requests :
                            q.tool = "propose_budget_change" /\ q.entity = x,
                       x \in db.paused \/ PauseCall(x) \in requests,
                       x \notin collapsed
                PROVE  FALSE
    BY ReviewsAssumption DEF ReviewsAssumption, MoneyFollowsReturns
  <2>1. x \in Pausable
    <3>1. PauseCall(x).tool = "pause_campaign" /\ PauseCall(x).entity = x
      BY DEF PauseCall, Call
    <3>. QED BY <3>1 DEF MoneyInv, Moved
  <2>2. x \in Raisable
    BY DEF MoneyInv, Moved
  <2>. QED BY <2>1, <2>2 DEF Pausable, Raisable
<1>2. ReviewsInit => Shape /\ MoneyInv
  BY ShapeInit, MoneyInit
<1>3. Shape /\ MoneyInv /\ [Next]_reviewsVars => (Shape /\ MoneyInv)'
  BY ShapeStep, MoneyStep
<1>. QED BY <1>1, <1>2, <1>3, PTL DEF ReviewsSpec

-----------------------------------------------------------------------------
(* Tickets.                                                                *)

Done == {"ANSWERED", "ESCALATED"}

\* A refund is due for the ticket; a review has proposed it or gone past the ticket,
\* has it before it, or has dropped it.
IsReturn(t) == Theme[t] \in {"refund", "product"} /\ OrderOf[t] # None
Seen(t) ==
  \/ OrderOf[t] \in asked \/ t \in passedOver \cup dropped
  \/ \E r \in Runs : t \in Range(run[r].returns)

\* A review answers what has been filed, and has yet to propose refunds for it.
Looked(c, review) ==
  c.tool = "reply_ticket" =>
    db.ticket[c.entity] # "ABSENT" /\ (IsReturn(c.entity) => c.entity \in Range(review.returns))

TicketInv ==
  /\ \A t \in Tickets : db.ticket[t] \in Done /\ IsReturn(t) => Seen(t)
  /\ \A r \in Runs : \A c \in Handed(r) : Looked(c, run[r])

\* Of all calls one kind touches a ticket, and answers one that is open.
LEMMA CallsAnswer ==
  ASSUME Shape, NEW c \in Calls, ~Throws(db, c), db' = Execute(db, c), NEW t \in Tickets
  PROVE  \/ db'.ticket[t] = db.ticket[t]
         \/ /\ db.ticket[t] = "OPEN" /\ db'.ticket[t] \in Done
            /\ c.tool = "reply_ticket" /\ c.entity = t
<1>1. db'.ticket = IF c.tool = "reply_ticket"
                   THEN [db.ticket EXCEPT ![c.entity] =
                           IF c.escalate THEN "ESCALATED" ELSE "ANSWERED"]
                   ELSE db.ticket
  BY CallsDo DEF Shape
<1>2. db.ticket \in [Tickets -> {"ABSENT", "OPEN", "ANSWERED", "ESCALATED"}]
  BY DEF Shape, Database
<1>3. c.tool = "reply_ticket" => db.ticket[c.entity] = "OPEN"
  BY DEF Throws
<1>. HIDE DEF Tickets
<1>. QED BY <1>1, <1>2, <1>3 DEF Done

\* A ticket that has been filed stays in the queue or leaves it for good.
LEMMA TicketsGoOn ==
  ASSUME Shape, [Next]_reviewsVars, NEW t \in Tickets
  PROVE  /\ db.ticket[t] # "ABSENT" => db'.ticket[t] # "ABSENT"
         /\ db.ticket[t] \in Done => db'.ticket[t] \in Done
<1>0. Database(db)
  BY DEF Shape
<1>1. ASSUME NEW c \in Calls, NEW by, Calling(c, by)
      PROVE  db' = db \/ (~Throws(db, c) /\ db' = Execute(db, c))
  BY <1>0, <1>1, CallsGoThrough DEF Calling
<1>2. ASSUME NEW c \in Calls, NEW by, Calling(c, by)
      PROVE  db'.ticket[t] = db.ticket[t] \/ db'.ticket[t] \in Done
  BY <1>1, <1>2, CallsAnswer
<1>3. CASE Stockout \/ SupplierDelay \/ CompetitorPrice \/ CampaignFailure \/ ReturnSurge
  BY <1>0, <1>3, ScenariosHappen DEF Happens, Done
<1>4. CASE \E r \in Runs, review \in ReviewRecord : Begins(r, review)
  BY <1>4 DEF Begins
<1>5. Moves
  BY StepsAreMoves
<1>. QED BY <1>2, <1>3, <1>4, <1>5 DEF Moves, Done

LEMMA TicketInit == ReviewsInit => TicketInv
<1>. SUFFICES ASSUME ReviewsInit PROVE TicketInv
  OBVIOUS
<1>1. db = SeedData /\ \A r \in Runs : run[r] = Idle
  BY DEF ReviewsInit
<1>2. \A t \in Tickets : SeedData.ticket[t] \notin Done
  BY ReviewsAssumption DEF ReviewsAssumption, Done
<1>3. \A r \in Runs : Handed(r) = {}
  BY <1>1, IdleIsAReview DEF Handed, ToCall, Range
<1>. QED BY <1>1, <1>2, <1>3 DEF TicketInv

\* What a review has still to call, it has looked at as long as it keeps its returns.
LEMMA LookedAtStays ==
  ASSUME Shape, [Next]_reviewsVars, NEW r \in Runs, NEW c \in Handed(r), Looked(c, run[r]),
         NEW review, review.returns = run[r].returns
  PROVE  Looked(c, review)'
<1>. SUFFICES ASSUME c.tool = "reply_ticket"
              PROVE  /\ db'.ticket[c.entity] # "ABSENT"
                     /\ IsReturn(c.entity) => c.entity \in Range(review.returns)
  BY DEF Looked, IsReturn
<1>1. c \in Calls
  BY DEF Shape, Handed, ToCall, ReviewRecord, Calls, Parkable, Range
<1>2. c \in ReplyCalls
  BY <1>1, PriceCallsSay, BudgetCallsSay, PauseCallsSay, RefundCallsSay, ReceiveCallsSay,
     PurchaseCallsSay DEF Calls, Parkable
<1>3. c.entity \in Tickets
  BY <1>2, ReplyCallsSay
<1>4. /\ db.ticket[c.entity] # "ABSENT"
      /\ IsReturn(c.entity) => c.entity \in Range(run[r].returns)
  BY DEF Looked
<1>. QED BY <1>3, <1>4, TicketsGoOn

LEMMA TicketStep ==
  ASSUME Shape, TicketInv, [Next]_reviewsVars
  PROVE  TicketInv'
<1>0. /\ Database(db) /\ run \in [Runs -> ReviewRecord] /\ requests \in SUBSET Parkable
  BY DEF Shape
<1>1. ASSUME asked \subseteq asked', passedOver \subseteq passedOver', dropped \subseteq dropped',
             \A o \in Runs : run'[o].returns = run[o].returns,
             NEW t, Seen(t)
      PROVE  Seen(t)'
  BY <1>1 DEF Seen
<1>2. ASSUME \A o \in Runs : Handed(o)' \subseteq Handed(o) /\ run'[o].returns = run[o].returns
      PROVE  \A o \in Runs : \A c \in Handed(o)' : Looked(c, run[o])'
  BY <1>2, LookedAtStays DEF TicketInv, Looked
<1>3. ASSUME NEW r \in Runs, NEW review \in ReviewRecord, Begins(r, review)
      PROVE  TicketInv'
  <2>1. /\ run' = [run EXCEPT ![r] = review] /\ UNCHANGED <<db, requests>>
        /\ Accounted(r, review)
    BY <1>3 DEF Begins
  <2>2. /\ Handed(r)' = ToCall(review) /\ run'[r] = review
        /\ \A o \in Runs \ {r} : Handed(o)' = Handed(o) /\ run'[o] = run[o]
    BY <1>0, <2>1 DEF Handed
  <2>3. ASSUME NEW c \in ToCall(review) PROVE Looked(c, review)
    <3>1. CASE c \in Handed(r) /\ review.returns = run[r].returns
      BY <3>1 DEF TicketInv, Looked
    <3>2. CASE c \in PurchaseCalls
      BY <3>2, PurchaseCallsSay DEF Looked
    <3>3. CASE c \in PriceCalls
      BY <3>3, PriceCallsSay DEF Looked
    <3>4. CASE c \in MarketingProposals(db)
      <4>1. c.tool # "reply_ticket"
        <5>1. CASE \E x \in Running(db, "WASTING") : c = PauseCall(x)
          BY <5>1 DEF PauseCall, Call
        <5>2. CASE \E x \in Running(db, "HIGH_PERFORMER") :
                     \E n \in Nat : n <= CampaignStep /\ c = BudgetCall(x, n)
          BY <5>2 DEF BudgetCall, Call
        <5>. QED BY <1>0, <3>4, <5>1, <5>2, MarketingProposes
      <4>. QED BY <4>1 DEF Looked
    <3>5. CASE c \in RefundCalls
      BY <3>5, RefundCallsSay DEF Looked
    <3>6. CASE /\ c \in {ReplyCall(t, e) : t \in Open(db), e \in BOOLEAN}
               /\ Refundables(db) \subseteq Range(review.returns)
      <4>1. PICK t \in Open(db), e \in BOOLEAN : c = ReplyCall(t, e)
        BY <3>6
      <4>2. c.entity = t /\ db.ticket[t] = "OPEN"
        BY <4>1 DEF ReplyCall, Call, Open
      <4>3. IsReturn(t) => t \in Refundables(db)
        BY <4>1 DEF Refundables, IsReturn
      <4>. QED BY <3>6, <4>2, <4>3 DEF Looked
    <3>. QED BY <1>3, <3>1, <3>2, <3>3, <3>4, <3>5, <3>6 DEF Begins
  <2>4. \A o \in Runs : \A c \in Handed(o)' : Looked(c, run[o])'
    BY <2>1, <2>2, <2>3 DEF TicketInv, Looked, IsReturn
  <2>5. ASSUME NEW t \in Tickets, db.ticket[t] \in Done, IsReturn(t) PROVE Seen(t)'
    <3>1. Seen(t)
      BY <2>5 DEF TicketInv
    <3>2. CASE OrderOf[t] \in asked \/ t \in passedOver \cup dropped
      BY <2>1, <3>2 DEF Accounted, Seen
    <3>3. CASE \E o \in Runs \ {r} : t \in Range(run[o].returns)
      BY <2>2, <3>3 DEF Seen
    <3>4. CASE t \in Range(run[r].returns)
      BY <2>1, <2>2, <2>5, <3>4 DEF Accounted, Seen, IsReturn, Done
    <3>. QED BY <3>1, <3>2, <3>3, <3>4 DEF Seen
  <2>. QED BY <2>1, <2>4, <2>5 DEF TicketInv, IsReturn
<1>4. ASSUME NEW c \in Calls, NEW by, Calling(c, by)
      PROVE  TicketInv'
  <2>1. /\ db' = db \/ (~Throws(db, c) /\ db' = Execute(db, c))
        /\ UNCHANGED <<asked, passedOver>> /\ dropped \subseteq dropped'
        /\ Comes(c, by) /\ Leaves
    BY <1>0, <1>4, CallsGoThrough DEF Calling
  <2>2. \A o \in Runs : Handed(o)' \subseteq Handed(o) /\ run'[o].returns = run[o].returns
    BY <1>0, <2>1 DEF Leaves, Handed
  <2>3. ASSUME NEW t \in Tickets, db'.ticket[t] \in Done, IsReturn(t) PROVE Seen(t)'
    <3>1. CASE db'.ticket[t] = db.ticket[t]
      BY <1>1, <2>1, <2>2, <2>3, <3>1 DEF TicketInv
    <3>2. CASE db'.ticket[t] # db.ticket[t]
      <4>1. db.ticket[t] = "OPEN" /\ c.tool = "reply_ticket" /\ c.entity = t
        BY <2>1, <3>2, CallsAnswer
      <4>2. CASE c \in requests
        BY <1>0, <4>1, <4>2, BudgetCallsSay, PauseCallsSay, RefundCallsSay, ReceiveCallsSay,
           PurchaseCallsSay DEF Parkable
      <4>3. CASE by \in Runs /\ c \in Handed(by)
        <5>1. t \in Range(run[by].returns)
          BY <2>3, <4>1, <4>3 DEF TicketInv, Looked
        <5>. QED BY <2>2, <4>3, <5>1 DEF Seen
      <4>4. CASE by = "client" /\ t \in dropped'
        BY <4>4 DEF Seen
      <4>. QED BY <2>1, <2>3, <4>1, <4>2, <4>3, <4>4 DEF Comes, Done
    <3>. QED BY <3>1, <3>2
  <2>. QED BY <1>2, <2>2, <2>3 DEF TicketInv, IsReturn
<1>5. CASE /\ requests' \subseteq requests
           /\ UNCHANGED <<db, run, refusals, collapsed, passedOver, asked, dropped>>
  <2>1. \A o \in Runs : Handed(o)' = Handed(o)
    BY <1>5 DEF Handed
  <2>. QED BY <1>2, <1>5, <2>1 DEF TicketInv, Seen, IsReturn
<1>6. CASE Stockout \/ SupplierDelay \/ CompetitorPrice \/ CampaignFailure \/ ReturnSurge
  <2>1. Happens
    BY <1>0, <1>6, ScenariosHappen
  <2>2. UNCHANGED <<asked, passedOver, dropped, run>> /\ \A o \in Runs : Handed(o)' = Handed(o)
    BY <2>1 DEF Happens, Handed
  <2>3. \A t \in Tickets : db'.ticket[t] \in Done => db'.ticket[t] = db.ticket[t]
    BY <2>1 DEF Happens, Done
  <2>. QED BY <1>2, <2>2, <2>3 DEF TicketInv, Seen, IsReturn
<1>7. Moves
  BY StepsAreMoves
<1>. QED BY <1>3, <1>4, <1>5, <1>6, <1>7 DEF Moves

\* An answered ticket for a refund had its refund proposed, was gone past, was
\* dropped by a run that broke off or by a client, or is before a run still: for
\* any queue, any reviews that read the same ticket and any run that fails.
THEOREM OverlookedReturnsAreAccountedFor == ReviewsSpec => []OverlookedReturnsAreExplained
<1>1. TicketInv => OverlookedReturnsAreExplained
  BY DEF TicketInv, OverlookedReturnsAreExplained, Done, IsReturn, Seen
<1>2. ReviewsInit => Shape /\ TicketInv
  BY ShapeInit, TicketInit
<1>3. Shape /\ TicketInv /\ [Next]_reviewsVars => (Shape /\ TicketInv)'
  BY ShapeStep, TicketStep
<1>. QED BY <1>1, <1>2, <1>3, PTL DEF ReviewsSpec

-----------------------------------------------------------------------------
(* Refunds.                                                                *)

\* The refunds of a database are a list, each under the identifier of its order
\* and amount, and no two under the same.
Booked(d) ==
  /\ "refunds" \in DOMAIN d
  /\ \E Rows : d.refunds \in Seq(Rows)
  /\ \A i \in DOMAIN d.refunds :
       d.refunds[i].id = TransactionId[<<d.refunds[i].order, d.refunds[i].amount>>]
  /\ \A i, j \in DOMAIN d.refunds : d.refunds[i].id = d.refunds[j].id => i = j

-----------------------------------------------------------------------------
\* Every other table leaves the refunds alone.
LEMMA OtherTablesKeepRefunds ==
  ASSUME NEW d, NEW c, c.tool # "create_refund", Booked(d)
  PROVE  Booked(Execute(d, c))
<1>1. /\ "refunds" \in DOMAIN Execute(d, c)
      /\ Execute(d, c).refunds = d.refunds
  BY DEF Booked, Execute, UpdateProductPrice, UpdateCampaignBudget, SetCampaignStatus,
         AnswerTicket, CreatePurchaseOrder, AdjustStock
<1> QED
  BY <1>1 DEF Booked

\* A refund is booked only under an identifier that nothing is booked under.
LEMMA RefundsStayBooked ==
  ASSUME NEW d, NEW c, c.tool = "create_refund", ~Throws(d, c), Booked(d)
  PROVE  Booked(Execute(d, c))
<1> DEFINE row == [id |-> RefundId(c), order |-> c.entity, amount |-> c.amount]
           after == Execute(d, c)
<1>1. /\ "refunds" \in DOMAIN after
      /\ after.refunds = Append(d.refunds, row)
  BY DEF Booked, Execute, RecordRefund
<1>2. PICK Rows : d.refunds \in Seq(Rows)
  BY DEF Booked
<1>3. /\ d.refunds \in Seq(Rows \cup {row})
      /\ row \in Rows \cup {row}
  BY <1>2
<1>4. /\ after.refunds \in Seq(Rows \cup {row})
      /\ Len(after.refunds) = Len(d.refunds) + 1
      /\ \A i \in DOMAIN d.refunds : after.refunds[i] = d.refunds[i]
      /\ after.refunds[Len(d.refunds) + 1] = row
      /\ Len(d.refunds) \in Nat
      /\ DOMAIN d.refunds = 1..Len(d.refunds)
      /\ DOMAIN after.refunds = 1..(Len(d.refunds) + 1)
  BY <1>1, <1>3
<1>5. \A i \in DOMAIN d.refunds : d.refunds[i].id # row.id
  BY DEF Throws, RefundId
<1>6. row.id = TransactionId[<<row.order, row.amount>>]
  BY DEF RefundId
<1> HIDE DEF row, after
<1>7. \A i \in DOMAIN after.refunds : i \in DOMAIN d.refunds \/ i = Len(d.refunds) + 1
  BY <1>4
<1>8. \A i \in DOMAIN after.refunds :
        after.refunds[i].id = TransactionId[<<after.refunds[i].order, after.refunds[i].amount>>]
  BY <1>4, <1>6, <1>7 DEF Booked
<1>9. \A i, j \in DOMAIN after.refunds :
        after.refunds[i].id = after.refunds[j].id => i = j
  BY <1>4, <1>5, <1>7 DEF Booked
<1>10. Booked(after)
  BY <1>1, <1>4, <1>8, <1>9 DEF Booked
<1> QED
  BY <1>10 DEF after

LEMMA CallsKeepBooks ==
  ASSUME Booked(db), NEW c, NEW by, CallTool(c, by)
  PROVE  Booked(db')
<1>1. UNCHANGED db \/ (~Throws(db, c) /\ db' = Execute(db, c))
  BY DEF CallTool, Park, Perform
<1> QED
  BY <1>1, OtherTablesKeepRefunds, RefundsStayBooked

\* The scenarios change other tables.
LEMMA ScenariosKeepBooks ==
  ASSUME Booked(db), 
         Stockout \/ SupplierDelay \/ CompetitorPrice \/ CampaignFailure \/ ReturnSurge
  PROVE  Booked(db')
<1>1. "refunds" \in DOMAIN db' /\ db'.refunds = db.refunds
  <2>1. CASE Stockout
    BY <2>1 DEF Stockout, Scenario, Booked
  <2>2. CASE SupplierDelay
    BY <2>2 DEF SupplierDelay, Scenario, Booked
  <2>3. CASE CompetitorPrice
    BY <2>3 DEF CompetitorPrice, Scenario, Booked
  <2>4. CASE CampaignFailure
    BY <2>4 DEF CampaignFailure, Scenario, Booked
  <2>5. CASE ReturnSurge
    BY <2>5 DEF ReturnSurge, Scenario, Booked
  <2> QED
    BY <2>1, <2>2, <2>3, <2>4, <2>5
<1> QED
  BY <1>1 DEF Booked

LEMMA BooksInit == ReviewsInit => Booked(db)
<1> SUFFICES ASSUME ReviewsInit PROVE Booked(db)
  OBVIOUS
<1>1. "refunds" \in DOMAIN db /\ db.refunds = <<>>
  BY ReviewsAssumption DEF ReviewsAssumption, ReviewsInit, Database
<1>2. db.refunds \in Seq({}) /\ DOMAIN db.refunds = {}
  BY <1>1
<1> QED
  BY <1>1, <1>2 DEF Booked

LEMMA BooksStep == Booked(db) /\ [Next]_reviewsVars => Booked(db)'
<1> SUFFICES ASSUME Booked(db), [Next]_reviewsVars PROVE Booked(db')
  OBVIOUS
<1>1. ASSUME NEW r \in Runs,
             InventoryRun(r) \/ ProcurementRun(r) \/ ProcurementAlone(r) \/ PricingRun(r)
             \/ MarketingRun(r) \/ CustomerRun(r) \/ ProposeRefunds(r) \/ ReviewFails(r)
             \/ Conclude(r)
      PROVE  UNCHANGED db
  BY <1>1 DEF InventoryRun, ProcurementRun, ProcurementAlone, PricingRun, MarketingRun,
              CustomerRun, ProposeRefunds, ReviewFails, Conclude, Start
<1>2. ASSUME NEW r \in Runs, Reply(r)
      PROVE  Booked(db')
  BY <1>2, CallsKeepBooks DEF Reply
<1>3. ASSUME NEW r \in Runs, Attempt(r)
      PROVE  Booked(db')
  BY <1>3, CallsKeepBooks DEF Attempt
<1>4. ASSUME NEW c \in requests, Approve(c)
      PROVE  Booked(db')
  BY <1>4, CallsKeepBooks DEF Approve
<1>5. ASSUME NEW c \in requests, Reject(c)
      PROVE  UNCHANGED db
  BY <1>5 DEF Reject
<1>6. CASE CallAsBoundAgent
  BY <1>6, CallsKeepBooks DEF CallAsBoundAgent
<1>7. CASE UNCHANGED reviewsVars
  BY <1>7 DEF reviewsVars
<1> QED
  BY <1>1, <1>2, <1>3, <1>4, <1>5, <1>6, <1>7, ScenariosKeepBooks DEF Next

-----------------------------------------------------------------------------

\* The identifier of a refund is a hash of the order and the amount and the
\* primary key of its row, and that alone is what keeps a second refund of the
\* whole total out: recordRefund asks for nothing but the amount.
THEOREM OrdersAreRefundedOnce == ReviewsSpec => []RefundsFitTheOrder
<1>1. Booked(db) => RefundsFitTheOrder
  <2> SUFFICES ASSUME Booked(db), NEW o \in Orders
               PROVE  Cardinality(InFull(o)) <= 1
    BY DEF RefundsFitTheOrder
  <2>1. ASSUME NEW i \in InFull(o), NEW j \in InFull(o)
        PROVE  i = j
    <3>1. /\ i \in DOMAIN db.refunds /\ j \in DOMAIN db.refunds
          /\ db.refunds[i].order = db.refunds[j].order
          /\ db.refunds[i].amount = db.refunds[j].amount
      BY DEF InFull
    <3>2. db.refunds[i].id = db.refunds[j].id
      BY <3>1 DEF Booked
    <3> QED
      BY <3>1, <3>2 DEF Booked
  <2>2. CASE InFull(o) = {}
    BY <2>2, FS_EmptySet
  <2>3. CASE InFull(o) # {}
    <3>1. PICK i : i \in InFull(o)
      BY <2>3
    <3>2. InFull(o) = {i}
      BY <2>1, <3>1
    <3>3. Cardinality({i}) = 1
      BY FS_Singleton
    <3> QED
      BY <3>2, <3>3
  <2> QED
    BY <2>2, <2>3
<1> QED
  BY <1>1, BooksInit, BooksStep, PTL DEF ReviewsSpec

-----------------------------------------------------------------------------
(* Refusals.                                                               *)

\* Why a call was refused, by what it asks for.
Explained(f) ==
  \/ /\ f.call \in PriceCalls
     /\ \/ f.met # f.seen
        \/ f.seen % 10 \in 5 .. 9
        \/ BelowFloor(f.call) /\ f.call.amount > f.seen
  \/ /\ f.call \in PurchaseCalls /\ f.status = "DENIED"
     /\ \A q \in Quotes[f.call.entity] :
          f.call.quantity * q.unit > HardCeiling \/ q.supplier # f.call.supplier
  \/ /\ f.call \in RefundCalls
     /\ \/ \E i \in DOMAIN db.refunds : db.refunds[i].id = RefundId(f.call)
        \/ f.call.amount > Smaller(OrderTotal[f.call.entity], HardCeiling)
  \/ f.call \in ReplyCalls /\ db.ticket[f.call.entity] \in Done

\* A review asks for prices that fit those it has read.
RefusalInv ==
  /\ \A r \in Runs : \A c \in Handed(r) : c \in PriceCalls => Fits(c, run[r].price)
  /\ \A f \in refusals : Explained(f)

\* The tools of the calls tell them apart.
LEMMA CallsDiffer ==
  ASSUME NEW c
  PROVE  /\ c \in PriceCalls => c \notin Parkable
         /\ c \in PurchaseCalls => c \notin PriceCalls \cup RefundCalls \cup ReplyCalls
         /\ c \in RefundCalls => c \notin PriceCalls \cup ReplyCalls
         /\ c \in ReplyCalls => c \notin PriceCalls \cup Parkable
         /\ c \in PauseCalls \cup BudgetCalls => c \notin PriceCalls
BY PriceCallsSay, BudgetCallsSay, PauseCallsSay, RefundCallsSay, ReceiveCallsSay,
   PurchaseCallsSay, ReplyCallsSay DEF Parkable

\* What has been refused stays explained: refunds stay booked and tickets done.
LEMMA ReasonsLast ==
  ASSUME Shape, Booked(db), [Next]_reviewsVars, NEW f, Explained(f)
  PROVE  Explained(f)'
<1>0. Database(db)
  BY DEF Shape
<1>1. ASSUME NEW x, \E i \in DOMAIN db.refunds : db.refunds[i].id = x
      PROVE  \E i \in DOMAIN db'.refunds : db'.refunds[i].id = x
  <2>1. ASSUME NEW c \in Calls, NEW by, Calling(c, by)
        PROVE  \E i \in DOMAIN db'.refunds : db'.refunds[i].id = x
    <3>1. db' = db \/ (~Throws(db, c) /\ db' = Execute(db, c))
      BY <1>0, <2>1, CallsGoThrough DEF Calling
    <3>2. \/ db'.refunds = db.refunds
          \/ \E row : db'.refunds = Append(db.refunds, row)
      <4>1. Execute(db, c).refunds =
              IF c.tool = "create_refund"
              THEN Append(db.refunds,
                          [id |-> RefundId(c), order |-> c.entity, amount |-> c.amount])
              ELSE db.refunds
        BY <1>0, CallsDo
      <4>. QED BY <3>1, <4>1
    <3>3. CASE db'.refunds = db.refunds
      BY <1>1, <3>3
    <3>4. CASE \E row : db'.refunds = Append(db.refunds, row)
      <4>1. PICK row : db'.refunds = Append(db.refunds, row)
        BY <3>4
      <4>2. PICK Rows : db.refunds \in Seq(Rows)
        BY DEF Booked
      <4>3. PICK list \in Seq(Rows \cup {row}) : list = db.refunds
        BY <4>2
      <4>4. PICK i \in DOMAIN list : list[i].id = x
        BY <1>1, <4>3
      <4>5. i \in DOMAIN Append(list, row) /\ Append(list, row)[i] = list[i]
        BY <4>3
      <4>. QED BY <4>1, <4>3, <4>4, <4>5
    <3>. QED BY <3>2, <3>3, <3>4
  <2>2. CASE Stockout \/ SupplierDelay \/ CompetitorPrice \/ CampaignFailure \/ ReturnSurge
    BY <1>0, <1>1, <2>2, ScenariosHappen DEF Happens
  <2>3. CASE \E r \in Runs, review \in ReviewRecord : Begins(r, review)
    BY <1>1, <2>3 DEF Begins
  <2>4. Moves
    BY StepsAreMoves
  <2>. QED BY <1>1, <2>1, <2>2, <2>3, <2>4 DEF Moves
<1>2. f.call \in RefundCalls /\ (\E i \in DOMAIN db.refunds : db.refunds[i].id = RefundId(f.call))
      => \E i \in DOMAIN db'.refunds : db'.refunds[i].id = RefundId(f.call)
  BY <1>1
<1>3. f.call \in ReplyCalls /\ db.ticket[f.call.entity] \in Done
      => db'.ticket[f.call.entity] \in Done
  BY ReplyCallsSay, TicketsGoOn
<1>. QED BY <1>2, <1>3 DEF Explained

\* A refusal is explained where it happens.
LEMMA RefusalsHaveReasons ==
  ASSUME Shape, TicketInv, RefusalInv, NEW c \in Calls, NEW by, Calling(c, by),
         NEW f, IsRefusal(f, c, by)
  PROVE  Explained(f)
<1>0. /\ f.call = c /\ by # "client"
      /\ \/ f.status = "DENIED" /\ Denied(c, db.price)
         \/ f.status = "FAILED" /\ Throws(db, c)
      /\ c.tool = "update_price" =>
           f.seen = run[by].price[c.entity] /\ f.met = db.price[c.entity]
  BY DEF IsRefusal
<1>1. c \in requests \/ (by \in Runs /\ c \in Handed(by))
  BY <1>0 DEF Calling, Comes
<1>2. HardCeiling \in Nat
  BY ReviewsAssumption DEF ReviewsAssumption
<1>3. CASE f.status = "DENIED" /\ Denied(c, db.price)
  <2>1. CASE c \in PriceCalls /\ (BelowFloor(c) \/ BeyondStep(c, db.price))
    <3>1. by \in Runs /\ c \in Handed(by)
      BY <1>1, <2>1, CallsDiffer DEF Shape
    <3>2. Fits(c, run[by].price)
      BY <2>1, <3>1 DEF RefusalInv
    <3>3. f.seen = run[by].price[c.entity] /\ f.met = db.price[c.entity]
      BY <1>0, <2>1, PriceCallsSay
    <3>4. f.met = f.seen => (BeyondStep(c, db.price) <=> BeyondStep(c, run[by].price))
      BY <3>3 DEF BeyondStep
    <3>. QED BY <1>0, <2>1, <3>2, <3>3, <3>4 DEF Fits, Explained
  <2>2. CASE c \in PurchaseCalls /\ c.amount > HardCeiling
    <3>1. \A q \in Quotes[c.entity] : q.supplier = c.supplier => c.amount = c.quantity * q.unit
      BY <2>2, PurchaseCallsSay
    <3>. QED BY <1>0, <1>3, <2>2, <3>1 DEF Explained
  <2>3. CASE c \in RefundCalls /\ c.amount > HardCeiling
    <3>1. OrderTotal[c.entity] \in Nat /\ c.amount \in Nat
      BY <2>3, RefundCallsSay, CommerceAssumption DEF CommerceAssumption
    <3>2. c.amount > Smaller(OrderTotal[c.entity], HardCeiling)
      BY <1>2, <2>3, <3>1 DEF Smaller
    <3>. QED BY <1>0, <2>3, <3>2 DEF Explained
  <2>. QED BY <1>3, <2>1, <2>2, <2>3, DenialsAreFew
<1>4. CASE f.status = "FAILED" /\ Throws(db, c)
  <2>1. CASE c \in RefundCalls
    <3>1. OrderTotal[c.entity] \in Nat /\ c.amount \in Nat /\ c.tool = "create_refund"
      BY <2>1, RefundCallsSay, CommerceAssumption DEF CommerceAssumption
    <3>2. \/ c.amount > OrderTotal[c.entity]
          \/ \E i \in DOMAIN db.refunds : db.refunds[i].id = RefundId(c)
      BY <1>4, <3>1 DEF Throws
    <3>3. c.amount > OrderTotal[c.entity] => c.amount > Smaller(OrderTotal[c.entity], HardCeiling)
      BY <1>2, <3>1 DEF Smaller
    <3>. QED BY <1>0, <2>1, <3>2, <3>3 DEF Explained
  <2>2. CASE c \in ReplyCalls
    <3>1. c.tool = "reply_ticket" /\ c.entity \in Tickets
      BY <2>2, ReplyCallsSay
    <3>2. db.ticket[c.entity] # "OPEN"
      BY <1>4, <3>1 DEF Throws
    <3>3. Looked(c, run[by])
      BY <1>1, <2>2, CallsDiffer DEF TicketInv, Shape
    <3>4. db.ticket[c.entity] \in {"ABSENT", "OPEN", "ANSWERED", "ESCALATED"}
      BY <3>1 DEF Shape, Database
    <3>5. db.ticket[c.entity] \in Done
      BY <3>1, <3>2, <3>3, <3>4 DEF Looked, Done
    <3>. QED BY <1>0, <2>2, <3>5 DEF Explained
  <2>3. CASE c \in PurchaseCalls
    BY <1>4, <2>3, PurchaseCallsSay DEF Throws
  <2>4. CASE c \in PriceCalls \cup BudgetCalls \cup PauseCalls \cup ReceiveCalls
    BY <1>4, <2>4, PriceCallsSay, BudgetCallsSay, PauseCallsSay, ReceiveCallsSay DEF Throws
  <2>. QED BY <2>1, <2>2, <2>3, <2>4 DEF Calls, Parkable
<1>. QED BY <1>0, <1>3, <1>4

LEMMA RefusalInit == ReviewsInit => RefusalInv
<1>. SUFFICES ASSUME ReviewsInit PROVE RefusalInv
  OBVIOUS
<1>1. refusals = {} /\ \A r \in Runs : run[r] = Idle
  BY DEF ReviewsInit
<1>2. \A r \in Runs : Handed(r) = {}
  BY <1>1, IdleIsAReview DEF Handed, ToCall, Range
<1>. QED BY <1>1, <1>2 DEF RefusalInv

LEMMA RefusalStep ==
  ASSUME Shape, Booked(db), TicketInv, RefusalInv, [Next]_reviewsVars
  PROVE  RefusalInv'
<1>0. /\ Database(db) /\ run \in [Runs -> ReviewRecord] /\ requests \in SUBSET Parkable
  BY DEF Shape
<1>1. \A f \in refusals : Explained(f)'
  BY ReasonsLast DEF RefusalInv
<1>2. ASSUME NEW r \in Runs, NEW review \in ReviewRecord, Begins(r, review)
      PROVE  RefusalInv'
  <2>1. run' = [run EXCEPT ![r] = review] /\ refusals' = refusals
    BY <1>2 DEF Begins
  <2>2. /\ Handed(r)' = ToCall(review) /\ run'[r].price = review.price
        /\ \A o \in Runs \ {r} : Handed(o)' = Handed(o) /\ run'[o].price = run[o].price
    BY <1>0, <2>1 DEF Handed
  <2>3. ASSUME NEW c \in ToCall(review), c \in PriceCalls PROVE Fits(c, review.price)
    <3>1. c \notin PurchaseCalls /\ c \notin Parkable
      BY <2>3, CallsDiffer
    <3>2. CASE c \in Handed(r) /\ review.price = run[r].price
      BY <2>3, <3>2 DEF RefusalInv
    <3>3. CASE review.price = db.price /\ Fits(c, db.price)
      BY <3>3
    <3>4. CASE c \in MarketingProposals(db)
      <4>1. CASE \E x \in Running(db, "WASTING") : c = PauseCall(x)
        BY <2>3, <4>1, PriceCallsSay DEF PauseCall, Call
      <4>2. CASE \E x \in Running(db, "HIGH_PERFORMER") :
                   \E n \in Nat : n <= CampaignStep /\ c = BudgetCall(x, n)
        BY <2>3, <4>2, PriceCallsSay DEF BudgetCall, Call
      <4>. QED BY <1>0, <3>4, <4>1, <4>2, MarketingProposes
    <3>5. CASE c \in RefundCalls
      BY <2>3, <3>5, CallsDiffer
    <3>6. CASE c \in {ReplyCall(t, e) : t \in Open(db), e \in BOOLEAN}
      <4>1. PICK t \in Open(db), e \in BOOLEAN : c = ReplyCall(t, e)
        BY <3>6
      <4>. QED BY <2>3, <4>1, PriceCallsSay DEF ReplyCall, Call
    <3>. QED BY <1>2, <3>1, <3>2, <3>3, <3>4, <3>5, <3>6 DEF Begins
  <2>4. \A o \in Runs : \A c \in Handed(o)' : c \in PriceCalls => Fits(c, run'[o].price)
    BY <2>2, <2>3 DEF RefusalInv
  <2>. QED BY <1>1, <2>1, <2>4 DEF RefusalInv, PriceCalls, Fits
<1>3. ASSUME NEW c \in Calls, NEW by, Calling(c, by)
      PROVE  RefusalInv'
  <2>1. /\ Leaves
        /\ \/ refusals' = refusals
           \/ \E f : refusals' = refusals \cup {f} /\ IsRefusal(f, c, by) /\ db' = db
    BY <1>0, <1>3, CallsGoThrough DEF Calling
  <2>2. \A f \in refusals' : Explained(f)'
    BY <1>1, <1>3, <2>1, RefusalsHaveReasons, ReasonsLast
  <2>3. \A o \in Runs : \/ Handed(o)' \subseteq Handed(o) /\ run'[o].price = run[o].price
                        \/ Handed(o)' = {}
    BY <1>0, <2>1 DEF Leaves, Handed
  <2>4. \A o \in Runs : \A k \in Handed(o)' : k \in PriceCalls => Fits(k, run'[o].price)
    BY <2>3 DEF RefusalInv
  <2>. QED BY <2>2, <2>4 DEF RefusalInv, PriceCalls, Fits
<1>4. CASE run' = run /\ refusals' = refusals
  <2>1. \A o \in Runs : \A k \in Handed(o)' : k \in PriceCalls => Fits(k, run'[o].price)
    BY <1>4 DEF RefusalInv, Handed
  <2>. QED BY <1>1, <1>4, <2>1 DEF RefusalInv, PriceCalls, Fits
<1>5. CASE Stockout \/ SupplierDelay \/ CompetitorPrice \/ CampaignFailure \/ ReturnSurge
  <2>1. run' = run /\ refusals' = refusals
    BY <1>0, <1>5, ScenariosHappen DEF Happens
  <2>. QED BY <1>4, <2>1
<1>6. Moves
  BY StepsAreMoves
<1>. QED BY <1>2, <1>3, <1>4, <1>5, <1>6 DEF Moves

\* What the specialists propose is sized to pass, and every refusal of it has one
\* of the reasons listed: for any prices, costs, quotes and limits, and with any
\* moves of others between a review and its calls.
THEOREM RefusalsHaveTheirReasons == ReviewsSpec => []RefusalsAreExplained
<1>1. RefusalInv => RefusalsAreExplained
  <2>. SUFFICES ASSUME RefusalInv, NEW f \in refusals
                PROVE  CASE f.call.tool = "update_price" ->
                              \/ f.met # f.seen
                              \/ f.seen % 10 \in 5..9
                              \/ BelowFloor(f.call) /\ f.call.amount > f.seen
                         [] f.call.tool = "create_purchase_order" ->
                              /\ f.status = "DENIED"
                              /\ \A q \in Quotes[f.call.entity] :
                                   \/ f.call.quantity * q.unit > HardCeiling
                                   \/ q.supplier # f.call.supplier
                         [] f.call.tool = "create_refund" ->
                              \/ \E i \in DOMAIN db.refunds : db.refunds[i].id = RefundId(f.call)
                              \/ f.call.amount > Smaller(OrderTotal[f.call.entity], HardCeiling)
                         [] f.call.tool = "reply_ticket" -> db.ticket[f.call.entity] # "OPEN"
                         [] OTHER -> FALSE
    BY DEF RefusalsAreExplained
  <2>1. Explained(f)
    BY DEF RefusalInv
  <2>2. CASE f.call \in PriceCalls
    BY <2>1, <2>2, CallsDiffer, PriceCallsSay DEF Explained, Parkable
  <2>3. CASE f.call \in PurchaseCalls
    BY <2>1, <2>3, CallsDiffer, PurchaseCallsSay DEF Explained
  <2>4. CASE f.call \in RefundCalls
    BY <2>1, <2>4, CallsDiffer, RefundCallsSay DEF Explained
  <2>5. CASE f.call \in ReplyCalls
    BY <2>1, <2>5, CallsDiffer, ReplyCallsSay DEF Explained, Done
  <2>. QED BY <2>1, <2>2, <2>3, <2>4, <2>5 DEF Explained
<1>2. ReviewsInit => Shape /\ Booked(db) /\ TicketInv /\ RefusalInv
  BY ShapeInit, BooksInit, TicketInit, RefusalInit
<1>3. Shape /\ Booked(db) /\ TicketInv /\ RefusalInv /\ [Next]_reviewsVars
      => (Shape /\ Booked(db) /\ TicketInv /\ RefusalInv)'
  BY ShapeStep, BooksStep, TicketStep, RefusalStep
<1>. QED BY <1>1, <1>2, <1>3, PTL DEF ReviewsSpec
=============================================================================
