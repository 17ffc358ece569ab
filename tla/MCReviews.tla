------------------------------ MODULE MCReviews ------------------------------
(***************************************************************************)
(* Reviews on rows of the seed: five of its products, four campaigns, five *)
(* tickets about three orders, with the limits of policies/rules.ts.       *)
(***************************************************************************)
EXTENDS Reviews, TLC

CONSTANTS r1, r2

MCProducts == {"monitor", "organiser", "mouse", "sleeve", "lamp"}
MCSuppliers == {"meridian", "coastal", "northgate"}
MCCampaigns == {"cart", "broad", "awareness", "laptops"}
MCOrders == {"o1", "o2", "o3"}
MCRow ==
  [monitor |-> 1, mouse |-> 2, organiser |-> 3, sleeve |-> 4, lamp |-> 5,
   laptops |-> 1, broad |-> 2, cart |-> 3, awareness |-> 4]

MCCost == [monitor |-> 1850000, organiser |-> 60000, mouse |-> 110000, sleeve |-> 120000,
           lamp |-> 90000]
MCSold == [monitor |-> 14, organiser |-> 28, mouse |-> 14, sleeve |-> 0, lamp |-> 0]
MCForecast == [monitor |-> 105, organiser |-> 210, mouse |-> 120, sleeve |-> 0, lamp |-> 0]
MCSourceOf ==
  [monitor |-> "northgate", organiser |-> "coastal", mouse |-> "coastal", sleeve |-> "coastal",
   lamp |-> "coastal"]
MCReliability == [meridian |-> 90, coastal |-> 85, northgate |-> 70]

ThreeQuotes(cost, minimum) ==
  {[supplier |-> "meridian", unit |-> RoundDiv(97 * cost, 100), lead |-> 12, minimum |-> minimum],
   [supplier |-> "northgate", unit |-> RoundDiv(104 * cost, 100), lead |-> 3, minimum |-> 10],
   [supplier |-> "coastal", unit |-> RoundDiv(112 * cost, 100), lead |-> 9, minimum |-> 20]}

MCQuotes == [p \in MCProducts |-> ThreeQuotes(MCCost[p], 25)]

MCDailyBudget ==
  [ceo |-> 0, analytics |-> 0, inventory |-> 0, pricing |-> 0, marketing |-> 1000000,
   customer |-> 2000000, procurement |-> 5000000, fulfillment |-> 10000000]

MCSpend == [cart |-> 90000, broad |-> 80000, awareness |-> 60000, laptops |-> 70000]

MCNewest == <<"surge1", "surge2", "damaged", "refund", "where">>
MCTheme ==
  [surge1 |-> "refund", surge2 |-> "refund", damaged |-> "product", refund |-> "refund",
   where |-> "delivery"]
MCOrderOf ==
  [surge1 |-> "o1", surge2 |-> "o3", damaged |-> "o1", refund |-> "o2", where |-> None]
\* One order below the limit for a refund without a human, two above it.
MCOrderTotal == [o1 |-> 150000, o2 |-> 900000, o3 |-> 450000]
MCSurge == {"surge1", "surge2"}

\* A part of o1 has the identifier of the whole of o3.
MCTransactionId ==
  [x \in MCOrders \X ({MCOrderTotal[o] : o \in MCOrders} \cup {50000}) |->
     IF x = <<"o3", 450000>> THEN <<"o1", 50000>> ELSE x]

\* Returns and what is spent are in rupees, for they are only set against each
\* other.  The organiser was raised by hand, beyond the price of the most profit;
\* the sleeve was, to an odd price, and is far below the market.  The lamp is below
\* the market and sold for less than the margin floor asks.
MCSeed ==
  [price |-> [monitor |-> 2775000, organiser |-> 214000, mouse |-> 198000, sleeve |-> 222006,
             lamp |-> 100000],
   market |-> [monitor |-> 2800000, organiser |-> 190000, mouse |-> 222000, sleeve |-> 262000,
              lamp |-> 110000],
   onHand |-> [monitor |-> 2, organiser |-> 60, mouse |-> 8, sleeve |-> 40, lamp |-> 30],
   lead |-> [monitor |-> 12, organiser |-> 9, mouse |-> 6, sleeve |-> 10, lamp |-> 5],
   purchases |-> <<>>,
   budget |-> [cart |-> 900000, broad |-> 500000, awareness |-> 700000, laptops |-> 400000],
   revenue |-> [cart |-> 738000, broad |-> 56000, awareness |-> 30000,
                laptops |-> 378000],
   paused |-> {},
   ticket |-> [t \in {"surge1", "surge2", "damaged", "refund", "where"} |->
                 IF t \in {"surge1", "surge2"} THEN "ABSENT" ELSE "OPEN"],
   refunds |-> <<>>]

Symmetry == Permutations(Runs)
=============================================================================
