----------------------------- MODULE MCExecutor -----------------------------
(* A small instance of module Executor: two orders, one product, the limits  *)
(* of policies/rules.ts scaled down to a few units.                         *)
EXTENDS ExecutorProofs, TLC

CONSTANTS OrderA, OrderB, Laptop

Ask(agent, tool, entity, amount) ==
  [agent |-> agent, tool |-> tool, entity |-> entity, amount |-> amount,
   suspect |-> FALSE, quoted |-> TRUE]

SmallRefund(o) == Ask("customer", "create_refund", o, 1)
LargeRefund(o) == Ask("customer", "create_refund", o, 2)
Purchase(cost) == Ask("procurement", "create_purchase_order", Laptop, cost)
Reprice(amount) == Ask("pricing", "update_price", Laptop, amount)

MCCalls ==
  {SmallRefund(OrderA), SmallRefund(OrderB), LargeRefund(OrderA),
   Purchase(1), Purchase(2), Reprice(19), Reprice(22), Reprice(24)}
MCRefunds == {SmallRefund(OrderA), SmallRefund(OrderB)}
MCOneOrder == {SmallRefund(OrderA), LargeRefund(OrderA)}

MCBudget ==
  [g \in Agents |-> IF g = "customer" THEN 1 ELSE IF g = "procurement" THEN 3 ELSE 0]
MCLargerBudget == [g \in Agents |-> IF g = "customer" THEN 9 ELSE 0]
MCTotal == [o \in {OrderA, OrderB} |-> 2]
MCPrice == [p \in {Laptop} |-> 20]
MCCost == [p \in {Laptop} |-> 15]

Symmetry == Permutations(Callers) \cup Permutations(Operators) \cup Permutations(Approvals)
=============================================================================
