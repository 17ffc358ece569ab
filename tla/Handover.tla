------------------------------ MODULE Handover ------------------------------
(***************************************************************************)
(* What the fulfilment pipeline promises about one order at a time, with   *)
(* no queue, worker or retry in sight.  An order is handed over at most    *)
(* once; it counts as submitted only if the supplier accepted it; an order *)
(* that was committed is answered in the end, is parked as an exception,   *)
(* or waits in the dead letter queue for an operator.  A submission may be *)
(* withdrawn: an exception, then, says nothing of what the supplier knows. *)
(***************************************************************************)
CONSTANT Orders

VARIABLES
  stage,    \* where the handover of each order stands
  accepted  \* whether the supplier has ever accepted the order

handoverVars == <<stage, accepted>>

Stage == {"none", "committed", "submitted", "exception", "deadLettered"}

HandoverInit ==
  /\ stage = [o \in Orders |-> "none"]
  /\ accepted = [o \in Orders |-> FALSE]

Move(o, from, to) ==
  /\ stage[o] = from
  /\ stage' = [stage EXCEPT ![o] = to]
  /\ UNCHANGED accepted

Commit(o) == Move(o, "none", "committed")

Accept(o) ==
  /\ stage[o] = "committed"
  /\ accepted' = [accepted EXCEPT ![o] = TRUE]
  /\ UNCHANGED stage

Submit(o) == accepted[o] /\ Move(o, "committed", "submitted")
Park(o) == Move(o, "committed", "exception")
GiveUp(o) == Move(o, "committed", "deadLettered")
Revive(o) == Move(o, "deadLettered", "committed")

\* The worker records an acceptance, fails over what it has to say of it, and
\* parks the order all the same.
Withdraw(o) == Move(o, "submitted", "exception")

Resolve(o) == Submit(o) \/ Park(o) \/ GiveUp(o)

HandoverNext ==
  \E o \in Orders : Commit(o) \/ Accept(o) \/ Resolve(o) \/ Revive(o) \/ Withdraw(o)

HandoverSafeSpec == HandoverInit /\ [][HandoverNext]_handoverVars

HandoverSpec == HandoverSafeSpec /\ \A o \in Orders : WF_handoverVars(Resolve(o))
=============================================================================
