----------------------------- MODULE Simulation -----------------------------
(***************************************************************************)
(* The fulfilment pipeline (module Fulfillment) while the business around  *)
(* it changes: an order that waits in the queue is refunded or its payment *)
(* fails, and an operator resets the demo.  The reset deletes every row    *)
(* and seeds the same orders again (simulation/seed.ts), but what runs in  *)
(* memory is not told: a batch claimed before the reset goes on, with jobs *)
(* that no row stands for any more.  Order identifiers come back, those of *)
(* fulfilments and jobs do not.                                            *)
(*                                                                         *)
(* What a customer may be told about an order (describeOrderState) is read *)
(* from the tables, and is compared here with what the supplier knows.     *)
(***************************************************************************)
EXTENDS Fulfillment

CONSTANTS
  CancelledOrders,  \* orders the seed cancels although they are paid
  MaxResets,   \* bound: how often the demo is reset
  MaxSetbacks  \* bound: how many payments fail or are returned

ASSUME SimulationAssumption ==
  /\ CancelledOrders \subseteq Orders
  /\ MaxResets \in Nat
  /\ MaxSetbacks \in Nat
  /\ InProcess = Callers

VARIABLES
  pay,        \* orders.payment_status
  gone,       \* the jobs and fulfilments whose rows a reset has deleted
  overtaken,  \* fulfilments that existed when their order stopped being paid
  forgotten,  \* acceptances under a fulfilment that no longer exists
  resets,     \* how often the demo has been reset
  setbacks    \* how many payments have failed or been returned

business == <<pay, gone, overtaken, forgotten, resets, setbacks>>
simulationVars == <<fulfillmentVars, business>>

SimulationInit ==
  /\ FulfillmentInit
  /\ pay = [o \in Orders |-> "SUCCESS"]
  /\ gone = {}
  /\ overtaken = {}
  /\ forgotten = [o \in Orders |-> 0]
  /\ resets = 0
  /\ setbacks = 0

-----------------------------------------------------------------------------
(* The business changes.                                                   *)

Setback(o, outcome) ==
  /\ EventLoopFree
  /\ setbacks < MaxSetbacks
  /\ setbacks' = setbacks + 1
  /\ pay' = [pay EXCEPT ![o] = outcome]
  /\ overtaken' = overtaken \cup FulfillmentsOf(o)
  /\ UNCHANGED <<fulfillmentVars, gone, forgotten, resets>>

\* recordRefund looks at the total alone: the order may be anywhere on its way.
RecordRefund(o) == pay[o] # "REFUNDED" /\ Setback(o, "REFUNDED")

\* The payment failure scenario flips recent orders that were paid, sent or
\* not, and cancels them with the same statement.
PaymentFailure(o) == pay[o] = "SUCCESS" /\ Setback(o, "FAILED")

Rows == {j \in Jobs : status[j] # "ABSENT" \/ ful[j] # "NONE"}

TruncateAll ==
  /\ ful' = [j \in Jobs |-> "NONE"]
  /\ status' = [j \in Jobs |-> "ABSENT"]
  /\ attempts' = [j \in Jobs |-> 0]
  /\ retries' = [j \in Jobs |-> 0]
  /\ due' = <<>>
  /\ delayed' = {}

\* The same orders as ever, and paid again.
SeedDemo ==
  /\ TruncateAll
  /\ pay' = [o \in Orders |-> "SUCCESS"]

\* One transaction, and synchronous.  Batches, supplier calls and what the
\* supplier has accepted are out of its reach; the counts of acceptances start
\* again with the business.
Reset ==
  /\ EventLoopFree
  /\ resets < MaxResets
  /\ resets' = resets + 1
  /\ SeedDemo
  /\ gone' = gone \cup Rows
  /\ forgotten' = drafts
  /\ unseen' = [o \in Orders |-> 0]
  /\ UNCHANGED <<memory, crashes, faults, orderOf, tool, call, drafts, lapses, overtaken, setbacks>>

-----------------------------------------------------------------------------
(* The tool and the worker, in the business as it is now.                  *)

Undisturbed(A) == A /\ UNCHANGED business

\* Mutants: the tool does not look at the payment, or only for open fulfilments.
FindUnpaid(c, o) == FindNoFulfillment(c, o)
FindNotOpen(c, o) ==
  /\ pay[o] = "SUCCESS" /\ tool[c] = Idle /\ OpenFulfillmentsOf(o) = {}
  /\ tool' = [tool EXCEPT ![c] = [at |-> "create", order |-> o]]
  /\ UNCHANGED <<queueVars, worker, orderOf, lapses>>

\* fulfill_order refuses an order whose payment is not SUCCESS.
FindPaid(c, o) == pay[o] = "SUCCESS" /\ FindNoFulfillment(c, o)

ToolStep(c) ==
  \/ \E o \in Orders : FindPaid(c, o)
  \/ \E f \in Jobs \ gone : CreateFulfillment(c, f)
  \/ EnqueueJob(c)
  \/ ToolThrows(c)

Ghost(p) == batch[p] # <<>> /\ Current(p) \in gone

HandlerStep(p) ==
  \/ SkipSettled(p)
  \/ CallSupplier(p)
  \/ SupplierAccepts(p)
  \/ RecordAcceptance(p)
  \/ \E outcome \in {"transient", "permanent"} :
       SupplierFails(p, outcome) \/ AnswerLost(p, outcome)
  \/ RecordingThrows(p)
  \/ CatchRecording(p)
  \/ EventLoopFree /\ QueueStep(WorkerStep(p))

(* A job whose row is gone.  An UPDATE by its identifier matches nothing.   *)

GhostEnds(p, outcome) ==
  /\ HandlerEnds(p, outcome)
  /\ HangUp(p)
  /\ UNCHANGED <<ful, drafts, unseen, callerVars, lapses>>

\* No such fulfilment: a permanent error, thrown before the try block.
NoSuchFulfillment(p) == HandlerAt(p, "none") /\ GhostEnds(p, "permanent")

\* The call was made before the reset.  The supplier answers as ever.
GhostAccepted(p) ==
  /\ SupplierAccepts(p)
  /\ forgotten' = [forgotten EXCEPT ![orderOf[Current(p)]] = @ + 1]
  /\ UNCHANGED <<pay, gone, overtaken, resets, setbacks>>

GhostAnswered(p) ==
  /\ \/ HandlerAt(p, "accepted") /\ \E outcome \in {"ok", "transient", "permanent"} :
          GhostEnds(p, outcome)
     \/ HandlerAt(p, "waiting") /\ \E outcome \in {"transient", "permanent"} :
          GhostEnds(p, outcome)

\* Mutant: the backoff puts the job back whether or not it still has a row.
GhostSettlesRevived(p) ==
  /\ EventLoopFree
  /\ phase[p] \in {"ok", "permanent", "transient"}
  /\ IF phase[p] = "transient"
     THEN /\ status' = [status EXCEPT ![Current(p)] = "READY"]
          /\ delayed' = delayed \cup {Current(p)}
          /\ UNCHANGED <<attempts, retries, due>>
     ELSE UNCHANGED rows
  /\ Advance(p)
  /\ UNCHANGED <<crashes, faults, worker, callerVars, lapses>>

\* finish, deadLetter and the backoff UPDATE alike: the batch moves on.
GhostSettles(p) ==
  /\ EventLoopFree
  /\ phase[p] \in {"ok", "permanent", "transient"}
  /\ Advance(p)
  /\ UNCHANGED <<rows, crashes, faults, worker, callerVars, lapses>>

\* The event published after it fails to be stored, and the batch is abandoned.
GhostBookkeepingFails(p) ==
  /\ EventLoopFree
  /\ phase[p] \in {"permanent", "transient"}
  /\ Fault
  /\ Abandon(p)
  /\ UNCHANGED <<rows, crashes, worker, callerVars, lapses>>

GhostStep(p) ==
  \/ Undisturbed(NoSuchFulfillment(p))
  \/ GhostAccepted(p)
  \/ Undisturbed(GhostAnswered(p))
  \/ Undisturbed(GhostSettles(p))
  \/ Undisturbed(GhostBookkeepingFails(p))

SimulationNext ==
  \/ Reset
  \/ \E o \in Orders : RecordRefund(o) \/ PaymentFailure(o)
  \/ \E c \in Callers : Undisturbed(ToolStep(c))
  \/ \E p \in Polls :
       \/ ~Ghost(p) /\ Undisturbed(HandlerStep(p))
       \/ Ghost(p) /\ GhostStep(p)
  \/ \E j \in Jobs : Undisturbed(QueueStep(BecomeDue(j) \/ (EventLoopFree /\ RetryJob(j))))
  \/ Undisturbed(AppCrash)

SimulationSpec == SimulationInit /\ [][SimulationNext]_simulationVars

-----------------------------------------------------------------------------
(* What a customer is told.                                                *)

\* Mutant: an accepted order counts as one that is still queued.
DescribePending(o) ==
  IF pay[o] = "REFUNDED" THEN "refunded"
  ELSE IF o \in CancelledOrders \/ pay[o] = "FAILED" THEN "cancelled"
  ELSE IF \E f \in FulfillmentsOf(o) : ful[f] = "EXCEPTION" THEN "unreached"
  ELSE IF FulfillmentsOf(o) # {} THEN "queued"
  ELSE "waiting"

\* get_order_status looks at a refund first, then at whether the order was
\* cancelled, by a failed payment or by the seed.  The tool looks at neither: a
\* cancelled order that is paid is sent like any other.  No code in src/ sets
\* SHIPPED or CANCELLED on a fulfilment.
DescribeOrderState(o) ==
  IF pay[o] = "REFUNDED" THEN "refunded"
  ELSE IF o \in CancelledOrders \/ pay[o] = "FAILED" THEN "cancelled"
  ELSE IF \E f \in FulfillmentsOf(o) : ful[f] = "SUBMITTED" THEN "accepted"
  ELSE IF \E f \in FulfillmentsOf(o) : ful[f] = "EXCEPTION" THEN "unreached"
  ELSE IF FulfillmentsOf(o) # {} THEN "queued"
  ELSE "waiting"

-----------------------------------------------------------------------------
(* Properties.                                                             *)

\* Nothing a batch of the old business does after a reset, late answers of the
\* supplier, backoffs and dead letters included, brings one of its rows back.
OldWorkLeavesNoTrace ==
  \A j \in gone :
    /\ status[j] = "ABSENT" /\ ful[j] = "NONE"
    /\ j \notin ToSet(due) \cup delayed

\* Since the last reset the supplier has accepted an order under a fulfilment of
\* this business at most once, but for acceptances the handler did not get to
\* record: not even a call of the old business, on the wire for the same order
\* during the reset, leads to another.
DuplicateIsExplained == \A o \in Orders : drafts[o] - forgotten[o] <= 1 + unseen[o]

\* The worker does not look at the order's payment: an order that was refunded,
\* or whose payment failed, may still be on its way to the supplier, but only
\* under a fulfilment that was there when the money went back.
UnpaidWasOvertaken ==
  \A f \in Jobs : ful[f] # "NONE" /\ pay[orderOf[f]] # "SUCCESS" => f \in overtaken

\* An acceptance for this order is on its way to the table.
BeingRecorded(o) ==
  \E p \in Polls : call[p] \in {"accepted", "throwing"} /\ orderOf[Current(p)] = o /\ ~Ghost(p)

\* A crash has left the job RUNNING with no batch to deal with it.
Stranded(o) == \E f \in FulfillmentsOf(o) : status[f] = "RUNNING" /\ ~InFlight(f)

\* What a customer is told agrees with the supplier: an order said to be accepted
\* was accepted, and one said to wait, to be queued or not to have reached the
\* supplier was not, unless an acceptance went unseen, is being recorded,
\* or was cut off by a crash that left the job stranded.
ToldIsTrue ==
  \A o \in Orders :
    LET accepted == drafts[o] - forgotten[o]
    IN  /\ DescribeOrderState(o) = "accepted" => accepted > 0
        /\ /\ DescribeOrderState(o) \in {"waiting", "queued", "unreached"}
           /\ accepted > 0
           => unseen[o] > 0 \/ BeingRecorded(o) \/ Stranded(o)
=============================================================================
