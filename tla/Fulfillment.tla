---------------------------- MODULE Fulfillment -----------------------------
(***************************************************************************)
(* The path of an order to the supplier, the one piece of work that leaves *)
(* the process: the fulfill_order tool (tools/definitions.ts) commits a    *)
(* fulfilments row and enqueues a job; the job queue (module JobQueue)     *)
(* runs the handler of integrations/fulfillment-worker.ts; the handler     *)
(* calls the supplier and records the answer.                              *)
(*                                                                         *)
(* A fulfilment and its job are created together and for each other, so    *)
(* both go by the job's identifier.  The supplier is outside src/: it may  *)
(* accept, refuse or be unavailable, and an acceptance may go unheard.     *)
(*                                                                         *)
(* The tool and the worker run to their next await without interruption    *)
(* by each other, except by a caller in a process of its own: the MCP      *)
(* server (tools/mcp-server.ts) runs the same tool on the same database.   *)
(***************************************************************************)
EXTENDS JobQueue

CONSTANTS
  Orders,     \* paid orders; fulfill_order refuses any other
  NoOrder,    \* the order of a fulfilment that does not exist yet
  Callers,    \* the agents that may call fulfill_order
  InProcess,  \* those of them that live in the application's process
  MaxLapses   \* bound: how many writes of the tool and the handler fail

ASSUME FulfillmentAssumption ==
  /\ NoOrder \notin Orders
  /\ InProcess \subseteq Callers
  /\ Unhandled = {}
  /\ MaxLapses \in Nat

VARIABLES
  ful,      \* fulfillments.status, NONE before the row exists
  orderOf,  \* fulfillments.order_id
  tool,     \* how far each caller is inside fulfill_order
  call,     \* how far each batch is with its supplier call and the answer
  drafts,   \* at the supplier: how often it has accepted each order
  unseen,   \* how many of those acceptances were not recorded by the handler
  lapses    \* how many writes of the tool and the handler have failed

worker == <<ful, call, drafts, unseen>>
callerVars == <<orderOf, tool>>
fulfillmentVars == <<queueVars, ful, orderOf, tool, call, drafts, unseen, lapses>>

FulfillmentStatus == {"NONE", "PENDING_SUPPLIER", "SUBMITTED", "EXCEPTION"}

Idle == [at |-> "idle"]
ToolState ==
  {Idle} \cup [at : {"create"}, order : Orders] \cup [at : {"enqueue"}, id : Jobs]

FulfillmentTypeOK ==
  /\ TypeOK
  /\ ful \in [Jobs -> FulfillmentStatus]
  /\ orderOf \in [Jobs -> Orders \cup {NoOrder}]
  /\ tool \in [Callers -> ToolState]
  /\ call \in [Polls -> {"none", "waiting", "accepted", "throwing"}]
  /\ drafts \in [Orders -> Nat]
  /\ unseen \in [Orders -> Nat]
  /\ lapses \in 0 .. MaxLapses

FulfillmentInit ==
  /\ QueueInit
  /\ ful = [j \in Jobs |-> "NONE"]
  /\ orderOf = [j \in Jobs |-> NoOrder]
  /\ tool = [c \in Callers |-> Idle]
  /\ call = [p \in Polls |-> "none"]
  /\ drafts = [o \in Orders |-> 0]
  /\ unseen = [o \in Orders |-> 0]
  /\ lapses = 0

\* No in-process caller is between two statements of the synchronous tool, and
\* no handler between the error its recording threw and its catch block.
EventLoopFree ==
  /\ \A c \in InProcess : tool[c] = Idle
  /\ \A p \in Polls : call[p] # "throwing"

Lapse == lapses < MaxLapses /\ lapses' = lapses + 1

-----------------------------------------------------------------------------
(* The fulfill_order tool.                                                 *)

\* Mutant: the duplicate check sees open fulfilments only.
OpenFulfillmentsOf(o) == {f \in Jobs : ful[f] = "PENDING_SUPPLIER" /\ orderOf[f] = o}

\* What getFulfillmentForOrder can find.
FulfillmentsOf(o) == {f \in Jobs : ful[f] # "NONE" /\ orderOf[f] = o}

\* getFulfillmentForOrder finds nothing: the tool goes on to create a row.
\* When it finds one it returns that, and nothing changes: no code in src/
\* ever writes the status CANCELLED, which alone would let a second one in.
FindNoFulfillment(c, o) ==
  /\ tool[c] = Idle
  /\ c \in InProcess => EventLoopFree
  /\ FulfillmentsOf(o) = {}
  /\ tool' = [tool EXCEPT ![c] = [at |-> "create", order |-> o]]
  /\ UNCHANGED <<queueVars, worker, orderOf, lapses>>

CreateFulfillment(c, f) ==
  /\ tool[c].at = "create"
  /\ ful[f] = "NONE"
  /\ ful' = [ful EXCEPT ![f] = "PENDING_SUPPLIER"]
  /\ orderOf' = [orderOf EXCEPT ![f] = tool[c].order]
  /\ tool' = [tool EXCEPT ![c] = [at |-> "enqueue", id |-> f]]
  /\ UNCHANGED <<queueVars, call, drafts, unseen, lapses>>

\* A second statement, in no transaction with the first.
EnqueueJob(c) ==
  /\ tool[c].at = "enqueue"
  /\ Enqueue(tool[c].id)
  /\ tool' = [tool EXCEPT ![c] = Idle]
  /\ UNCHANGED <<worker, orderOf, lapses>>

\* One of the two INSERTs throws; the executor reports the call as FAILED.
ToolThrows(c) ==
  /\ tool[c] # Idle
  /\ Lapse
  /\ tool' = [tool EXCEPT ![c] = Idle]
  /\ UNCHANGED <<queueVars, worker, orderOf>>

-----------------------------------------------------------------------------
(* The handler of a fulfillment.submit job.                                *)

HandlerAt(p, state) == EventLoopFree /\ phase[p] = "handling" /\ call[p] = state

\* Already dealt with: the job is done without a supplier call.
SkipSettled(p) ==
  /\ HandlerAt(p, "none")
  /\ ful[Current(p)] # "PENDING_SUPPLIER"
  /\ HandlerEnds(p, "ok")
  /\ UNCHANGED <<worker, callerVars, lapses>>

\* Mutant: the supplier is called whatever the fulfilment says.
CallSupplierAlways(p) ==
  /\ HandlerAt(p, "none")
  /\ call' = [call EXCEPT ![p] = "waiting"]
  /\ UNCHANGED <<queueVars, ful, drafts, unseen, callerVars, lapses>>

CallSupplier(p) ==
  /\ HandlerAt(p, "none")
  /\ ful[Current(p)] = "PENDING_SUPPLIER"
  /\ call' = [call EXCEPT ![p] = "waiting"]
  /\ UNCHANGED <<queueVars, ful, drafts, unseen, callerVars, lapses>>

\* The supplier takes the order, before anyone here knows.
SupplierAccepts(p) ==
  /\ phase[p] = "handling"
  /\ call[p] = "waiting"
  /\ call' = [call EXCEPT ![p] = "accepted"]
  /\ drafts' = [drafts EXCEPT ![orderOf[Current(p)]] = @ + 1]
  /\ UNCHANGED <<queueVars, ful, unseen, callerVars, lapses>>

HangUp(p) == call' = [call EXCEPT ![p] = "none"]

GoesUnseen(p) == unseen' = [unseen EXCEPT ![orderOf[Current(p)]] = @ + 1]

RecordAcceptance(p) ==
  /\ HandlerAt(p, "accepted")
  /\ ful' = [ful EXCEPT ![Current(p)] = "SUBMITTED"]
  /\ HandlerEnds(p, "ok")
  /\ HangUp(p)
  /\ UNCHANGED <<drafts, unseen, callerVars, lapses>>

\* Mutants: the fulfilment is parked one attempt early, or never in time.
LastAttemptEarly(j) == attempts[j] + 1 >= MaxAttempts
LastAttemptLate(j) == attempts[j] > MaxAttempts

LastAttempt(j) == attempts[j] >= MaxAttempts

\* The catch block: the fulfilment is parked, whatever its status, if the queue
\* is about to give up, and the error goes on to the queue.
Catch(p, outcome) ==
  /\ ful' = [ful EXCEPT ![Current(p)] = IF LastAttempt(Current(p)) THEN "EXCEPTION" ELSE @]
  /\ HandlerEnds(p, outcome)

\* The catch block's own UPDATE throws, and its error takes the place of the
\* supplier's: even a refusal is now something to retry.
CatchThrows(p) ==
  /\ Lapse
  /\ HandlerEnds(p, "transient")
  /\ UNCHANGED ful

CatchError(p, outcome) ==
  \/ Catch(p, outcome) /\ UNCHANGED lapses
  \/ CatchThrows(p)

\* A 4xx is permanent; a 5xx, a 429, a timeout or no connection is transient.
SupplierFails(p, outcome) ==
  /\ HandlerAt(p, "waiting")
  /\ CatchError(p, outcome)
  /\ HangUp(p)
  /\ UNCHANGED <<drafts, unseen, callerVars>>

\* The order was accepted, and the answer timed out, broke off or did not parse
\* as JSON (transient), or was not the payload expected (permanent).
AnswerLost(p, outcome) ==
  /\ HandlerAt(p, "accepted")
  /\ CatchError(p, outcome)
  /\ GoesUnseen(p)
  /\ HangUp(p)
  /\ UNCHANGED <<drafts, callerVars>>

\* The answer arrived and the try block failed over it: at its UPDATE, which
\* leaves the row as it was, or at the event published after it, when the row
\* already says SUBMITTED.
RecordingThrows(p) ==
  /\ HandlerAt(p, "accepted")
  /\ Lapse
  /\ \E recorded \in {ful[Current(p)], "SUBMITTED"} :
       ful' = [ful EXCEPT ![Current(p)] = recorded]
  /\ call' = [call EXCEPT ![p] = "throwing"]
  /\ UNCHANGED <<queueVars, drafts, unseen, callerVars>>

\* Its catch block, in the same turn: only a crash or another process comes
\* between.  On the last attempt SUBMITTED itself is overwritten.
CatchRecording(p) ==
  /\ phase[p] = "handling"
  /\ call[p] = "throwing"
  /\ CatchError(p, "transient")
  /\ IF ful'[Current(p)] = "SUBMITTED" THEN UNCHANGED unseen ELSE GoesUnseen(p)
  /\ HangUp(p)
  /\ UNCHANGED <<drafts, callerVars>>

-----------------------------------------------------------------------------
(* Steps of the queue that the handler has no part in.                     *)

QueueStep(A) == A /\ UNCHANGED <<worker, callerVars, lapses>>

WorkerStep(p) ==
  \/ ClaimDue(p)
  \/ Finish(p)
  \/ FinishFails(p)
  \/ DeadLetter(p)
  \/ BackOff(p)
  \/ BookkeepingFails(p)

\* The application dies, with its batches, its supplier calls and its callers.
AppCrash ==
  /\ Crash
  /\ call' = [p \in Polls |-> "none"]
  /\ tool' = [c \in Callers |-> IF c \in InProcess THEN Idle ELSE tool[c]]
  /\ UNCHANGED <<ful, orderOf, drafts, unseen, lapses>>

FulfillmentNext ==
  \/ \E c \in Callers :
       \/ \E o \in Orders : FindNoFulfillment(c, o)
       \/ \E f \in Jobs : CreateFulfillment(c, f)
       \/ EnqueueJob(c)
       \/ ToolThrows(c)
  \/ \E p \in Polls :
       \/ SkipSettled(p)
       \/ CallSupplier(p)
       \/ SupplierAccepts(p)
       \/ RecordAcceptance(p)
       \/ \E outcome \in {"transient", "permanent"} :
            SupplierFails(p, outcome) \/ AnswerLost(p, outcome)
       \/ RecordingThrows(p)
       \/ CatchRecording(p)
       \/ EventLoopFree /\ QueueStep(WorkerStep(p))
  \/ \E j \in Jobs : QueueStep(BecomeDue(j) \/ (EventLoopFree /\ RetryJob(j)))
  \/ AppCrash

FulfillmentSafeSpec == FulfillmentInit /\ [][FulfillmentNext]_fulfillmentVars

\* Synchronous code runs to its end; the poller fires; the supplier answers or
\* the call times out; time passes.  Nothing else is obliged to happen.
FulfillmentFairness ==
  /\ \A c \in Callers :
       WF_fulfillmentVars(EnqueueJob(c) \/ \E f \in Jobs : CreateFulfillment(c, f))
  /\ WF_fulfillmentVars(\E p \in Polls : EventLoopFree /\ QueueStep(ClaimDue(p)))
  /\ \A j \in Jobs : WF_fulfillmentVars(QueueStep(BecomeDue(j)))
  /\ \A p \in Polls :
       /\ WF_fulfillmentVars(SkipSettled(p) \/ CallSupplier(p))
       /\ WF_fulfillmentVars(
            \/ RecordAcceptance(p)
            \/ CatchRecording(p)
            \/ \E outcome \in {"transient", "permanent"} :
                 SupplierFails(p, outcome) \/ AnswerLost(p, outcome))
       /\ WF_fulfillmentVars(
            EventLoopFree /\ QueueStep(Finish(p) \/ DeadLetter(p) \/ BackOff(p)))

FulfillmentSpec == FulfillmentSafeSpec /\ FulfillmentFairness

-----------------------------------------------------------------------------
(* Properties.                                                             *)

\* With one process, no order ever gets a second fulfilment: the tool's check
\* and its INSERT cannot be split, and a fulfilment left without a job by a
\* crash still counts.
OneFulfillmentPerOrder ==
  \A f, g \in Jobs :
    ful[f] # "NONE" /\ ful[g] # "NONE" /\ orderOf[f] = orderOf[g] => f = g

\* No two batches wait for the supplier's answer to the same order.
OneCallPerOrder ==
  \A p, q \in Polls :
    call[p] # "none" /\ call[q] # "none" /\ orderOf[Current(p)] = orderOf[Current(q)] => p = q

\* The supplier is sent an order again only after an acceptance that the
\* handler did not get to record.  Retries, overlapping batches, restarts,
\* revived dead letters and failed queue writes never duplicate it alone.
DuplicateOnlyAfterUnseen == \A o \in Orders : drafts[o] <= 1 + unseen[o]

\* A fulfilment whose job no operator revived is parked only when the queue is
\* giving its job up: on the last attempt, and for good.
ExceptionMeansExhausted ==
  \A f \in Jobs :
    ful[f] = "EXCEPTION" /\ retries[f] = 0
      => status[f] \in {"RUNNING", "DEAD"} /\ attempts[f] = MaxAttempts

\* Where a pending fulfilment can be when nothing was interrupted: its job is
\* about to be enqueued, waiting, or held by a batch, or was dead-lettered by a
\* permanent error before its last attempt.
PendingIsExplained ==
  crashes + faults + lapses = 0 =>
    \A f \in Jobs : ful[f] = "PENDING_SUPPLIER" =>
      \/ \E c \in Callers : tool[c] = [at |-> "enqueue", id |-> f]
      \/ status[f] = "READY"
      \/ InFlight(f)
      \/ status[f] = "DEAD" /\ attempts[f] < MaxAttempts

\* The handler call that recorded SUBMITTED is itself in its catch block, on the
\* last attempt: the event that should follow the UPDATE could not be stored.
Overwrites(p, f) ==
  /\ phase[p] = "handling" /\ call[p] = "throwing" /\ Current(p) = f
  /\ LastAttempt(f)

\* An answered fulfilment stays as it was answered, whatever retries, revived
\* dead letters and overlapping batches do: a parked one for good, and one that
\* says SUBMITTED but for the very handler call that wrote it, which may park
\* it before the queue hears of the attempt.
AnswerIsFinal ==
  [][\A f \in Jobs :
       /\ ful[f] = "EXCEPTION" => ful'[f] = "EXCEPTION"
       /\ ful[f] = "SUBMITTED" =>
            \/ ful'[f] = "SUBMITTED"
            \/ ful'[f] = "EXCEPTION" /\ \E p \in Polls : Overwrites(p, f)
    ]_fulfillmentVars

\* The comment on the status check: a retry of a job whose call succeeded must
\* not place the order twice, so an order the supplier has accepted is not sent
\* to it again.
AcceptedIsNotResent ==
  [][\A p \in Polls :
       call[p] = "none" /\ call'[p] = "waiting" => drafts[orderOf[Current(p)]] = 0
    ]_fulfillmentVars

-----------------------------------------------------------------------------
(* The promise, order by order.                                            *)

StageOf(o) ==
  IF FulfillmentsOf(o) = {} THEN "none"
  ELSE LET f == CHOOSE g \in FulfillmentsOf(o) : TRUE
       IN  IF ful[f] = "SUBMITTED" THEN "submitted"
           ELSE IF ful[f] = "EXCEPTION" THEN "exception"
           ELSE IF status[f] = "DEAD" THEN "deadLettered"
           ELSE "committed"

Promise == INSTANCE Handover WITH
  stage <- [o \in Orders |-> StageOf(o)],
  accepted <- [o \in Orders |-> drafts[o] > 0]

\* The pipeline keeps the promise of module Handover, safety ...
KeepsPromise == Promise!HandoverSafeSpec

\* ... and progress.
KeepsPromiseInTheEnd == Promise!HandoverSpec
=============================================================================
