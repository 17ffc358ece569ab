-------------------------- MODULE SimulationProofs --------------------------
(***************************************************************************)
(* The pipeline in a business that changes, for any number of orders,      *)
(* fulfilments, batches, resets, setbacks, crashes and failed writes.      *)
(*                                                                         *)
(* After a reset the old batches hold jobs whose rows are gone.  A handler *)
(* cannot tell: it goes on as if its row were there, RUNNING, with its     *)
(* fulfilment pending, for an order nobody else can name.  Seen that way,  *)
(* every state of module Simulation is a state of module Fulfillment, and  *)
(* a step of the present business is one of Fulfillment's: its lemmas hold *)
(* of the instance AsIf.  What is left to prove here is the reset itself   *)
(* and what becomes of the old batches.                                    *)
(***************************************************************************)
EXTENDS Simulation, SequenceTheorems, TLAPS

\* The order of a job of the old business: a name that no order has.
Outside == CHOOSE x : x \notin {e[2] : e \in Orders \cup {NoOrder}}
OldOrder(j) == <<j, Outside>>
OldOrders == {OldOrder(j) : j \in Jobs}

AsIfStatus == [j \in Jobs |-> IF j \in gone THEN "RUNNING" ELSE status[j]]
AsIfFul == [j \in Jobs |-> IF j \in gone THEN "PENDING_SUPPLIER" ELSE ful[j]]
AsIfOrderOf == [j \in Jobs |-> IF j \in gone THEN OldOrder(j) ELSE orderOf[j]]

\* Acceptances are counted from the last reset on; an old order has had one, unseen.
AsIfDrafts ==
  [o \in Orders \cup OldOrders |-> IF o \in Orders THEN drafts[o] - forgotten[o] ELSE 1]
AsIfUnseen == [o \in Orders \cup OldOrders |-> IF o \in Orders THEN unseen[o] ELSE 1]

\* An old batch may be abandoned without a fault or a crash of its own, so the
\* state counts as one that an interruption has preceded.
AsIf == INSTANCE FulfillmentProofs WITH
  Orders <- Orders \cup OldOrders,
  MaxCrashes <- MaxCrashes + 1,
  crashes <- crashes + 1,
  status <- AsIfStatus,
  ful <- AsIfFul,
  orderOf <- AsIfOrderOf,
  drafts <- AsIfDrafts,
  unseen <- AsIfUnseen

BusinessTypes ==
  /\ gone \subseteq Jobs
  /\ status \in [Jobs -> Status]
  /\ ful \in [Jobs -> FulfillmentStatus]
  /\ orderOf \in [Jobs -> Orders \cup {NoOrder}]
  /\ tool \in [Callers -> ToolState]
  /\ drafts \in [Orders -> Nat]
  /\ unseen \in [Orders -> Nat]
  /\ forgotten \in [Orders -> Nat]
  /\ \A o \in Orders : forgotten[o] <= drafts[o]
  /\ pay \in [Orders -> {"SUCCESS", "REFUNDED", "FAILED"}]
  /\ crashes \in 0 .. MaxCrashes

\* The reset waits for the tool, and nobody writes a row that is gone.
GoneLeavesNoRow ==
  /\ \A j \in gone : status[j] = "ABSENT" /\ ful[j] = "NONE"
  /\ \A c \in Callers : tool[c].at = "enqueue" => tool[c].id \notin gone

\* Nothing comes between the tool's look at the payment and its INSERT.
CreatesArePaid == \A c \in Callers : tool[c].at = "create" => pay[tool[c].order] = "SUCCESS"

BusinessInv == BusinessTypes /\ GoneLeavesNoRow /\ CreatesArePaid /\ UnpaidWasOvertaken

SimulationInv == BusinessInv /\ AsIf!AnswerInv

-----------------------------------------------------------------------------
(* The state as if the old rows were there.                                *)

\* No order has the name of an old one, and no two old ones the same.
LEMMA OldOrdersAreApart ==
  /\ NoOrder \notin Orders \cup OldOrders
  /\ \A j \in Jobs : OldOrder(j) \in OldOrders /\ OldOrder(j) \notin Orders
  /\ \A i, j \in Jobs : OldOrder(i) = OldOrder(j) => i = j
<1>1. Outside \notin {e[2] : e \in Orders \cup {NoOrder}}
  <2>1. \E x : x \notin {e[2] : e \in Orders \cup {NoOrder}}
    BY NoSetContainsEverything
  <2>. QED BY <2>1 DEF Outside
<1>2. ASSUME NEW j \in Jobs PROVE OldOrder(j) \notin Orders \cup {NoOrder}
  <2>1. OldOrder(j)[2] = Outside
    BY DEF OldOrder
  <2>. QED BY <1>1, <2>1
<1>3. \A i, j \in Jobs : OldOrder(i) = OldOrder(j) => i = j
  BY DEF OldOrder
<1>. QED BY <1>2, <1>3, FulfillmentAssumption DEF FulfillmentAssumption, OldOrders

LEMMA AsIfAssumptions == AsIf!QueueAssumption /\ AsIf!FulfillmentAssumption
<1>1. AsIf!QueueAssumption
  BY QueueAssumption DEF QueueAssumption, AsIf!QueueAssumption
<1>2. AsIf!FulfillmentAssumption
  BY FulfillmentAssumption, OldOrdersAreApart DEF FulfillmentAssumption, AsIf!FulfillmentAssumption
<1>. QED BY <1>1, <1>2

\* What does not look at the rows reads the same.
LEMMA SameWords ==
  /\ AsIf!Idle = Idle
  /\ AsIf!EventLoopFree <=> EventLoopFree
  /\ \A p : AsIf!Current(p) = Current(p)
  /\ \A p, s : AsIf!HandlerAt(p, s) <=> HandlerAt(p, s)
  /\ \A p : AsIf!HangUp(p) <=> HangUp(p)
  /\ \A p : AsIf!InHand(p) <=> call[p] \in {"accepted", "throwing"}
  /\ \A p : AsIf!Advance(p) <=> Advance(p)
  /\ \A p : AsIf!Abandon(p) <=> Abandon(p)
  /\ AsIf!Lapse <=> Lapse
  /\ AsIf!Fault <=> Fault
  /\ \A j : AsIf!LastAttempt(j) <=> LastAttempt(j)
  /\ \A p : AsIf!GivenUp(p) <=> GivenUp(p)
  /\ \A p : AsIf!ComesBack(p) <=> ComesBack(p)
  /\ AsIf!Claimed = Claimed /\ AsIf!Unclaimed = Unclaimed
  /\ \A s : AsIf!ToSet(s) = ToSet(s)
BY DEF ToSet, AsIf!ToSet, Idle, AsIf!Idle, EventLoopFree, AsIf!EventLoopFree, Current, AsIf!Current,
       HandlerAt, AsIf!HandlerAt, HangUp, AsIf!HangUp, AsIf!InHand,
       Advance, AsIf!Advance, Abandon, AsIf!Abandon,
       Lapse, AsIf!Lapse, Fault, AsIf!Fault, LastAttempt, AsIf!LastAttempt,
       GivenUp, AsIf!GivenUp, ComesBack, AsIf!ComesBack, Exhausted, AsIf!Exhausted,
       Unrunnable, AsIf!Unrunnable, ClaimSize, AsIf!ClaimSize, Claimed, AsIf!Claimed,
       Unclaimed, AsIf!Unclaimed

\* A write to a row that is there is the same write as if all were.
LEMMA StatusWrite ==
  ASSUME BusinessTypes, gone' = gone, NEW j \in Jobs \ gone, NEW s,
         status' = [status EXCEPT ![j] = s]
  PROVE  AsIfStatus' = [AsIfStatus EXCEPT ![j] = s]
BY DEF BusinessTypes, AsIfStatus

LEMMA FulWrite ==
  ASSUME BusinessTypes, gone' = gone, NEW j \in Jobs \ gone, NEW s,
         ful' = [ful EXCEPT ![j] = s]
  PROVE  AsIfFul' = [AsIfFul EXCEPT ![j] = s]
BY DEF BusinessTypes, AsIfFul

LEMMA CountWrite ==
  ASSUME BusinessTypes, forgotten' = forgotten, NEW o \in Orders
  PROVE  /\ drafts' = [drafts EXCEPT ![o] = @ + 1]
              => AsIfDrafts' = [AsIfDrafts EXCEPT ![o] = @ + 1]
         /\ unseen' = [unseen EXCEPT ![o] = @ + 1]
              => AsIfUnseen' = [AsIfUnseen EXCEPT ![o] = @ + 1]
<1>1. ASSUME drafts' = [drafts EXCEPT ![o] = @ + 1]
      PROVE  AsIfDrafts' = [AsIfDrafts EXCEPT ![o] = @ + 1]
  <2>1. drafts'[o] - forgotten'[o] = drafts[o] - forgotten[o] + 1
    <3>1. drafts[o] \in Nat /\ forgotten[o] \in Nat /\ drafts'[o] = drafts[o] + 1
      BY <1>1 DEF BusinessTypes
    <3>. QED BY <3>1
  <2>2. \A x \in Orders \ {o} : drafts'[x] = drafts[x]
    BY <1>1 DEF BusinessTypes
  <2>3. AsIfDrafts[o] = drafts[o] - forgotten[o]
    BY DEF AsIfDrafts
  <2>4. [AsIfDrafts EXCEPT ![o] = @ + 1] = [AsIfDrafts EXCEPT ![o] = drafts'[o] - forgotten'[o]]
    BY <2>1, <2>3
  <2>5. ASSUME NEW x \in Orders \cup OldOrders
        PROVE  AsIfDrafts'[x] = IF x = o THEN drafts'[o] - forgotten'[o] ELSE AsIfDrafts[x]
    BY <2>2 DEF AsIfDrafts
  <2>. QED BY <2>4, <2>5, Zenon DEF AsIfDrafts
<1>2. ASSUME unseen' = [unseen EXCEPT ![o] = @ + 1]
      PROVE  AsIfUnseen' = [AsIfUnseen EXCEPT ![o] = @ + 1]
  BY <1>2 DEF BusinessTypes, AsIfUnseen
<1>. QED BY <1>1, <1>2

LEMMA NoWrite ==
  /\ gone' = gone /\ status' = status => AsIfStatus' = AsIfStatus
  /\ gone' = gone /\ ful' = ful => AsIfFul' = AsIfFul
  /\ gone' = gone /\ orderOf' = orderOf => AsIfOrderOf' = AsIfOrderOf
  /\ forgotten' = forgotten /\ drafts' = drafts => AsIfDrafts' = AsIfDrafts
  /\ unseen' = unseen => AsIfUnseen' = AsIfUnseen
BY DEF AsIfStatus, AsIfFul, AsIfOrderOf, AsIfDrafts, AsIfUnseen

\* A busy batch of the present business has its row, its fulfilment and its order.
LEMMA PresentBatch ==
  ASSUME SimulationInv, NEW p \in Polls, phase[p] # "idle", ~Ghost(p)
  PROVE  /\ Current(p) \in Jobs \ gone
         /\ AsIfStatus[Current(p)] = status[Current(p)] /\ status[Current(p)] = "RUNNING"
         /\ AsIfFul[Current(p)] = ful[Current(p)] /\ ful[Current(p)] # "NONE"
         /\ AsIfOrderOf[Current(p)] = orderOf[Current(p)]
         /\ orderOf[Current(p)] \in Orders
<1>1. AsIf!QueueInv /\ AsIf!RowsHaveTheirOrder
  BY DEF SimulationInv, AsIf!AnswerInv, AsIf!FulfillmentInv, AsIf!RowsInv
<1>2. batch[p] # <<>> /\ Current(p) \in Jobs /\ AsIfStatus[Current(p)] = "RUNNING"
  BY <1>1, AsIfAssumptions, SameWords, AsIf!BusyHoldsARunningJob
<1>3. Current(p) \notin gone
  BY <1>2 DEF Ghost
<1>4. /\ AsIfStatus[Current(p)] = status[Current(p)]
      /\ AsIfFul[Current(p)] = ful[Current(p)]
      /\ AsIfOrderOf[Current(p)] = orderOf[Current(p)]
  BY <1>2, <1>3 DEF AsIfStatus, AsIfFul, AsIfOrderOf
<1>5. ful[Current(p)] # "NONE" /\ orderOf[Current(p)] \in Orders \cup OldOrders
  BY <1>1, <1>2, <1>4 DEF AsIf!RowsHaveTheirOrder
<1>6. orderOf[Current(p)] \in Orders
  <2>1. orderOf[Current(p)] \in Orders \cup {NoOrder}
    BY <1>2 DEF SimulationInv, BusinessInv, BusinessTypes
  <2>. QED BY <1>5, <2>1, OldOrdersAreApart
<1>. QED BY <1>2, <1>3, <1>4, <1>5, <1>6

-----------------------------------------------------------------------------
(* The present business: steps of module Fulfillment.                      *)

\* A handler's turn over a job that has its row.
LEMMA PresentHandler ==
  ASSUME SimulationInv, NEW p \in Polls, ~Ghost(p), UNCHANGED business,
         \/ SkipSettled(p) \/ CallSupplier(p) \/ SupplierAccepts(p) \/ RecordAcceptance(p)
         \/ \E outcome \in {"transient", "permanent"} :
              SupplierFails(p, outcome) \/ AnswerLost(p, outcome)
         \/ RecordingThrows(p) \/ CatchRecording(p)
  PROVE  AsIf!HandlerMoves(p)
<1>0. BusinessTypes /\ UNCHANGED <<gone, forgotten>>
  BY DEF SimulationInv, BusinessInv, business
<1>1. phase[p] = "handling"
  BY DEF SkipSettled, CallSupplier, SupplierAccepts, RecordAcceptance, SupplierFails, AnswerLost,
         RecordingThrows, CatchRecording, HandlerAt
<1>2. /\ Current(p) \in Jobs \ gone
      /\ AsIfFul[Current(p)] = ful[Current(p)] /\ AsIfOrderOf[Current(p)] = orderOf[Current(p)]
      /\ orderOf[Current(p)] \in Orders
  BY <1>1, PresentBatch
<1>3. PICK f \in Jobs \ gone, o \in Orders :
        /\ f = Current(p) /\ o = orderOf[f]
        /\ AsIfFul[f] = ful[f] /\ AsIfOrderOf[f] = o
  BY <1>2
<1>4. /\ ful' = ful => AsIfFul' = AsIfFul
      /\ status' = status => AsIfStatus' = AsIfStatus
      /\ orderOf' = orderOf => AsIfOrderOf' = AsIfOrderOf
      /\ drafts' = drafts => AsIfDrafts' = AsIfDrafts
      /\ unseen' = unseen => AsIfUnseen' = AsIfUnseen
      /\ \A s : ful' = [ful EXCEPT ![f] = s] => AsIfFul' = [AsIfFul EXCEPT ![f] = s]
      /\ drafts' = [drafts EXCEPT ![o] = @ + 1] => AsIfDrafts' = [AsIfDrafts EXCEPT ![o] = @ + 1]
      /\ unseen' = [unseen EXCEPT ![o] = @ + 1] => AsIfUnseen' = [AsIfUnseen EXCEPT ![o] = @ + 1]
  BY <1>0, NoWrite, FulWrite, CountWrite
<1>5. ASSUME NEW outcome, HandlerEnds(p, outcome) PROVE AsIf!HandlerEnds(p, outcome)
  BY <1>4, <1>5, SameWords DEF HandlerEnds, AsIf!HandlerEnds, rows, AsIf!rows
<1>6. GoesUnseen(p) => AsIf!GoesUnseen(p)
  BY <1>3, <1>4, SameWords DEF GoesUnseen, AsIf!GoesUnseen
<1>7. CASE SkipSettled(p)
  BY <1>3, <1>4, <1>5, <1>7, SameWords
     DEF SkipSettled, AsIf!SkipSettled, AsIf!HandlerMoves, worker, callerVars, AsIf!worker, AsIf!callerVars
<1>8. CASE CallSupplier(p)
  BY <1>3, <1>4, <1>8, SameWords
     DEF CallSupplier, AsIf!CallSupplier, AsIf!HandlerMoves, queueVars, callerVars,
         AsIf!queueVars, AsIf!callerVars
<1>9. CASE SupplierAccepts(p)
  BY <1>3, <1>4, <1>9, SameWords
     DEF SupplierAccepts, AsIf!SupplierAccepts, AsIf!HandlerMoves, queueVars, callerVars,
         AsIf!queueVars, AsIf!callerVars
<1>10. CASE RecordAcceptance(p)
  BY <1>3, <1>4, <1>5, <1>10, SameWords
     DEF RecordAcceptance, AsIf!RecordAcceptance, AsIf!HandlerMoves, callerVars, AsIf!callerVars
<1>11. ASSUME NEW outcome, Catch(p, outcome) PROVE AsIf!Catch(p, outcome)
  BY <1>3, <1>4, <1>5, <1>11, SameWords DEF Catch, AsIf!Catch
<1>12. ASSUME NEW outcome, CatchError(p, outcome) PROVE AsIf!CatchError(p, outcome)
  <2>1. CASE Catch(p, outcome) /\ UNCHANGED lapses
    BY <1>11, <2>1 DEF AsIf!CatchError
  <2>2. CASE CatchThrows(p)
    BY <1>4, <1>5, <2>2, SameWords DEF CatchThrows, AsIf!CatchThrows, AsIf!CatchError
  <2>. QED BY <1>12, <2>1, <2>2 DEF CatchError
<1>13. CASE \E outcome \in {"transient", "permanent"} :
              SupplierFails(p, outcome) \/ AnswerLost(p, outcome)
  <2>1. PICK outcome \in {"transient", "permanent"} :
               SupplierFails(p, outcome) \/ AnswerLost(p, outcome)
    BY <1>13
  <2>2. CASE SupplierFails(p, outcome)
    BY <1>4, <1>12, <2>2, SameWords
       DEF SupplierFails, AsIf!SupplierFails, AsIf!HandlerMoves, callerVars, AsIf!callerVars
  <2>3. CASE AnswerLost(p, outcome)
    BY <1>4, <1>6, <1>12, <2>3, SameWords
       DEF AnswerLost, AsIf!AnswerLost, AsIf!HandlerMoves, callerVars, AsIf!callerVars
  <2>. QED BY <2>1, <2>2, <2>3
<1>14. CASE RecordingThrows(p)
  <2>1. PICK recorded \in {ful[f], "SUBMITTED"} : ful' = [ful EXCEPT ![f] = recorded]
    BY <1>3, <1>14 DEF RecordingThrows
  <2>2. recorded \in {AsIfFul[f], "SUBMITTED"} /\ AsIfFul' = [AsIfFul EXCEPT ![f] = recorded]
    BY <1>3, <1>4, <2>1
  <2>3. /\ AsIf!HandlerAt(p, "accepted") /\ AsIf!Lapse /\ call' = [call EXCEPT ![p] = "throwing"]
        /\ UNCHANGED <<AsIf!queueVars, AsIfDrafts, AsIfUnseen, AsIf!callerVars>>
    BY <1>4, <1>14, SameWords
       DEF RecordingThrows, queueVars, callerVars, AsIf!queueVars, AsIf!callerVars
  <2>4. AsIf!RecordingThrows(p)
    BY <1>3, <2>2, <2>3, SameWords DEF AsIf!RecordingThrows
  <2>. QED BY <2>4 DEF AsIf!HandlerMoves
<1>15. CASE CatchRecording(p)
  <2>1. /\ AsIf!CatchError(p, "transient")
        /\ IF ful'[f] = "SUBMITTED" THEN UNCHANGED unseen ELSE GoesUnseen(p)
    BY <1>3, <1>12, <1>15 DEF CatchRecording
  <2>2. AsIfFul'[f] = ful'[f]
    BY <1>0 DEF AsIfFul
  <2>3. IF AsIfFul'[f] = "SUBMITTED" THEN AsIfUnseen' = AsIfUnseen ELSE AsIf!GoesUnseen(p)
    BY <1>4, <1>6, <2>1, <2>2
  <2>4. /\ phase[p] = "handling" /\ call[p] = "throwing" /\ AsIf!HangUp(p)
        /\ UNCHANGED <<AsIfDrafts, AsIf!callerVars>>
    BY <1>4, <1>15, SameWords DEF CatchRecording, callerVars, AsIf!callerVars
  <2>5. AsIf!CatchRecording(p)
    BY <1>3, <2>1, <2>3, <2>4, SameWords DEF AsIf!CatchRecording
  <2>. QED BY <2>5 DEF AsIf!HandlerMoves
<1>. QED BY <1>7, <1>8, <1>9, <1>10, <1>13, <1>14, <1>15

\* The bookkeeping for a job that has its row.
LEMMA PresentWorker ==
  ASSUME SimulationInv, NEW p \in Polls, ~Ghost(p), UNCHANGED business, WorkerStep(p)
  PROVE  AsIf!WorkerStep(p)
<1>0. BusinessTypes /\ UNCHANGED <<gone, forgotten>>
  BY DEF SimulationInv, BusinessInv, business
<1>1. status' = status => AsIfStatus' = AsIfStatus
  BY <1>0, NoWrite
<1>2. UNCHANGED rows => UNCHANGED AsIf!rows
  BY <1>1 DEF rows, AsIf!rows
<1>3. ASSUME NEW s, phase[p] # "idle", status' = [status EXCEPT ![Current(p)] = s]
      PROVE  AsIfStatus' = [AsIfStatus EXCEPT ![Current(p)] = s]
  BY <1>0, <1>3, PresentBatch, StatusWrite
<1>4. phase[p] # "idle" \/ ClaimDue(p)
  BY DEF WorkerStep, Finish, FinishFails, DeadLetter, BackOff, BookkeepingFails, MarkDead,
         MarkDelayed, GivenUp, ComesBack, Unrunnable
<1>5. CASE ClaimDue(p)
  <2>1. AsIfStatus' = [j \in Jobs |-> IF j \in ToSet(Claimed) THEN "RUNNING" ELSE AsIfStatus[j]]
    BY <1>0, <1>5 DEF ClaimDue, AsIfStatus
  <2>. QED BY <1>5, <2>1, SameWords DEF ClaimDue, AsIf!ClaimDue, AsIf!WorkerStep
<1>6. CASE Finish(p)
  BY <1>3, <1>6, SameWords DEF Finish, AsIf!Finish, AsIf!WorkerStep
<1>7. CASE FinishFails(p)
  BY <1>2, <1>7, SameWords DEF FinishFails, AsIf!FinishFails, AsIf!WorkerStep
<1>8. ASSUME phase[p] # "idle"
      PROVE  /\ MarkDead(p) => AsIf!MarkDead(p)
             /\ MarkDelayed(p) => AsIf!MarkDelayed(p)
  BY <1>3, <1>8, SameWords DEF MarkDead, AsIf!MarkDead, MarkDelayed, AsIf!MarkDelayed
<1>9. CASE phase[p] # "idle" /\ (DeadLetter(p) \/ BackOff(p))
  BY <1>8, <1>9, SameWords
     DEF DeadLetter, AsIf!DeadLetter, BackOff, AsIf!BackOff, AsIf!WorkerStep
<1>10. CASE phase[p] # "idle" /\ BookkeepingFails(p)
  BY <1>2, <1>8, <1>10, SameWords DEF BookkeepingFails, AsIf!BookkeepingFails, AsIf!WorkerStep
<1>. QED BY <1>4, <1>5, <1>6, <1>7, <1>9, <1>10 DEF WorkerStep, ClaimDue

\* The clock and the operator find rows only.
LEMMA PresentQueue ==
  ASSUME SimulationInv, UNCHANGED business, NEW j \in Jobs, BecomeDue(j) \/ RetryJob(j)
  PROVE  AsIf!BecomeDue(j) \/ AsIf!RetryJob(j)
<1>0. BusinessTypes /\ UNCHANGED gone
  BY DEF SimulationInv, BusinessInv, business
<1>1. CASE BecomeDue(j)
  BY <1>0, <1>1, NoWrite DEF BecomeDue, AsIf!BecomeDue, memory, AsIf!memory
<1>2. CASE RetryJob(j)
  <2>1. j \notin gone
    BY <1>2 DEF RetryJob, SimulationInv, BusinessInv, GoneLeavesNoRow
  <2>2. AsIfStatus[j] = "DEAD"
    BY <1>2, <2>1 DEF RetryJob, AsIfStatus
  <2>3. AsIfStatus' = [AsIfStatus EXCEPT ![j] = "READY"]
    BY <1>0, <1>2, <2>1, StatusWrite DEF RetryJob
  <2>. QED BY <1>2, <2>2, <2>3 DEF RetryJob, AsIf!RetryJob, memory, AsIf!memory
<1>. QED BY <1>1, <1>2

\* The tool looks for rows, and makes them under identifiers that were never used.
LEMMA PresentTool ==
  ASSUME SimulationInv, UNCHANGED business, NEW c \in Callers, ToolStep(c)
  PROVE  AsIf!ToolMoves(c)
<1>0. BusinessTypes /\ GoneLeavesNoRow /\ UNCHANGED <<gone, forgotten>>
  BY DEF SimulationInv, BusinessInv, business
<1>1. /\ ful' = ful => AsIfFul' = AsIfFul
      /\ status' = status => AsIfStatus' = AsIfStatus
      /\ orderOf' = orderOf => AsIfOrderOf' = AsIfOrderOf
      /\ drafts' = drafts => AsIfDrafts' = AsIfDrafts
      /\ unseen' = unseen => AsIfUnseen' = AsIfUnseen
  BY <1>0, NoWrite
<1>2. ASSUME NEW o \in Orders, FindPaid(c, o) PROVE AsIf!ToolMoves(c)
  <2>1. AsIf!FulfillmentsOf(o) = {}
    <3>1. \A f \in Jobs : AsIfFul[f] # "NONE" /\ AsIfOrderOf[f] = o => f \in FulfillmentsOf(o)
      BY OldOrdersAreApart DEF AsIfFul, AsIfOrderOf, FulfillmentsOf
    <3>. QED BY <1>2, <3>1 DEF FindPaid, FindNoFulfillment, AsIf!FulfillmentsOf
  <2>2. AsIf!FindNoFulfillment(c, o)
    BY <1>1, <1>2, <2>1, SameWords
       DEF FindPaid, FindNoFulfillment, AsIf!FindNoFulfillment, queueVars, worker,
           AsIf!queueVars, AsIf!worker
  <2>. QED BY <2>2 DEF AsIf!ToolMoves
<1>3. ASSUME NEW f \in Jobs \ gone, CreateFulfillment(c, f) PROVE AsIf!ToolMoves(c)
  <2>1. AsIfFul[f] = "NONE" /\ AsIfFul' = [AsIfFul EXCEPT ![f] = "PENDING_SUPPLIER"]
    BY <1>0, <1>3, FulWrite DEF CreateFulfillment, AsIfFul
  <2>2. AsIfOrderOf' = [AsIfOrderOf EXCEPT ![f] = tool[c].order]
    BY <1>0, <1>3 DEF CreateFulfillment, AsIfOrderOf, BusinessTypes
  <2>3. AsIf!CreateFulfillment(c, f)
    BY <1>1, <1>3, <2>1, <2>2 DEF CreateFulfillment, AsIf!CreateFulfillment, queueVars, AsIf!queueVars
  <2>. QED BY <2>3 DEF AsIf!ToolMoves
<1>4. CASE EnqueueJob(c)
  <2>1. tool[c].at = "enqueue" /\ tool[c] \in ToolState /\ tool[c].id \notin gone
    BY <1>0, <1>4 DEF EnqueueJob, BusinessTypes, GoneLeavesNoRow
  <2>2. tool[c].id \in Jobs \ gone
    BY <2>1 DEF ToolState, Idle
  <2>3. PICK j \in Jobs \ gone : j = tool[c].id
    BY <2>2
  <2>4. AsIfStatus[j] = status[j] /\ (status' = [status EXCEPT ![j] = "READY"] =>
          AsIfStatus' = [AsIfStatus EXCEPT ![j] = "READY"])
    BY <1>0, StatusWrite DEF AsIfStatus
  <2>5. Enqueue(j) => AsIf!Enqueue(j)
    BY <2>4 DEF Enqueue, AsIf!Enqueue, memory, AsIf!memory
  <2>6. AsIf!EnqueueJob(c)
    BY <1>1, <1>4, <2>3, <2>5, SameWords DEF EnqueueJob, AsIf!EnqueueJob, worker, AsIf!worker
  <2>. QED BY <2>6 DEF AsIf!ToolMoves
<1>5. CASE ToolThrows(c)
  BY <1>1, <1>5, SameWords
     DEF ToolThrows, AsIf!ToolThrows, AsIf!ToolMoves, queueVars, worker, AsIf!queueVars, AsIf!worker
<1>. QED BY <1>2, <1>3, <1>4, <1>5 DEF ToolStep

\* The application may die once more.
LEMMA PresentCrash ==
  ASSUME SimulationInv, UNCHANGED business, AppCrash
  PROVE  AsIf!AppCrash
<1>1. /\ AsIfStatus' = AsIfStatus /\ AsIfFul' = AsIfFul /\ AsIfOrderOf' = AsIfOrderOf
      /\ AsIfDrafts' = AsIfDrafts /\ AsIfUnseen' = AsIfUnseen
  BY NoWrite DEF AppCrash, Crash, rows, business
<1>2. crashes \in Nat /\ MaxCrashes \in Nat
  BY QueueAssumption DEF QueueAssumption, SimulationInv, BusinessInv, BusinessTypes
<1>3. AsIf!Crash
  BY <1>1, <1>2 DEF AppCrash, Crash, AsIf!Crash, rows, AsIf!rows
<1>. QED BY <1>1, <1>3, SameWords DEF AppCrash, AsIf!AppCrash

\* What the business has of a step that is not its own: rows that are gone stay
\* gone, and a row that is new is for an order that is paid.
LEMMA BusinessFrame ==
  ASSUME BusinessInv, UNCHANGED business,
         status' \in [Jobs -> Status], \A j \in gone : status'[j] = status[j],
         ful' \in [Jobs -> FulfillmentStatus], \A j \in Jobs : ful'[j] = "NONE" <=> ful[j] = "NONE",
         UNCHANGED orderOf, drafts' \in [Orders -> Nat], \A o \in Orders : drafts[o] <= drafts'[o],
         unseen' \in [Orders -> Nat], crashes' \in 0 .. MaxCrashes,
         \A c \in Callers : tool'[c] = tool[c] \/ tool'[c] = Idle, tool' \in [Callers -> ToolState]
  PROVE  BusinessInv'
<1>0. /\ BusinessTypes /\ GoneLeavesNoRow /\ CreatesArePaid /\ UnpaidWasOvertaken
      /\ UNCHANGED <<gone, pay, overtaken, forgotten>>
  BY DEF BusinessInv, business
<1>1. BusinessTypes'
  <2>1. ASSUME NEW o \in Orders PROVE forgotten[o] <= drafts'[o]
    <3>1. /\ forgotten[o] \in Nat /\ drafts[o] \in Nat /\ drafts'[o] \in Nat
          /\ forgotten[o] <= drafts[o] /\ drafts[o] <= drafts'[o]
      BY <1>0 DEF BusinessTypes
    <3>. QED BY <3>1
  <2>. QED BY <1>0, <2>1 DEF BusinessTypes
<1>2. GoneLeavesNoRow'
  BY <1>0 DEF GoneLeavesNoRow, BusinessTypes, Idle
<1>3. CreatesArePaid'
  BY <1>0 DEF CreatesArePaid, Idle
<1>4. UnpaidWasOvertaken'
  BY <1>0 DEF UnpaidWasOvertaken
<1>. QED BY <1>1, <1>2, <1>3, <1>4 DEF BusinessInv

LEMMA PresentToolBusiness ==
  ASSUME BusinessInv, UNCHANGED business, NEW c \in Callers, ToolStep(c)
  PROVE  BusinessInv'
<1>0. /\ BusinessTypes /\ GoneLeavesNoRow /\ CreatesArePaid /\ UnpaidWasOvertaken
      /\ UNCHANGED <<gone, pay, overtaken, forgotten>>
      /\ \A o \in Orders : drafts[o] <= drafts[o]
  BY DEF BusinessInv, BusinessTypes, business
<1>1. ASSUME NEW o \in Orders, FindPaid(c, o) PROVE BusinessInv'
  <2>1. UNCHANGED <<status, ful, orderOf, drafts, unseen, crashes>>
    BY <1>1 DEF FindPaid, FindNoFulfillment, queueVars, worker
  <2>2. /\ tool' = [tool EXCEPT ![c] = [at |-> "create", order |-> o]]
        /\ pay[o] = "SUCCESS"
    BY <1>1 DEF FindPaid, FindNoFulfillment
  <2>3. tool' \in [Callers -> ToolState]
    BY <1>0, <2>2 DEF BusinessTypes, ToolState
  <2>4. \A d \in Callers : tool'[d] = tool[d] \/ tool'[d] = [at |-> "create", order |-> o]
    BY <1>0, <2>2 DEF BusinessTypes
  <2>. QED BY <1>0, <2>1, <2>2, <2>3, <2>4
           DEF BusinessInv, BusinessTypes, GoneLeavesNoRow, CreatesArePaid, UnpaidWasOvertaken
<1>2. ASSUME NEW f \in Jobs \ gone, CreateFulfillment(c, f) PROVE BusinessInv'
  <2>1. UNCHANGED <<status, drafts, unseen, crashes>>
    BY <1>2 DEF CreateFulfillment, queueVars
  <2>2. tool[c] \in ToolState /\ tool[c].at = "create"
    BY <1>0, <1>2 DEF CreateFulfillment, BusinessTypes
  <2>3. tool[c].order \in Orders /\ pay[tool[c].order] = "SUCCESS"
    BY <1>0, <2>2 DEF ToolState, Idle, CreatesArePaid
  <2>4. /\ ful' = [ful EXCEPT ![f] = "PENDING_SUPPLIER"]
        /\ orderOf' = [orderOf EXCEPT ![f] = tool[c].order]
        /\ tool' = [tool EXCEPT ![c] = [at |-> "enqueue", id |-> f]]
    BY <1>2 DEF CreateFulfillment
  <2>5. /\ ful' \in [Jobs -> FulfillmentStatus] /\ orderOf' \in [Jobs -> Orders \cup {NoOrder}]
        /\ tool' \in [Callers -> ToolState]
    BY <1>0, <2>3, <2>4 DEF BusinessTypes, ToolState, FulfillmentStatus
  <2>6. /\ \A g \in Jobs \ {f} : ful'[g] = ful[g] /\ orderOf'[g] = orderOf[g]
        /\ orderOf'[f] = tool[c].order
        /\ \A d \in Callers : tool'[d] = tool[d] \/ tool'[d] = [at |-> "enqueue", id |-> f]
    BY <1>0, <2>4 DEF BusinessTypes
  <2>7. BusinessTypes'
    BY <1>0, <2>1, <2>5 DEF BusinessTypes
  <2>8. GoneLeavesNoRow'
    BY <1>0, <2>1, <2>6 DEF GoneLeavesNoRow, BusinessTypes
  <2>9. CreatesArePaid'
    BY <1>0, <2>6 DEF CreatesArePaid
  <2>10. UnpaidWasOvertaken'
    BY <1>0, <2>3, <2>6 DEF UnpaidWasOvertaken
  <2>. QED BY <2>7, <2>8, <2>9, <2>10 DEF BusinessInv
<1>3. CASE EnqueueJob(c) \/ ToolThrows(c)
  <2>1. UNCHANGED <<ful, orderOf, drafts, unseen, crashes>> /\ tool' = [tool EXCEPT ![c] = Idle]
    BY <1>3 DEF EnqueueJob, Enqueue, ToolThrows, queueVars, worker
  <2>2. tool' \in [Callers -> ToolState] /\ \A d \in Callers : tool'[d] = tool[d] \/ tool'[d] = Idle
    BY <1>0, <2>1 DEF BusinessTypes, ToolState
  <2>3. status' \in [Jobs -> Status] /\ \A j \in gone : status'[j] = status[j]
    <3>1. CASE EnqueueJob(c)
      <4>1. /\ tool[c].at = "enqueue" /\ tool[c].id \notin gone
            /\ status' = [status EXCEPT ![tool[c].id] = "READY"]
        BY <1>0, <3>1 DEF EnqueueJob, Enqueue, GoneLeavesNoRow
      <4>. QED BY <1>0, <4>1 DEF BusinessTypes, Status
    <3>2. CASE ToolThrows(c)
      BY <1>0, <3>2 DEF ToolThrows, queueVars, BusinessTypes
    <3>. QED BY <1>3, <3>1, <3>2
  <2>. QED BY <1>0, <2>1, <2>2, <2>3, BusinessFrame DEF BusinessTypes
<1>. QED BY <1>1, <1>2, <1>3 DEF ToolStep

LEMMA PresentHandlerBusiness ==
  ASSUME SimulationInv, NEW p \in Polls, ~Ghost(p), UNCHANGED business,
         \/ SkipSettled(p) \/ CallSupplier(p) \/ SupplierAccepts(p) \/ RecordAcceptance(p)
         \/ \E outcome \in {"transient", "permanent"} :
              SupplierFails(p, outcome) \/ AnswerLost(p, outcome)
         \/ RecordingThrows(p) \/ CatchRecording(p)
  PROVE  BusinessInv'
<1>0. BusinessInv /\ BusinessTypes
  BY DEF SimulationInv, BusinessInv
<1>1. phase[p] = "handling"
  BY DEF SkipSettled, CallSupplier, SupplierAccepts, RecordAcceptance, SupplierFails, AnswerLost,
         RecordingThrows, CatchRecording, HandlerAt
<1>2. PICK f \in Jobs, o \in Orders : f = Current(p) /\ o = orderOf[f] /\ ful[f] # "NONE"
  BY <1>1, PresentBatch
<1>3. /\ UNCHANGED <<status, orderOf, tool, crashes>>
      /\ ful' = ful \/ \E s \in FulfillmentStatus \ {"NONE"} : ful' = [ful EXCEPT ![f] = s]
      /\ drafts' = drafts \/ drafts' = [drafts EXCEPT ![o] = @ + 1]
      /\ unseen' = unseen \/ unseen' = [unseen EXCEPT ![o] = @ + 1]
  <2>. USE DEF queueVars, rows, worker, callerVars
  <2>1. CASE SkipSettled(p) \/ CallSupplier(p)
    BY <2>1 DEF SkipSettled, CallSupplier, HandlerEnds
  <2>2. CASE SupplierAccepts(p)
    BY <1>2, <2>2 DEF SupplierAccepts
  <2>3. CASE RecordAcceptance(p)
    BY <1>2, <2>3 DEF RecordAcceptance, HandlerEnds, FulfillmentStatus
  <2>4. ASSUME NEW outcome, Catch(p, outcome)
        PROVE  /\ UNCHANGED <<status, crashes>>
               /\ \E s \in FulfillmentStatus \ {"NONE"} : ful' = [ful EXCEPT ![f] = s]
    <3>1. ful[f] \in FulfillmentStatus \ {"NONE"}
      BY <1>0, <1>2 DEF BusinessTypes
    <3>. QED BY <1>2, <2>4, <3>1 DEF Catch, HandlerEnds, FulfillmentStatus
  <2>5. ASSUME NEW outcome, CatchError(p, outcome)
        PROVE  /\ UNCHANGED <<status, crashes>>
               /\ ful' = ful \/ \E s \in FulfillmentStatus \ {"NONE"} : ful' = [ful EXCEPT ![f] = s]
    BY <2>4, <2>5 DEF CatchError, CatchThrows, HandlerEnds
  <2>6. GoesUnseen(p) => unseen' = [unseen EXCEPT ![o] = @ + 1]
    BY <1>2 DEF GoesUnseen
  <2>7. ASSUME NEW outcome \in {"transient", "permanent"},
               SupplierFails(p, outcome) \/ AnswerLost(p, outcome)
        PROVE  /\ CatchError(p, outcome) /\ UNCHANGED <<drafts, orderOf, tool>>
               /\ unseen' = unseen \/ GoesUnseen(p)
    BY <2>7 DEF SupplierFails, AnswerLost
  <2>8. CASE RecordingThrows(p)
    <3>1. ful[f] \in FulfillmentStatus \ {"NONE"}
      BY <1>0, <1>2 DEF BusinessTypes
    <3>. QED BY <1>2, <2>8, <3>1 DEF RecordingThrows, FulfillmentStatus
  <2>9. CASE CatchRecording(p)
    BY <2>5, <2>6, <2>9 DEF CatchRecording
  <2>. QED BY <2>1, <2>2, <2>3, <2>5, <2>6, <2>7, <2>8, <2>9
<1>4. /\ ful' \in [Jobs -> FulfillmentStatus]
      /\ \A j \in Jobs : ful'[j] = "NONE" <=> ful[j] = "NONE"
  BY <1>0, <1>2, <1>3 DEF BusinessTypes
<1>5. /\ drafts' \in [Orders -> Nat] /\ unseen' \in [Orders -> Nat]
      /\ \A x \in Orders : drafts[x] <= drafts'[x]
  BY <1>0, <1>3 DEF BusinessTypes
<1>. QED BY <1>0, <1>3, <1>4, <1>5, BusinessFrame DEF BusinessTypes

LEMMA PresentQueueBusiness ==
  ASSUME SimulationInv, UNCHANGED business, UNCHANGED <<worker, callerVars, lapses>>,
         \/ \E p \in Polls : ~Ghost(p) /\ WorkerStep(p)
         \/ \E j \in Jobs : BecomeDue(j) \/ RetryJob(j)
  PROVE  BusinessInv'
<1>0. BusinessInv /\ BusinessTypes /\ GoneLeavesNoRow /\ AsIf!QueueInv /\ AsIf!TypeOK
  BY DEF SimulationInv, BusinessInv, AsIf!AnswerInv, AsIf!FulfillmentInv, AsIf!RowsInv, AsIf!QueueInv
<1>1. \A j \in ToSet(due) : j \notin gone
  <2>1. \A j \in Jobs : j \in ToSet(due) => AsIfStatus[j] = "READY"
    BY <1>0, SameWords DEF AsIf!QueueInv, AsIf!WaitingIsReady
  <2>2. \A j \in gone : j \in Jobs /\ AsIfStatus[j] = "RUNNING"
    BY <1>0 DEF BusinessTypes, AsIfStatus
  <2>. QED BY <2>1, <2>2
<1>2. UNCHANGED <<ful, orderOf, tool, drafts, unseen>> /\ \A o \in Orders : drafts[o] <= drafts[o]
  BY <1>0 DEF worker, callerVars, BusinessTypes
<1>3. ASSUME NEW j \in Jobs, BecomeDue(j) \/ RetryJob(j)
      PROVE  /\ status' \in [Jobs -> Status] /\ crashes' = crashes
             /\ \A i \in gone : status'[i] = status[i]
  BY <1>0, <1>3 DEF BecomeDue, RetryJob, BusinessTypes, Status, GoneLeavesNoRow
<1>4. ASSUME NEW p \in Polls, ~Ghost(p), WorkerStep(p)
      PROVE  /\ status' \in [Jobs -> Status] /\ crashes' = crashes
             /\ \A i \in gone : status'[i] = status[i]
  <2>1. CASE ClaimDue(p)
    <3>1. ToSet(Claimed) \subseteq ToSet(due)
      BY <1>0, AsIfAssumptions, SameWords, AsIf!ClaimsAreDue
    <3>. QED BY <1>0, <1>1, <2>1, <3>1 DEF ClaimDue, BusinessTypes, Status
  <2>2. ASSUME phase[p] # "idle",
               \/ status' = status
               \/ \E s \in Status : status' = [status EXCEPT ![Current(p)] = s]
        PROVE  status' \in [Jobs -> Status] /\ \A i \in gone : status'[i] = status[i]
    <3>1. Current(p) \notin gone
      BY <1>4, <2>2, PresentBatch
    <3>. QED BY <1>0, <2>2, <3>1 DEF BusinessTypes
  <2>3. CASE ~ClaimDue(p)
    <3>1. phase[p] # "idle" /\ crashes' = crashes
      BY <1>4, <2>3
         DEF WorkerStep, Finish, FinishFails, DeadLetter, BackOff, BookkeepingFails, MarkDead,
             MarkDelayed, GivenUp, ComesBack, Unrunnable
    <3>2. \/ status' = status
          \/ \E s \in Status : status' = [status EXCEPT ![Current(p)] = s]
      BY <1>4, <2>3
         DEF WorkerStep, Finish, FinishFails, DeadLetter, BackOff, BookkeepingFails, MarkDead,
             MarkDelayed, rows, Status
    <3>. QED BY <2>2, <3>1, <3>2
  <2>. QED BY <2>1, <2>3 DEF ClaimDue
<1>5. /\ status' \in [Jobs -> Status] /\ crashes' = crashes
      /\ \A i \in gone : status'[i] = status[i]
  BY <1>3, <1>4
<1>. QED BY <1>0, <1>2, <1>5, BusinessFrame DEF BusinessTypes

\* A step of the tool, the worker or the queue over rows that are there, or a crash.
PresentStep ==
  /\ UNCHANGED business
  /\ \/ \E c \in Callers : ToolStep(c)
     \/ \E p \in Polls : ~Ghost(p) /\ HandlerStep(p)
     \/ \E j \in Jobs : QueueStep(BecomeDue(j) \/ (EventLoopFree /\ RetryJob(j)))
     \/ AppCrash

LEMMA PresentIsFulfillment ==
  ASSUME SimulationInv, PresentStep
  PROVE  AsIf!FulfillmentNext
<1>1. ASSUME NEW c \in Callers, ToolStep(c) PROVE AsIf!FulfillmentNext
  BY <1>1, PresentTool DEF PresentStep, AsIf!ToolMoves, AsIf!FulfillmentNext
<1>2. UNCHANGED <<worker, callerVars, lapses>> => UNCHANGED <<AsIf!worker, AsIf!callerVars, lapses>>
  BY NoWrite DEF PresentStep, business, worker, callerVars, AsIf!worker, AsIf!callerVars
<1>3. ASSUME NEW p \in Polls, ~Ghost(p), HandlerStep(p) PROVE AsIf!FulfillmentNext
  <2>1. CASE EventLoopFree /\ QueueStep(WorkerStep(p))
    <3>1. AsIf!WorkerStep(p) /\ AsIf!EventLoopFree /\ UNCHANGED <<AsIf!worker, AsIf!callerVars, lapses>>
      BY <1>2, <1>3, <2>1, PresentWorker, SameWords DEF PresentStep, QueueStep
    <3>. QED BY <3>1 DEF AsIf!QueueStep, AsIf!FulfillmentNext
  <2>2. CASE ~(EventLoopFree /\ QueueStep(WorkerStep(p)))
    <3>1. AsIf!HandlerMoves(p)
      BY <1>3, <2>2, PresentHandler DEF PresentStep, HandlerStep
    <3>. QED BY <3>1 DEF AsIf!HandlerMoves, AsIf!FulfillmentNext
  <2>. QED BY <2>1, <2>2
<1>4. ASSUME NEW j \in Jobs, QueueStep(BecomeDue(j) \/ (EventLoopFree /\ RetryJob(j)))
      PROVE  AsIf!FulfillmentNext
  <2>1. /\ AsIf!BecomeDue(j) \/ (AsIf!EventLoopFree /\ AsIf!RetryJob(j))
        /\ UNCHANGED <<AsIf!worker, AsIf!callerVars, lapses>>
    <3>1. CASE BecomeDue(j)
      <4>1. AsIf!BecomeDue(j)
        BY <3>1, NoWrite DEF PresentStep, business, BecomeDue, AsIf!BecomeDue, memory, AsIf!memory
      <4>. QED BY <1>2, <1>4, <4>1 DEF QueueStep
    <3>2. CASE EventLoopFree /\ RetryJob(j)
      BY <1>2, <1>4, <3>2, PresentQueue, SameWords DEF PresentStep, QueueStep
    <3>. QED BY <1>4, <3>1, <3>2 DEF QueueStep
  <2>. QED BY <2>1 DEF AsIf!QueueStep, AsIf!FulfillmentNext
<1>5. CASE AppCrash
  BY <1>5, PresentCrash DEF PresentStep, AsIf!FulfillmentNext
<1>. QED BY <1>1, <1>3, <1>4, <1>5 DEF PresentStep

LEMMA PresentStepInv ==
  ASSUME SimulationInv, PresentStep
  PROVE  SimulationInv'
<1>0. BusinessInv /\ BusinessTypes /\ AsIf!AnswerInv /\ UNCHANGED business
  BY DEF SimulationInv, BusinessInv, PresentStep
<1>1. AsIf!AnswerInv'
  <2>1. AsIf!QueueAssumption /\ AsIf!FulfillmentAssumption /\ InProcess = Callers
    BY AsIfAssumptions, SimulationAssumption DEF SimulationAssumption
  <2>2. AsIf!FulfillmentNext
    BY PresentIsFulfillment
  <2>. QED BY <1>0, <2>1, <2>2, AsIf!AnswerNextInv
<1>2. BusinessInv'
  <2>1. ASSUME NEW p \in Polls, ~Ghost(p), HandlerStep(p) PROVE BusinessInv'
    BY <1>0, <2>1, PresentHandlerBusiness, PresentQueueBusiness DEF HandlerStep, QueueStep
  <2>2. ASSUME NEW j \in Jobs, QueueStep(BecomeDue(j) \/ (EventLoopFree /\ RetryJob(j)))
        PROVE  BusinessInv'
    BY <1>0, <2>2, PresentQueueBusiness DEF QueueStep
  <2>3. CASE AppCrash
    <3>1. /\ UNCHANGED <<status, ful, orderOf, drafts, unseen>> /\ crashes' \in 0 .. MaxCrashes
          /\ tool' = [c \in Callers |-> IF c \in InProcess THEN Idle ELSE tool[c]]
          /\ \A o \in Orders : drafts[o] <= drafts[o]
      BY <1>0, <2>3, QueueAssumption DEF AppCrash, Crash, rows, BusinessTypes, QueueAssumption
    <3>2. tool' \in [Callers -> ToolState] /\ \A c \in Callers : tool'[c] = tool[c] \/ tool'[c] = Idle
      BY <1>0, <3>1 DEF BusinessTypes, ToolState
    <3>. QED BY <1>0, <3>1, <3>2, BusinessFrame DEF BusinessTypes
  <2>. QED BY <1>0, <2>1, <2>2, <2>3, PresentToolBusiness DEF PresentStep
<1>. QED BY <1>1, <1>2 DEF SimulationInv

-----------------------------------------------------------------------------
(* The old batches.                                                        *)

\* What an old batch does concerns nobody but itself.
LEMMA OldBatchMoves ==
  ASSUME SimulationInv, NEW p \in Polls, Ghost(p),
         UNCHANGED <<AsIfStatus, AsIfFul, AsIfOrderOf, AsIfDrafts, AsIfUnseen, tool, lapses>>,
         AsIf!QueueInv',
         \A q \in Polls \ {p} :
           batch'[q] = batch[q] /\ phase'[q] = phase[q] /\ call'[q] = call[q],
         call' \in [Polls -> AsIf!CallState],
         call'[p] # "none" => phase'[p] = "handling" /\ batch'[p] = batch[p],
         ToSet(batch'[p]) \subseteq ToSet(batch[p])
  PROVE  AsIf!AnswerInv'
<1>0. /\ AsIf!FulfillmentTypes /\ AsIf!RowsHaveTheirOrder /\ AsIf!CallsArePending
      /\ AsIf!CheckStillHolds /\ AsIf!OneFulfillmentPerOrder /\ AsIf!AcceptancesAreSpent
      /\ AsIf!HandedOver /\ AsIf!AnswersAreTrue /\ BusinessTypes
  BY DEF SimulationInv, BusinessInv, AsIf!AnswerInv, AsIf!FulfillmentInv, AsIf!RowsInv
<1>1. PICK g \in gone : g = Current(p) /\ g \in Jobs
  BY <1>0 DEF Ghost, BusinessTypes
<1>2. AsIfFul[g] = "PENDING_SUPPLIER" /\ AsIfOrderOf[g] = OldOrder(g)
  BY <1>1 DEF AsIfFul, AsIfOrderOf
<1>3. /\ AsIf!FulfillmentTypes' /\ AsIf!RowsHaveTheirOrder' /\ AsIf!CheckStillHolds'
      /\ AsIf!OneFulfillmentPerOrder' /\ AsIf!AnswersAreTrue'
  BY <1>0 DEF AsIf!FulfillmentTypes, AsIf!CallState, AsIf!RowsHaveTheirOrder,
              AsIf!CheckStillHolds, AsIf!OneFulfillmentPerOrder, AsIf!AnswersAreTrue
<1>4. \A q \in Polls : call'[q] # "none" =>
        /\ Current(q)' = Current(q) /\ phase'[q] = "handling"
        /\ q # p => call[q] = call'[q]
  BY <1>0, SameWords DEF Current, AsIf!CallsArePending
<1>5. AsIf!CallsArePending'
  <2>. SUFFICES ASSUME NEW q \in Polls, call'[q] # "none"
                PROVE  /\ phase'[q] = "handling"
                       /\ \/ AsIfFul'[Current(q)'] = "PENDING_SUPPLIER"
                          \/ call'[q] = "throwing" /\ AsIfFul'[Current(q)'] = "SUBMITTED"
    BY DEF AsIf!CallsArePending, AsIf!Current, Current
  <2>1. CASE q = p
    BY <1>1, <1>2, <1>4, <2>1
  <2>2. CASE q # p
    BY <1>0, <1>4, <2>2, SameWords DEF AsIf!CallsArePending
  <2>. QED BY <2>1, <2>2
<1>6. AsIf!HandedOver'
  <2>. SUFFICES ASSUME NEW q \in Polls, call'[q] \in {"accepted", "throwing"}
                PROVE  AsIfDrafts'[AsIfOrderOf'[Current(q)']] > 0
    BY DEF AsIf!HandedOver, AsIf!InHand, AsIf!Current, Current
  <2>1. CASE q = p
    <3>1. AsIfDrafts[OldOrder(g)] = 1
      BY <1>1, OldOrdersAreApart DEF AsIfDrafts
    <3>. QED BY <1>1, <1>2, <1>4, <2>1, <3>1
  <2>2. CASE q # p
    BY <1>0, <1>4, <2>2, SameWords DEF AsIf!HandedOver
  <2>. QED BY <2>1, <2>2
<1>7. ASSUME NEW f \in Jobs, f # g, AsIf!Spent(f) PROVE AsIf!Spent(f)'
  <2>1. CASE AsIfFul[f] # "PENDING_SUPPLIER"
    BY <2>1 DEF AsIf!Spent
  <2>2. CASE AsIf!LeftRunning(f)
    <3>1. AsIfStatus[f] = "RUNNING" /\ \A q \in Polls : f \notin ToSet(batch[q])
      BY <2>2, SameWords DEF AsIf!LeftRunning, AsIf!InFlight
    <3>2. \A q \in Polls : f \notin ToSet(batch'[q])
      BY <3>1
    <3>3. AsIf!LeftRunning(f)'
      BY <3>1, <3>2 DEF AsIf!LeftRunning, AsIf!InFlight, AsIf!ToSet, ToSet
    <3>. QED BY <3>3 DEF AsIf!Spent
  <2>3. CASE AsIf!Accepted(f)
    <3>1. PICK q \in Polls : call[q] \in {"accepted", "throwing"} /\ Current(q) = f
      BY <2>3, SameWords DEF AsIf!Accepted
    <3>2. q # p
      BY <1>1, <1>7, <3>1
    <3>3. call'[q] \in {"accepted", "throwing"} /\ Current(q)' = f
      BY <3>1, <3>2 DEF Current
    <3>4. AsIf!Accepted(f)'
      BY <3>3 DEF AsIf!Accepted, AsIf!InHand, AsIf!Current, Current
    <3>. QED BY <3>4 DEF AsIf!Spent
  <2>. QED BY <1>7, <2>1, <2>2, <2>3 DEF AsIf!Spent
<1>8. AsIf!AcceptancesAreSpent'
  <2>. SUFFICES ASSUME NEW o \in Orders \cup OldOrders
                PROVE  /\ AsIfDrafts'[o] <= 1 + AsIfUnseen'[o]
                       /\ (\A f \in Jobs : AsIfFul'[f] # "NONE" /\ AsIfOrderOf'[f] = o => ~AsIf!Spent(f)')
                            => AsIfDrafts'[o] <= AsIfUnseen'[o]
    BY DEF AsIf!AcceptancesAreSpent
  <2>1. CASE o \notin Orders
    <3>1. AsIfDrafts[o] = 1 /\ AsIfUnseen[o] = 1
      BY <2>1 DEF AsIfDrafts, AsIfUnseen
    <3>. QED BY <3>1
  <2>2. CASE o \in Orders
    <3>1. AsIfOrderOf[g] # o
      BY <1>1, <1>2, <2>2, OldOrdersAreApart
    <3>2. /\ AsIfDrafts[o] <= 1 + AsIfUnseen[o]
          /\ (\A f \in Jobs : AsIfFul[f] # "NONE" /\ AsIfOrderOf[f] = o => ~AsIf!Spent(f))
               => AsIfDrafts[o] <= AsIfUnseen[o]
      BY <1>0 DEF AsIf!AcceptancesAreSpent
    <3>3. ASSUME \A f \in Jobs : AsIfFul'[f] # "NONE" /\ AsIfOrderOf'[f] = o => ~AsIf!Spent(f)'
          PROVE  \A f \in Jobs : AsIfFul[f] # "NONE" /\ AsIfOrderOf[f] = o => ~AsIf!Spent(f)
      BY <1>7, <3>1, <3>3
    <3>. QED BY <3>2, <3>3
  <2>. QED BY <2>1, <2>2
<1>. QED BY <1>3, <1>5, <1>6, <1>8 DEF AsIf!AnswerInv, AsIf!FulfillmentInv, AsIf!RowsInv

\* A job of the old business is settled, and its row, which is gone, is not written.
LEMMA OldJobPasses ==
  ASSUME SimulationInv, NEW p \in Polls, batch[p] # <<>>, Advance(p),
         UNCHANGED <<rows, gone, crashes, faults>>
  PROVE  AsIf!QueueInv'
<1>0. /\ AsIf!QueueInv /\ AsIf!TypeOK /\ AsIf!HeldOnce /\ AsIf!IdleHoldsNothing
      /\ AsIf!HeldIsRunning /\ BusinessTypes
  BY DEF SimulationInv, BusinessInv, AsIf!AnswerInv, AsIf!FulfillmentInv, AsIf!RowsInv, AsIf!QueueInv
<1>1. UNCHANGED <<AsIfStatus, attempts, retries, due, delayed>>
  BY NoWrite DEF rows
<1>2. AsIf!Advance(p)
  BY SameWords
<1>3. /\ batch' \in [Polls -> Seq(Jobs)] /\ phase' \in [Polls -> AsIf!Phase]
      /\ AsIf!IdleHoldsNothing' /\ AsIf!HeldOnce'
      /\ \A q \in Polls : \A i \in 1 .. Len(batch'[q]) :
           \E k \in 1 .. Len(batch[q]) : batch'[q][i] = batch[q][k]
  BY <1>0, <1>2, AsIfAssumptions, AsIf!AdvancePassesTheFirst
<1>4. AsIf!HeldIsRunning'
  BY <1>0, <1>1, <1>3 DEF AsIf!HeldIsRunning
<1>5. AsIf!TypeOK'
  BY <1>0, <1>1, <1>3 DEF AsIf!TypeOK
<1>6. AsIf!DueOnce' /\ AsIf!WaitingIsReady' /\ AsIf!FreshIsUntried' /\ AsIf!AttemptLeft'
  BY <1>0, <1>1, SameWords
     DEF AsIf!QueueInv, AsIf!DueOnce, AsIf!WaitingIsReady, AsIf!FreshIsUntried, AsIf!AttemptLeft,
         AsIf!ToSet
<1>7. AsIf!OnlyInterruptionsStrand'
  <2>1. crashes \in Nat /\ faults \in Nat
    BY <1>0, QueueAssumption DEF AsIf!TypeOK, BusinessTypes, QueueAssumption
  <2>2. (crashes + 1) + faults # 0
    BY <2>1
  <2>. QED BY <2>2 DEF AsIf!OnlyInterruptionsStrand
<1>. QED BY <1>3, <1>4, <1>5, <1>6, <1>7 DEF AsIf!QueueInv

\* The business is as it was, or one more acceptance of before the reset is known.
LEMMA OldBatchBusiness ==
  ASSUME BusinessInv, UNCHANGED <<status, ful, orderOf, tool, unseen, crashes, pay, gone, overtaken>>,
         \/ UNCHANGED <<drafts, forgotten>>
         \/ \E o : /\ drafts' = [drafts EXCEPT ![o] = @ + 1]
                   /\ forgotten' = [forgotten EXCEPT ![o] = @ + 1]
  PROVE  BusinessInv' /\ AsIfDrafts' = AsIfDrafts
<1>0. BusinessTypes
  BY DEF BusinessInv
<1>1. /\ drafts' \in [Orders -> Nat] /\ forgotten' \in [Orders -> Nat]
      /\ \A o \in Orders : \/ drafts'[o] = drafts[o] /\ forgotten'[o] = forgotten[o]
                           \/ drafts'[o] = drafts[o] + 1 /\ forgotten'[o] = forgotten[o] + 1
  BY <1>0 DEF BusinessTypes
<1>2. ASSUME NEW o \in Orders
      PROVE  /\ forgotten'[o] <= drafts'[o]
             /\ drafts'[o] - forgotten'[o] = drafts[o] - forgotten[o]
  <2>1. drafts[o] \in Nat /\ forgotten[o] \in Nat /\ forgotten[o] <= drafts[o]
    BY <1>0 DEF BusinessTypes
  <2>. QED BY <1>1, <2>1
<1>3. AsIfDrafts' = AsIfDrafts
  BY <1>2 DEF AsIfDrafts
<1>4. BusinessTypes'
  BY <1>0, <1>1, <1>2 DEF BusinessTypes
<1>5. GoneLeavesNoRow' /\ CreatesArePaid' /\ UnpaidWasOvertaken'
  BY DEF BusinessInv, GoneLeavesNoRow, CreatesArePaid, UnpaidWasOvertaken
<1>. QED BY <1>3, <1>4, <1>5 DEF BusinessInv

\* A handler over a job that is gone, or the supplier it is waiting for.
LEMMA OldHandlerInv ==
  ASSUME SimulationInv, NEW p \in Polls, Ghost(p), phase[p] = "handling",
         NEW s \in Phase \ {"idle"}, phase' = [phase EXCEPT ![p] = s],
         NEW t \in {"none", "accepted"}, call' = [call EXCEPT ![p] = t],
         t # "none" => s = "handling",
         UNCHANGED <<rows, batch, crashes, faults, ful, orderOf, tool, unseen, lapses>>,
         UNCHANGED <<pay, gone, overtaken>>,
         \/ UNCHANGED <<drafts, forgotten>>
         \/ \E o : /\ drafts' = [drafts EXCEPT ![o] = @ + 1]
                   /\ forgotten' = [forgotten EXCEPT ![o] = @ + 1]
  PROVE  SimulationInv'
<1>0. /\ BusinessInv /\ AsIf!QueueInv /\ AsIf!TypeOK /\ AsIf!FulfillmentTypes /\ BusinessTypes
      /\ AsIf!QueueAssumption
  BY AsIfAssumptions
     DEF SimulationInv, BusinessInv, AsIf!AnswerInv, AsIf!FulfillmentInv, AsIf!RowsInv, AsIf!QueueInv
<1>1. BusinessInv' /\ AsIfDrafts' = AsIfDrafts
  BY <1>0, OldBatchBusiness DEF rows
<1>2. UNCHANGED <<AsIfStatus, AsIfFul, AsIfOrderOf, AsIfUnseen, tool, lapses>>
  BY NoWrite DEF rows
<1>3. AsIf!QueueInv'
  <2>1. s \in AsIf!Phase \ {"idle"}
    BY DEF Phase, AsIf!Phase
  <2>2. UNCHANGED <<AsIf!rows, batch, crashes + 1>>
    BY <1>2 DEF rows, AsIf!rows
  <2>3. /\ faults' \in 0 .. MaxFaults
        /\ (crashes + 1)' + faults' = 0 => (crashes + 1) + faults = 0
    BY <1>0 DEF AsIf!TypeOK
  <2>4. AsIf!QueueInv /\ phase[p] # "idle" /\ phase' = [phase EXCEPT ![p] = s]
    BY <1>0
  <2>. QED BY <1>0, <2>1, <2>2, <2>3, <2>4, AsIfAssumptions, AsIf!PhaseStepInv
<1>4. /\ \A q \in Polls \ {p} :
           batch'[q] = batch[q] /\ phase'[q] = phase[q] /\ call'[q] = call[q]
      /\ call' \in [Polls -> AsIf!CallState]
      /\ call'[p] # "none" => phase'[p] = "handling" /\ batch'[p] = batch[p]
      /\ ToSet(batch'[p]) \subseteq ToSet(batch[p])
  BY <1>0 DEF AsIf!TypeOK, AsIf!FulfillmentTypes, AsIf!CallState
<1>5. AsIf!AnswerInv'
  BY <1>1, <1>2, <1>3, <1>4, OldBatchMoves
<1>. QED BY <1>1, <1>5 DEF SimulationInv

\* Every step of an old batch.
LEMMA OldStepInv ==
  ASSUME SimulationInv, NEW p \in Polls, Ghost(p), GhostStep(p)
  PROVE  SimulationInv'
<1>0. /\ BusinessInv /\ BusinessTypes /\ AsIf!QueueInv /\ AsIf!TypeOK /\ AsIf!FulfillmentTypes
      /\ AsIf!CallsArePending /\ batch[p] # <<>>
  BY DEF SimulationInv, BusinessInv, AsIf!AnswerInv, AsIf!FulfillmentInv, AsIf!RowsInv,
         AsIf!QueueInv, Ghost
<1>1. ASSUME NEW outcome \in {"ok", "transient", "permanent"}, Undisturbed(GhostEnds(p, outcome))
      PROVE  SimulationInv'
  <2>1. /\ phase[p] = "handling" /\ phase' = [phase EXCEPT ![p] = outcome]
        /\ call' = [call EXCEPT ![p] = "none"] /\ outcome \in Phase \ {"idle"}
        /\ UNCHANGED <<rows, batch, crashes, faults, ful, orderOf, tool, unseen, lapses>>
        /\ UNCHANGED <<pay, gone, overtaken>>
        /\ UNCHANGED <<drafts, forgotten>>
    BY <1>1 DEF Undisturbed, GhostEnds, HandlerEnds, HangUp, callerVars, business, Phase
  <2>. QED BY <2>1, OldHandlerInv
<1>2. CASE Undisturbed(NoSuchFulfillment(p)) \/ Undisturbed(GhostAnswered(p))
  BY <1>1, <1>2 DEF Undisturbed, NoSuchFulfillment, GhostAnswered
<1>3. CASE GhostAccepted(p)
  <2>1. /\ phase[p] = "handling" /\ phase' = [phase EXCEPT ![p] = "handling"]
        /\ call' = [call EXCEPT ![p] = "accepted"] /\ "handling" \in Phase \ {"idle"}
        /\ UNCHANGED <<rows, batch, crashes, faults, ful, orderOf, tool, unseen, lapses>>
        /\ UNCHANGED <<pay, gone, overtaken>>
        /\ drafts' = [drafts EXCEPT ![orderOf[Current(p)]] = @ + 1]
        /\ forgotten' = [forgotten EXCEPT ![orderOf[Current(p)]] = @ + 1]
    BY <1>0, <1>3
       DEF GhostAccepted, SupplierAccepts, queueVars, rows, callerVars, AsIf!TypeOK, Phase
  <2>2. \E o : /\ drafts' = [drafts EXCEPT ![o] = @ + 1]
               /\ forgotten' = [forgotten EXCEPT ![o] = @ + 1]
    BY <2>1
  <2>. QED BY <2>1, <2>2, OldHandlerInv
<1>4. ASSUME phase[p] # "handling", UNCHANGED <<rows, ful, orderOf, tool, unseen, crashes, lapses>>,
             UNCHANGED <<call, drafts, pay, gone, overtaken, forgotten>>,
             AsIf!QueueInv', ToSet(batch'[p]) \subseteq ToSet(batch[p]),
             \E b, s : batch' = [batch EXCEPT ![p] = b] /\ phase' = [phase EXCEPT ![p] = s]
      PROVE  SimulationInv'
  <2>1. BusinessInv' /\ AsIfDrafts' = AsIfDrafts
    BY <1>0, <1>4, OldBatchBusiness DEF rows
  <2>2. UNCHANGED <<AsIfStatus, AsIfFul, AsIfOrderOf, AsIfUnseen, tool, lapses>>
    BY <1>4, NoWrite DEF rows
  <2>3. call[p] = "none"
    BY <1>0, <1>4 DEF AsIf!CallsArePending
  <2>4. /\ \A q \in Polls \ {p} :
             batch'[q] = batch[q] /\ phase'[q] = phase[q] /\ call'[q] = call[q]
        /\ call' \in [Polls -> AsIf!CallState]
        /\ call'[p] # "none" => phase'[p] = "handling" /\ batch'[p] = batch[p]
    BY <1>0, <1>4, <2>3 DEF AsIf!TypeOK, AsIf!FulfillmentTypes, AsIf!CallState
  <2>5. AsIf!AnswerInv'
    BY <1>4, <2>1, <2>2, <2>4, OldBatchMoves
  <2>. QED BY <2>1, <2>5 DEF SimulationInv
<1>5. CASE Undisturbed(GhostSettles(p))
  <2>1. /\ phase[p] # "handling" /\ Advance(p)
        /\ UNCHANGED <<rows, ful, orderOf, tool, unseen, crashes, lapses>>
        /\ UNCHANGED <<call, drafts, pay, gone, overtaken, forgotten>> /\ faults' = faults
    BY <1>5 DEF Undisturbed, GhostSettles, worker, callerVars, business
  <2>2. AsIf!QueueInv'
    BY <1>0, <2>1, OldJobPasses
  <2>3. ToSet(batch'[p]) \subseteq ToSet(batch[p])
    <3>1. /\ batch' \in [Polls -> Seq(Jobs)]
          /\ \A i \in 1 .. Len(batch'[p]) : \E k \in 1 .. Len(batch[p]) : batch'[p][i] = batch[p][k]
      <4>1. AsIf!TypeOK /\ AsIf!HeldOnce /\ AsIf!IdleHoldsNothing /\ AsIf!Advance(p)
        BY <1>0, <2>1, SameWords DEF AsIf!QueueInv
      <4>. QED BY <1>0, <4>1, AsIfAssumptions, AsIf!AdvancePassesTheFirst
    <3>2. DOMAIN batch'[p] = 1 .. Len(batch'[p]) /\ DOMAIN batch[p] = 1 .. Len(batch[p])
      BY <1>0, <3>1, LenProperties DEF AsIf!TypeOK
    <3>. QED BY <3>1, <3>2 DEF ToSet
  <2>4. \E b, s : batch' = [batch EXCEPT ![p] = b] /\ phase' = [phase EXCEPT ![p] = s]
    BY <2>1 DEF Advance
  <2>. QED BY <1>4, <2>1, <2>2, <2>3, <2>4
<1>6. CASE Undisturbed(GhostBookkeepingFails(p))
  <2>1. /\ phase[p] \in {"permanent", "transient"} /\ Abandon(p) /\ Fault
        /\ UNCHANGED <<rows, ful, orderOf, tool, unseen, crashes, lapses>>
        /\ UNCHANGED <<call, drafts, pay, gone, overtaken, forgotten>>
    BY <1>6 DEF Undisturbed, GhostBookkeepingFails, worker, callerVars, business
  <2>2. AsIf!BookkeepingFails(p)
    <3>1. GivenUp(p) \/ ComesBack(p)
      BY <2>1 DEF GivenUp, ComesBack
    <3>2. UNCHANGED AsIf!rows
      BY <2>1, NoWrite DEF rows, AsIf!rows
    <3>. QED BY <2>1, <3>1, <3>2, SameWords DEF AsIf!BookkeepingFails
  <2>3. AsIf!QueueInv'
    BY <1>0, <2>2, AsIfAssumptions, AsIf!BookkeepingFailsInv
  <2>4. /\ batch' = [batch EXCEPT ![p] = <<>>] /\ phase' = [phase EXCEPT ![p] = "idle"]
        /\ ToSet(batch'[p]) \subseteq ToSet(batch[p])
    BY <1>0, <2>1 DEF Abandon, ToSet, AsIf!TypeOK
  <2>5. \E b, s : batch' = [batch EXCEPT ![p] = b] /\ phase' = [phase EXCEPT ![p] = s]
    BY <2>4
  <2>. QED BY <1>4, <2>1, <2>3, <2>4, <2>5
<1>. QED BY <1>2, <1>3, <1>5, <1>6 DEF GhostStep

-----------------------------------------------------------------------------
(* A business that begins, at first or after a reset.                      *)

\* Nothing has a row, and what a batch holds is of the old business.
Fresh ==
  /\ FulfillmentTypeOK /\ BusinessTypes
  /\ \A j \in Jobs : status[j] = "ABSENT" /\ ful[j] = "NONE" /\ attempts[j] = 0
  /\ due = <<>> /\ delayed = {}
  /\ \A c \in Callers : tool[c] = Idle
  /\ \A o \in Orders : drafts[o] = forgotten[o] /\ unseen[o] = 0
  /\ AsIf!IdleHoldsNothing /\ AsIf!HeldOnce
  /\ \A p \in Polls : \A i \in 1 .. Len(batch[p]) : batch[p][i] \in gone
  /\ \A p \in Polls : call[p] # "none" => phase[p] = "handling"

LEMMA FreshQueue == Fresh => AsIf!QueueInv
<1>. SUFFICES ASSUME Fresh PROVE AsIf!QueueInv
  OBVIOUS
<1>0. TypeOK /\ BusinessTypes
  BY DEF Fresh, FulfillmentTypeOK
<1>1. \A j \in Jobs : AsIfStatus[j] = IF j \in gone THEN "RUNNING" ELSE "ABSENT"
  BY DEF Fresh, AsIfStatus
<1>2. AsIf!TypeOK
  <2>1. crashes + 1 \in 0 .. MaxCrashes + 1
    BY <1>0, QueueAssumption DEF BusinessTypes, QueueAssumption
  <2>2. AsIfStatus \in [Jobs -> AsIf!Status]
    BY <1>0 DEF BusinessTypes, AsIfStatus, Status, AsIf!Status
  <2>. QED BY <1>0, <2>1, <2>2 DEF TypeOK, AsIf!TypeOK, Phase, AsIf!Phase
<1>3. AsIf!DueOnce /\ AsIf!WaitingIsReady /\ AsIf!FreshIsUntried /\ AsIf!AttemptLeft
  <2>1. AsIf!ToSet(due) = {} /\ Len(due) = 0
    BY DEF Fresh, AsIf!ToSet
  <2>. QED BY <1>1, <2>1
     DEF Fresh, AsIf!DueOnce, AsIf!WaitingIsReady, AsIf!FreshIsUntried, AsIf!AttemptLeft
<1>4. AsIf!IdleHoldsNothing /\ AsIf!HeldOnce
  BY DEF Fresh
<1>5. AsIf!HeldIsRunning
  BY <1>0, <1>1 DEF Fresh, BusinessTypes, AsIf!HeldIsRunning
<1>6. AsIf!OnlyInterruptionsStrand
  <2>1. crashes \in Nat /\ faults \in Nat
    BY <1>0, QueueAssumption DEF TypeOK, QueueAssumption
  <2>2. (crashes + 1) + faults # 0
    BY <2>1
  <2>. QED BY <2>2 DEF AsIf!OnlyInterruptionsStrand
<1>. QED BY <1>2, <1>3, <1>4, <1>5, <1>6 DEF AsIf!QueueInv

LEMMA FreshAsIf == Fresh => AsIf!AnswerInv
<1>. SUFFICES ASSUME Fresh PROVE AsIf!AnswerInv
  OBVIOUS
<1>0. FulfillmentTypeOK /\ TypeOK /\ BusinessTypes
  BY DEF Fresh, FulfillmentTypeOK
<1>1. /\ \A j \in Jobs : AsIfFul[j] = IF j \in gone THEN "PENDING_SUPPLIER" ELSE "NONE"
      /\ \A j \in gone : j \in Jobs /\ AsIfOrderOf[j] = OldOrder(j)
  BY <1>0 DEF Fresh, AsIfFul, AsIfOrderOf, BusinessTypes
<1>2. /\ \A o \in Orders : AsIfDrafts[o] = 0 /\ AsIfUnseen[o] = 0
      /\ \A o \in OldOrders : o \notin Orders => AsIfDrafts[o] = 1 /\ AsIfUnseen[o] = 1
  <2>1. ASSUME NEW o \in Orders PROVE drafts[o] - forgotten[o] = 0
    <3>1. drafts[o] \in Nat /\ drafts[o] = forgotten[o]
      BY <1>0 DEF Fresh, BusinessTypes
    <3>. QED BY <3>1
  <2>. QED BY <2>1 DEF AsIfDrafts, AsIfUnseen, Fresh
<1>3. AsIf!FulfillmentTypes
  <2>1. AsIfFul \in [Jobs -> AsIf!FulfillmentStatus]
    BY <1>0, <1>1 DEF AsIfFul, AsIf!FulfillmentStatus
  <2>2. AsIfOrderOf \in [Jobs -> (Orders \cup OldOrders) \cup {NoOrder}]
    BY <1>0, OldOrdersAreApart DEF BusinessTypes, AsIfOrderOf
  <2>3. tool \in [Callers -> AsIf!ToolState]
    BY <1>0 DEF BusinessTypes, Fresh, ToolState, AsIf!ToolState, Idle, AsIf!Idle
  <2>4. /\ AsIfDrafts \in [Orders \cup OldOrders -> Nat]
        /\ AsIfUnseen \in [Orders \cup OldOrders -> Nat]
    <3>1. \A o \in Orders \cup OldOrders : AsIfDrafts[o] \in Nat /\ AsIfUnseen[o] \in Nat
      BY <1>2
    <3>2. /\ AsIfDrafts = [o \in Orders \cup OldOrders |-> AsIfDrafts[o]]
          /\ AsIfUnseen = [o \in Orders \cup OldOrders |-> AsIfUnseen[o]]
      BY DEF AsIfDrafts, AsIfUnseen
    <3>. QED BY <3>1, <3>2
  <2>. QED BY <1>0, <2>1, <2>2, <2>3, <2>4 DEF FulfillmentTypeOK, AsIf!FulfillmentTypes
<1>4. AsIf!RowsHaveTheirOrder /\ AsIf!CheckStillHolds /\ AsIf!OneFulfillmentPerOrder
  <2>1. AsIf!RowsHaveTheirOrder
    BY <1>0, <1>1, OldOrdersAreApart DEF Fresh, Idle, BusinessTypes, AsIfStatus, AsIf!RowsHaveTheirOrder
  <2>2. AsIf!CheckStillHolds
    BY SameWords DEF Fresh, Idle, AsIf!CheckStillHolds
  <2>3. AsIf!OneFulfillmentPerOrder
    BY <1>1, OldOrdersAreApart DEF AsIf!OneFulfillmentPerOrder
  <2>. QED BY <2>1, <2>2, <2>3
<1>5. \A p \in Polls : call[p] # "none" => phase[p] = "handling" /\ Current(p) \in gone
  <2>. SUFFICES ASSUME NEW p \in Polls, call[p] # "none" PROVE phase[p] = "handling" /\ Current(p) \in gone
    OBVIOUS
  <2>1. phase[p] = "handling" /\ batch[p] \in Seq(Jobs) /\ batch[p] # <<>>
    BY <1>0 DEF Fresh, AsIf!IdleHoldsNothing, TypeOK
  <2>2. 1 \in 1 .. Len(batch[p]) /\ Current(p) = batch[p][1]
    BY <2>1 DEF Current
  <2>. QED BY <2>1, <2>2 DEF Fresh
<1>6. AsIf!CallsArePending /\ AsIf!HandedOver
  <2>1. ASSUME NEW j \in gone
        PROVE  AsIfFul[j] = "PENDING_SUPPLIER" /\ AsIfDrafts[AsIfOrderOf[j]] = 1
    BY <1>0, <1>1, <1>2, OldOrdersAreApart DEF BusinessTypes
  <2>. QED BY <1>5, <2>1, SameWords DEF AsIf!CallsArePending, AsIf!HandedOver
<1>7. AsIf!AcceptancesAreSpent
  <2>1. \A o \in Orders \cup OldOrders : AsIfDrafts[o] = AsIfUnseen[o] /\ AsIfUnseen[o] \in Nat
    BY <1>2
  <2>. QED BY <2>1 DEF AsIf!AcceptancesAreSpent
<1>8. AsIf!AnswersAreTrue
  BY <1>1 DEF AsIf!AnswersAreTrue
<1>. QED BY <1>3, <1>4, <1>6, <1>7, <1>8, FreshQueue
     DEF AsIf!AnswerInv, AsIf!FulfillmentInv, AsIf!RowsInv

LEMMA FreshInv == Fresh => SimulationInv
<1>. SUFFICES ASSUME Fresh PROVE SimulationInv
  OBVIOUS
<1>1. GoneLeavesNoRow /\ CreatesArePaid /\ UnpaidWasOvertaken
  BY DEF Fresh, BusinessTypes, Idle, GoneLeavesNoRow, CreatesArePaid, UnpaidWasOvertaken
<1>. QED BY <1>1, FreshAsIf DEF Fresh, SimulationInv, BusinessInv

\* What holds of every fresh state holds of the next one.
LEMMA FreshNextInv == Fresh' => SimulationInv'
BY FreshInv, PTL

LEMMA InitIsFresh == SimulationInit => Fresh
<1>. SUFFICES ASSUME SimulationInit PROVE Fresh
  OBVIOUS
<1>1. /\ \A j \in Jobs : status[j] = "ABSENT" /\ ful[j] = "NONE" /\ attempts[j] = 0
      /\ due = <<>> /\ delayed = {}
      /\ \A c \in Callers : tool[c] = Idle
      /\ \A o \in Orders : drafts[o] = forgotten[o] /\ unseen[o] = 0
      /\ \A p \in Polls : batch[p] = <<>> /\ phase[p] = "idle" /\ call[p] = "none"
  BY DEF SimulationInit, FulfillmentInit, QueueInit
<1>2. TypeOK
  BY QueueAssumption DEF SimulationInit, FulfillmentInit, QueueInit, TypeOK, Status, Phase, QueueAssumption
<1>3. FulfillmentTypeOK
  BY <1>2, FulfillmentAssumption
     DEF SimulationInit, FulfillmentInit, FulfillmentTypeOK, FulfillmentStatus, ToolState,
         FulfillmentAssumption
<1>4. BusinessTypes
  BY <1>2, <1>3 DEF SimulationInit, FulfillmentInit, BusinessTypes, TypeOK, FulfillmentTypeOK
<1>5. AsIf!IdleHoldsNothing /\ AsIf!HeldOnce
  BY <1>1 DEF AsIf!IdleHoldsNothing, AsIf!HeldOnce
<1>. QED BY <1>1, <1>3, <1>4, <1>5 DEF Fresh

\* A reset leaves nothing but the batches, and nothing they hold has a row.
LEMMA ResetIsFresh == SimulationInv /\ Reset => Fresh'
<1>. SUFFICES ASSUME SimulationInv, Reset PROVE Fresh'
  OBVIOUS
<1>0. /\ BusinessTypes /\ AsIf!TypeOK /\ AsIf!FulfillmentTypes /\ AsIf!IdleHoldsNothing
      /\ AsIf!HeldOnce /\ AsIf!HeldIsRunning /\ AsIf!CallsArePending
  BY DEF SimulationInv, BusinessInv, AsIf!AnswerInv, AsIf!FulfillmentInv, AsIf!RowsInv, AsIf!QueueInv
<1>1. /\ status' = [j \in Jobs |-> "ABSENT"] /\ ful' = [j \in Jobs |-> "NONE"]
      /\ attempts' = [j \in Jobs |-> 0] /\ retries' = [j \in Jobs |-> 0]
      /\ due' = <<>> /\ delayed' = {}
      /\ pay' = [o \in Orders |-> "SUCCESS"] /\ gone' = gone \cup Rows
      /\ forgotten' = drafts /\ unseen' = [o \in Orders |-> 0]
      /\ UNCHANGED <<batch, phase, crashes, faults, orderOf, tool, call, drafts, lapses>>
  BY DEF Reset, SeedDemo, TruncateAll, memory
<1>2. \A c \in Callers : tool'[c] = Idle
  BY <1>1, SimulationAssumption DEF Reset, EventLoopFree, SimulationAssumption
<1>3. TypeOK'
  BY <1>0, <1>1, QueueAssumption
     DEF BusinessTypes, AsIf!TypeOK, TypeOK, Status, Phase, AsIf!Phase, QueueAssumption
<1>4. FulfillmentTypeOK'
  BY <1>0, <1>1, <1>3
     DEF BusinessTypes, AsIf!FulfillmentTypes, FulfillmentTypeOK, FulfillmentStatus
<1>5. BusinessTypes'
  <2>1. gone' \subseteq Jobs
    BY <1>0, <1>1 DEF BusinessTypes, Rows
  <2>2. \A o \in Orders : forgotten'[o] <= drafts'[o]
    <3>1. \A o \in Orders : drafts[o] \in Nat
      BY <1>0 DEF BusinessTypes
    <3>. QED BY <1>1, <3>1
  <2>. QED BY <1>0, <1>1, <2>1, <2>2 DEF BusinessTypes, Status, FulfillmentStatus
<1>6. \A p \in Polls : \A i \in 1 .. Len(batch'[p]) : batch'[p][i] \in gone'
  <2>. SUFFICES ASSUME NEW p \in Polls, NEW i \in 1 .. Len(batch[p])
                PROVE  batch[p][i] \in gone \cup Rows
    BY <1>1
  <2>1. batch[p][i] \in Jobs /\ AsIfStatus[batch[p][i]] = "RUNNING"
    BY <1>0 DEF AsIf!TypeOK, AsIf!HeldIsRunning
  <2>. QED BY <2>1 DEF AsIfStatus, Rows
<1>7. /\ AsIf!IdleHoldsNothing' /\ AsIf!HeldOnce'
      /\ \A p \in Polls : call'[p] # "none" => phase'[p] = "handling"
  BY <1>0, <1>1 DEF AsIf!IdleHoldsNothing, AsIf!HeldOnce, AsIf!CallsArePending
<1>. QED BY <1>1, <1>2, <1>4, <1>5, <1>6, <1>7 DEF Fresh

-----------------------------------------------------------------------------
(* The invariant.                                                          *)

\* A payment that fails or is returned finds no caller between its check and its
\* INSERT, and overtakes every fulfilment that is there.
LEMMA SetbackInv ==
  ASSUME SimulationInv, NEW o \in Orders, NEW outcome \in {"REFUNDED", "FAILED"},
         Setback(o, outcome)
  PROVE  SimulationInv'
<1>0. BusinessInv /\ BusinessTypes /\ AsIf!AnswerInv
  BY DEF SimulationInv, BusinessInv
<1>1. /\ UNCHANGED <<status, attempts, retries, due, delayed, batch, phase, crashes, faults>>
      /\ UNCHANGED <<ful, orderOf, tool, call, drafts, unseen, lapses, gone, forgotten>>
      /\ pay' = [pay EXCEPT ![o] = outcome]
      /\ overtaken' = overtaken \cup FulfillmentsOf(o)
  BY DEF Setback, fulfillmentVars, queueVars
<1>2. AsIf!AnswerInv'
  <2>1. UNCHANGED <<AsIfStatus, AsIfFul, AsIfOrderOf, AsIfDrafts, AsIfUnseen>>
    BY <1>1, NoWrite
  <2>2. UNCHANGED AsIf!fulfillmentVars
    BY <1>1, <2>1 DEF AsIf!fulfillmentVars, AsIf!queueVars
  <2>3. InProcess = Callers
    BY SimulationAssumption DEF SimulationAssumption
  <2>. QED BY <1>0, <2>2, <2>3, AsIfAssumptions, AsIf!AnswerNextInv
<1>3. BusinessTypes' /\ GoneLeavesNoRow'
  BY <1>0, <1>1 DEF BusinessInv, BusinessTypes, GoneLeavesNoRow
<1>4. CreatesArePaid'
  <2>1. \A c \in Callers : tool'[c] = Idle
    BY <1>1, SimulationAssumption DEF Setback, EventLoopFree, SimulationAssumption
  <2>. QED BY <2>1 DEF CreatesArePaid, Idle
<1>5. UnpaidWasOvertaken'
  <2>. SUFFICES ASSUME NEW f \in Jobs, ful[f] # "NONE", pay'[orderOf[f]] # "SUCCESS"
                PROVE  f \in overtaken'
    BY <1>1 DEF UnpaidWasOvertaken
  <2>1. CASE orderOf[f] = o
    BY <1>1, <2>1 DEF FulfillmentsOf
  <2>2. CASE orderOf[f] # o
    <3>1. pay'[orderOf[f]] = pay[orderOf[f]]
      BY <1>0, <1>1, <2>2 DEF BusinessTypes
    <3>. QED BY <1>0, <1>1, <3>1 DEF BusinessInv, UnpaidWasOvertaken
  <2>. QED BY <2>1, <2>2
<1>. QED BY <1>2, <1>3, <1>4, <1>5 DEF SimulationInv, BusinessInv

LEMMA SimulationNextInv == SimulationInv /\ [SimulationNext]_simulationVars => SimulationInv'
<1>. SUFFICES ASSUME SimulationInv, [SimulationNext]_simulationVars PROVE SimulationInv'
  OBVIOUS
<1>1. CASE Reset
  BY <1>1, ResetIsFresh, FreshNextInv
<1>2. ASSUME NEW o \in Orders, RecordRefund(o) \/ PaymentFailure(o) PROVE SimulationInv'
  BY <1>2, SetbackInv DEF RecordRefund, PaymentFailure
<1>3. CASE PresentStep /\ UNCHANGED business
  BY <1>3, PresentStepInv
<1>4. ASSUME NEW p \in Polls, Ghost(p), GhostStep(p) PROVE SimulationInv'
  BY <1>4, OldStepInv
<1>5. CASE UNCHANGED simulationVars
  <2>0. BusinessInv /\ AsIf!AnswerInv
    BY DEF SimulationInv
  <2>1. /\ UNCHANGED <<status, attempts, retries, due, delayed, batch, phase, crashes, faults>>
        /\ UNCHANGED <<ful, orderOf, tool, call, drafts, unseen, lapses, pay, gone, overtaken, forgotten>>
    BY <1>5 DEF simulationVars, fulfillmentVars, queueVars, business
  <2>2. UNCHANGED AsIf!fulfillmentVars
    BY <2>1, NoWrite DEF AsIf!fulfillmentVars, AsIf!queueVars
  <2>3. AsIf!AnswerInv'
    <3>1. InProcess = Callers
      BY SimulationAssumption DEF SimulationAssumption
    <3>. QED BY <2>0, <2>2, <3>1, AsIfAssumptions, AsIf!AnswerNextInv
  <2>4. BusinessInv'
    BY <2>0, <2>1
       DEF BusinessInv, BusinessTypes, GoneLeavesNoRow, CreatesArePaid, UnpaidWasOvertaken
  <2>. QED BY <2>3, <2>4 DEF SimulationInv
<1>6. ASSUME SimulationNext PROVE SimulationInv'
  <2>1. \/ Reset
        \/ \E o \in Orders : RecordRefund(o) \/ PaymentFailure(o)
        \/ PresentStep /\ UNCHANGED business
        \/ \E p \in Polls : Ghost(p) /\ GhostStep(p)
    BY <1>6 DEF SimulationNext, PresentStep, Undisturbed
  <2>. QED BY <1>1, <1>2, <1>3, <1>4, <2>1
<1>. QED BY <1>5, <1>6

\* In every state the old batches may be taken to have their rows, and what the
\* present business has was paid for when it was created.
THEOREM SimulationInvariance == SimulationSpec => []SimulationInv
<1>1. SimulationInit => SimulationInv
  BY InitIsFresh, FreshInv
<1>. QED BY <1>1, SimulationNextInv, PTL DEF SimulationSpec

\* Whatever a batch of the old business still does after a reset (late answers of
\* the supplier, backoffs, dead letters, failed writes), none of its rows comes back.
THEOREM ResetsAreFinal == SimulationSpec => []OldWorkLeavesNoTrace
<1>1. SimulationInv => OldWorkLeavesNoTrace
  <2>. SUFFICES ASSUME SimulationInv, NEW j \in gone
                PROVE  /\ status[j] = "ABSENT" /\ ful[j] = "NONE"
                       /\ j \notin ToSet(due) \cup delayed
    BY DEF OldWorkLeavesNoTrace
  <2>1. BusinessTypes /\ GoneLeavesNoRow /\ AsIf!WaitingIsReady
    BY DEF SimulationInv, BusinessInv, AsIf!AnswerInv, AsIf!FulfillmentInv, AsIf!RowsInv, AsIf!QueueInv
  <2>2. j \in Jobs /\ AsIfStatus[j] # "READY"
    BY <2>1 DEF BusinessTypes, AsIfStatus
  <2>. QED BY <2>1, <2>2, SameWords DEF GoneLeavesNoRow, AsIf!WaitingIsReady
<1>. QED BY <1>1, SimulationInvariance, PTL

\* Since the last reset, the supplier has accepted an order once, and once more
\* for each acceptance that the handler did not get to record: calls that were on
\* the wire during a reset lead to no other.
THEOREM DuplicatesStayExplained == SimulationSpec => []DuplicateIsExplained
<1>1. SimulationInv => DuplicateIsExplained
  <2>. SUFFICES ASSUME SimulationInv, NEW o \in Orders
                PROVE  drafts[o] - forgotten[o] <= 1 + unseen[o]
    BY DEF DuplicateIsExplained
  <2>1. AsIf!AcceptancesAreSpent
    BY DEF SimulationInv, AsIf!AnswerInv, AsIf!FulfillmentInv
  <2>2. AsIfDrafts[o] <= 1 + AsIfUnseen[o]
    BY <2>1 DEF AsIf!AcceptancesAreSpent
  <2>. QED BY <2>2 DEF AsIfDrafts, AsIfUnseen
<1>. QED BY <1>1, SimulationInvariance, PTL

\* An order whose payment failed or was returned has a fulfilment only if that
\* was there before: the tool creates none afterwards.
THEOREM UnpaidOrdersWereOvertaken == SimulationSpec => []UnpaidWasOvertaken
<1>1. SimulationInv => UnpaidWasOvertaken
  BY DEF SimulationInv, BusinessInv
<1>. QED BY <1>1, SimulationInvariance, PTL

\* What get_order_status says of an order agrees with what the supplier knows of
\* it, unless an acceptance went unseen, is being recorded or was cut off by a crash.
THEOREM CustomersAreToldTheTruth == SimulationSpec => []ToldIsTrue
<1>1. SimulationInv => ToldIsTrue
  <2>. SUFFICES ASSUME SimulationInv, NEW o \in Orders
                PROVE  /\ DescribeOrderState(o) = "accepted" => drafts[o] - forgotten[o] > 0
                       /\ /\ DescribeOrderState(o) \in {"waiting", "queued", "unreached"}
                          /\ drafts[o] - forgotten[o] > 0
                          => unseen[o] > 0 \/ BeingRecorded(o) \/ Stranded(o)
    BY DEF ToldIsTrue
  <2>1. /\ BusinessTypes /\ GoneLeavesNoRow
        /\ AsIf!AcceptancesAreSpent /\ AsIf!AnswersAreTrue /\ AsIf!FulfillmentTypes
    BY DEF SimulationInv, BusinessInv, AsIf!AnswerInv, AsIf!FulfillmentInv, AsIf!RowsInv
  <2>2. AsIfDrafts[o] = drafts[o] - forgotten[o] /\ AsIfUnseen[o] = unseen[o]
    BY DEF AsIfDrafts, AsIfUnseen
  <2>3. AsIfDrafts[o] \in Nat /\ AsIfUnseen[o] \in Nat
    BY <2>1 DEF AsIf!FulfillmentTypes
  <2>4. ASSUME NEW f \in FulfillmentsOf(o)
        PROVE  f \in Jobs /\ f \notin gone /\ AsIfFul[f] = ful[f] /\ AsIfOrderOf[f] = o
    BY <2>1 DEF FulfillmentsOf, GoneLeavesNoRow, AsIfFul, AsIfOrderOf
  <2>5. ASSUME DescribeOrderState(o) = "accepted" PROVE AsIfDrafts[o] > 0
    <3>1. PICK f \in FulfillmentsOf(o) : ful[f] = "SUBMITTED"
      BY <2>5 DEF DescribeOrderState
    <3>. QED BY <2>1, <2>4, <3>1 DEF AsIf!AnswersAreTrue
  <2>6. ASSUME DescribeOrderState(o) \in {"waiting", "queued", "unreached"},
               AsIfDrafts[o] > 0, ~(AsIfUnseen[o] > 0)
        PROVE  BeingRecorded(o) \/ Stranded(o)
    <3>1. ~(AsIfDrafts[o] <= AsIfUnseen[o])
      BY <2>3, <2>6
    <3>2. PICK f \in Jobs : AsIfFul[f] # "NONE" /\ AsIfOrderOf[f] = o /\ AsIf!Spent(f)
      BY <2>1, <3>1 DEF AsIf!AcceptancesAreSpent
    <3>3. f \notin gone
      BY <3>2, OldOrdersAreApart DEF AsIfOrderOf
    <3>4. f \in FulfillmentsOf(o)
      BY <3>2, <3>3 DEF FulfillmentsOf, AsIfFul, AsIfOrderOf
    <3>5. ful[f] # "SUBMITTED"
      BY <2>6, <3>4 DEF DescribeOrderState
    <3>6. ful[f] # "EXCEPTION"
      BY <2>1, <2>4, <3>1, <3>4 DEF AsIf!AnswersAreTrue
    <3>7. AsIf!LeftRunning(f) \/ AsIf!Accepted(f)
      BY <2>1, <2>4, <3>2, <3>4, <3>5, <3>6
         DEF BusinessTypes, FulfillmentStatus, AsIf!Spent
    <3>8. CASE AsIf!LeftRunning(f)
      <4>1. status[f] = "RUNNING" /\ ~InFlight(f)
        BY <3>2, <3>3, <3>8, SameWords DEF AsIf!LeftRunning, AsIfStatus, AsIf!InFlight, InFlight
      <4>. QED BY <3>4, <4>1 DEF Stranded
    <3>9. CASE AsIf!Accepted(f)
      <4>1. PICK p \in Polls : call[p] \in {"accepted", "throwing"} /\ Current(p) = f
        BY <3>9, SameWords DEF AsIf!Accepted
      <4>. QED BY <3>3, <3>4, <4>1 DEF BeingRecorded, Ghost, FulfillmentsOf
    <3>. QED BY <3>7, <3>8, <3>9
  <2>. QED BY <2>2, <2>3, <2>5, <2>6
<1>. QED BY <1>1, SimulationInvariance, PTL
=============================================================================
