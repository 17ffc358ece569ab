-------------------------- MODULE FulfillmentProofs --------------------------
(***************************************************************************)
(* The safety of the path to the supplier, for any number of orders,       *)
(* fulfilments, callers, overlapping batches, crashes and failed writes.   *)
(* What concerns the rows alone needs QueueInv of module JobQueueProofs;   *)
(* that an order gets one fulfilment needs all callers to live in the      *)
(* application's process, where the tool's statements are not split.       *)
(***************************************************************************)
EXTENDS Fulfillment, JobQueueProofs

FulfillmentTypes ==
  /\ ful \in [Jobs -> FulfillmentStatus]
  /\ orderOf \in [Jobs -> Orders \cup {NoOrder}]
  /\ tool \in [Callers -> ToolState]
  /\ call \in [Polls -> {"none", "waiting", "accepted", "throwing"}]
  /\ drafts \in [Orders -> Nat]
  /\ unseen \in [Orders -> Nat]
  /\ lapses \in 0 .. MaxLapses

CallState == {"none", "waiting", "accepted", "throwing"}

\* A job is enqueued for a fulfilment, and a fulfilment is made for an order.
RowsHaveTheirOrder ==
  /\ \A j \in Jobs : status[j] # "ABSENT" => ful[j] # "NONE"
  /\ \A j \in Jobs : ful[j] # "NONE" => orderOf[j] \in Orders
  /\ \A c \in Callers : tool[c].at = "enqueue" => ful[tool[c].id] # "NONE"

\* A batch waits for the supplier only on behalf of a pending fulfilment, which
\* may be recorded by the time it fails over the answer.
CallsArePending ==
  \A p \in Polls : call[p] # "none" =>
    /\ phase[p] = "handling"
    /\ \/ ful[Current(p)] = "PENDING_SUPPLIER"
       \/ call[p] = "throwing" /\ ful[Current(p)] = "SUBMITTED"

RowsInv == QueueInv /\ FulfillmentTypes /\ RowsHaveTheirOrder /\ CallsArePending

\* One caller at a time is inside the tool, and what its check has found still
\* holds when it inserts.
CheckStillHolds ==
  /\ \A c, d \in Callers : tool[c] # Idle /\ tool[d] # Idle => c = d
  /\ \A c \in Callers : tool[c].at = "create" =>
       \A f \in Jobs : ful[f] # "NONE" => orderOf[f] # tool[c].order

LeftRunning(f) == status[f] = "RUNNING" /\ ~InFlight(f)

\* The supplier has accepted the order, and the handler is not done with it.
InHand(p) == call[p] \in {"accepted", "throwing"}

Accepted(f) == \E p \in Polls : InHand(p) /\ Current(p) = f

\* Nothing is going to call the supplier for f any more.
Spent(f) == ful[f] # "PENDING_SUPPLIER" \/ LeftRunning(f) \/ Accepted(f)

\* What the supplier has accepted is recorded, went unseen, or leaves nobody
\* behind who would send the order again.
AcceptancesAreSpent ==
  \A o \in Orders :
    /\ drafts[o] <= 1 + unseen[o]
    /\ (\A f \in Jobs : ful[f] # "NONE" /\ orderOf[f] = o => ~Spent(f)) => drafts[o] <= unseen[o]

FulfillmentInv ==
  RowsInv /\ CheckStillHolds /\ OneFulfillmentPerOrder /\ AcceptancesAreSpent

-----------------------------------------------------------------------------
(* The steps, by who takes them.                                           *)

ToolMoves(c) ==
  \/ \E o \in Orders : FindNoFulfillment(c, o)
  \/ \E f \in Jobs : CreateFulfillment(c, f)
  \/ EnqueueJob(c)
  \/ ToolThrows(c)

HandlerMoves(p) ==
  \/ SkipSettled(p)
  \/ CallSupplier(p)
  \/ SupplierAccepts(p)
  \/ RecordAcceptance(p)
  \/ \E outcome \in {"transient", "permanent"} : SupplierFails(p, outcome) \/ AnswerLost(p, outcome)
  \/ RecordingThrows(p)
  \/ CatchRecording(p)

QueueMoves ==
  \/ \E p \in Polls : WorkerStep(p)
  \/ \E j \in Jobs : BecomeDue(j) \/ RetryJob(j)

\* Every step is the tool's, the handler's, the queue's own, or a crash.
LEMMA WhoMoves ==
  ASSUME FulfillmentNext
  PROVE  \/ \E c \in Callers : ToolMoves(c)
         \/ \E p \in Polls : HandlerMoves(p)
         \/ QueueMoves /\ UNCHANGED <<worker, callerVars, lapses>>
         \/ AppCrash
BY DEF FulfillmentNext, ToolMoves, HandlerMoves, QueueMoves, QueueStep

\* The batch that a supplier call belongs to holds the job it is made for, alone.
LEMMA CallersOfTheSupplier ==
  ASSUME RowsInv, NEW p \in Polls, phase[p] = "handling"
  PROVE  /\ Current(p) \in Jobs
         /\ status[Current(p)] = "RUNNING"
         /\ InFlight(Current(p))
         /\ ful[Current(p)] # "NONE"
         /\ orderOf[Current(p)] \in Orders
         /\ \A q \in Polls : call[q] # "none" /\ Current(q) = Current(p) => q = p
<1>1. QueueInv /\ TypeOK /\ HeldOnce
  BY DEF RowsInv, QueueInv
<1>2. /\ Current(p) \in Jobs /\ status[Current(p)] = "RUNNING"
      /\ Current(p) = batch[p][1] /\ 1 \in 1 .. Len(batch[p])
  BY <1>1, BusyHoldsARunningJob
<1>3. ful[Current(p)] # "NONE" /\ orderOf[Current(p)] \in Orders
  BY <1>2 DEF RowsInv, RowsHaveTheirOrder
<1>4. InFlight(Current(p))
  <2>1. batch[p] \in Seq(Jobs)
    BY <1>1 DEF TypeOK
  <2>2. DOMAIN batch[p] = 1 .. Len(batch[p])
    BY <2>1, LenProperties
  <2>. QED BY <1>2, <2>2 DEF InFlight, ToSet
<1>5. ASSUME NEW q \in Polls, call[q] # "none", Current(q) = Current(p) PROVE q = p
  <2>1. phase[q] # "idle"
    BY <1>5 DEF RowsInv, CallsArePending
  <2>2. Current(q) = batch[q][1] /\ 1 \in 1 .. Len(batch[q])
    BY <1>1, <2>1, BusyHoldsARunningJob
  <2>. QED BY <1>1, <1>2, <1>5, <2>2 DEF HeldOnce
<1>. QED BY <1>2, <1>3, <1>4, <1>5

\* What a step of the handler may touch: its own call and phase, and the
\* fulfilment it works on, which it answers only while it is pending.
LEMMA HandlerStepEffect ==
  ASSUME RowsInv, NEW p \in Polls, HandlerMoves(p)
  PROVE  /\ phase[p] = "handling"
         /\ UNCHANGED <<rows, batch, crashes, faults, orderOf, tool>>
         /\ \E s \in Phase \ {"idle"} : phase' = [phase EXCEPT ![p] = s]
         /\ \E s \in CallState : call' = [call EXCEPT ![p] = s]
         /\ \/ ful' = ful
            \/ /\ call[p] # "none"
               /\ \E s \in FulfillmentStatus \ {"NONE"} : ful' = [ful EXCEPT ![Current(p)] = s]
         /\ call'[p] # "none" =>
              /\ phase' = phase
              /\ \/ ful'[Current(p)] = "PENDING_SUPPLIER"
                 \/ call'[p] = "throwing" /\ ful'[Current(p)] = "SUBMITTED"
         /\ drafts' \in [Orders -> Nat]
         /\ unseen' \in [Orders -> Nat]
         /\ lapses' \in 0 .. MaxLapses
<1>0. /\ phase \in [Polls -> Phase] /\ FulfillmentTypes /\ MaxLapses \in Nat
      /\ call[p] \in {"waiting", "accepted"} => ful[Current(p)] = "PENDING_SUPPLIER"
  BY FulfillmentAssumption
     DEF RowsInv, QueueInv, TypeOK, FulfillmentAssumption, CallsArePending
<1>00. phase[p] = "handling" => orderOf[Current(p)] \in Orders /\ Current(p) \in Jobs
  BY CallersOfTheSupplier
<1>01. Lapse => lapses' \in 0 .. MaxLapses
  BY <1>0 DEF Lapse, FulfillmentTypes
<1>. USE DEF HandlerAt, queueVars, rows, memory, worker, callerVars, CallState
<1>1. CASE SkipSettled(p)
  <2>1. phase[p] = "handling" /\ call[p] = "none" /\ call' = call /\ ful' = ful
    BY <1>1 DEF SkipSettled
  <2>2. call' = [call EXCEPT ![p] = "none"]
    BY <1>0, <2>1 DEF FulfillmentTypes
  <2>. QED BY <1>0, <1>1, <2>1, <2>2 DEF SkipSettled, HandlerEnds, FulfillmentTypes, Phase
<1>2. CASE CallSupplier(p)
  <2>1. phase' = [phase EXCEPT ![p] = "handling"]
    BY <1>0, <1>2 DEF CallSupplier
  <2>. QED BY <1>0, <1>2, <2>1 DEF CallSupplier, FulfillmentTypes, Phase
<1>3. CASE SupplierAccepts(p)
  <2>1. phase' = [phase EXCEPT ![p] = "handling"]
    BY <1>0, <1>3 DEF SupplierAccepts
  <2>2. drafts' \in [Orders -> Nat]
    BY <1>0, <1>00, <1>3 DEF SupplierAccepts, FulfillmentTypes
  <2>. QED BY <1>0, <1>3, <2>1, <2>2 DEF SupplierAccepts, FulfillmentTypes, Phase
<1>4. CASE RecordAcceptance(p)
  BY <1>0, <1>4
     DEF RecordAcceptance, HandlerEnds, HangUp, FulfillmentTypes, FulfillmentStatus, Phase
<1>5. ASSUME NEW outcome \in {"transient", "permanent"}, CatchError(p, outcome), HangUp(p),
             call[p] # "none"
      PROVE  /\ UNCHANGED <<rows, batch, crashes, faults>>
             /\ phase[p] = "handling"
             /\ \E s \in Phase \ {"idle"} : phase' = [phase EXCEPT ![p] = s]
             /\ call' = [call EXCEPT ![p] = "none"] /\ call'[p] = "none"
             /\ \/ ful' = ful
                \/ \E s \in FulfillmentStatus \ {"NONE"} : ful' = [ful EXCEPT ![Current(p)] = s]
             /\ lapses' \in 0 .. MaxLapses
  <2>1. call' = [call EXCEPT ![p] = "none"] /\ call'[p] = "none"
    BY <1>0, <1>5 DEF HangUp, FulfillmentTypes
  <2>2. CASE Catch(p, outcome) /\ UNCHANGED lapses
    <3>1. phase[p] = "handling"
      BY <2>2 DEF Catch, HandlerEnds
    <3>2. ful[Current(p)] \in FulfillmentStatus \ {"NONE"}
      BY <1>0, <1>00, <3>1, CallersOfTheSupplier DEF FulfillmentTypes
    <3>3. \E s \in FulfillmentStatus \ {"NONE"} : ful' = [ful EXCEPT ![Current(p)] = s]
      <4>1. LastAttempt(Current(p)) \/ ~LastAttempt(Current(p))
        OBVIOUS
      <4>. QED BY <2>2, <3>2, <4>1 DEF Catch, FulfillmentStatus
    <3>. QED BY <1>0, <2>1, <2>2, <3>3 DEF Catch, HandlerEnds, FulfillmentTypes, Phase
  <2>3. CASE CatchThrows(p)
    <3>1. lapses' \in 0 .. MaxLapses /\ ful' = ful /\ HandlerEnds(p, "transient")
      BY <1>01, <2>3 DEF CatchThrows
    <3>. QED BY <2>1, <3>1 DEF HandlerEnds, Phase
  <2>. QED BY <1>5, <2>2, <2>3 DEF CatchError
<1>6. ASSUME NEW outcome \in {"transient", "permanent"}, SupplierFails(p, outcome)
      PROVE  call[p] # "none" /\ UNCHANGED <<drafts, unseen, orderOf, tool>>
             /\ CatchError(p, outcome) /\ HangUp(p)
  BY <1>6 DEF SupplierFails
<1>7. ASSUME NEW outcome \in {"transient", "permanent"}, AnswerLost(p, outcome)
      PROVE  call[p] # "none" /\ UNCHANGED <<drafts, orderOf, tool>> /\ GoesUnseen(p)
             /\ CatchError(p, outcome) /\ HangUp(p)
  BY <1>7 DEF AnswerLost
<1>8. phase[p] = "handling" /\ GoesUnseen(p) => unseen' \in [Orders -> Nat]
  BY <1>0, <1>00 DEF GoesUnseen, FulfillmentTypes
<1>9. CASE RecordingThrows(p)
  <2>1. /\ phase[p] = "handling" /\ call[p] = "accepted" /\ Lapse
        /\ UNCHANGED <<rows, batch, phase, crashes, faults, orderOf, tool, drafts, unseen>>
        /\ call' = [call EXCEPT ![p] = "throwing"]
    BY <1>9 DEF RecordingThrows
  <2>2. PICK s \in {"PENDING_SUPPLIER", "SUBMITTED"} : ful' = [ful EXCEPT ![Current(p)] = s]
    BY <1>0, <1>9, <2>1 DEF RecordingThrows
  <2>3. ful'[Current(p)] \in {"PENDING_SUPPLIER", "SUBMITTED"} /\ call'[p] = "throwing"
    BY <1>0, <1>00, <2>1, <2>2 DEF FulfillmentTypes
  <2>4. /\ phase' = [phase EXCEPT ![p] = "handling"]
        /\ drafts' \in [Orders -> Nat] /\ unseen' \in [Orders -> Nat]
        /\ lapses' \in 0 .. MaxLapses
    BY <1>0, <1>01, <2>1 DEF FulfillmentTypes
  <2>5. s \in FulfillmentStatus \ {"NONE"}
    BY DEF FulfillmentStatus
  <2>. QED BY <2>1, <2>2, <2>3, <2>4, <2>5 DEF Phase
<1>11. CASE CatchRecording(p)
  <2>1. /\ phase[p] = "handling" /\ call[p] # "none" /\ UNCHANGED <<drafts, orderOf, tool>>
        /\ CatchError(p, "transient") /\ HangUp(p)
        /\ unseen' = unseen \/ GoesUnseen(p)
    BY <1>11 DEF CatchRecording
  <2>2. unseen' \in [Orders -> Nat] /\ drafts' \in [Orders -> Nat]
    BY <1>0, <1>8, <2>1 DEF FulfillmentTypes
  <2>. QED BY <1>5, <2>1, <2>2
<1>10. CASE \E outcome \in {"transient", "permanent"} :
              SupplierFails(p, outcome) \/ AnswerLost(p, outcome)
  <2>1. PICK outcome \in {"transient", "permanent"} :
               SupplierFails(p, outcome) \/ AnswerLost(p, outcome)
    BY <1>10
  <2>2. /\ CatchError(p, outcome) /\ HangUp(p) /\ call[p] # "none"
        /\ UNCHANGED <<drafts, orderOf, tool>>
    BY <1>6, <1>7, <2>1
  <2>3. phase[p] = "handling" /\ lapses' \in 0 .. MaxLapses
    BY <1>5, <2>2
  <2>4. unseen' \in [Orders -> Nat] /\ drafts' \in [Orders -> Nat]
    BY <1>0, <1>6, <1>7, <1>8, <2>1, <2>3 DEF FulfillmentTypes
  <2>5. /\ call' = [call EXCEPT ![p] = "none"]
        /\ "none" \in CallState
    BY <1>5, <2>2
  <2>. QED BY <1>5, <2>2, <2>3, <2>4, <2>5
<1>. QED BY <1>1, <1>2, <1>3, <1>4, <1>9, <1>10, <1>11 DEF HandlerMoves

\* To the queue, the tool is a caller of enqueueJob and the handler a handler.
LEMMA QueueRefinement ==
  ASSUME RowsInv, [FulfillmentNext]_fulfillmentVars
  PROVE  [QueueNext]_queueVars
<1>0. /\ \A c \in Callers : tool[c].at = "enqueue" => tool[c].id \in Jobs
      /\ {"ok", "transient", "permanent"} = {"ok"} \cup {"transient", "permanent"}
  <2>1. ASSUME NEW c \in Callers, tool[c].at = "enqueue" PROVE tool[c].id \in Jobs
    <3>1. tool[c] \in ToolState
      BY DEF RowsInv, FulfillmentTypes
    <3>. QED BY <2>1, <3>1 DEF ToolState, Idle
  <2>. QED BY <2>1
<1>1. ASSUME NEW c \in Callers, ToolMoves(c) PROVE [QueueNext]_queueVars
  <2>1. CASE UNCHANGED queueVars
    BY <2>1
  <2>2. CASE EnqueueJob(c)
    BY <1>0, <2>2 DEF EnqueueJob, QueueNext
  <2>. QED BY <1>1, <2>1, <2>2 DEF ToolMoves, FindNoFulfillment, CreateFulfillment, ToolThrows
<1>2. ASSUME NEW p \in Polls, HandlerMoves(p) PROVE [QueueNext]_queueVars
  <2>1. CASE UNCHANGED queueVars
    BY <2>1
  <2>2. ASSUME NEW outcome \in {"ok", "transient", "permanent"}, HandlerEnds(p, outcome)
        PROVE  QueueNext
    BY <2>2 DEF QueueNext
  <2>3. CASE SkipSettled(p) \/ RecordAcceptance(p)
    BY <2>2, <2>3 DEF SkipSettled, RecordAcceptance
  <2>4. CASE CallSupplier(p) \/ SupplierAccepts(p)
    BY <2>1, <2>4 DEF CallSupplier, SupplierAccepts
  <2>5. CASE RecordingThrows(p)
    BY <2>1, <2>5 DEF RecordingThrows
  <2>6. ASSUME NEW outcome \in {"transient", "permanent"}, CatchError(p, outcome)
        PROVE  QueueNext
    BY <1>0, <2>2, <2>6 DEF CatchError, Catch, CatchThrows
  <2>7. ASSUME NEW outcome \in {"transient", "permanent"},
               SupplierFails(p, outcome) \/ AnswerLost(p, outcome)
        PROVE  QueueNext
    BY <2>6, <2>7 DEF SupplierFails, AnswerLost
  <2>8. CASE CatchRecording(p)
    BY <2>6, <2>8 DEF CatchRecording
  <2>. QED BY <1>2, <2>3, <2>4, <2>5, <2>7, <2>8 DEF HandlerMoves
<1>3. CASE QueueMoves \/ AppCrash
  BY <1>3 DEF QueueMoves, WorkerStep, AppCrash, QueueNext
<1>4. CASE UNCHANGED fulfillmentVars
  BY <1>4 DEF fulfillmentVars
<1>. QED BY <1>1, <1>2, <1>3, <1>4, WhoMoves

\* The queue's own steps concern no batch that is waiting for the supplier.
LEMMA QueueMovesSpareCalls ==
  ASSUME RowsInv, QueueMoves, NEW q \in Polls, call[q] # "none"
  PROVE  batch'[q] = batch[q] /\ phase'[q] = phase[q]
<1>0. phase[q] = "handling" /\ batch[q] # <<>> /\ batch \in [Polls -> Seq(Jobs)] /\ phase \in [Polls -> Phase]
  BY DEF RowsInv, CallsArePending, QueueInv, TypeOK, IdleHoldsNothing
<1>1. ASSUME NEW p \in Polls, ClaimDue(p) PROVE batch'[q] = batch[q] /\ phase'[q] = phase[q]
  BY <1>0, <1>1 DEF ClaimDue
<1>2. \A p \in Polls : ~Unrunnable(p)
  BY FulfillmentAssumption DEF FulfillmentAssumption, Unrunnable
<1>3. ASSUME NEW p \in Polls, phase[p] # "handling",
             \E s : batch' = [batch EXCEPT ![p] = s], \E s : phase' = [phase EXCEPT ![p] = s]
      PROVE  batch'[q] = batch[q] /\ phase'[q] = phase[q]
  BY <1>0, <1>3
<1>4. ASSUME NEW p \in Polls, Finish(p) \/ FinishFails(p) \/ DeadLetter(p) \/ BackOff(p) \/ BookkeepingFails(p)
      PROVE  /\ phase[p] # "handling"
             /\ (\E s : batch' = [batch EXCEPT ![p] = s]) \/ batch' = batch
             /\ \E s : phase' = [phase EXCEPT ![p] = s]
  <2>1. phase[p] # "handling"
    BY <1>2, <1>4
       DEF Finish, FinishFails, DeadLetter, BackOff, BookkeepingFails, MarkDead, MarkDelayed, GivenUp, ComesBack
  <2>2. CASE Advance(p) \/ Abandon(p)
    BY <2>1, <2>2 DEF Advance, Abandon
  <2>3. CASE FinishFails(p)
    BY <2>1, <2>3 DEF FinishFails
  <2>. QED BY <1>4, <2>2, <2>3 DEF Finish, DeadLetter, BackOff, BookkeepingFails
<1>5. ASSUME NEW j \in Jobs, BecomeDue(j) \/ RetryJob(j)
      PROVE  batch'[q] = batch[q] /\ phase'[q] = phase[q]
  BY <1>5 DEF BecomeDue, RetryJob, memory
<1>. QED BY <1>0, <1>1, <1>3, <1>4, <1>5 DEF QueueMoves, WorkerStep

\* A RUNNING row that no batch holds stays so: claims take READY rows, and every
\* other write goes to the job at the head of a batch.
LEMMA StrandedStays ==
  ASSUME QueueInv, QueueMoves, NEW j \in Jobs, LeftRunning(j)
  PROVE  LeftRunning(j)'
<1>0. TypeOK /\ HeldOnce /\ IdleHoldsNothing /\ status[j] = "RUNNING" /\ \A q \in Polls : j \notin ToSet(batch[q])
  BY DEF QueueInv, LeftRunning, InFlight
<1>1. ASSUME NEW k \in Jobs, BecomeDue(k) \/ RetryJob(k) PROVE LeftRunning(j)'
  <2>1. status'[j] = "RUNNING" /\ batch' = batch
    BY <1>0, <1>1 DEF BecomeDue, RetryJob, memory, TypeOK
  <2>. QED BY <1>0, <2>1 DEF LeftRunning, InFlight
<1>2. ASSUME NEW p \in Polls, ClaimDue(p) PROVE LeftRunning(j)'
  <2>1. /\ Claimed \in Seq(Jobs) /\ Len(Claimed) = ClaimSize /\ ClaimSize \in 0 .. Len(due)
        /\ \A i \in 1 .. ClaimSize : Claimed[i] = due[i]
        /\ Len(due) \in Nat
    BY <1>0, ClaimSplits, LenProperties, QueueAssumption DEF TypeOK
  <2>2. DOMAIN Claimed = 1 .. ClaimSize /\ DOMAIN due = 1 .. Len(due)
    BY <2>1, <1>0, LenProperties DEF TypeOK
  <2>3. \A i \in 1 .. ClaimSize : i \in 1 .. Len(due)
    BY <2>1
  <2>4. ToSet(Claimed) \subseteq ToSet(due)
    BY <2>1, <2>2, <2>3 DEF ToSet
  <2>5. j \notin ToSet(due)
    BY <1>0 DEF QueueInv, WaitingIsReady
  <2>6. status'[j] = "RUNNING"
    BY <1>0, <1>2, <2>4, <2>5 DEF ClaimDue
  <2>7. \A q \in Polls : j \notin ToSet(batch'[q])
    BY <1>0, <1>2, <2>4, <2>5 DEF ClaimDue, TypeOK
  <2>. QED BY <2>6, <2>7 DEF LeftRunning, InFlight
<1>3. ASSUME NEW p \in Polls, phase[p] # "idle"
      PROVE  Current(p) # j /\ batch[p] # <<>> /\ Current(p) \in Jobs
  <2>1. Current(p) = batch[p][1] /\ 1 \in 1 .. Len(batch[p]) /\ batch[p] # <<>> /\ Current(p) \in Jobs
    BY <1>3, BusyHoldsARunningJob
  <2>2. DOMAIN batch[p] = 1 .. Len(batch[p])
    BY <1>0, LenProperties DEF TypeOK
  <2>. QED BY <1>0, <2>1, <2>2 DEF ToSet
<1>4. ASSUME NEW p \in Polls, phase[p] # "idle", Advance(p),
             \E s \in Status : status' = [status EXCEPT ![Current(p)] = s]
      PROVE  LeftRunning(j)'
  <2>1. Current(p) # j /\ batch[p] # <<>>
    BY <1>3, <1>4
  <2>2. status'[j] = "RUNNING"
    BY <1>0, <1>4, <2>1 DEF TypeOK
  <2>3. /\ batch' \in [Polls -> Seq(Jobs)]
        /\ \A q \in Polls : \A i \in 1 .. Len(batch'[q]) :
             \E k \in 1 .. Len(batch[q]) : batch'[q][i] = batch[q][k]
    BY <1>0, <1>4, <2>1, AdvancePassesTheFirst
  <2>4. \A q \in Polls : DOMAIN batch'[q] = 1 .. Len(batch'[q]) /\ DOMAIN batch[q] = 1 .. Len(batch[q])
    BY <1>0, <2>3, LenProperties DEF TypeOK
  <2>5. \A q \in Polls : j \notin ToSet(batch'[q])
    BY <1>0, <2>3, <2>4 DEF ToSet
  <2>. QED BY <2>2, <2>5 DEF LeftRunning, InFlight
<1>5. ASSUME NEW p \in Polls, Finish(p) \/ DeadLetter(p) \/ BackOff(p) PROVE LeftRunning(j)'
  <2>1. phase[p] # "idle" /\ Advance(p)
    BY <1>5 DEF Finish, DeadLetter, BackOff, MarkDead, MarkDelayed, GivenUp, ComesBack, Unrunnable
  <2>2. \E s \in Status : status' = [status EXCEPT ![Current(p)] = s]
    BY <1>5 DEF Finish, DeadLetter, BackOff, MarkDead, MarkDelayed, Status
  <2>. QED BY <1>4, <2>1, <2>2
<1>6. ASSUME NEW p \in Polls, FinishFails(p) PROVE LeftRunning(j)'
  BY <1>0, <1>6 DEF FinishFails, rows, LeftRunning, InFlight
<1>7. ASSUME NEW p \in Polls, BookkeepingFails(p) PROVE LeftRunning(j)'
  <2>1. Current(p) # j /\ Current(p) \in Jobs
    BY <1>3, <1>7 DEF BookkeepingFails, MarkDead, MarkDelayed, GivenUp, ComesBack, Unrunnable
  <2>2. status'[j] = "RUNNING"
    BY <1>0, <1>7, <2>1 DEF BookkeepingFails, MarkDead, MarkDelayed, rows, TypeOK
  <2>3. j \notin ToSet(<<>>)
    BY DEF ToSet
  <2>4. batch' = [batch EXCEPT ![p] = <<>>]
    BY <1>7 DEF BookkeepingFails, Abandon
  <2>5. \A q \in Polls : j \notin ToSet(batch'[q])
    BY <1>0, <2>3, <2>4 DEF TypeOK
  <2>. QED BY <2>2, <2>5 DEF LeftRunning, InFlight
<1>. QED BY <1>1, <1>2, <1>5, <1>6, <1>7 DEF QueueMoves, WorkerStep

\* A claim takes due rows.
LEMMA ClaimsAreDue ==
  ASSUME TypeOK
  PROVE  ToSet(Claimed) \subseteq ToSet(due)
<1>1. /\ Claimed \in Seq(Jobs) /\ Len(Claimed) = ClaimSize /\ ClaimSize \in 0 .. Len(due)
      /\ \A i \in 1 .. ClaimSize : Claimed[i] = due[i]
      /\ Len(due) \in Nat
  BY ClaimSplits, LenProperties, QueueAssumption DEF TypeOK
<1>2. DOMAIN Claimed = 1 .. ClaimSize /\ DOMAIN due = 1 .. Len(due)
  BY <1>1, LenProperties DEF TypeOK
<1>3. \A i \in 1 .. ClaimSize : i \in 1 .. Len(due)
  BY <1>1
<1>. QED BY <1>1, <1>2, <1>3 DEF ToSet

\* The queue's own steps make no row.
LEMMA QueueMovesMakeNoRow ==
  ASSUME QueueInv, QueueMoves, NEW j \in Jobs, status[j] = "ABSENT"
  PROVE  status'[j] = "ABSENT"
<1>0. TypeOK
  BY DEF QueueInv
<1>1. ASSUME NEW k \in Jobs, BecomeDue(k) \/ RetryJob(k) PROVE status'[j] = "ABSENT"
  BY <1>0, <1>1 DEF BecomeDue, RetryJob, TypeOK
<1>2. ASSUME NEW p \in Polls, ClaimDue(p) PROVE status'[j] = "ABSENT"
  BY <1>0, <1>2, ClaimsAreDue DEF ClaimDue, QueueInv, WaitingIsReady
<1>3. ASSUME NEW p \in Polls, phase[p] # "idle" PROVE Current(p) # j
  BY <1>3, BusyHoldsARunningJob
<1>4. ASSUME NEW p \in Polls, Finish(p) \/ DeadLetter(p) \/ BackOff(p) PROVE status'[j] = "ABSENT"
  BY <1>0, <1>3, <1>4
     DEF Finish, DeadLetter, BackOff, MarkDead, MarkDelayed, GivenUp, ComesBack, Unrunnable, TypeOK
<1>5. ASSUME NEW p \in Polls, BookkeepingFails(p) \/ FinishFails(p) PROVE status'[j] = "ABSENT"
  BY <1>0, <1>3, <1>5
     DEF BookkeepingFails, FinishFails, MarkDead, MarkDelayed, GivenUp, ComesBack, Unrunnable, rows, TypeOK
<1>. QED BY <1>1, <1>2, <1>4, <1>5 DEF QueueMoves, WorkerStep

-----------------------------------------------------------------------------
(* The rows, whoever calls.                                                *)

LEMMA RowsInitInv == FulfillmentInit => RowsInv
<1>. SUFFICES ASSUME FulfillmentInit PROVE RowsInv
  OBVIOUS
<1>1. QueueInv
  BY QueueInitInv DEF FulfillmentInit
<1>2. FulfillmentTypes
  BY FulfillmentAssumption
     DEF FulfillmentAssumption, FulfillmentInit, FulfillmentTypes, FulfillmentStatus, ToolState
<1>3. RowsHaveTheirOrder /\ CallsArePending
  BY DEF FulfillmentInit, QueueInit, RowsHaveTheirOrder, CallsArePending, Idle
<1>. QED BY <1>1, <1>2, <1>3 DEF RowsInv

\* The tool's own part: it makes rows for orders, and jobs for rows.
LEMMA ToolStepRows ==
  ASSUME RowsInv, NEW c \in Callers, ToolMoves(c)
  PROVE  FulfillmentTypes' /\ RowsHaveTheirOrder' /\ CallsArePending'
<1>0. FulfillmentTypes /\ RowsHaveTheirOrder /\ CallsArePending /\ TypeOK
  BY DEF RowsInv, QueueInv
<1>. USE DEF queueVars, worker
<1>1. ASSUME NEW o \in Orders, FindNoFulfillment(c, o)
      PROVE  FulfillmentTypes' /\ RowsHaveTheirOrder' /\ CallsArePending'
  <2>1. tool' \in [Callers -> ToolState]
    BY <1>0, <1>1 DEF FindNoFulfillment, FulfillmentTypes, ToolState
  <2>2. \A d \in Callers : tool'[d].at = "enqueue" => tool[d].at = "enqueue" /\ tool'[d] = tool[d]
    BY <1>0, <1>1 DEF FindNoFulfillment, FulfillmentTypes
  <2>3. UNCHANGED <<status, phase, batch, ful, orderOf, call, drafts, unseen, lapses>>
    BY <1>1 DEF FindNoFulfillment
  <2>4. FulfillmentTypes'
    BY <1>0, <2>1, <2>3 DEF FulfillmentTypes
  <2>. QED BY <1>0, <2>2, <2>3, <2>4 DEF RowsHaveTheirOrder, CallsArePending, Current
<1>2. ASSUME NEW f \in Jobs, CreateFulfillment(c, f)
      PROVE  FulfillmentTypes' /\ RowsHaveTheirOrder' /\ CallsArePending'
  <2>1. tool[c] \in ToolState /\ tool[c].at = "create"
    BY <1>0, <1>2 DEF CreateFulfillment, FulfillmentTypes
  <2>2. tool[c].order \in Orders
    BY <2>1 DEF ToolState, Idle
  <2>3. UNCHANGED <<status, phase, batch, call, drafts, unseen, lapses>>
    BY <1>2 DEF CreateFulfillment
  <2>4. /\ ful[f] = "NONE" /\ ful'[f] = "PENDING_SUPPLIER" /\ orderOf'[f] = tool[c].order
        /\ \A g \in Jobs \ {f} : ful'[g] = ful[g] /\ orderOf'[g] = orderOf[g]
        /\ tool'[c] = [at |-> "enqueue", id |-> f]
        /\ \A d \in Callers \ {c} : tool'[d] = tool[d]
    BY <1>0, <1>2 DEF CreateFulfillment, FulfillmentTypes
  <2>5. /\ ful' \in [Jobs -> FulfillmentStatus]
        /\ orderOf' \in [Jobs -> Orders \cup {NoOrder}]
        /\ tool' \in [Callers -> ToolState]
    BY <1>0, <1>2, <2>2 DEF CreateFulfillment, FulfillmentTypes, FulfillmentStatus, ToolState
  <2>6. FulfillmentTypes'
    BY <1>0, <2>3, <2>5 DEF FulfillmentTypes
  <2>7. \A d \in Callers : tool[d].at = "enqueue" => tool[d].id \in Jobs
    <3>1. ASSUME NEW d \in Callers, tool[d].at = "enqueue" PROVE tool[d].id \in Jobs
      <4>1. tool[d] \in ToolState
        BY <1>0 DEF FulfillmentTypes
      <4>. QED BY <3>1, <4>1 DEF ToolState, Idle
    <3>. QED BY <3>1
  <2>8. RowsHaveTheirOrder'
    <3>1. \A j \in Jobs : ful'[j] = "NONE" => j # f /\ ful[j] = "NONE"
      BY <2>4
    <3>2. \A j \in Jobs : status'[j] # "ABSENT" => ful'[j] # "NONE"
      BY <1>0, <2>3, <3>1 DEF RowsHaveTheirOrder
    <3>3. \A j \in Jobs : ful'[j] # "NONE" => orderOf'[j] \in Orders
      BY <1>0, <2>2, <2>4 DEF RowsHaveTheirOrder
    <3>4. ASSUME NEW d \in Callers, tool'[d].at = "enqueue" PROVE ful'[tool'[d].id] # "NONE"
      <4>1. CASE d = c
        BY <2>4, <4>1
      <4>2. CASE d # c
        BY <1>0, <2>4, <2>7, <3>1, <3>4, <4>2 DEF RowsHaveTheirOrder
      <4>. QED BY <4>1, <4>2
    <3>. QED BY <3>2, <3>3, <3>4 DEF RowsHaveTheirOrder
  <2>9. CallsArePending'
    <3>. SUFFICES ASSUME NEW p \in Polls, call'[p] # "none"
                  PROVE  /\ phase'[p] = "handling"
                         /\ \/ ful'[Current(p)'] = "PENDING_SUPPLIER"
                            \/ call'[p] = "throwing" /\ ful'[Current(p)'] = "SUBMITTED"
      BY DEF CallsArePending
    <3>1. /\ phase[p] = "handling"
          /\ \/ ful[Current(p)] = "PENDING_SUPPLIER"
             \/ call[p] = "throwing" /\ ful[Current(p)] = "SUBMITTED"
      BY <1>0, <2>3 DEF CallsArePending
    <3>2. Current(p)' = Current(p) /\ Current(p) \in Jobs
      BY <2>3, <3>1, CallersOfTheSupplier DEF Current
    <3>. QED BY <2>3, <2>4, <3>1, <3>2
  <2>. QED BY <2>6, <2>8, <2>9
<1>3. CASE EnqueueJob(c)
  <2>1. tool[c] \in ToolState /\ tool[c].at = "enqueue"
    BY <1>0, <1>3 DEF EnqueueJob, FulfillmentTypes
  <2>2. ful[tool[c].id] # "NONE" /\ tool[c].id \in Jobs
    BY <1>0, <2>1 DEF RowsHaveTheirOrder, ToolState, Idle
  <2>3. /\ UNCHANGED <<phase, batch, ful, orderOf, call, drafts, unseen, lapses>>
        /\ status' = [status EXCEPT ![tool[c].id] = "READY"]
        /\ tool' = [tool EXCEPT ![c] = Idle]
    BY <1>3 DEF EnqueueJob, Enqueue, memory
  <2>4. FulfillmentTypes'
    BY <1>0, <2>3 DEF FulfillmentTypes, ToolState
  <2>5. RowsHaveTheirOrder'
    BY <1>0, <2>2, <2>3 DEF RowsHaveTheirOrder, TypeOK, FulfillmentTypes, Idle
  <2>. QED BY <1>0, <2>3, <2>4, <2>5 DEF CallsArePending, Current
<1>4. CASE ToolThrows(c)
  <2>1. /\ UNCHANGED <<status, phase, batch, ful, orderOf, call, drafts, unseen>>
        /\ tool' = [tool EXCEPT ![c] = Idle]
        /\ Lapse
    BY <1>4 DEF ToolThrows
  <2>2. lapses' \in 0 .. MaxLapses
    BY <1>0, <2>1, FulfillmentAssumption DEF Lapse, FulfillmentTypes, FulfillmentAssumption
  <2>3. FulfillmentTypes'
    BY <1>0, <2>1, <2>2 DEF FulfillmentTypes, ToolState
  <2>4. RowsHaveTheirOrder'
    BY <1>0, <2>1 DEF RowsHaveTheirOrder, FulfillmentTypes, Idle
  <2>. QED BY <1>0, <2>1, <2>3, <2>4 DEF CallsArePending, Current
<1>. QED BY <1>1, <1>2, <1>3, <1>4 DEF ToolMoves

\* The handler answers the fulfilment of its own job, and hangs up with it.
LEMMA HandlerStepRows ==
  ASSUME RowsInv, NEW p \in Polls, HandlerMoves(p)
  PROVE  FulfillmentTypes' /\ RowsHaveTheirOrder' /\ CallsArePending'
<1>0. FulfillmentTypes /\ RowsHaveTheirOrder /\ CallsArePending /\ TypeOK
  BY DEF RowsInv, QueueInv
<1>1. /\ phase[p] = "handling"
      /\ UNCHANGED <<status, batch, orderOf, tool>>
      /\ \E s \in Phase \ {"idle"} : phase' = [phase EXCEPT ![p] = s]
      /\ \E s \in CallState : call' = [call EXCEPT ![p] = s]
      /\ \/ ful' = ful
         \/ /\ call[p] # "none"
            /\ \E s \in FulfillmentStatus \ {"NONE"} : ful' = [ful EXCEPT ![Current(p)] = s]
      /\ call'[p] # "none" =>
           /\ phase' = phase
           /\ \/ ful'[Current(p)] = "PENDING_SUPPLIER"
              \/ call'[p] = "throwing" /\ ful'[Current(p)] = "SUBMITTED"
      /\ drafts' \in [Orders -> Nat]
      /\ unseen' \in [Orders -> Nat]
      /\ lapses' \in 0 .. MaxLapses
  BY HandlerStepEffect DEF rows
<1>2. /\ Current(p) \in Jobs /\ ful[Current(p)] # "NONE"
      /\ \A q \in Polls : call[q] # "none" /\ Current(q) = Current(p) => q = p
  BY <1>1, CallersOfTheSupplier
<1>3. FulfillmentTypes'
  BY <1>0, <1>1 DEF FulfillmentTypes, CallState
<1>4. \A j \in Jobs : ful'[j] = "NONE" <=> ful[j] = "NONE"
  BY <1>0, <1>1, <1>2 DEF FulfillmentTypes
<1>5. RowsHaveTheirOrder'
  <2>1. \A c \in Callers : tool[c].at = "enqueue" => tool[c].id \in Jobs
    <3>1. ASSUME NEW c \in Callers, tool[c].at = "enqueue" PROVE tool[c].id \in Jobs
      <4>1. tool[c] \in ToolState
        BY <1>0 DEF FulfillmentTypes
      <4>. QED BY <3>1, <4>1 DEF ToolState, Idle
    <3>. QED BY <3>1
  <2>. QED BY <1>0, <1>1, <1>4, <2>1 DEF RowsHaveTheirOrder
<1>6. CallsArePending'
  <2>. SUFFICES ASSUME NEW q \in Polls, call'[q] # "none"
                PROVE  /\ phase'[q] = "handling"
                       /\ \/ ful'[Current(q)'] = "PENDING_SUPPLIER"
                          \/ call'[q] = "throwing" /\ ful'[Current(q)'] = "SUBMITTED"
    BY DEF CallsArePending
  <2>1. Current(q)' = Current(q)
    BY <1>1 DEF Current
  <2>2. CASE q = p
    BY <1>1, <2>1, <2>2
  <2>3. CASE q # p
    <3>1. call[q] # "none" /\ call'[q] = call[q] /\ phase'[q] = phase[q]
      BY <1>0, <1>1, <2>3 DEF FulfillmentTypes, TypeOK
    <3>2. /\ phase[q] = "handling"
          /\ \/ ful[Current(q)] = "PENDING_SUPPLIER"
             \/ call[q] = "throwing" /\ ful[Current(q)] = "SUBMITTED"
      BY <1>0, <3>1 DEF CallsArePending
    <3>3. Current(q) # Current(p) /\ Current(q) \in Jobs
      BY <1>2, <2>3, <3>1, <3>2, CallersOfTheSupplier
    <3>4. ful'[Current(q)] = ful[Current(q)]
      BY <1>0, <1>1, <3>3 DEF FulfillmentTypes
    <3>. QED BY <2>1, <3>1, <3>2, <3>4
  <2>. QED BY <2>2, <2>3
<1>. QED BY <1>3, <1>5, <1>6

LEMMA RowsNextInv == RowsInv /\ [FulfillmentNext]_fulfillmentVars => RowsInv'
<1>. SUFFICES ASSUME RowsInv, [FulfillmentNext]_fulfillmentVars
              PROVE  FulfillmentTypes' /\ RowsHaveTheirOrder' /\ CallsArePending'
  BY QueueRefinement, QueueNextInv DEF RowsInv
<1>0. FulfillmentTypes /\ RowsHaveTheirOrder /\ CallsArePending /\ QueueInv
  BY DEF RowsInv
<1>1. CASE QueueMoves /\ UNCHANGED <<worker, callerVars, lapses>>
  <2>1. UNCHANGED <<ful, orderOf, tool, call, drafts, unseen, lapses>>
    BY <1>1 DEF worker, callerVars
  <2>2. FulfillmentTypes'
    BY <1>0, <2>1 DEF FulfillmentTypes
  <2>3. \A j \in Jobs : status'[j] # "ABSENT" => status[j] # "ABSENT"
    BY <1>0, <1>1, QueueMovesMakeNoRow
  <2>4. RowsHaveTheirOrder'
    BY <1>0, <2>1, <2>3 DEF RowsHaveTheirOrder
  <2>5. \A q \in Polls : call[q] # "none" => batch'[q] = batch[q] /\ phase'[q] = phase[q]
    BY <1>1, QueueMovesSpareCalls
  <2>6. \A q \in Polls : call[q] # "none" => Current(q)' = Current(q)
    BY <2>5 DEF Current
  <2>. QED BY <1>0, <2>1, <2>2, <2>4, <2>5, <2>6 DEF CallsArePending
<1>2. CASE AppCrash
  <2>1. /\ UNCHANGED <<status, ful, orderOf, drafts, unseen, lapses>>
        /\ call' = [p \in Polls |-> "none"]
        /\ tool' = [c \in Callers |-> IF c \in InProcess THEN Idle ELSE tool[c]]
    BY <1>2 DEF AppCrash, Crash, rows
  <2>2. FulfillmentTypes'
    BY <1>0, <2>1 DEF FulfillmentTypes, ToolState
  <2>3. RowsHaveTheirOrder'
    BY <1>0, <2>1 DEF RowsHaveTheirOrder, Idle
  <2>. QED BY <2>1, <2>2, <2>3 DEF CallsArePending
<1>3. CASE UNCHANGED fulfillmentVars
  BY <1>0, <1>3
     DEF fulfillmentVars, queueVars, FulfillmentTypes, RowsHaveTheirOrder, CallsArePending, Current
<1>. QED BY <1>1, <1>2, <1>3, WhoMoves, ToolStepRows, HandlerStepRows

\* However many processes, overlapping batches, crashes and failed writes, the
\* rows and the calls keep their types.
THEOREM FulfillmentTypesHold == FulfillmentSafeSpec => []FulfillmentTypeOK
<1>1. FulfillmentInit => RowsInv
  BY RowsInitInv
<1>2. RowsInv /\ [FulfillmentNext]_fulfillmentVars => RowsInv'
  BY RowsNextInv
<1>3. RowsInv => FulfillmentTypeOK
  BY DEF RowsInv, QueueInv, FulfillmentTypes, FulfillmentTypeOK
<1>. QED BY <1>1, <1>2, <1>3, PTL DEF FulfillmentSafeSpec

\* What a handler answers is pending, or what it has just recorded itself.
LEMMA HandlerAnswers ==
  ASSUME RowsInv, NEW p \in Polls, HandlerMoves(p), NEW f \in Jobs,
         ful[f] \in {"SUBMITTED", "EXCEPTION"}, ful'[f] # ful[f]
  PROVE  ful[f] = "SUBMITTED" /\ ful'[f] = "EXCEPTION" /\ Overwrites(p, f)
<1>0. FulfillmentTypes /\ CallsArePending
  BY DEF RowsInv
<1>1. \/ ful' = ful
      \/ call[p] # "none" /\ \E s \in FulfillmentStatus : ful' = [ful EXCEPT ![Current(p)] = s]
  BY HandlerStepEffect
<1>2. f = Current(p) /\ call[p] = "throwing" /\ ful[f] = "SUBMITTED" /\ phase[p] = "handling"
  BY <1>0, <1>1 DEF FulfillmentTypes, CallsArePending
<1>3. CatchRecording(p)
  BY <1>2
     DEF HandlerMoves, SkipSettled, CallSupplier, SupplierAccepts, RecordAcceptance,
         SupplierFails, AnswerLost, RecordingThrows, HandlerAt
<1>4. Catch(p, "transient")
  BY <1>3 DEF CatchRecording, CatchError, CatchThrows
<1>. QED BY <1>0, <1>2, <1>4 DEF Catch, Overwrites, FulfillmentTypes

\* A row that was answered stays, or is overwritten by whoever recorded it.
LEMMA AnsweredStays ==
  ASSUME RowsInv, [FulfillmentNext]_fulfillmentVars, NEW f \in Jobs
  PROVE  /\ ful[f] = "EXCEPTION" => ful'[f] = "EXCEPTION"
         /\ ful[f] = "SUBMITTED" =>
              \/ ful'[f] = "SUBMITTED"
              \/ ful'[f] = "EXCEPTION" /\ \E p \in Polls : Overwrites(p, f)
<1>0. FulfillmentTypes /\ CallsArePending
  BY DEF RowsInv
<1>1. ASSUME NEW c \in Callers, ToolMoves(c), ful[f] \in {"SUBMITTED", "EXCEPTION"}
      PROVE  ful'[f] = ful[f]
  BY <1>0, <1>1
     DEF ToolMoves, FindNoFulfillment, CreateFulfillment, EnqueueJob, ToolThrows, worker, FulfillmentTypes
<1>2. ASSUME NEW p \in Polls, HandlerMoves(p), ful[f] \in {"SUBMITTED", "EXCEPTION"}
      PROVE  \/ ful'[f] = ful[f]
             \/ ful[f] = "SUBMITTED" /\ ful'[f] = "EXCEPTION" /\ Overwrites(p, f)
  BY <1>2, HandlerAnswers
<1>3. CASE UNCHANGED worker \/ AppCrash \/ UNCHANGED fulfillmentVars
  BY <1>3 DEF worker, AppCrash, fulfillmentVars
<1>. QED BY <1>1, <1>2, <1>3, WhoMoves

\* Whoever calls the tool and however its job is retried or revived, a
\* fulfilment that was answered stays as it was answered, but for the one that
\* the handler call that recorded it parks in its catch block.
THEOREM AnswersStand == FulfillmentSafeSpec => AnswerIsFinal
<1>1. FulfillmentInit => RowsInv
  BY RowsInitInv
<1>2. RowsInv /\ [FulfillmentNext]_fulfillmentVars => RowsInv'
  BY RowsNextInv
<1>3. RowsInv /\ [FulfillmentNext]_fulfillmentVars =>
        [\A f \in Jobs :
           /\ ful[f] = "EXCEPTION" => ful'[f] = "EXCEPTION"
           /\ ful[f] = "SUBMITTED" =>
                \/ ful'[f] = "SUBMITTED"
                \/ ful'[f] = "EXCEPTION" /\ \E p \in Polls : Overwrites(p, f)]_fulfillmentVars
  BY AnsweredStays
<1>. QED BY <1>1, <1>2, <1>3, PTL DEF FulfillmentSafeSpec, AnswerIsFinal

-----------------------------------------------------------------------------
(* One process.                                                            *)

\* The tool is not split, so what its check has found holds when it inserts.
LEMMA OneFulfillmentStep ==
  ASSUME InProcess = Callers, RowsInv, CheckStillHolds, OneFulfillmentPerOrder,
         [FulfillmentNext]_fulfillmentVars
  PROVE  CheckStillHolds' /\ OneFulfillmentPerOrder'
<1>0. FulfillmentTypes
  BY DEF RowsInv
<1>1. ASSUME UNCHANGED orderOf, \A f \in Jobs : ful'[f] # "NONE" => ful[f] # "NONE",
             \A c \in Callers : tool'[c] = tool[c] \/ tool'[c] = Idle
      PROVE  CheckStillHolds' /\ OneFulfillmentPerOrder'
  <2>1. OneFulfillmentPerOrder'
    BY <1>1 DEF OneFulfillmentPerOrder
  <2>2. Idle.at # "create"
    BY DEF Idle
  <2>3. \A c \in Callers : tool'[c] # Idle => tool'[c] = tool[c] /\ tool[c] # Idle
    BY <1>1
  <2>4. \A c \in Callers : tool'[c].at = "create" => tool'[c] = tool[c]
    BY <1>1, <2>2
  <2>. QED BY <1>1, <2>1, <2>3, <2>4 DEF CheckStillHolds
<1>2. ASSUME NEW c \in Callers, NEW o \in Orders, FindNoFulfillment(c, o)
      PROVE  CheckStillHolds' /\ OneFulfillmentPerOrder'
  <2>1. /\ \A d \in Callers : tool[d] = Idle
        /\ \A f \in Jobs : ful[f] # "NONE" => orderOf[f] # o
        /\ UNCHANGED <<ful, orderOf>>
    BY <1>2 DEF FindNoFulfillment, EventLoopFree, FulfillmentsOf, worker
  <2>2. /\ tool'[c] = [at |-> "create", order |-> o]
        /\ \A d \in Callers \ {c} : tool'[d] = Idle
    BY <1>0, <1>2, <2>1 DEF FindNoFulfillment, FulfillmentTypes
  <2>3. Idle.at # "create"
    BY DEF Idle
  <2>4. CheckStillHolds'
    BY <2>1, <2>2, <2>3 DEF CheckStillHolds
  <2>. QED BY <2>1, <2>4 DEF OneFulfillmentPerOrder
<1>3. ASSUME NEW c \in Callers, NEW f \in Jobs, CreateFulfillment(c, f)
      PROVE  CheckStillHolds' /\ OneFulfillmentPerOrder'
  <2>1. tool[c].at = "create" /\ tool[c] # Idle
    BY <1>3 DEF CreateFulfillment, Idle
  <2>2. /\ \A g \in Jobs : ful[g] # "NONE" => orderOf[g] # tool[c].order
        /\ \A d \in Callers \ {c} : tool[d] = Idle
    BY <2>1 DEF CheckStillHolds
  <2>3. /\ orderOf'[f] = tool[c].order
        /\ \A g \in Jobs \ {f} : ful'[g] = ful[g] /\ orderOf'[g] = orderOf[g]
        /\ tool'[c] = [at |-> "enqueue", id |-> f]
        /\ \A d \in Callers \ {c} : tool'[d] = Idle
    BY <1>0, <1>3, <2>2 DEF CreateFulfillment, FulfillmentTypes
  <2>4. OneFulfillmentPerOrder'
    BY <2>2, <2>3 DEF OneFulfillmentPerOrder
  <2>5. \A d \in Callers : tool'[d].at # "create"
    BY <2>3 DEF Idle
  <2>6. \A d \in Callers : tool'[d] # Idle => d = c
    BY <2>3
  <2>. QED BY <2>4, <2>5, <2>6 DEF CheckStillHolds
<1>4. ASSUME NEW c \in Callers, EnqueueJob(c) \/ ToolThrows(c)
      PROVE  CheckStillHolds' /\ OneFulfillmentPerOrder'
  <2>1. UNCHANGED <<ful, orderOf>> /\ tool' = [tool EXCEPT ![c] = Idle]
    BY <1>4 DEF EnqueueJob, ToolThrows, worker
  <2>2. \A d \in Callers : tool'[d] = tool[d] \/ tool'[d] = Idle
    BY <1>0, <2>1 DEF FulfillmentTypes
  <2>. QED BY <1>1, <2>1, <2>2
<1>5. ASSUME NEW p \in Polls, HandlerMoves(p)
      PROVE  CheckStillHolds' /\ OneFulfillmentPerOrder'
  <2>1. /\ UNCHANGED <<orderOf, tool>> /\ phase[p] = "handling"
        /\ ful' = ful \/ \E s \in FulfillmentStatus : ful' = [ful EXCEPT ![Current(p)] = s]
    BY <1>5, HandlerStepEffect
  <2>2. ful[Current(p)] # "NONE" /\ Current(p) \in Jobs
    BY <2>1, CallersOfTheSupplier
  <2>3. \A f \in Jobs : ful'[f] # "NONE" => ful[f] # "NONE"
    BY <1>0, <2>1, <2>2 DEF FulfillmentTypes
  <2>. QED BY <1>1, <2>1, <2>3
<1>6. CASE UNCHANGED <<worker, callerVars>>
  BY <1>1, <1>6 DEF worker, callerVars
<1>7. CASE AppCrash
  <2>1. UNCHANGED <<ful, orderOf>> /\ \A c \in Callers : tool'[c] = Idle
    BY <1>7 DEF AppCrash
  <2>. QED BY <1>1, <2>1
<1>8. CASE UNCHANGED fulfillmentVars
  BY <1>1, <1>8 DEF fulfillmentVars
<1>. QED BY <1>2, <1>3, <1>4, <1>5, <1>6, <1>7, <1>8, WhoMoves DEF ToolMoves

\* As long as the supplier accepts nothing, fulfilments that were spent stay
\* so, whatever rows are added.
LEMMA SpentFrame ==
  ASSUME AcceptancesAreSpent, NEW o \in Orders,
         drafts'[o] = drafts[o], unseen'[o] = unseen[o],
         \A f \in Jobs : ful[f] # "NONE" /\ orderOf[f] = o =>
           ful'[f] # "NONE" /\ orderOf'[f] = o /\ (Spent(f) => Spent(f)')
  PROVE  /\ drafts'[o] <= 1 + unseen'[o]
         /\ (\A f \in Jobs : ful'[f] # "NONE" /\ orderOf'[f] = o => ~Spent(f)')
              => drafts'[o] <= unseen'[o]
BY DEF AcceptancesAreSpent

\* A step of the handler leaves a spent fulfilment spent, unless it ends the
\* call that was accepted without recording it.
LEMMA HandlerKeepsSpent ==
  ASSUME RowsInv, NEW p \in Polls, HandlerMoves(p), NEW f \in Jobs, Spent(f),
         f = Current(p) /\ InHand(p) => ful'[f] # "PENDING_SUPPLIER" \/ call'[p] = "throwing"
  PROVE  Spent(f)'
<1>0. FulfillmentTypes /\ CallsArePending
  BY DEF RowsInv
<1>1. /\ UNCHANGED <<status, batch>>
      /\ \E s \in CallState : call' = [call EXCEPT ![p] = s]
      /\ \/ ful' = ful
         \/ call[p] # "none" /\ \E s \in FulfillmentStatus : ful' = [ful EXCEPT ![Current(p)] = s]
  BY HandlerStepEffect DEF rows
<1>2. CASE f = Current(p) /\ InHand(p)
  <2>1. CASE call'[p] = "throwing"
    <3>1. Current(p)' = f
      BY <1>1, <1>2 DEF Current
    <3>2. Accepted(f)'
      BY <2>1, <3>1 DEF Accepted, InHand
    <3>. QED BY <3>2 DEF Spent
  <2>. QED BY <1>2, <2>1 DEF Spent
<1>3. CASE ful[f] # "PENDING_SUPPLIER" /\ ~(f = Current(p) /\ InHand(p))
  <2>1. call[p] # "none" => f # Current(p)
    BY <1>0, <1>3 DEF CallsArePending, InHand
  <2>2. ful'[f] = ful[f]
    BY <1>0, <1>1, <2>1 DEF FulfillmentTypes
  <2>. QED BY <1>3, <2>2 DEF Spent
<1>4. CASE LeftRunning(f)
  BY <1>1, <1>4 DEF Spent, LeftRunning, InFlight
<1>5. CASE Accepted(f) /\ ~(f = Current(p) /\ InHand(p))
  <2>1. PICK q \in Polls : InHand(q) /\ Current(q) = f
    BY <1>5 DEF Accepted
  <2>2. q # p
    BY <1>5, <2>1
  <2>3. InHand(q)'
    BY <1>0, <1>1, <2>1, <2>2 DEF FulfillmentTypes, InHand
  <2>4. Current(q)' = f
    BY <1>1, <2>1 DEF Current
  <2>. QED BY <2>3, <2>4 DEF Spent, Accepted
<1>. QED BY <1>2, <1>3, <1>4, <1>5 DEF Spent

\* What a step of the handler does to the counters, by what becomes of the call.
LEMMA HandlerStepCounts ==
  ASSUME RowsInv, NEW p \in Polls, HandlerMoves(p)
  PROVE  \/ SupplierAccepts(p)
         \/ GoesUnseen(p) /\ UNCHANGED drafts
         \/ /\ UNCHANGED <<drafts, unseen>>
            /\ InHand(p) => ful'[Current(p)] # "PENDING_SUPPLIER" \/ call'[p] = "throwing"
<1>0. FulfillmentTypes
  BY DEF RowsInv
<1>1. phase[p] = "handling" => Current(p) \in Jobs
  BY CallersOfTheSupplier
<1>. USE DEF HandlerAt, worker, InHand
<1>2. CASE SkipSettled(p) \/ CallSupplier(p)
  BY <1>2 DEF SkipSettled, CallSupplier
<1>3. CASE RecordAcceptance(p)
  BY <1>0, <1>1, <1>3 DEF RecordAcceptance, FulfillmentTypes
<1>4. ASSUME NEW outcome \in {"transient", "permanent"},
             SupplierFails(p, outcome) \/ AnswerLost(p, outcome)
      PROVE  \/ GoesUnseen(p) /\ UNCHANGED drafts
             \/ UNCHANGED <<drafts, unseen>> /\ ~InHand(p)
  BY <1>4 DEF SupplierFails, AnswerLost
<1>5. CASE RecordingThrows(p)
  BY <1>0, <1>5 DEF RecordingThrows, FulfillmentTypes
<1>6. CASE CatchRecording(p)
  BY <1>6 DEF CatchRecording
<1>. QED BY <1>2, <1>3, <1>4, <1>5, <1>6 DEF HandlerMoves

\* Nobody sends an order again whose acceptance was recorded, or is still on
\* its way: the call that the supplier accepts is made for the only fulfilment
\* of its order, by the only batch that holds its job.
LEMMA AcceptancesStep ==
  ASSUME RowsInv, OneFulfillmentPerOrder, AcceptancesAreSpent,
         [FulfillmentNext]_fulfillmentVars
  PROVE  AcceptancesAreSpent'
<1>0. FulfillmentTypes /\ CallsArePending /\ QueueInv /\ HeldOnce
  BY DEF RowsInv, QueueInv
<1>. SUFFICES ASSUME NEW o \in Orders
              PROVE  /\ drafts'[o] <= 1 + unseen'[o]
                     /\ (\A f \in Jobs : ful'[f] # "NONE" /\ orderOf'[f] = o => ~Spent(f)')
                          => drafts'[o] <= unseen'[o]
  BY DEF AcceptancesAreSpent
<1>. DEFINE Counted == /\ drafts'[o] <= 1 + unseen'[o]
                       /\ (\A f \in Jobs : ful'[f] # "NONE" /\ orderOf'[f] = o => ~Spent(f)')
                            => drafts'[o] <= unseen'[o]
<1>1. ASSUME NEW c \in Callers, ToolMoves(c) PROVE Counted
  <2>1. /\ UNCHANGED <<drafts, unseen, call, batch>>
        /\ \A f \in Jobs : ful[f] # "NONE" =>
             ful'[f] = ful[f] /\ orderOf'[f] = orderOf[f]
        /\ \A f \in Jobs : status[f] = "RUNNING" => status'[f] = "RUNNING"
    <3>1. CASE EnqueueJob(c)
      BY <1>0, <3>1
         DEF EnqueueJob, Enqueue, worker, memory, QueueInv, TypeOK
    <3>2. ASSUME NEW f \in Jobs, CreateFulfillment(c, f)
          PROVE  /\ UNCHANGED <<drafts, unseen, call, batch, status>>
                 /\ \A g \in Jobs : ful[g] # "NONE" =>
                      ful'[g] = ful[g] /\ orderOf'[g] = orderOf[g]
      BY <1>0, <3>2 DEF CreateFulfillment, queueVars, FulfillmentTypes
    <3>3. CASE ToolThrows(c) \/ \E x \in Orders : FindNoFulfillment(c, x)
      BY <3>3 DEF ToolThrows, FindNoFulfillment, worker, queueVars
    <3>. QED BY <1>1, <3>1, <3>2, <3>3 DEF ToolMoves
  <2>2. \A f \in Jobs : ful[f] # "NONE" /\ Spent(f) => Spent(f)'
    BY <2>1 DEF Spent, LeftRunning, InFlight, Accepted, InHand, Current
  <2>. QED BY <2>1, <2>2, SpentFrame
<1>2. ASSUME NEW p \in Polls, HandlerMoves(p) PROVE Counted
  <2>0. /\ phase[p] = "handling" /\ Current(p) \in Jobs
        /\ ful[Current(p)] # "NONE" /\ orderOf[Current(p)] \in Orders
        /\ status[Current(p)] = "RUNNING" /\ InFlight(Current(p))
        /\ \A q \in Polls : call[q] # "none" /\ Current(q) = Current(p) => q = p
    BY <1>2, HandlerStepEffect, CallersOfTheSupplier
  <2>1. /\ UNCHANGED <<orderOf, batch>>
        /\ \A f \in Jobs : ful[f] # "NONE" => ful'[f] # "NONE"
    BY <1>0, <1>2, <2>0, HandlerStepEffect DEF FulfillmentTypes, rows
  <2>2. \A f \in Jobs :
          (f = Current(p) /\ InHand(p) => ful'[f] # "PENDING_SUPPLIER" \/ call'[p] = "throwing")
            => (Spent(f) => Spent(f)')
    BY <1>2, HandlerKeepsSpent
  <2>3. ASSUME drafts'[o] = drafts[o], unseen'[o] = unseen[o],
               InHand(p) =>
                 \/ orderOf[Current(p)] # o
                 \/ ful'[Current(p)] # "PENDING_SUPPLIER" \/ call'[p] = "throwing"
        PROVE  Counted
    <3>1. \A f \in Jobs : ful[f] # "NONE" /\ orderOf[f] = o =>
            ful'[f] # "NONE" /\ orderOf'[f] = o /\ (Spent(f) => Spent(f)')
      BY <2>1, <2>2, <2>3
    <3>. QED BY <2>3, <3>1, SpentFrame
  <2>4. CASE SupplierAccepts(p)
    <3>1. /\ call[p] = "waiting" /\ unseen' = unseen /\ ful' = ful
          /\ drafts' = [drafts EXCEPT ![orderOf[Current(p)]] = @ + 1]
          /\ call' = [call EXCEPT ![p] = "accepted"]
      BY <2>4 DEF SupplierAccepts
    <3>2. CASE orderOf[Current(p)] # o
      BY <1>0, <2>3, <3>1, <3>2 DEF FulfillmentTypes
    <3>3. CASE orderOf[Current(p)] = o
      <4>1. ful[Current(p)] = "PENDING_SUPPLIER"
        BY <1>0, <3>1 DEF CallsArePending
      <4>2. ~Spent(Current(p))
        BY <2>0, <3>1, <4>1 DEF Spent, LeftRunning, Accepted, InHand
      <4>3. \A f \in Jobs : ful[f] # "NONE" /\ orderOf[f] = o => f = Current(p)
        BY <2>0, <3>3 DEF OneFulfillmentPerOrder
      <4>4. drafts[o] <= unseen[o]
        BY <4>2, <4>3 DEF AcceptancesAreSpent
      <4>5. drafts'[o] <= 1 + unseen'[o]
        BY <1>0, <3>1, <3>3, <4>4 DEF FulfillmentTypes
      <4>6. Spent(Current(p))'
        <5>1. call'[p] = "accepted" /\ Current(p)' = Current(p)
          BY <1>0, <2>1, <3>1 DEF FulfillmentTypes, Current
        <5>2. Accepted(Current(p))'
          BY <5>1 DEF Accepted, InHand
        <5>. QED BY <5>2 DEF Spent
      <4>7. Current(p)' = Current(p)
        BY <2>1 DEF Current
      <4>8. /\ Current(p) \in Jobs /\ ful'[Current(p)] # "NONE"
            /\ orderOf'[Current(p)] = o
        BY <2>0, <2>1, <3>3
      <4>. QED BY <4>5, <4>6, <4>7, <4>8
    <3>. QED BY <3>2, <3>3
  <2>5. CASE GoesUnseen(p) /\ UNCHANGED drafts
    <3>1. CASE orderOf[Current(p)] # o
      BY <1>0, <2>3, <2>5, <3>1 DEF GoesUnseen, FulfillmentTypes
    <3>2. CASE orderOf[Current(p)] = o
      <4>1. drafts[o] <= 1 + unseen[o] /\ drafts[o] \in Nat /\ unseen[o] \in Nat
        BY <1>0 DEF AcceptancesAreSpent, FulfillmentTypes
      <4>2. unseen'[o] = unseen[o] + 1 /\ drafts'[o] = drafts[o]
        BY <1>0, <2>5, <3>2 DEF GoesUnseen, FulfillmentTypes
      <4>. QED BY <4>1, <4>2
    <3>. QED BY <3>1, <3>2
  <2>6. CASE /\ UNCHANGED <<drafts, unseen>>
             /\ InHand(p) => ful'[Current(p)] # "PENDING_SUPPLIER" \/ call'[p] = "throwing"
    BY <2>3, <2>6
  <2>. QED BY <1>2, <2>4, <2>5, <2>6, HandlerStepCounts
<1>3. CASE QueueMoves /\ UNCHANGED <<worker, callerVars, lapses>>
  <2>1. UNCHANGED <<ful, orderOf, call, drafts, unseen>>
    BY <1>3 DEF worker, callerVars
  <2>2. \A f \in Jobs : LeftRunning(f) => LeftRunning(f)'
    BY <1>0, <1>3, StrandedStays
  <2>3. \A q \in Polls : call[q] # "none" => batch'[q] = batch[q]
    BY <1>3, QueueMovesSpareCalls
  <2>4. \A f \in Jobs : Accepted(f) => Accepted(f)'
    BY <2>1, <2>3 DEF Accepted, InHand, Current
  <2>5. \A f \in Jobs : Spent(f) => Spent(f)'
    BY <2>1, <2>2, <2>4 DEF Spent
  <2>. QED BY <2>1, <2>5, SpentFrame
<1>4. CASE AppCrash
  <2>1. /\ UNCHANGED <<status, ful, orderOf, drafts, unseen>>
        /\ batch' = [p \in Polls |-> <<>>]
    BY <1>4 DEF AppCrash, Crash, rows
  <2>2. \A f \in Jobs : ~InFlight(f)'
    BY <2>1 DEF InFlight, ToSet
  <2>3. ASSUME NEW f \in Jobs, Accepted(f) PROVE LeftRunning(f)'
    <3>1. PICK q \in Polls : InHand(q) /\ Current(q) = f
      BY <2>3 DEF Accepted
    <3>2. phase[q] = "handling"
      BY <1>0, <3>1 DEF CallsArePending, InHand
    <3>3. status[f] = "RUNNING"
      BY <3>1, <3>2, CallersOfTheSupplier
    <3>. QED BY <2>1, <2>2, <3>3 DEF LeftRunning
  <2>4. \A f \in Jobs : LeftRunning(f) => LeftRunning(f)'
    BY <2>1, <2>2 DEF LeftRunning
  <2>5. \A f \in Jobs : Spent(f) => Spent(f)'
    BY <2>1, <2>3, <2>4 DEF Spent
  <2>. QED BY <2>1, <2>5, SpentFrame
<1>5. CASE UNCHANGED fulfillmentVars
  <2>1. UNCHANGED <<status, batch, ful, orderOf, call, drafts, unseen>>
    BY <1>5 DEF fulfillmentVars, queueVars
  <2>2. \A f \in Jobs : Spent(f) => Spent(f)'
    BY <2>1 DEF Spent, LeftRunning, InFlight, Accepted, InHand, Current
  <2>. QED BY <2>1, <2>2, SpentFrame
<1>. QED BY <1>1, <1>2, <1>3, <1>4, <1>5, WhoMoves

\* The invariant behind the theorems: rows, calls and acceptances stay in step
\* when nobody outside the application's process calls the tool.
THEOREM FulfillmentInvariance ==
  ASSUME InProcess = Callers PROVE FulfillmentSafeSpec => []FulfillmentInv
<1>1. FulfillmentInit => FulfillmentInv
  <2>. SUFFICES ASSUME FulfillmentInit PROVE FulfillmentInv
    OBVIOUS
  <2>1. RowsInv
    BY RowsInitInv
  <2>2. CheckStillHolds /\ OneFulfillmentPerOrder
    BY DEF FulfillmentInit, CheckStillHolds, OneFulfillmentPerOrder, Idle
  <2>3. AcceptancesAreSpent
    BY DEF FulfillmentInit, AcceptancesAreSpent
  <2>. QED BY <2>1, <2>2, <2>3 DEF FulfillmentInv
<1>2. FulfillmentInv /\ [FulfillmentNext]_fulfillmentVars => FulfillmentInv'
  <2>. SUFFICES ASSUME FulfillmentInv, [FulfillmentNext]_fulfillmentVars PROVE FulfillmentInv'
    OBVIOUS
  <2>. QED
    BY RowsNextInv, OneFulfillmentStep, AcceptancesStep DEF FulfillmentInv
<1>. QED BY <1>1, <1>2, PTL DEF FulfillmentSafeSpec

\* With every caller in the application's process, no order gets a second
\* fulfilment, whatever crashes or fails between the tool's two INSERTs.
THEOREM OrdersAreFulfilledOnce ==
  ASSUME InProcess = Callers PROVE FulfillmentSafeSpec => []OneFulfillmentPerOrder
<1>1. FulfillmentInv => OneFulfillmentPerOrder
  BY DEF FulfillmentInv
<1>. QED BY <1>1, FulfillmentInvariance, PTL

\* Nor do two batches ever wait for the supplier's answer to the same order.
THEOREM OrdersAreCalledInOnePlace ==
  ASSUME InProcess = Callers PROVE FulfillmentSafeSpec => []OneCallPerOrder
<1>1. FulfillmentInv => OneCallPerOrder
  <2>. SUFFICES ASSUME FulfillmentInv, NEW p \in Polls, NEW q \in Polls,
                       call[p] # "none", call[q] # "none",
                       orderOf[Current(p)] = orderOf[Current(q)]
                PROVE  p = q
    BY DEF OneCallPerOrder
  <2>1. RowsInv /\ OneFulfillmentPerOrder
    BY DEF FulfillmentInv
  <2>2. phase[p] = "handling" /\ phase[q] = "handling"
    BY <2>1 DEF RowsInv, CallsArePending
  <2>3. /\ Current(p) \in Jobs /\ ful[Current(p)] # "NONE"
        /\ Current(q) \in Jobs /\ ful[Current(q)] # "NONE"
    BY <2>1, <2>2, CallersOfTheSupplier
  <2>4. Current(p) = Current(q)
    BY <2>1, <2>3 DEF OneFulfillmentPerOrder
  <2>. QED BY <2>1, <2>2, <2>4, CallersOfTheSupplier
<1>. QED BY <1>1, FulfillmentInvariance, PTL

\* The supplier is sent an order again only after an acceptance that the
\* handler did not get to record.
THEOREM DuplicatesAreUnseenAcceptances ==
  ASSUME InProcess = Callers PROVE FulfillmentSafeSpec => []DuplicateOnlyAfterUnseen
<1>1. FulfillmentInv => DuplicateOnlyAfterUnseen
  BY DEF FulfillmentInv, AcceptancesAreSpent, DuplicateOnlyAfterUnseen
<1>. QED BY <1>1, FulfillmentInvariance, PTL

-----------------------------------------------------------------------------
(* The promise of module Handover.                                         *)

\* What the handler has in hand the supplier has counted.
HandedOver == \A p \in Polls : InHand(p) => drafts[orderOf[Current(p)]] > 0

\* How far an order is, by its one row.
RowStage(f) ==
  IF ful[f] = "SUBMITTED" THEN "submitted"
  ELSE IF ful[f] = "EXCEPTION" THEN "exception"
  ELSE IF status[f] = "DEAD" THEN "deadLettered"
  ELSE "committed"

LEMMA StageIsThatOfTheRow ==
  ASSUME OneFulfillmentPerOrder, NEW o \in Orders
  PROVE  /\ (\A f \in Jobs : ful[f] = "NONE" \/ orderOf[f] # o) => StageOf(o) = "none"
         /\ \A f \in Jobs : ful[f] # "NONE" /\ orderOf[f] = o => StageOf(o) = RowStage(f)
<1>1. (\A f \in Jobs : ful[f] = "NONE" \/ orderOf[f] # o) => FulfillmentsOf(o) = {}
  BY DEF FulfillmentsOf
<1>2. ASSUME NEW f \in Jobs, ful[f] # "NONE", orderOf[f] = o
      PROVE  FulfillmentsOf(o) # {} /\ (CHOOSE g \in FulfillmentsOf(o) : TRUE) = f
  <2>1. FulfillmentsOf(o) = {f}
    BY <1>2 DEF FulfillmentsOf, OneFulfillmentPerOrder
  <2>. QED BY <2>1
<1>. QED BY <1>1, <1>2 DEF StageOf, RowStage

LEMMA StageIsThatOfTheRowNext ==
  ASSUME OneFulfillmentPerOrder', NEW o \in Orders
  PROVE  /\ (\A f \in Jobs : ful'[f] = "NONE" \/ orderOf'[f] # o) => StageOf(o)' = "none"
         /\ \A f \in Jobs : ful'[f] # "NONE" /\ orderOf'[f] = o => StageOf(o)' = RowStage(f)'
<1>1. (\A f \in Jobs : ful'[f] = "NONE" \/ orderOf'[f] # o) => FulfillmentsOf(o)' = {}
  BY DEF FulfillmentsOf
<1>2. ASSUME NEW f \in Jobs, ful'[f] # "NONE", orderOf'[f] = o
      PROVE  FulfillmentsOf(o)' # {} /\ (CHOOSE g \in FulfillmentsOf(o)' : TRUE) = f
  <2>1. FulfillmentsOf(o)' = {f}
    BY <1>2 DEF FulfillmentsOf, OneFulfillmentPerOrder
  <2>. QED BY <2>1
<1>. QED BY <1>1, <1>2 DEF StageOf, RowStage

\* A row is dead-lettered or not.
DeadStays(f) == status'[f] = "DEAD" <=> status[f] = "DEAD"

\* A step that touches one row moves one order at most.
LEMMA OtherOrdersStay ==
  ASSUME OneFulfillmentPerOrder, OneFulfillmentPerOrder', NEW f,
         \A g \in Jobs \ {f} : ful'[g] = ful[g] /\ orderOf'[g] = orderOf[g] /\ DeadStays(g),
         NEW o \in Orders,
         f \in Jobs => /\ ful[f] # "NONE" => orderOf[f] # o
                       /\ ful'[f] # "NONE" => orderOf'[f] # o
  PROVE  StageOf(o)' = StageOf(o)
<1>1. ASSUME NEW g \in Jobs, ful[g] # "NONE", orderOf[g] = o
      PROVE  StageOf(o)' = StageOf(o)
  <2>1. g # f /\ ful'[g] = ful[g] /\ orderOf'[g] = o /\ DeadStays(g)
    BY <1>1
  <2>2. RowStage(g)' = RowStage(g)
    BY <2>1 DEF RowStage, DeadStays
  <2>. QED BY <1>1, <2>1, <2>2, StageIsThatOfTheRow, StageIsThatOfTheRowNext
<1>2. ASSUME \A g \in Jobs : ful[g] = "NONE" \/ orderOf[g] # o
      PROVE  StageOf(o)' = StageOf(o)
  <2>1. \A g \in Jobs : ful'[g] = "NONE" \/ orderOf'[g] # o
    BY <1>2
  <2>. QED BY <1>2, <2>1, StageIsThatOfTheRow, StageIsThatOfTheRowNext
<1>. QED BY <1>1, <1>2

\* Dead letters are made and revived one at a time.
LEMMA DeadLettersMoveAlone ==
  ASSUME QueueInv, QueueMoves, NEW j \in Jobs, NEW k \in Jobs, ~DeadStays(j), ~DeadStays(k)
  PROVE  j = k
<1>0. TypeOK /\ QueueInv
  BY DEF QueueInv
<1>1. ASSUME NEW i \in Jobs, BecomeDue(i) \/ RetryJob(i) PROVE j = k
  BY <1>0, <1>1 DEF BecomeDue, RetryJob, DeadStays, TypeOK
<1>2. ASSUME NEW p \in Polls, ClaimDue(p) PROVE j = k
  <2>1. \A i \in Jobs : i \in ToSet(Claimed) => status[i] = "READY"
    BY <1>0, ClaimsAreDue DEF QueueInv, WaitingIsReady
  <2>. QED BY <1>2, <2>1 DEF ClaimDue, DeadStays
<1>3. ASSUME NEW p \in Polls, Finish(p) \/ FinishFails(p) \/ DeadLetter(p) \/ BackOff(p) \/ BookkeepingFails(p)
      PROVE  j = k
  BY <1>0, <1>3
     DEF Finish, FinishFails, DeadLetter, BackOff, BookkeepingFails, MarkDead, MarkDelayed, rows,
         DeadStays, TypeOK
<1>. QED BY <1>1, <1>2, <1>3 DEF QueueMoves, WorkerStep

\* What an order may do at a step: nothing, or a move of the promise.
Stays(o) == StageOf(o)' = StageOf(o) /\ (drafts'[o] > 0 <=> drafts[o] > 0)

Moves(o) ==
  \/ /\ drafts'[o] > 0 <=> drafts[o] > 0
     /\ \/ StageOf(o) = "none" /\ StageOf(o)' = "committed"
        \/ StageOf(o) = "committed" /\ StageOf(o)' = "submitted" /\ drafts[o] > 0
        \/ StageOf(o) = "committed" /\ StageOf(o)' \in {"exception", "deadLettered"}
        \/ StageOf(o) = "deadLettered" /\ StageOf(o)' = "committed"
        \/ StageOf(o) = "submitted" /\ StageOf(o)' = "exception"
  \/ StageOf(o) = "committed" /\ StageOf(o)' = "committed" /\ drafts'[o] > 0

\* The promise is kept when one order moves and the others stay.
LEMMA MovesKeepThePromise ==
  ASSUME NEW o \in Orders, Moves(o) \/ Stays(o), \A x \in Orders \ {o} : Stays(x)
  PROVE  [Promise!HandoverNext]_(Promise!handoverVars)
<1> DEFINE stage == [x \in Orders |-> StageOf(x)]
           accepted == [x \in Orders |-> drafts[x] > 0]
<1>1. ASSUME drafts'[o] > 0 <=> drafts[o] > 0 PROVE accepted' = accepted
  BY <1>1 DEF Stays
<1>2. stage' = [stage EXCEPT ![o] = StageOf(o)']
  BY DEF Stays
<1>3. stage[o] = StageOf(o) /\ accepted[o] = (drafts[o] > 0)
  OBVIOUS
<1>4. CASE Stays(o)
  BY <1>1, <1>4 DEF Stays, Promise!handoverVars
<1>5. CASE Moves(o) /\ (drafts'[o] > 0 <=> drafts[o] > 0) /\ ~Stays(o)
  <2>1. accepted' = accepted
    BY <1>1, <1>5
  <2>2. \/ StageOf(o) = "none" /\ StageOf(o)' = "committed"
        \/ StageOf(o) = "committed" /\ StageOf(o)' = "submitted" /\ drafts[o] > 0
        \/ StageOf(o) = "committed" /\ StageOf(o)' = "exception"
        \/ StageOf(o) = "committed" /\ StageOf(o)' = "deadLettered"
        \/ StageOf(o) = "deadLettered" /\ StageOf(o)' = "committed"
        \/ StageOf(o) = "submitted" /\ StageOf(o)' = "exception"
    BY <1>5 DEF Moves, Stays
  <2>. HIDE DEF stage, accepted
  <2>3. Promise!Commit(o) \/ Promise!Resolve(o) \/ Promise!Revive(o) \/ Promise!Withdraw(o)
    BY <1>2, <1>3, <2>1, <2>2
       DEF Promise!Commit, Promise!Resolve, Promise!Submit, Promise!Park, Promise!GiveUp,
           Promise!Revive, Promise!Withdraw, Promise!Move, stage, accepted
  <2>. QED BY <2>3 DEF Promise!HandoverNext
<1>6. CASE Moves(o) /\ ~(drafts'[o] > 0 <=> drafts[o] > 0)
  <2>1. StageOf(o) = "committed" /\ StageOf(o)' = "committed" /\ drafts'[o] > 0
    BY <1>6 DEF Moves
  <2>2. accepted' = [accepted EXCEPT ![o] = TRUE]
    <3>1. accepted \in [Orders -> BOOLEAN] /\ accepted' \in [Orders -> BOOLEAN]
      OBVIOUS
    <3>2. accepted'[o] = TRUE
      BY <2>1
    <3>3. ASSUME NEW x \in Orders \ {o} PROVE accepted'[x] = accepted[x]
      <4>1. drafts'[x] > 0 <=> drafts[x] > 0
        BY DEF Stays
      <4>. QED BY <4>1
    <3>. HIDE DEF accepted
    <3>. QED BY <3>1, <3>2, <3>3
  <2>3. stage' = stage
    BY <2>1 DEF Stays
  <2>4. Promise!Accept(o)
    BY <2>1, <2>2, <2>3 DEF Promise!Accept
  <2>. QED BY <2>4 DEF Promise!HandoverNext
<1>. QED BY <1>4, <1>5, <1>6

LEMMA AllStayIsAStutter ==
  ASSUME \A x \in Orders : Stays(x)
  PROVE  [Promise!HandoverNext]_(Promise!handoverVars)
<1>1. /\ [x \in Orders |-> StageOf(x)]' = [x \in Orders |-> StageOf(x)]
      /\ [x \in Orders |-> drafts[x] > 0]' = [x \in Orders |-> drafts[x] > 0]
  BY DEF Stays
<1>. QED BY <1>1 DEF Promise!handoverVars

LEMMA SameRowsStay ==
  ASSUME OneFulfillmentPerOrder, OneFulfillmentPerOrder', UNCHANGED <<ful, orderOf, drafts>>,
         \A g \in Jobs : DeadStays(g)
  PROVE  [Promise!HandoverNext]_(Promise!handoverVars)
<1>1. ASSUME NEW x \in Orders PROVE Stays(x)
  <2>1. ASSUME NEW g \in Jobs PROVE ful'[g] = ful[g] /\ orderOf'[g] = orderOf[g] /\ DeadStays(g)
    OBVIOUS
  <2>2. StageOf(x)' = StageOf(x)
    <3>1. PICK f : f \notin Jobs
      BY NoSetContainsEverything
    <3>. QED BY <2>1, <3>1, OtherOrdersStay
  <2>. QED BY <2>2 DEF Stays
<1>. QED BY <1>1, AllStayIsAStutter

\* Statements of the tool: an INSERT commits the order its check has found free.
LEMMA ToolStepPromise ==
  ASSUME InProcess = Callers, FulfillmentInv, FulfillmentInv', NEW c \in Callers, ToolMoves(c)
  PROVE  [Promise!HandoverNext]_(Promise!handoverVars)
<1>0. FulfillmentTypes /\ RowsHaveTheirOrder /\ TypeOK /\ OneFulfillmentPerOrder /\ CheckStillHolds
  BY DEF FulfillmentInv, RowsInv, QueueInv
<1>00. OneFulfillmentPerOrder'
  BY DEF FulfillmentInv
<1>1. CASE (\E o \in Orders : FindNoFulfillment(c, o)) \/ EnqueueJob(c) \/ ToolThrows(c)
  <2>1. UNCHANGED <<ful, orderOf, drafts>>
    BY <1>1 DEF FindNoFulfillment, EnqueueJob, ToolThrows, worker
  <2>2. ASSUME NEW g \in Jobs PROVE DeadStays(g)
    BY <1>0, <1>1
       DEF FindNoFulfillment, EnqueueJob, ToolThrows, Enqueue, queueVars, rows, DeadStays, TypeOK
  <2>. QED BY <1>0, <1>00, <2>1, <2>2, SameRowsStay
<1>2. ASSUME NEW f \in Jobs, CreateFulfillment(c, f)
      PROVE  [Promise!HandoverNext]_(Promise!handoverVars)
  <2>0. tool[c].order \in Orders /\ tool[c].at = "create"
    BY <1>0, <1>2 DEF CreateFulfillment, FulfillmentTypes, ToolState, Idle
  <2>1. PICK o \in Orders : o = tool[c].order
    BY <2>0
  <2>2. /\ ful[f] = "NONE" /\ ful' = [ful EXCEPT ![f] = "PENDING_SUPPLIER"]
        /\ orderOf' = [orderOf EXCEPT ![f] = o]
        /\ status' = status /\ drafts' = drafts
    BY <1>2, <2>1 DEF CreateFulfillment, queueVars, rows
  <2>3. status[f] = "ABSENT"
    BY <1>0, <2>2 DEF RowsHaveTheirOrder
  <2>4. \A g \in Jobs : ful[g] = "NONE" \/ orderOf[g] # o
    BY <1>0, <2>0, <2>1 DEF CheckStillHolds
  <2>5. /\ ful'[f] = "PENDING_SUPPLIER" /\ orderOf'[f] = o
        /\ \A g \in Jobs \ {f} : ful'[g] = ful[g] /\ orderOf'[g] = orderOf[g] /\ DeadStays(g)
    BY <1>0, <2>2 DEF FulfillmentTypes, DeadStays
  <2>6. StageOf(o) = "none" /\ StageOf(o)' = "committed"
    <3>1. RowStage(f)' = "committed"
      BY <2>2, <2>3, <2>5 DEF RowStage
    <3>2. StageOf(o) = "none"
      BY <1>0, <2>4, StageIsThatOfTheRow
    <3>3. StageOf(o)' = RowStage(f)'
      BY <1>00, <2>5, StageIsThatOfTheRowNext
    <3>. QED BY <3>1, <3>2, <3>3
  <2>7. Moves(o)
    BY <2>2, <2>6 DEF Moves
  <2>8. ASSUME NEW x \in Orders \ {o} PROVE Stays(x)
    <3>1. /\ \A g \in Jobs \ {f} : ful'[g] = ful[g] /\ orderOf'[g] = orderOf[g] /\ DeadStays(g)
          /\ ful[f] # "NONE" => orderOf[f] # x
          /\ ful'[f] # "NONE" => orderOf'[f] # x
      BY <2>2, <2>5
    <3>2. StageOf(x)' = StageOf(x)
      BY <1>0, <1>00, <3>1, OtherOrdersStay
    <3>. QED BY <2>2, <3>2 DEF Stays
  <2>. QED BY <2>1, <2>7, <2>8, MovesKeepThePromise
<1>. QED BY <1>1, <1>2 DEF ToolMoves

\* Turns of the handler, and of the supplier it waits for.
LEMMA HandlerStepPromise ==
  ASSUME FulfillmentInv, FulfillmentInv', HandedOver, NEW p \in Polls, HandlerMoves(p)
  PROVE  [Promise!HandoverNext]_(Promise!handoverVars)
<1>0. RowsInv /\ FulfillmentTypes /\ CallsArePending /\ TypeOK /\ OneFulfillmentPerOrder
  BY DEF FulfillmentInv, RowsInv, QueueInv
<1>00. OneFulfillmentPerOrder'
  BY DEF FulfillmentInv
<1>01. phase[p] = "handling"
  BY <1>0, HandlerStepEffect
<1>02. Current(p) \in Jobs /\ orderOf[Current(p)] \in Orders
  BY <1>0, <1>01, CallersOfTheSupplier
<1>03. PICK f \in Jobs, o \in Orders : f = Current(p) /\ o = orderOf[f]
  BY <1>02
<1>1. /\ UNCHANGED <<status, orderOf>>
      /\ \/ ful' = ful
         \/ call[p] # "none" /\ \E s \in FulfillmentStatus \ {"NONE"} : ful' = [ful EXCEPT ![f] = s]
  BY <1>0, <1>03, HandlerStepEffect DEF rows
<1>2. status[f] = "RUNNING" /\ ful[f] # "NONE" /\ orderOf[f] = o
  BY <1>0, <1>01, <1>03, CallersOfTheSupplier
<1>3. /\ \A g \in Jobs \ {f} : ful'[g] = ful[g] /\ orderOf'[g] = orderOf[g] /\ DeadStays(g)
      /\ ful'[f] # "NONE" /\ orderOf'[f] = o /\ status'[f] = "RUNNING"
  BY <1>0, <1>1, <1>2 DEF FulfillmentTypes, DeadStays
<1>4. StageOf(o) = RowStage(f) /\ StageOf(o)' = RowStage(f)'
  BY <1>0, <1>00, <1>2, <1>3, StageIsThatOfTheRow, StageIsThatOfTheRowNext
<1>5. ASSUME NEW x \in Orders \ {o} PROVE StageOf(x)' = StageOf(x)
  <2>1. /\ orderOf[f] # x /\ orderOf'[f] # x
        /\ \A g \in Jobs \ {f} : ful'[g] = ful[g] /\ orderOf'[g] = orderOf[g] /\ DeadStays(g)
    BY <1>2, <1>3
  <2>. QED BY <1>0, <1>00, <2>1, OtherOrdersStay
<1>6. CASE SupplierAccepts(p)
  <2>1. /\ ful' = ful /\ ful[f] = "PENDING_SUPPLIER"
        /\ drafts' = [drafts EXCEPT ![o] = @ + 1]
    BY <1>0, <1>03, <1>6 DEF SupplierAccepts, CallsArePending
  <2>2. StageOf(o) = "committed" /\ StageOf(o)' = "committed"
    BY <1>2, <1>3, <1>4, <2>1 DEF RowStage
  <2>3. drafts'[o] > 0 /\ \A x \in Orders \ {o} : drafts'[x] = drafts[x]
    <3>1. drafts \in [Orders -> Nat]
      BY <1>0 DEF FulfillmentTypes
    <3>2. drafts[o] \in Nat /\ drafts'[o] = drafts[o] + 1
      BY <2>1, <3>1
    <3>. QED BY <2>1, <3>1, <3>2
  <2>4. Moves(o) /\ \A x \in Orders \ {o} : Stays(x)
    BY <1>5, <2>2, <2>3 DEF Moves, Stays
  <2>. QED BY <1>2, <2>4, MovesKeepThePromise
<1>7. CASE ~SupplierAccepts(p)
  <2>1. drafts' = drafts
    BY <1>0, <1>7, HandlerStepCounts DEF GoesUnseen
  <2>2. \A x \in Orders \ {o} : Stays(x)
    BY <1>5, <2>1 DEF Stays
  <2>3. CASE ful' = ful
    <3>1. Stays(o)
      BY <1>2, <1>3, <1>4, <2>1, <2>3 DEF RowStage, Stays
    <3>. QED BY <1>2, <2>2, <3>1, MovesKeepThePromise
  <2>4. CASE ful' # ful
    <3>1. ASSUME ful[f] = "PENDING_SUPPLIER"
          PROVE  /\ StageOf(o) = "committed"
                 /\ StageOf(o)' \in {"committed", "submitted", "exception"}
                 /\ StageOf(o)' = "submitted" => drafts[o] > 0
      <4>1. ful'[f] \in {"PENDING_SUPPLIER", "SUBMITTED", "EXCEPTION"}
        BY <1>0, <1>1, <1>2, <2>4 DEF FulfillmentTypes, FulfillmentStatus
      <4>2. ful'[f] = "SUBMITTED" => InHand(p)
        BY <1>0, <1>03, <3>1
           DEF HandlerMoves, SkipSettled, CallSupplier, SupplierAccepts, RecordAcceptance,
               SupplierFails, AnswerLost, RecordingThrows, CatchRecording, CatchError, Catch,
               CatchThrows, HandlerAt, worker, FulfillmentTypes, InHand
      <4>3. ful'[f] = "SUBMITTED" => drafts[o] > 0
        BY <1>03, <4>2 DEF HandedOver
      <4>. QED BY <1>2, <1>3, <1>4, <3>1, <4>1, <4>3 DEF RowStage
    <3>2. ASSUME ful[f] # "PENDING_SUPPLIER"
          PROVE  StageOf(o) = "submitted" /\ StageOf(o)' = "exception"
      <4>1. ful'[f] # ful[f]
        BY <1>0, <1>1, <2>4 DEF FulfillmentTypes
      <4>2. call[p] # "none" /\ ful[f] = "SUBMITTED"
        BY <1>0, <1>03, <1>1, <2>4, <3>2 DEF CallsArePending
      <4>3. ful'[f] = "EXCEPTION"
        BY <1>0, <4>1, <4>2, HandlerAnswers
      <4>. QED BY <1>2, <1>3, <1>4, <4>2, <4>3 DEF RowStage
    <3>3. \/ /\ StageOf(o) = "committed"
             /\ StageOf(o)' \in {"committed", "submitted", "exception"}
             /\ StageOf(o)' = "submitted" => drafts[o] > 0
          \/ StageOf(o) = "submitted" /\ StageOf(o)' = "exception"
      BY <3>1, <3>2
    <3>4. Moves(o) \/ Stays(o)
      BY <2>1, <3>3 DEF Moves, Stays
    <3>. QED BY <2>2, <3>4, MovesKeepThePromise
  <2>. QED BY <2>3, <2>4
<1>. QED BY <1>6, <1>7

\* Steps of the queue: a dead letter is a handover given up, or revived.
LEMMA QueueMovesPromise ==
  ASSUME FulfillmentInv, FulfillmentInv', QueueMoves, UNCHANGED <<worker, callerVars, lapses>>
  PROVE  [Promise!HandoverNext]_(Promise!handoverVars)
<1>0. /\ FulfillmentTypes /\ RowsHaveTheirOrder /\ QueueInv /\ OneFulfillmentPerOrder
      /\ OneFulfillmentPerOrder'
  BY DEF FulfillmentInv, RowsInv
<1>1. UNCHANGED <<ful, orderOf, drafts>>
  BY DEF worker, callerVars
<1>2. CASE \A g \in Jobs : DeadStays(g)
  BY <1>0, <1>1, <1>2, SameRowsStay
<1>3. ASSUME NEW f \in Jobs, ~DeadStays(f) PROVE [Promise!HandoverNext]_(Promise!handoverVars)
  <2>1. \A g \in Jobs \ {f} : ful'[g] = ful[g] /\ orderOf'[g] = orderOf[g] /\ DeadStays(g)
    BY <1>0, <1>1, <1>3, DeadLettersMoveAlone
  <2>2. ful[f] # "NONE" /\ orderOf[f] \in Orders
    <3>1. status[f] # "ABSENT"
      BY <1>0, <1>3, QueueMovesMakeNoRow DEF DeadStays
    <3>. QED BY <1>0, <3>1 DEF RowsHaveTheirOrder
  <2> DEFINE o == orderOf[f]
  <2>3. StageOf(o) = RowStage(f) /\ StageOf(o)' = RowStage(f)'
    BY <1>0, <1>1, <2>2, StageIsThatOfTheRow, StageIsThatOfTheRowNext
  <2>4. Moves(o) \/ Stays(o)
    BY <1>1, <1>3, <2>3 DEF RowStage, Moves, Stays, DeadStays
  <2>5. ASSUME NEW x \in Orders \ {o} PROVE Stays(x)
    BY <1>0, <1>1, <2>1, OtherOrdersStay DEF Stays
  <2>. QED BY <2>2, <2>4, <2>5, MovesKeepThePromise
<1>. QED BY <1>2, <1>3

\* An acceptance in hand has been counted: a call becomes accepted in the step
\* that counts it, and keeps its batch, its row and its order.
LEMMA HandedOverStep ==
  ASSUME RowsInv, HandedOver, [FulfillmentNext]_fulfillmentVars
  PROVE  HandedOver'
<1>0. FulfillmentTypes /\ CallsArePending
  BY DEF RowsInv
<1>1. ASSUME NEW q \in Polls, InHand(q)
      PROVE  /\ Current(q) \in Jobs /\ ful[Current(q)] # "NONE"
             /\ orderOf[Current(q)] \in Orders
             /\ drafts[orderOf[Current(q)]] > 0
  <2>1. phase[q] = "handling"
    BY <1>0, <1>1 DEF CallsArePending, InHand
  <2>. QED BY <1>1, <2>1, CallersOfTheSupplier DEF HandedOver
<1>2. ASSUME \A q \in Polls : InHand(q)' =>
               /\ InHand(q) /\ batch'[q] = batch[q]
               /\ orderOf'[Current(q)] = orderOf[Current(q)],
             drafts' = drafts
      PROVE  HandedOver'
  BY <1>1, <1>2 DEF HandedOver, Current
<1>3. ASSUME NEW c \in Callers, ToolMoves(c) PROVE HandedOver'
  <2>1. CASE (\E o \in Orders : FindNoFulfillment(c, o)) \/ EnqueueJob(c) \/ ToolThrows(c)
    <3>1. UNCHANGED <<call, batch, orderOf, drafts>>
      BY <2>1 DEF FindNoFulfillment, EnqueueJob, Enqueue, ToolThrows, worker, queueVars, memory
    <3>. QED BY <1>2, <3>1 DEF InHand
  <2>2. ASSUME NEW f \in Jobs, CreateFulfillment(c, f) PROVE HandedOver'
    <3>1. /\ UNCHANGED <<call, batch, drafts>> /\ ful[f] = "NONE"
          /\ orderOf' = [orderOf EXCEPT ![f] = tool[c].order]
      BY <2>2 DEF CreateFulfillment, queueVars
    <3>2. ASSUME NEW q \in Polls, InHand(q)'
          PROVE  InHand(q) /\ orderOf'[Current(q)] = orderOf[Current(q)]
      <4>1. InHand(q)
        BY <3>1, <3>2 DEF InHand
      <4>2. Current(q) \in Jobs /\ Current(q) # f
        BY <1>1, <3>1, <4>1
      <4>. QED BY <1>0, <3>1, <4>1, <4>2 DEF FulfillmentTypes
    <3>. QED BY <1>2, <3>1, <3>2
  <2>. QED BY <1>3, <2>1, <2>2 DEF ToolMoves
<1>4. ASSUME NEW p \in Polls, HandlerMoves(p) PROVE HandedOver'
  <2>1. /\ UNCHANGED <<batch, orderOf>> /\ phase[p] = "handling"
        /\ \E s \in CallState : call' = [call EXCEPT ![p] = s]
    BY <1>4, HandlerStepEffect
  <2>2. CASE SupplierAccepts(p)
    <3>1. PICK o \in Orders : o = orderOf[Current(p)]
      BY <2>1, CallersOfTheSupplier
    <3>2. drafts' = [drafts EXCEPT ![o] = @ + 1] /\ drafts \in [Orders -> Nat]
      BY <1>0, <2>2, <3>1 DEF SupplierAccepts, FulfillmentTypes
    <3>3. drafts'[o] > 0 /\ \A x \in Orders : drafts[x] > 0 => drafts'[x] > 0
      BY <3>2
    <3>4. ASSUME NEW q \in Polls, InHand(q)'
          PROVE  drafts'[orderOf[Current(q)]] > 0
      <4>1. CASE q = p
        BY <3>1, <3>3, <4>1
      <4>2. CASE q # p
        <5>1. InHand(q)
          BY <1>0, <2>1, <3>4, <4>2 DEF FulfillmentTypes, InHand
        <5>. QED BY <1>1, <3>3, <5>1
      <4>. QED BY <4>1, <4>2
    <3>. QED BY <2>1, <3>4 DEF HandedOver, Current
  <2>3. CASE ~SupplierAccepts(p)
    <3>1. drafts' = drafts
      BY <1>4, <2>3, HandlerStepCounts
    <3>2. InHand(p)' => InHand(p)
      BY <1>0, <1>4, <2>3
         DEF HandlerMoves, SkipSettled, CallSupplier, RecordAcceptance, SupplierFails, AnswerLost,
             RecordingThrows, CatchRecording, HangUp, HandlerAt, worker, FulfillmentTypes, InHand
    <3>3. ASSUME NEW q \in Polls, InHand(q)' PROVE InHand(q)
      BY <1>0, <2>1, <3>2, <3>3 DEF FulfillmentTypes, InHand
    <3>. QED BY <1>2, <2>1, <3>1, <3>3
  <2>. QED BY <2>2, <2>3
<1>5. CASE QueueMoves /\ UNCHANGED <<worker, callerVars, lapses>>
  <2>1. UNCHANGED <<call, orderOf, drafts>>
    BY <1>5 DEF worker, callerVars
  <2>2. \A q \in Polls : call[q] # "none" => batch'[q] = batch[q]
    BY <1>5, QueueMovesSpareCalls
  <2>3. \A q \in Polls : InHand(q)' => InHand(q) /\ batch'[q] = batch[q]
    BY <2>1, <2>2 DEF InHand
  <2>. QED BY <1>2, <2>1, <2>3
<1>6. CASE AppCrash
  BY <1>6 DEF AppCrash, HandedOver, InHand
<1>7. CASE UNCHANGED fulfillmentVars
  <2>1. UNCHANGED <<call, batch, orderOf, drafts>>
    BY <1>7 DEF fulfillmentVars, queueVars
  <2>. QED BY <1>2, <2>1 DEF InHand
<1>. QED BY <1>3, <1>4, <1>5, <1>6, <1>7, WhoMoves

\* The pipeline implements the promise, when every caller lives in the
\* application's process: each of its steps is a step of module Handover for one
\* order, or none.  A supplier's acceptance is an Accept, the recording of it a
\* Submit; what goes on in the queue is seen only as GiveUp and Revive.
THEOREM OrdersKeepThePromise ==
  ASSUME InProcess = Callers PROVE FulfillmentSafeSpec => KeepsPromise
<1>1. FulfillmentInit => HandedOver
  BY DEF FulfillmentInit, HandedOver, InHand
<1>2. FulfillmentInit => Promise!HandoverInit
  <2>. SUFFICES ASSUME FulfillmentInit PROVE Promise!HandoverInit
    OBVIOUS
  <2>1. [o \in Orders |-> StageOf(o)] = [o \in Orders |-> "none"]
    <3>1. \A o \in Orders : FulfillmentsOf(o) = {}
      BY DEF FulfillmentInit, FulfillmentsOf
    <3>2. \A o \in Orders : StageOf(o) = "none"
      BY <3>1 DEF StageOf
    <3>. QED BY <3>2
  <2>2. [o \in Orders |-> drafts[o] > 0] = [o \in Orders |-> FALSE]
    <3>1. ASSUME NEW o \in Orders PROVE (drafts[o] > 0) = FALSE
      BY DEF FulfillmentInit
    <3>. QED BY <3>1, Zenon
  <2>. QED BY <2>1, <2>2, Zenon DEF Promise!HandoverInit
<1>3. FulfillmentInv /\ HandedOver /\ [FulfillmentNext]_fulfillmentVars => HandedOver'
  BY HandedOverStep DEF FulfillmentInv
<1>4. /\ FulfillmentInv /\ FulfillmentInv' /\ HandedOver
      /\ [FulfillmentNext]_fulfillmentVars
      => [Promise!HandoverNext]_(Promise!handoverVars)
  <2>. SUFFICES ASSUME FulfillmentInv, FulfillmentInv', HandedOver,
                       [FulfillmentNext]_fulfillmentVars
                PROVE  [Promise!HandoverNext]_(Promise!handoverVars)
    OBVIOUS
  <2>1. OneFulfillmentPerOrder /\ OneFulfillmentPerOrder'
    BY DEF FulfillmentInv
  <2>2. CASE AppCrash \/ UNCHANGED fulfillmentVars
    <3>1. UNCHANGED <<status, ful, orderOf, drafts>>
      BY <2>2 DEF AppCrash, Crash, rows, fulfillmentVars, queueVars
    <3>2. \A g \in Jobs : DeadStays(g)
      BY <3>1 DEF DeadStays
    <3>. QED BY <2>1, <3>1, <3>2, SameRowsStay
  <2>. QED BY <2>2, WhoMoves, ToolStepPromise, HandlerStepPromise, QueueMovesPromise
<1>. QED BY <1>1, <1>2, <1>3, <1>4, FulfillmentInvariance, PTL
     DEF FulfillmentSafeSpec, KeepsPromise, Promise!HandoverSafeSpec

-----------------------------------------------------------------------------
(* What the table says of an order, and what the supplier knows.           *)

\* A fulfilment recorded as sent was accepted, and one that was parked was
\* accepted only where the acceptance went unseen.
AnswersAreTrue ==
  \A f \in Jobs :
    /\ ful[f] = "SUBMITTED" => drafts[orderOf[f]] > 0
    /\ ful[f] = "EXCEPTION" => drafts[orderOf[f]] <= unseen[orderOf[f]]

AnswerInv == FulfillmentInv /\ HandedOver /\ AnswersAreTrue

\* A step of the handler that answers a fulfilment: what is recorded had been
\* accepted, and what is parked was never sent, or its acceptance goes unseen.
LEMMA AnswersAreGiven ==
  ASSUME FulfillmentInv, HandedOver, NEW p \in Polls, HandlerMoves(p),
         ful'[Current(p)] # ful[Current(p)]
  PROVE  LET o == orderOf[Current(p)]
         IN  /\ ful'[Current(p)] = "SUBMITTED" => drafts'[o] > 0
             /\ ful'[Current(p)] = "EXCEPTION" => drafts'[o] <= unseen'[o]
<1>0. /\ RowsInv /\ FulfillmentTypes /\ CallsArePending /\ OneFulfillmentPerOrder
      /\ AcceptancesAreSpent
  BY DEF FulfillmentInv, RowsInv
<1>1. /\ phase[p] = "handling" /\ call[p] # "none"
      /\ \E s \in FulfillmentStatus : ful' = [ful EXCEPT ![Current(p)] = s]
  BY <1>0, HandlerStepEffect
<1>2. /\ Current(p) \in Jobs /\ orderOf[Current(p)] \in Orders
      /\ status[Current(p)] = "RUNNING" /\ InFlight(Current(p))
      /\ \A q \in Polls : call[q] # "none" /\ Current(q) = Current(p) => q = p
      /\ ful[Current(p)] # "NONE"
  BY <1>0, <1>1, CallersOfTheSupplier DEF CallsArePending
<1>3. PICK o \in Orders : o = orderOf[Current(p)]
  BY <1>2
<1>4. drafts[o] \in Nat /\ unseen[o] \in Nat /\ drafts[o] <= 1 + unseen[o]
  BY <1>0 DEF FulfillmentTypes, AcceptancesAreSpent
<1>5. ~SupplierAccepts(p)
  BY DEF SupplierAccepts
<1>6. drafts' = drafts
  BY <1>0, <1>5, HandlerStepCounts
<1>7. ASSUME ful'[Current(p)] = "SUBMITTED" PROVE drafts[o] > 0
  <2>1. InHand(p)
    BY <1>0, <1>2, <1>7
       DEF HandlerMoves, SkipSettled, CallSupplier, SupplierAccepts, RecordAcceptance,
           SupplierFails, AnswerLost, RecordingThrows, CatchRecording, CatchError, Catch,
           CatchThrows, HandlerAt, worker, FulfillmentTypes, InHand
  <2>. QED BY <1>3, <2>1 DEF HandedOver
<1>8. ASSUME ful'[Current(p)] = "EXCEPTION" PROVE drafts[o] <= unseen'[o]
  <2>1. CASE ~InHand(p)
    <3>1. ~Spent(Current(p))
      <4>1. ful[Current(p)] = "PENDING_SUPPLIER"
        BY <1>0, <1>1, <2>1 DEF CallsArePending, InHand
      <4>. QED BY <1>1, <1>2, <2>1, <4>1 DEF Spent, LeftRunning, Accepted, InHand
    <3>2. ASSUME NEW f \in Jobs, ful[f] # "NONE", orderOf[f] = o PROVE f = Current(p)
      <4>1. Current(p) \in Jobs /\ ful[Current(p)] # "NONE" /\ orderOf[Current(p)] = orderOf[f]
        BY <1>2, <1>3, <3>2
      <4>. QED BY <1>0, <3>2, <4>1 DEF OneFulfillmentPerOrder
    <3>3. drafts[o] <= unseen[o]
      BY <1>0, <3>1, <3>2 DEF AcceptancesAreSpent
    <3>4. unseen'[o] >= unseen[o]
      BY <1>0, <1>3, <1>4, <1>5, HandlerStepCounts DEF GoesUnseen, FulfillmentTypes
    <3>5. unseen'[o] \in Nat
      BY <1>0, HandlerStepEffect
    <3>. QED BY <1>4, <3>3, <3>4, <3>5
  <2>2. CASE InHand(p)
    <3>1. GoesUnseen(p)
      BY <1>0, <1>2, <1>8, <2>2
         DEF HandlerMoves, SkipSettled, CallSupplier, SupplierAccepts, RecordAcceptance,
             SupplierFails, AnswerLost, RecordingThrows, CatchRecording, HandlerAt, worker,
             FulfillmentTypes, InHand
    <3>2. unseen'[o] = unseen[o] + 1
      BY <1>0, <1>3, <3>1 DEF GoesUnseen, FulfillmentTypes
    <3>. QED BY <1>4, <3>2
  <2>. QED BY <2>1, <2>2
<1>. QED BY <1>3, <1>6, <1>7, <1>8

\* What was answered is the only fulfilment of its order, so nothing more is
\* accepted for it.
LEMMA AnswersStayTrue ==
  ASSUME FulfillmentInv, HandedOver, AnswersAreTrue, [FulfillmentNext]_fulfillmentVars
  PROVE  AnswersAreTrue'
<1>0. RowsInv /\ FulfillmentTypes /\ RowsHaveTheirOrder /\ CallsArePending /\ OneFulfillmentPerOrder
  BY DEF FulfillmentInv, RowsInv
<1>1. ASSUME \A f \in Jobs : ful'[f] \in {"SUBMITTED", "EXCEPTION"} =>
                               ful'[f] = ful[f] /\ orderOf'[f] = orderOf[f],
             UNCHANGED <<drafts, unseen>>
      PROVE  AnswersAreTrue'
  BY <1>1 DEF AnswersAreTrue
<1>2. ASSUME NEW c \in Callers, ToolMoves(c) PROVE AnswersAreTrue'
  <2>1. ASSUME NEW f \in Jobs, CreateFulfillment(c, f) PROVE AnswersAreTrue'
    BY <1>0, <1>1, <2>1 DEF CreateFulfillment, FulfillmentTypes
  <2>2. CASE EnqueueJob(c) \/ ToolThrows(c) \/ \E o \in Orders : FindNoFulfillment(c, o)
    BY <1>1, <2>2 DEF EnqueueJob, ToolThrows, FindNoFulfillment, worker
  <2>. QED BY <1>2, <2>1, <2>2 DEF ToolMoves
<1>3. ASSUME NEW p \in Polls, HandlerMoves(p) PROVE AnswersAreTrue'
  <2>1. /\ phase[p] = "handling" /\ orderOf' = orderOf
        /\ ful' = ful \/ \E s \in FulfillmentStatus : ful' = [ful EXCEPT ![Current(p)] = s]
        /\ drafts' \in [Orders -> Nat] /\ unseen' \in [Orders -> Nat]
    BY <1>0, <1>3, HandlerStepEffect
  <2>2. Current(p) \in Jobs /\ ful[Current(p)] # "NONE" /\ orderOf[Current(p)] \in Orders
    BY <1>0, <2>1, CallersOfTheSupplier
  <2>. SUFFICES ASSUME NEW f \in Jobs, ful'[f] \in {"SUBMITTED", "EXCEPTION"}
                PROVE  /\ ful'[f] = "SUBMITTED" => drafts'[orderOf[f]] > 0
                       /\ ful'[f] = "EXCEPTION" => drafts'[orderOf[f]] <= unseen'[orderOf[f]]
    BY <2>1 DEF AnswersAreTrue
  <2>3. CASE ful'[f] # ful[f]
    <3>1. f = Current(p)
      BY <1>0, <2>1, <2>2, <2>3 DEF FulfillmentTypes
    <3>. QED BY <1>3, <2>3, <3>1, AnswersAreGiven
  <2>4. CASE ful'[f] = ful[f]
    <3>1. PICK o \in Orders : o = orderOf[f]
      BY <1>0, <2>4 DEF RowsHaveTheirOrder
    <3>2. drafts[o] \in Nat /\ unseen[o] \in Nat /\ drafts'[o] \in Nat /\ unseen'[o] \in Nat
      BY <1>0, <2>1 DEF FulfillmentTypes
    <3>3. drafts'[o] = drafts[o]
      <4>1. CASE SupplierAccepts(p)
        <5>1. ful[Current(p)] = "PENDING_SUPPLIER"
          BY <1>0, <4>1 DEF SupplierAccepts, CallsArePending
        <5>2. orderOf[Current(p)] # o
          BY <1>0, <2>2, <2>4, <3>1, <5>1 DEF OneFulfillmentPerOrder
        <5>. QED BY <1>0, <4>1, <5>2 DEF SupplierAccepts, FulfillmentTypes
      <4>. QED BY <1>0, <1>3, <4>1, HandlerStepCounts
    <3>4. unseen'[o] >= unseen[o]
      <4>1. CASE unseen' = unseen
        BY <3>2, <4>1
      <4>2. CASE GoesUnseen(p)
        BY <1>0, <3>2, <4>2 DEF GoesUnseen, FulfillmentTypes
      <4>. QED BY <1>0, <1>3, <4>1, <4>2, HandlerStepCounts DEF SupplierAccepts
    <3>. QED BY <2>4, <3>1, <3>2, <3>3, <3>4 DEF AnswersAreTrue
  <2>. QED BY <2>3, <2>4
<1>4. CASE (QueueMoves /\ UNCHANGED <<worker, callerVars, lapses>>) \/ AppCrash
           \/ UNCHANGED fulfillmentVars
  <2>1. UNCHANGED <<ful, orderOf, drafts, unseen>>
    BY <1>4 DEF worker, callerVars, AppCrash, fulfillmentVars
  <2>. QED BY <1>1, <2>1
<1>. QED BY <1>2, <1>3, <1>4, WhoMoves

\* The invariant that relates the rows to what the supplier has accepted.
LEMMA AnswerNextInv ==
  ASSUME InProcess = Callers, AnswerInv, [FulfillmentNext]_fulfillmentVars
  PROVE  AnswerInv'
<1>1. FulfillmentInv /\ HandedOver /\ AnswersAreTrue /\ RowsInv
  BY DEF AnswerInv, FulfillmentInv
<1>2. FulfillmentInv'
  BY <1>1, RowsNextInv, OneFulfillmentStep, AcceptancesStep DEF FulfillmentInv
<1>3. HandedOver' /\ AnswersAreTrue'
  BY <1>1, HandedOverStep, AnswersStayTrue
<1>. QED BY <1>2, <1>3 DEF AnswerInv

-----------------------------------------------------------------------------
(* Where a fulfilment can be, along the retries of its job.                *)

\* The batch of p holds j, and the handler is not done with it.
Untried(p, j) ==
  \E i \in 1 .. Len(batch[p]) : batch[p][i] = j /\ (i = 1 => phase[p] \in {"handling", "ok"})

\* A parked fulfilment is claimed again only if an operator has revived its job.
UntriedIsOpen ==
  \A p \in Polls, j \in Jobs : Untried(p, j) /\ ful[j] = "EXCEPTION" => retries[j] > 0

\* The handler ends well only if there is nothing left to send.
OkIsAnswered == \A p \in Polls : phase[p] = "ok" => ful[Current(p)] # "PENDING_SUPPLIER"

\* The last attempt leaves no fulfilment pending, if the handler can write.
LastTryIsParked ==
  lapses = 0 =>
    \A p \in Polls :
      phase[p] \in {"transient", "permanent"} /\ attempts[Current(p)] >= MaxAttempts
        => ful[Current(p)] # "PENDING_SUPPLIER"

\* A pending fulfilment has a job that will be run, or was refused early.
PendingIsPlaced ==
  crashes + lapses = 0 =>
    \A f \in Jobs : ful[f] = "PENDING_SUPPLIER" =>
      \/ \E c \in Callers : tool[c] = [at |-> "enqueue", id |-> f]
      \/ status[f] \in {"READY", "RUNNING"}
      \/ status[f] = "DEAD" /\ attempts[f] < MaxAttempts

RetryInv ==
  /\ RowsInv
  /\ UntriedIsOpen /\ ExceptionMeansExhausted
  /\ OkIsAnswered /\ LastTryIsParked /\ PendingIsPlaced

\* What the handler has made of the fulfilment when it ends.
LEMMA HandlerOutcome ==
  ASSUME RowsInv, NEW p \in Polls, HandlerMoves(p)
  PROVE  /\ phase'[p] = "ok" => ful'[Current(p)] # "PENDING_SUPPLIER"
         /\ ful'[Current(p)] = "EXCEPTION" =>
              \/ ful[Current(p)] = "EXCEPTION" /\ phase'[p] \in {"handling", "ok"}
              \/ attempts[Current(p)] >= MaxAttempts /\ phase'[p] \in {"transient", "permanent"}
         /\ phase'[p] \in {"transient", "permanent"} /\ attempts[Current(p)] >= MaxAttempts
            /\ lapses' = 0 => ful'[Current(p)] # "PENDING_SUPPLIER"
         /\ lapses' = 0 => lapses = 0
<1>0. /\ FulfillmentTypes /\ TypeOK /\ phase[p] = "handling" /\ Current(p) \in Jobs
      /\ call[p] # "none" => ful[Current(p)] \in {"PENDING_SUPPLIER", "SUBMITTED"}
      /\ call[p] = "accepted" => ful[Current(p)] = "PENDING_SUPPLIER"
  BY HandlerStepEffect, CallersOfTheSupplier DEF RowsInv, QueueInv, CallsArePending
<1>1. Lapse => lapses' # 0
  BY <1>0 DEF Lapse, FulfillmentTypes
<1>. USE DEF HandlerAt, HandlerEnds
<1>2. CASE SkipSettled(p)
  BY <1>0, <1>2 DEF SkipSettled, worker, TypeOK
<1>3. CASE CallSupplier(p) \/ SupplierAccepts(p)
  BY <1>0, <1>3 DEF CallSupplier, SupplierAccepts, queueVars
<1>4. CASE RecordAcceptance(p)
  BY <1>0, <1>4 DEF RecordAcceptance, FulfillmentTypes, TypeOK
<1>5. ASSUME NEW outcome \in {"transient", "permanent"}, Catch(p, outcome), call[p] # "none"
      PROVE  /\ phase'[p] = outcome
             /\ ful'[Current(p)] = "EXCEPTION" <=> attempts[Current(p)] >= MaxAttempts
  BY <1>0, <1>5 DEF Catch, LastAttempt, FulfillmentTypes, TypeOK
<1>6. ASSUME CatchThrows(p), call[p] # "none"
      PROVE  phase'[p] = "transient" /\ ful'[Current(p)] # "EXCEPTION" /\ lapses' # 0
  BY <1>0, <1>1, <1>6 DEF CatchThrows, TypeOK
<1>7. ASSUME NEW outcome \in {"transient", "permanent"},
             SupplierFails(p, outcome) \/ AnswerLost(p, outcome)
      PROVE  /\ call[p] # "none"
             /\ CatchThrows(p) \/ (Catch(p, outcome) /\ lapses' = lapses)
  BY <1>7 DEF SupplierFails, AnswerLost, CatchError
<1>8. CASE \E outcome \in {"transient", "permanent"} :
             SupplierFails(p, outcome) \/ AnswerLost(p, outcome)
  BY <1>5, <1>6, <1>7, <1>8
<1>9. CASE RecordingThrows(p)
  BY <1>0, <1>1, <1>9 DEF RecordingThrows, queueVars, FulfillmentTypes
<1>10. CASE CatchRecording(p)
  <2>1. /\ call[p] # "none"
        /\ CatchThrows(p) \/ (Catch(p, "transient") /\ lapses' = lapses)
    BY <1>10 DEF CatchRecording, CatchError
  <2>. QED BY <1>5, <1>6, <2>1
<1>. QED BY <1>2, <1>3, <1>4, <1>8, <1>9, <1>10 DEF HandlerMoves

\* What a step of the queue does to a row, and what made it do so.
LEMMA QueueMovesRow ==
  ASSUME QueueInv, Unhandled = {}, QueueMoves, NEW j \in Jobs
  PROVE  \/ status'[j] = status[j] /\ attempts'[j] = attempts[j] /\ retries'[j] = retries[j]
         \/ status[j] = "READY" /\ status'[j] = "RUNNING" /\ retries'[j] = retries[j]
         \/ status[j] = "DEAD" /\ status'[j] = "READY" /\ retries'[j] = retries[j] + 1
         \/ /\ attempts'[j] = attempts[j] /\ retries'[j] = retries[j]
            /\ \E p \in Polls :
                 /\ Current(p) = j
                 /\ \/ phase[p] = "ok" /\ status'[j] = "DONE"
                    \/ /\ phase[p] \in {"transient", "permanent"} /\ status'[j] = "DEAD"
                       /\ phase[p] = "permanent" \/ attempts[j] >= MaxAttempts
                    \/ phase[p] = "transient" /\ attempts[j] < MaxAttempts /\ status'[j] = "READY"
<1>0. TypeOK
  BY DEF QueueInv
<1>1. ASSUME NEW k \in Jobs, BecomeDue(k)
      PROVE  UNCHANGED <<status, attempts, retries>>
  BY <1>1 DEF BecomeDue
<1>2. ASSUME NEW k \in Jobs, RetryJob(k)
      PROVE  \/ status'[j] = status[j] /\ attempts'[j] = attempts[j] /\ retries'[j] = retries[j]
             \/ status[j] = "DEAD" /\ status'[j] = "READY" /\ retries'[j] = retries[j] + 1
  BY <1>0, <1>2 DEF RetryJob, TypeOK
<1>3. ASSUME NEW p \in Polls, ClaimDue(p)
      PROVE  \/ status'[j] = status[j] /\ attempts'[j] = attempts[j] /\ retries'[j] = retries[j]
             \/ status[j] = "READY" /\ status'[j] = "RUNNING" /\ retries'[j] = retries[j]
  BY <1>0, <1>3, ClaimsAreDue DEF ClaimDue, QueueInv, WaitingIsReady, TypeOK
<1>4. ASSUME NEW p \in Polls, Finish(p), Current(p) # j \/ status'[j] = "DONE"
      PROVE  UNCHANGED <<attempts, retries>> /\ (Current(p) # j => status'[j] = status[j])
  BY <1>0, <1>4 DEF Finish, TypeOK
<1>5. ASSUME NEW p \in Polls, MarkDead(p)
      PROVE  /\ UNCHANGED <<attempts, retries>>
             /\ Current(p) # j => status'[j] = status[j]
             /\ Current(p) = j => /\ status'[j] = "DEAD"
                                  /\ phase[p] \in {"transient", "permanent"}
                                  /\ phase[p] = "permanent" \/ attempts[j] >= MaxAttempts
  BY <1>0, <1>5 DEF MarkDead, GivenUp, Unrunnable, Exhausted, TypeOK
<1>6. ASSUME NEW p \in Polls, MarkDelayed(p)
      PROVE  /\ UNCHANGED <<attempts, retries>>
             /\ Current(p) # j => status'[j] = status[j]
             /\ Current(p) = j => /\ status'[j] = "READY" /\ phase[p] = "transient"
                                  /\ attempts[j] < MaxAttempts
  BY <1>0, <1>6, QueueAssumption DEF MarkDelayed, ComesBack, Exhausted, TypeOK, QueueAssumption
<1>7. ASSUME NEW p \in Polls, Finish(p), Current(p) = j
      PROVE  phase[p] = "ok" /\ status'[j] = "DONE"
  BY <1>0, <1>7 DEF Finish, TypeOK
<1>8. CASE \E p \in Polls : Finish(p)
  BY <1>4, <1>7, <1>8
<1>9. CASE \E p \in Polls : DeadLetter(p) \/ BackOff(p) \/ BookkeepingFails(p) \/ FinishFails(p)
  <2>1. PICK p \in Polls : DeadLetter(p) \/ BackOff(p) \/ BookkeepingFails(p) \/ FinishFails(p)
    BY <1>9
  <2>2. MarkDead(p) \/ MarkDelayed(p) \/ UNCHANGED <<status, attempts, retries>>
    BY <2>1 DEF DeadLetter, BackOff, BookkeepingFails, FinishFails, rows
  <2>. QED BY <1>5, <1>6, <2>2
<1>. QED BY <1>1, <1>2, <1>3, <1>8, <1>9 DEF QueueMoves, WorkerStep

\* What a step of the queue makes of the jobs that a batch still has before it.
LEMMA QueueMovesUntried ==
  ASSUME QueueInv, QueueMoves, NEW q \in Polls, NEW j \in Jobs, Untried(q, j)'
  PROVE  Untried(q, j) \/ status[j] = "READY"
<1>0. TypeOK /\ HeldOnce /\ IdleHoldsNothing
  BY DEF QueueInv
<1>1. CASE batch'[q] = batch[q] /\ (phase'[q] = phase[q] \/ phase'[q] = "transient")
  BY <1>1 DEF Untried
<1>2. ASSUME NEW k \in Jobs, BecomeDue(k) \/ RetryJob(k) PROVE Untried(q, j) \/ status[j] = "READY"
  BY <1>1, <1>2 DEF BecomeDue, RetryJob, memory
<1>3. ASSUME NEW p \in Polls, ClaimDue(p) PROVE Untried(q, j) \/ status[j] = "READY"
  <2>1. CASE q # p
    BY <1>0, <1>1, <1>3, <2>1 DEF ClaimDue, TypeOK
  <2>2. CASE q = p
    <3>1. batch'[q] = Claimed /\ Claimed \in Seq(Jobs)
      BY <1>0, <1>3, <2>2, ClaimSplits, QueueAssumption DEF ClaimDue, TypeOK
    <3>2. j \in ToSet(Claimed)
      <4>1. DOMAIN Claimed = 1 .. Len(Claimed)
        BY <3>1, LenProperties
      <4>. QED BY <3>1, <4>1 DEF Untried, ToSet
    <3>. QED BY <1>0, <3>2, ClaimsAreDue DEF QueueInv, WaitingIsReady
  <2>. QED BY <2>1, <2>2
<1>4. ASSUME NEW p \in Polls, phase[p] # "idle", Advance(p)
      PROVE  Untried(q, j) \/ status[j] = "READY"
  <2>1. CASE q # p
    BY <1>0, <1>1, <1>4, <2>1 DEF Advance, TypeOK
  <2>2. CASE q = p
    <3>1. batch[p] \in Seq(Jobs) /\ batch[p] # <<>> /\ batch'[p] = Tail(batch[p])
      BY <1>0, <1>4, BusyHoldsARunningJob DEF Advance, TypeOK
    <3>2. /\ Len(batch'[p]) = Len(batch[p]) - 1 /\ Len(batch[p]) \in Nat
          /\ \A i \in 1 .. Len(batch'[p]) : batch'[p][i] = batch[p][i + 1]
      BY <3>1, HeadTailProperties, LenProperties
    <3>3. PICK i \in 1 .. Len(batch'[p]) : batch'[p][i] = j
      BY <2>2 DEF Untried
    <3>4. i + 1 \in 1 .. Len(batch[p]) /\ i + 1 # 1 /\ batch[p][i + 1] = j
      BY <3>2, <3>3
    <3>. QED BY <2>2, <3>4 DEF Untried
  <2>. QED BY <2>1, <2>2
<1>5. ASSUME NEW p \in Polls, Finish(p) \/ DeadLetter(p) \/ BackOff(p)
      PROVE  Untried(q, j) \/ status[j] = "READY"
  <2>1. phase[p] # "idle" /\ Advance(p)
    BY <1>5 DEF Finish, DeadLetter, BackOff, MarkDead, MarkDelayed, GivenUp, ComesBack, Unrunnable
  <2>. QED BY <1>4, <2>1
<1>6. ASSUME NEW p \in Polls, FinishFails(p) PROVE Untried(q, j) \/ status[j] = "READY"
  BY <1>0, <1>1, <1>6 DEF FinishFails, TypeOK
<1>7. ASSUME NEW p \in Polls, BookkeepingFails(p) PROVE Untried(q, j) \/ status[j] = "READY"
  <2>1. CASE q # p
    BY <1>0, <1>1, <1>7, <2>1 DEF BookkeepingFails, Abandon, TypeOK
  <2>2. CASE q = p
    <3>1. batch'[q] = <<>>
      BY <1>0, <1>7, <2>2 DEF BookkeepingFails, Abandon, TypeOK
    <3>. QED BY <3>1, EmptySeq DEF Untried
  <2>. QED BY <2>1, <2>2
<1>. QED BY <1>2, <1>3, <1>5, <1>6, <1>7 DEF QueueMoves, WorkerStep

\* A batch whose job has ended still has it in hand, and it has used no attempt since.
LEMMA QueueMovesOutcome ==
  ASSUME QueueInv, Unhandled = {}, QueueMoves, NEW q \in Polls,
         phase'[q] \in {"ok", "transient", "permanent"}
  PROVE  /\ batch'[q] = batch[q] /\ phase[q] # "idle"
         /\ attempts'[Current(q)] = attempts[Current(q)]
         /\ phase'[q] = phase[q] \/ (phase[q] = "ok" /\ phase'[q] = "transient")
<1>0. TypeOK /\ IdleHoldsNothing
  BY DEF QueueInv
<1>1. /\ batch'[q] = batch[q]
      /\ phase'[q] = phase[q] \/ (phase[q] = "ok" /\ phase'[q] = "transient")
  <2>1. ASSUME NEW k \in Jobs, BecomeDue(k) \/ RetryJob(k)
        PROVE  batch'[q] = batch[q] /\ phase'[q] = phase[q]
    BY <2>1 DEF BecomeDue, RetryJob, memory
  <2>2. ASSUME NEW p \in Polls, ClaimDue(p)
        PROVE  batch'[q] = batch[q] /\ phase'[q] = phase[q]
    BY <1>0, <2>2 DEF ClaimDue, TypeOK
  <2>3. ASSUME NEW p \in Polls, Advance(p) \/ Abandon(p)
        PROVE  batch'[q] = batch[q] /\ phase'[q] = phase[q]
    BY <1>0, <2>3 DEF Advance, Abandon, TypeOK
  <2>4. ASSUME NEW p \in Polls, FinishFails(p)
        PROVE  /\ batch'[q] = batch[q]
               /\ phase'[q] = phase[q] \/ (phase[q] = "ok" /\ phase'[q] = "transient")
    BY <1>0, <2>4 DEF FinishFails, TypeOK
  <2>. QED BY <2>1, <2>2, <2>3, <2>4
           DEF QueueMoves, WorkerStep, Finish, DeadLetter, BackOff, BookkeepingFails
<1>2. phase[q] # "idle"
  BY <1>1
<1>3. Current(q) \in Jobs /\ status[Current(q)] = "RUNNING"
  BY <1>2, BusyHoldsARunningJob
<1>4. attempts'[Current(q)] = attempts[Current(q)]
  BY <1>3, QueueMovesRow
<1>. QED BY <1>1, <1>2, <1>4

\* Steps that answer no fulfilment and leave the batches alone.
LEMMA RetryFrame ==
  ASSUME RetryInv, RowsInv',
         \A j \in Jobs : ful'[j] = ful[j] \/ (ful'[j] = "PENDING_SUPPLIER" /\ ful[j] = "NONE"),
         UNCHANGED <<batch, phase, attempts, retries>>,
         \A j \in Jobs : status'[j] = status[j] \/ status[j] = "ABSENT",
         lapses' = 0 => lapses = 0
  PROVE  UntriedIsOpen' /\ ExceptionMeansExhausted' /\ OkIsAnswered' /\ LastTryIsParked'
<1>0. QueueInv /\ UntriedIsOpen /\ ExceptionMeansExhausted /\ OkIsAnswered /\ LastTryIsParked
      /\ RowsInv
  BY DEF RetryInv, RowsInv
<1>1. UntriedIsOpen'
  BY <1>0 DEF UntriedIsOpen, Untried
<1>2. ExceptionMeansExhausted'
  BY <1>0 DEF ExceptionMeansExhausted
<1>3. \A p \in Polls : phase[p] # "idle" =>
        Current(p) \in Jobs /\ ful'[Current(p)] = ful[Current(p)] /\ Current(p)' = Current(p)
  <2>1. ASSUME NEW p \in Polls, phase[p] # "idle"
        PROVE  Current(p) \in Jobs /\ ful[Current(p)] # "NONE"
    BY <1>0, <2>1, BusyHoldsARunningJob DEF RowsInv, RowsHaveTheirOrder
  <2>. QED BY <2>1 DEF Current
<1>4. OkIsAnswered' /\ LastTryIsParked'
  BY <1>0, <1>3 DEF OkIsAnswered, LastTryIsParked
<1>. QED BY <1>1, <1>2, <1>4

\* A statement of the tool: what it makes pending it goes on to enqueue.
LEMMA ToolMovesRetry ==
  ASSUME RetryInv, RowsInv', NEW c \in Callers, ToolMoves(c)
  PROVE  RetryInv'
<1>0. FulfillmentTypes /\ TypeOK /\ PendingIsPlaced /\ tool[c] \in ToolState
      /\ RowsHaveTheirOrder
  BY DEF RetryInv, RowsInv, QueueInv, FulfillmentTypes
<1>. USE DEF queueVars, rows, memory, worker
<1>1. Lapse => lapses' # 0
  BY <1>0 DEF Lapse, FulfillmentTypes
<1>2. /\ \A j \in Jobs : ful'[j] = ful[j] \/ (ful'[j] = "PENDING_SUPPLIER" /\ ful[j] = "NONE")
      /\ UNCHANGED <<batch, phase, attempts, retries, crashes>>
      /\ \A j \in Jobs : status'[j] = status[j] \/ (status[j] = "ABSENT" /\ status'[j] = "READY")
      /\ lapses' = 0 => lapses = 0 /\ ~ToolThrows(c)
  <2>1. CASE (\E o \in Orders : FindNoFulfillment(c, o)) \/ (\E f \in Jobs : CreateFulfillment(c, f))
    BY <1>0, <1>1, <2>1 DEF FindNoFulfillment, CreateFulfillment, ToolThrows, FulfillmentTypes
  <2>2. CASE EnqueueJob(c)
    BY <1>0, <1>1, <2>2 DEF EnqueueJob, Enqueue, ToolThrows, FulfillmentTypes, TypeOK
  <2>3. CASE ToolThrows(c)
    BY <1>0, <1>1, <2>3 DEF ToolThrows, FulfillmentTypes
  <2>. QED BY <2>1, <2>2, <2>3 DEF ToolMoves
<1>3. UntriedIsOpen' /\ ExceptionMeansExhausted' /\ OkIsAnswered' /\ LastTryIsParked'
  <2>1. \A j \in Jobs : status'[j] = status[j] \/ status[j] = "ABSENT"
    BY <1>2
  <2>. QED BY <1>2, <2>1, RetryFrame
<1>4. PendingIsPlaced'
  <2>. SUFFICES ASSUME crashes' + lapses' = 0, NEW f \in Jobs, ful'[f] = "PENDING_SUPPLIER"
                PROVE  \/ \E d \in Callers : tool'[d] = [at |-> "enqueue", id |-> f]
                       \/ status'[f] \in {"READY", "RUNNING"}
                       \/ status'[f] = "DEAD" /\ attempts'[f] < MaxAttempts
    BY DEF PendingIsPlaced
  <2>0. crashes = 0 /\ lapses' = 0
    <3>1. crashes' \in Nat /\ lapses' \in Nat /\ crashes' = crashes
      BY <1>0, <1>2 DEF TypeOK, RowsInv, QueueInv, FulfillmentTypes
    <3>2. \A m, n \in Nat : m + n = 0 => m = 0 /\ n = 0
      OBVIOUS
    <3>. QED BY <3>1, <3>2
  <2>1. lapses = 0 /\ ~ToolThrows(c)
    BY <1>2, <2>0
  <2>2. ful[f] = "PENDING_SUPPLIER" =>
          \/ \E d \in Callers : tool[d] = [at |-> "enqueue", id |-> f]
          \/ status[f] \in {"READY", "RUNNING"}
          \/ status[f] = "DEAD" /\ attempts[f] < MaxAttempts
    BY <1>0, <2>0, <2>1 DEF PendingIsPlaced
  <2>3. CASE ful[f] = "PENDING_SUPPLIER"
             /\ (status[f] \in {"READY", "RUNNING"} \/ (status[f] = "DEAD" /\ attempts[f] < MaxAttempts))
    BY <1>2, <2>3
  <2>4. ASSUME NEW d \in Callers, tool[d] = [at |-> "enqueue", id |-> f]
        PROVE  \/ tool'[d] = [at |-> "enqueue", id |-> f]
               \/ status'[f] \in {"READY", "RUNNING"}
    <3>1. tool[d].at = "enqueue" /\ tool[d].id = f
      BY <2>4
    <3>2. CASE d # c
      BY <1>0, <2>1, <2>4, <3>2
         DEF ToolMoves, FindNoFulfillment, CreateFulfillment, EnqueueJob, FulfillmentTypes
    <3>3. CASE d = c
      <4>1. EnqueueJob(c)
        BY <2>1, <3>1, <3>3 DEF ToolMoves, FindNoFulfillment, CreateFulfillment, Idle
      <4>. QED BY <1>0, <3>1, <3>3, <4>1 DEF EnqueueJob, Enqueue, TypeOK
    <3>. QED BY <3>2, <3>3
  <2>5. CASE ful[f] # "PENDING_SUPPLIER"
    <3>1. CreateFulfillment(c, f)
      BY <1>0, <2>1, <2>5
         DEF ToolMoves, FindNoFulfillment, CreateFulfillment, EnqueueJob, FulfillmentTypes
    <3>. QED BY <1>0, <3>1 DEF CreateFulfillment, FulfillmentTypes
  <2>. QED BY <2>2, <2>3, <2>4, <2>5
<1>. QED BY <1>3, <1>4 DEF RetryInv

\* A turn of the handler: it parks what it works on, in its last attempt.
LEMMA HandlerMovesRetry ==
  ASSUME RetryInv, RowsInv', NEW p \in Polls, HandlerMoves(p)
  PROVE  RetryInv'
<1>0. /\ FulfillmentTypes /\ TypeOK /\ HeldOnce /\ AttemptLeft /\ QueueInv /\ RowsInv
      /\ UntriedIsOpen /\ ExceptionMeansExhausted /\ OkIsAnswered /\ LastTryIsParked
      /\ PendingIsPlaced /\ CallsArePending
  BY DEF RetryInv, RowsInv, QueueInv
<1>1. /\ phase[p] = "handling" /\ UNCHANGED <<rows, batch, crashes, orderOf, tool>>
      /\ \E s \in Phase \ {"idle"} : phase' = [phase EXCEPT ![p] = s]
      /\ \/ ful' = ful
         \/ call[p] # "none" /\ \E s \in FulfillmentStatus \ {"NONE"} : ful' = [ful EXCEPT ![Current(p)] = s]
  BY <1>0, HandlerStepEffect
<1>2. PICK f \in Jobs : f = Current(p)
  BY <1>0, <1>1, CallersOfTheSupplier
<1>3. status[f] = "RUNNING" /\ batch[p][1] = f /\ 1 \in 1 .. Len(batch[p])
  BY <1>0, <1>1, <1>2, BusyHoldsARunningJob
<1>4. /\ phase'[p] = "ok" => ful'[f] # "PENDING_SUPPLIER"
      /\ ful'[f] = "EXCEPTION" =>
           \/ ful[f] = "EXCEPTION" /\ phase'[p] \in {"handling", "ok"}
           \/ attempts[f] >= MaxAttempts /\ phase'[p] \in {"transient", "permanent"}
      /\ phase'[p] \in {"transient", "permanent"} /\ attempts[f] >= MaxAttempts
         /\ lapses' = 0 => ful'[f] # "PENDING_SUPPLIER"
      /\ lapses' = 0 => lapses = 0
  BY <1>0, <1>2, HandlerOutcome
<1>5. UNCHANGED <<status, attempts, retries, batch, crashes, tool>>
      /\ (\A q \in Polls \ {p} : phase'[q] = phase[q])
      /\ (\A g \in Jobs \ {f} : ful'[g] = ful[g])
  BY <1>0, <1>1, <1>2 DEF rows, TypeOK, FulfillmentTypes
<1>6. \A q \in Polls \ {p} : phase[q] # "idle" => Current(q) \in Jobs \ {f}
  <2>. SUFFICES ASSUME NEW q \in Polls \ {p}, phase[q] # "idle" PROVE Current(q) \in Jobs \ {f}
    OBVIOUS
  <2>1. Current(q) \in Jobs /\ Current(q) = batch[q][1] /\ 1 \in 1 .. Len(batch[q])
    BY <1>0, BusyHoldsARunningJob
  <2>. QED BY <1>0, <1>3, <2>1 DEF HeldOnce
<1>7. UntriedIsOpen'
  <2>. SUFFICES ASSUME NEW q \in Polls, NEW j \in Jobs, Untried(q, j)', ful'[j] = "EXCEPTION"
                PROVE  retries[j] > 0
    BY <1>5 DEF UntriedIsOpen
  <2>1. PICK i \in 1 .. Len(batch[q]) : batch[q][i] = j /\ (i = 1 => phase'[q] \in {"handling", "ok"})
    BY <1>5 DEF Untried
  <2>2. Untried(q, j)
    BY <1>1, <1>5, <2>1 DEF Untried
  <2>3. CASE ful[j] = "EXCEPTION"
    BY <1>0, <2>2, <2>3 DEF UntriedIsOpen
  <2>4. CASE ful[j] # "EXCEPTION"
    <3>1. j = f /\ phase'[p] \in {"transient", "permanent"}
      BY <1>4, <1>5, <2>4
    <3>2. q = p /\ i = 1
      BY <1>0, <1>3, <2>1, <3>1 DEF HeldOnce
    <3>. QED BY <2>1, <3>1, <3>2
  <2>. QED BY <2>3, <2>4
<1>8. ExceptionMeansExhausted'
  <2>. SUFFICES ASSUME NEW j \in Jobs, ful'[j] = "EXCEPTION", retries[j] = 0
                PROVE  status[j] \in {"RUNNING", "DEAD"} /\ attempts[j] = MaxAttempts
    BY <1>5 DEF ExceptionMeansExhausted
  <2>1. CASE ful[j] = "EXCEPTION"
    BY <1>0, <2>1 DEF ExceptionMeansExhausted
  <2>2. CASE ful[j] # "EXCEPTION"
    <3>1. j = f /\ attempts[f] >= MaxAttempts
      BY <1>4, <1>5, <2>2
    <3>2. attempts[f] <= MaxAttempts
      BY <1>0, QueueAssumption DEF TypeOK, QueueAssumption
    <3>. QED BY <1>0, <1>3, <3>1, <3>2, QueueAssumption DEF TypeOK, QueueAssumption
  <2>. QED BY <2>1, <2>2
<1>9. OkIsAnswered' /\ LastTryIsParked'
  <2>1. ASSUME NEW q \in Polls, phase'[q] = "ok" PROVE ful'[Current(q)] # "PENDING_SUPPLIER"
    <3>1. CASE q = p
      BY <1>2, <1>4, <2>1, <3>1
    <3>2. CASE q # p
      BY <1>0, <1>5, <1>6, <2>1, <3>2 DEF OkIsAnswered
    <3>. QED BY <3>1, <3>2
  <2>2. ASSUME lapses' = 0, NEW q \in Polls, phase'[q] \in {"transient", "permanent"},
               attempts[Current(q)] >= MaxAttempts
        PROVE  ful'[Current(q)] # "PENDING_SUPPLIER"
    <3>1. CASE q = p
      BY <1>2, <1>4, <2>2, <3>1
    <3>2. CASE q # p
      BY <1>0, <1>4, <1>5, <1>6, <2>2, <3>2 DEF LastTryIsParked
    <3>. QED BY <3>1, <3>2
  <2>3. \A q \in Polls : Current(q)' = Current(q)
    BY <1>5 DEF Current
  <2>. QED BY <1>5, <2>1, <2>2, <2>3 DEF OkIsAnswered, LastTryIsParked
<1>10. PendingIsPlaced'
  <2>. SUFFICES ASSUME crashes' + lapses' = 0, NEW g \in Jobs, ful'[g] = "PENDING_SUPPLIER"
                PROVE  \/ \E d \in Callers : tool[d] = [at |-> "enqueue", id |-> g]
                       \/ status[g] \in {"READY", "RUNNING"}
                       \/ status[g] = "DEAD" /\ attempts[g] < MaxAttempts
    BY <1>5 DEF PendingIsPlaced
  <2>0. crashes = 0 /\ lapses' = 0
    <3>1. crashes' \in Nat /\ lapses' \in Nat /\ crashes' = crashes
      BY <1>0, <1>5 DEF TypeOK, RowsInv, QueueInv, FulfillmentTypes
    <3>2. \A m, n \in Nat : m + n = 0 => m = 0 /\ n = 0
      OBVIOUS
    <3>. QED BY <3>1, <3>2
  <2>1. CASE g = f
    BY <1>3, <2>1
  <2>2. CASE g # f
    BY <1>0, <1>4, <1>5, <2>0, <2>2 DEF PendingIsPlaced
  <2>. QED BY <2>1, <2>2
<1>. QED BY <1>7, <1>8, <1>9, <1>10 DEF RetryInv

\* A step of the queue: a job that ends DEAD or DONE has had its fulfilment
\* answered, and one that is claimed once more has it open or revived.
LEMMA QueueMovesRetry ==
  ASSUME RetryInv, RowsInv', QueueMoves, UNCHANGED <<worker, callerVars, lapses>>
  PROVE  RetryInv'
<1>0. /\ FulfillmentTypes /\ TypeOK /\ AttemptLeft /\ QueueInv /\ RowsInv
      /\ UntriedIsOpen /\ ExceptionMeansExhausted /\ OkIsAnswered /\ LastTryIsParked
      /\ PendingIsPlaced /\ Unhandled = {}
  BY FulfillmentAssumption DEF RetryInv, RowsInv, QueueInv, FulfillmentAssumption
<1>1. UNCHANGED <<ful, tool, lapses>> /\ TypeOK'
  BY DEF worker, callerVars, RowsInv, QueueInv
<1>. USE QueueAssumption DEF QueueAssumption
<1>2. UntriedIsOpen'
  <2>. SUFFICES ASSUME NEW q \in Polls, NEW j \in Jobs, Untried(q, j)', ful[j] = "EXCEPTION"
                PROVE  retries'[j] > 0
    BY <1>1 DEF UntriedIsOpen
  <2>1. Untried(q, j) \/ status[j] = "READY"
    BY <1>0, QueueMovesUntried
  <2>2. retries[j] \in Nat /\ retries[j] # 0
    <3>1. retries[j] \in Nat
      BY <1>0 DEF TypeOK
    <3>2. Untried(q, j) => retries[j] > 0
      BY <1>0 DEF UntriedIsOpen
    <3>3. status[j] = "READY" => retries[j] # 0
      BY <1>0 DEF ExceptionMeansExhausted
    <3>. QED BY <2>1, <3>1, <3>2, <3>3
  <2>3. retries'[j] \in {retries[j], retries[j] + 1}
    BY <1>0, QueueMovesRow
  <2>. QED BY <1>0, <2>2, <2>3 DEF TypeOK
<1>3. ExceptionMeansExhausted'
  <2>. SUFFICES ASSUME NEW j \in Jobs, ful[j] = "EXCEPTION", retries'[j] = 0
                PROVE  status'[j] \in {"RUNNING", "DEAD"} /\ attempts'[j] = MaxAttempts
    BY <1>1 DEF ExceptionMeansExhausted
  <2>1. retries[j] = 0 /\ retries'[j] # retries[j] + 1
    BY <1>0, QueueMovesRow DEF TypeOK
  <2>2. status[j] \in {"RUNNING", "DEAD"} /\ attempts[j] = MaxAttempts
    BY <1>0, <2>1 DEF ExceptionMeansExhausted
  <2>3. ASSUME NEW p \in Polls, Current(p) = j, phase[p] = "ok" PROVE FALSE
    <3>1. batch[p][1] = j /\ 1 \in 1 .. Len(batch[p])
      BY <1>0, <2>3, BusyHoldsARunningJob
    <3>2. Untried(p, j)
      BY <2>3, <3>1 DEF Untried
    <3>. QED BY <1>0, <2>1, <3>2 DEF UntriedIsOpen
  <2>. QED BY <1>0, <2>1, <2>2, <2>3, QueueMovesRow
<1>4. OkIsAnswered' /\ LastTryIsParked'
  <2>1. ASSUME NEW q \in Polls, phase'[q] \in {"ok", "transient", "permanent"}
        PROVE  /\ Current(q)' = Current(q) /\ Current(q) \in Jobs
               /\ attempts'[Current(q)] = attempts[Current(q)]
               /\ phase'[q] = phase[q] \/ (phase[q] = "ok" /\ phase'[q] = "transient")
    <3>1. /\ batch'[q] = batch[q] /\ phase[q] # "idle"
          /\ attempts'[Current(q)] = attempts[Current(q)]
          /\ phase'[q] = phase[q] \/ (phase[q] = "ok" /\ phase'[q] = "transient")
      BY <1>0, <2>1, QueueMovesOutcome
    <3>. QED BY <1>0, <3>1, BusyHoldsARunningJob DEF Current
  <2>2. OkIsAnswered'
    BY <1>0, <1>1, <2>1 DEF OkIsAnswered
  <2>3. ASSUME lapses' = 0, NEW q \in Polls, phase'[q] \in {"transient", "permanent"},
               attempts'[Current(q)'] >= MaxAttempts
        PROVE  ful'[Current(q)'] # "PENDING_SUPPLIER"
    <3>1. /\ Current(q)' = Current(q) /\ attempts'[Current(q)] = attempts[Current(q)]
          /\ phase[q] \in {"ok", "transient", "permanent"}
      BY <2>1, <2>3
    <3>. QED BY <1>0, <1>1, <2>3, <3>1 DEF OkIsAnswered, LastTryIsParked
  <2>4. LastTryIsParked'
    BY <2>3 DEF LastTryIsParked
  <2>. QED BY <2>2, <2>4
<1>5. PendingIsPlaced'
  <2>. SUFFICES ASSUME crashes + lapses = 0, NEW g \in Jobs, ful[g] = "PENDING_SUPPLIER"
                PROVE  \/ \E d \in Callers : tool[d] = [at |-> "enqueue", id |-> g]
                       \/ status'[g] \in {"READY", "RUNNING"}
                       \/ status'[g] = "DEAD" /\ attempts'[g] < MaxAttempts
    <3>1. crashes' = crashes
      BY DEF QueueMoves, WorkerStep, ClaimDue, Finish, FinishFails, DeadLetter, BackOff,
             BookkeepingFails, BecomeDue, RetryJob
    <3>. QED BY <1>1, <3>1 DEF PendingIsPlaced
  <2>1. \/ \E d \in Callers : tool[d] = [at |-> "enqueue", id |-> g]
        \/ status[g] \in {"READY", "RUNNING"}
        \/ status[g] = "DEAD" /\ attempts[g] < MaxAttempts
    BY <1>0 DEF PendingIsPlaced
  <2>2. lapses = 0 /\ crashes = 0
    BY <1>0 DEF TypeOK, FulfillmentTypes
  <2>3. ASSUME NEW p \in Polls, Current(p) = g
        PROVE  /\ phase[p] # "ok"
               /\ phase[p] \in {"transient", "permanent"} => attempts[g] < MaxAttempts
    BY <1>0, <2>2, <2>3 DEF OkIsAnswered, LastTryIsParked, TypeOK
  <2>. QED BY <1>0, <2>1, <2>3, QueueMovesRow
<1>. QED BY <1>2, <1>3, <1>4, <1>5 DEF RetryInv

LEMMA RetryNextInv == RetryInv /\ [FulfillmentNext]_fulfillmentVars => RetryInv'
<1>. SUFFICES ASSUME RetryInv, [FulfillmentNext]_fulfillmentVars PROVE RetryInv'
  OBVIOUS
<1>0. RowsInv /\ RowsInv' /\ TypeOK /\ FulfillmentTypes
  BY RowsNextInv DEF RetryInv, RowsInv, QueueInv
<1>1. CASE AppCrash
  <2>1. /\ batch' = [p \in Polls |-> <<>>] /\ phase' = [p \in Polls |-> "idle"]
        /\ crashes' = crashes + 1 /\ UNCHANGED <<ful, status, attempts, retries, lapses>>
    BY <1>1 DEF AppCrash, Crash, rows
  <2>2. \A p \in Polls, j \in Jobs : ~Untried(p, j)'
    <3>1. \A p \in Polls : batch'[p] = <<>>
      BY <2>1
    <3>. QED BY <3>1, EmptySeq DEF Untried
  <2>3. PendingIsPlaced'
    BY <1>0, <2>1 DEF PendingIsPlaced, TypeOK, FulfillmentTypes
  <2>. QED BY <1>0, <2>1, <2>2, <2>3
           DEF RetryInv, UntriedIsOpen, ExceptionMeansExhausted, OkIsAnswered, LastTryIsParked
<1>2. CASE UNCHANGED fulfillmentVars
  BY <1>0, <1>2
     DEF RetryInv, UntriedIsOpen, Untried, ExceptionMeansExhausted, OkIsAnswered,
         LastTryIsParked, PendingIsPlaced, Current, fulfillmentVars, queueVars, rows, memory
<1>. QED BY <1>0, <1>1, <1>2, WhoMoves, ToolMovesRetry, HandlerMovesRetry, QueueMovesRetry

\* The invariant behind the next two theorems, for any number of processes.
THEOREM RetryInvariance == FulfillmentSafeSpec => []RetryInv
<1>1. FulfillmentInit => RetryInv
  <2>. SUFFICES ASSUME FulfillmentInit PROVE RetryInv
    OBVIOUS
  <2>1. RowsInv
    BY RowsInitInv
  <2>. QED BY <2>1
           DEF FulfillmentInit, QueueInit, RetryInv, UntriedIsOpen, ExceptionMeansExhausted,
               OkIsAnswered, LastTryIsParked, PendingIsPlaced
<1>. QED BY <1>1, RetryNextInv, PTL DEF FulfillmentSafeSpec

\* A fulfilment whose job no operator revived is parked only with the last attempt.
THEOREM ExceptionsAreExhausted == FulfillmentSafeSpec => []ExceptionMeansExhausted
<1>1. RetryInv => ExceptionMeansExhausted
  BY DEF RetryInv
<1>. QED BY <1>1, RetryInvariance, PTL

\* Without an interruption, a fulfilment is pending only while its job lies ahead
\* of it, is being run, or was given up before the last attempt.
THEOREM PendingStaysExplained == FulfillmentSafeSpec => []PendingIsExplained
<1>1. RetryInv => PendingIsExplained
  <2>. SUFFICES ASSUME RetryInv, crashes + faults + lapses = 0 PROVE PendingIsExplained
    BY DEF PendingIsExplained
  <2>1. crashes + lapses = 0 /\ crashes + faults = 0
    BY DEF RetryInv, RowsInv, QueueInv, TypeOK, FulfillmentTypes
  <2>. QED BY <2>1
           DEF RetryInv, RowsInv, QueueInv, PendingIsPlaced, PendingIsExplained,
               OnlyInterruptionsStrand
<1>. QED BY <1>1, RetryInvariance, PTL
=============================================================================
