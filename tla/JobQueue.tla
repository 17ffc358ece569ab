------------------------------ MODULE JobQueue ------------------------------
(***************************************************************************)
(* The durable job queue of events/queue.ts: the job_queue table, the      *)
(* batches that runDueJobs claims from it and works through one job at a   *)
(* time, retries with backoff, the dead letter queue and retryJob.         *)
(*                                                                         *)
(* The rows survive a restart.  A batch is the array of claimed jobs a     *)
(* runDueJobs call is iterating over: it lives in memory and does not.     *)
(* The poller never waits for the previous batch (setInterval), so several *)
(* batches are under way at once.  What a handler does is left open here:  *)
(* it ends well, or with an error a retry may fix, or with one it cannot.  *)
(*                                                                         *)
(* Time is abstracted to what the claim query sees of it: a READY row is   *)
(* `delayed' while its run_after lies ahead and joins the end of `due'     *)
(* when it passes, so `due' is the READY rows in ORDER BY run_after order. *)
(***************************************************************************)
EXTENDS Naturals, Sequences, SequencesExt

CONSTANTS
  Jobs,         \* the identifiers newId may hand out, each used at most once
  Unhandled,    \* jobs of a kind nobody registered a handler for
  Polls,        \* runDueJobs calls that may be under way together
  MaxAttempts,  \* MAX_ATTEMPTS
  ClaimLimit,   \* the limit of one claim
  MaxRetries,   \* bound: how often retryJob revives one job
  MaxCrashes,   \* bound: how often the process dies
  MaxFaults     \* bound: how many writes of the bookkeeping fail

ASSUME QueueAssumption ==
  /\ Unhandled \subseteq Jobs
  /\ MaxAttempts \in Nat \ {0}
  /\ ClaimLimit \in Nat \ {0}
  /\ MaxRetries \in Nat
  /\ MaxCrashes \in Nat
  /\ MaxFaults \in Nat

VARIABLES
  status,    \* job_queue.status of each job, ABSENT before it is enqueued
  attempts,  \* job_queue.attempts
  retries,   \* how often retryJob has revived the job (bounds the model)
  due,       \* READY rows whose run_after has passed, in claim order
  delayed,   \* READY rows whose run_after lies ahead
  batch,     \* the jobs each runDueJobs call has claimed and not yet dealt with
  phase,     \* how far the call is with the first of them
  crashes,   \* how often the process has died
  faults     \* how many bookkeeping writes have failed

rows == <<status, attempts, retries, due, delayed>>
memory == <<batch, phase>>
queueVars == <<status, attempts, retries, due, delayed, batch, phase, crashes, faults>>

Status == {"ABSENT", "READY", "RUNNING", "DONE", "DEAD"}
Phase == {"idle", "handling", "ok", "transient", "permanent"}

TypeOK ==
  /\ status \in [Jobs -> Status]
  /\ attempts \in [Jobs -> 0 .. MaxAttempts]
  /\ retries \in [Jobs -> 0 .. MaxRetries]
  /\ due \in Seq(Jobs)
  /\ delayed \subseteq Jobs
  /\ batch \in [Polls -> Seq(Jobs)]
  /\ phase \in [Polls -> Phase]
  /\ crashes \in 0 .. MaxCrashes
  /\ faults \in 0 .. MaxFaults

QueueInit ==
  /\ status = [j \in Jobs |-> "ABSENT"]
  /\ attempts = [j \in Jobs |-> 0]
  /\ retries = [j \in Jobs |-> 0]
  /\ due = <<>>
  /\ delayed = {}
  /\ batch = [p \in Polls |-> <<>>]
  /\ phase = [p \in Polls |-> "idle"]
  /\ crashes = 0
  /\ faults = 0

-----------------------------------------------------------------------------
(* The table.                                                              *)

\* INSERT of a fresh row, due at once: no caller in src/ passes delayMs.
Enqueue(j) ==
  /\ status[j] = "ABSENT"
  /\ status' = [status EXCEPT ![j] = "READY"]
  /\ due' = Append(due, j)
  /\ UNCHANGED <<attempts, retries, delayed, memory, crashes, faults>>

\* The clock reaches the run_after of a row that was backing off.
BecomeDue(j) ==
  /\ j \in delayed
  /\ delayed' = delayed \ {j}
  /\ due' = Append(due, j)
  /\ UNCHANGED <<status, attempts, retries, memory, crashes, faults>>

\* An operator revives a dead letter.  run_after = now puts it behind every
\* row that is already due.
RetryJob(j) ==
  /\ status[j] = "DEAD"
  /\ retries[j] < MaxRetries
  /\ status' = [status EXCEPT ![j] = "READY"]
  /\ attempts' = [attempts EXCEPT ![j] = 0]
  /\ retries' = [retries EXCEPT ![j] = @ + 1]
  /\ due' = Append(due, j)
  /\ UNCHANGED <<delayed, memory, crashes, faults>>

-----------------------------------------------------------------------------
(* One runDueJobs call.                                                    *)

ClaimSize == IF Len(due) < ClaimLimit THEN Len(due) ELSE ClaimLimit
Claimed == SubSeq(due, 1, ClaimSize)
\* Mutant: the claim does not take the rows out of the READY ones.
UnclaimedKept == due

Unclaimed == SubSeq(due, ClaimSize + 1, Len(due))

\* The claim transaction: the oldest due rows become RUNNING, one attempt
\* dearer, and are this call's batch.
ClaimDue(p) ==
  /\ batch[p] = <<>>
  /\ due # <<>>
  /\ status' = [j \in Jobs |-> IF j \in ToSet(Claimed) THEN "RUNNING" ELSE status[j]]
  /\ attempts' = [j \in Jobs |-> attempts[j] + (IF j \in ToSet(Claimed) THEN 1 ELSE 0)]
  /\ due' = Unclaimed
  /\ batch' = [batch EXCEPT ![p] = Claimed]
  /\ phase' = [phase EXCEPT ![p] = "handling"]
  /\ UNCHANGED <<retries, delayed, crashes, faults>>

\* The job a call is running.
Current(p) == Head(batch[p])

\* Mutant: the call returns after the first job it claimed.
AdvanceReturns(p) ==
  /\ batch' = [batch EXCEPT ![p] = <<>>]
  /\ phase' = [phase EXCEPT ![p] = "idle"]

\* runDueJobs moves on to the next job it claimed, or returns.
Advance(p) ==
  /\ batch' = [batch EXCEPT ![p] = Tail(@)]
  /\ phase' = [phase EXCEPT ![p] = IF Tail(batch[p]) = <<>> THEN "idle" ELSE "handling"]

\* The call is abandoned: an error left runJob, and the rest of the batch with it.
Abandon(p) ==
  /\ batch' = [batch EXCEPT ![p] = <<>>]
  /\ phase' = [phase EXCEPT ![p] = "idle"]

Fault == faults < MaxFaults /\ faults' = faults + 1

\* The awaited handler returns or throws.
HandlerEnds(p, outcome) ==
  /\ phase[p] = "handling"
  /\ Current(p) \notin Unhandled
  /\ phase' = [phase EXCEPT ![p] = outcome]
  /\ UNCHANGED <<rows, batch, crashes, faults>>

\* finish(job.id, "DONE"), which writes whatever the row holds by now.
Finish(p) ==
  /\ phase[p] = "ok"
  /\ status' = [status EXCEPT ![Current(p)] = "DONE"]
  /\ Advance(p)
  /\ UNCHANGED <<attempts, retries, due, delayed, crashes, faults>>

\* finish stands inside the try: if its write fails, the job failed.
FinishFails(p) ==
  /\ phase[p] = "ok"
  /\ Fault
  /\ phase' = [phase EXCEPT ![p] = "transient"]
  /\ UNCHANGED <<rows, batch, crashes>>

Exhausted(j) == attempts[j] >= MaxAttempts

\* No handler is registered for the kind: the job is dead-lettered unrun.
Unrunnable(p) == phase[p] = "handling" /\ Current(p) \in Unhandled

GivenUp(p) ==
  \/ Unrunnable(p)
  \/ phase[p] = "permanent"
  \/ phase[p] = "transient" /\ Exhausted(Current(p))

ComesBack(p) == phase[p] = "transient" /\ ~Exhausted(Current(p))

MarkDead(p) ==
  /\ GivenUp(p)
  /\ status' = [status EXCEPT ![Current(p)] = "DEAD"]
  /\ UNCHANGED <<attempts, retries, due, delayed>>

\* Mutant: the row is left RUNNING.
MarkDelayedForgets(p) == ComesBack(p) /\ UNCHANGED rows

\* The new run_after is ahead of now, as the vendor advised or by backoffMs.
MarkDelayed(p) ==
  /\ ComesBack(p)
  /\ status' = [status EXCEPT ![Current(p)] = "READY"]
  /\ delayed' = delayed \cup {Current(p)}
  /\ UNCHANGED <<attempts, retries, due>>

DeadLetter(p) == MarkDead(p) /\ Advance(p) /\ UNCHANGED <<crashes, faults>>

BackOff(p) == MarkDelayed(p) /\ Advance(p) /\ UNCHANGED <<crashes, faults>>

\* Recording the failure fails in its turn, either at the row update or at the
\* event published after it.  The error leaves runDueJobs and takes the batch along.
BookkeepingFails(p) ==
  /\ Fault
  /\ \/ (GivenUp(p) \/ ComesBack(p)) /\ UNCHANGED rows
     \/ MarkDead(p)
     \/ MarkDelayed(p)
  /\ Abandon(p)
  /\ UNCHANGED crashes

\* The process dies and comes back: the table is as it was, every batch is gone.
Crash ==
  /\ crashes < MaxCrashes
  /\ crashes' = crashes + 1
  /\ batch' = [p \in Polls |-> <<>>]
  /\ phase' = [p \in Polls |-> "idle"]
  /\ UNCHANGED <<rows, faults>>

QueueNext ==
  \/ \E j \in Jobs : Enqueue(j) \/ BecomeDue(j) \/ RetryJob(j)
  \/ \E p \in Polls :
       \/ ClaimDue(p)
       \/ \E outcome \in {"ok", "transient", "permanent"} : HandlerEnds(p, outcome)
       \/ Finish(p)
       \/ FinishFails(p)
       \/ DeadLetter(p)
       \/ BackOff(p)
       \/ BookkeepingFails(p)
  \/ Crash

QueueSafeSpec == QueueInit /\ [][QueueNext]_queueVars

\* The poller fires every POLL_MS whatever the other batches do; a handler
\* returns (the vendor call carries a timeout); time passes.  Nothing obliges
\* callers to enqueue, operators to retry, or anything to fail.
QueueFairness ==
  /\ WF_queueVars(\E p \in Polls : ClaimDue(p))
  /\ \A j \in Jobs : WF_queueVars(BecomeDue(j))
  /\ \A p \in Polls :
       /\ WF_queueVars(\E outcome \in {"ok", "transient", "permanent"} : HandlerEnds(p, outcome))
       /\ WF_queueVars(Finish(p) \/ DeadLetter(p) \/ BackOff(p))

QueueSpec == QueueSafeSpec /\ QueueFairness

-----------------------------------------------------------------------------
(* Properties.                                                             *)

\* Some runDueJobs call holds the job.
InFlight(j) == \E p \in Polls : j \in ToSet(batch[p])

\* A job is in one batch at one place ...
HeldOnce ==
  \A p, q \in Polls : \A i \in 1 .. Len(batch[p]), k \in 1 .. Len(batch[q]) :
    batch[p][i] = batch[q][k] => p = q /\ i = k

\* ... and its row says RUNNING meanwhile.
HeldIsRunning == \A p \in Polls : \A i \in 1 .. Len(batch[p]) : status[batch[p][i]] = "RUNNING"

\* finish, deadLetter and the backoff UPDATE carry no status guard: they are
\* right only because no two overlapping batches ever hold the same job, and
\* nothing else moves the row of a job that is held.
ExclusiveClaim == HeldOnce /\ HeldIsRunning

\* A row that will be claimed has an attempt left, so no claim runs a job
\* more often than MAX_ATTEMPTS allows: the cap holds across backoffs, restarts and retryJob.
AttemptLeft == \A j \in Jobs : status[j] = "READY" => attempts[j] < MaxAttempts

\* As long as no crash and no failed write interrupts a batch, every RUNNING
\* row is held by a call that will deal with it: runJob leaves none behind,
\* whichever way each job before it in the batch ended.
OnlyInterruptionsStrand ==
  crashes + faults = 0 => \A j \in Jobs : status[j] = "RUNNING" => InFlight(j)

\* Across overlapping batches, crashes and failed writes, a DONE job stays
\* DONE and a dead letter leaves the DEAD state only through retryJob, with
\* its attempts wiped.
SettledIsStable ==
  [][\A j \in Jobs :
       /\ status[j] = "DONE" => status'[j] = "DONE"
       /\ status[j] = "DEAD" => \/ status'[j] = "DEAD"
                                \/ status'[j] = "READY" /\ attempts'[j] = 0]_queueVars

\* Every job that is enqueued is eventually done or dead-lettered, however the
\* jobs ahead of it end: a failing job does not block the queue.
JobsSettle ==
  \A j \in Jobs : status[j] \in {"READY", "RUNNING"} ~> status[j] \in {"DONE", "DEAD"}
=============================================================================
