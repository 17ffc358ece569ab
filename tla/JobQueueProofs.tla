--------------------------- MODULE JobQueueProofs ---------------------------
(***************************************************************************)
(* The safety of the job queue for any number of jobs, polls, attempts,    *)
(* retries, crashes and failed writes.                                     *)
(***************************************************************************)
EXTENDS JobQueue, SequenceTheorems, TLAPS

\* A row waits at one place of the claim order ...
DueOnce == \A i, k \in 1 .. Len(due) : due[i] = due[k] => i = k

\* ... or is backing off, and these are the READY rows.
WaitingIsReady ==
  \A j \in Jobs :
    /\ status[j] = "READY" <=> j \in ToSet(due) \/ j \in delayed
    /\ ~(j \in ToSet(due) /\ j \in delayed)

IdleHoldsNothing == \A p \in Polls : phase[p] = "idle" <=> batch[p] = <<>>

FreshIsUntried == \A j \in Jobs : status[j] = "ABSENT" => attempts[j] = 0

\* What makes the safety properties inductive: a claim takes rows that no batch
\* holds because the waiting rows are READY and the held ones RUNNING.
QueueInv ==
  /\ TypeOK
  /\ DueOnce
  /\ WaitingIsReady
  /\ IdleHoldsNothing
  /\ FreshIsUntried
  /\ HeldOnce
  /\ HeldIsRunning
  /\ AttemptLeft
  /\ OnlyInterruptionsStrand

-----------------------------------------------------------------------------
(* The operators on sequences, in the terms the steps need.                *)

\* What a claim takes, and what it leaves, are the two ends of the due rows.
LEMMA ClaimSplits ==
  ASSUME due \in Seq(Jobs), QueueAssumption
  PROVE  /\ ClaimSize \in 0 .. Len(due)
         /\ Claimed \in Seq(Jobs)
         /\ Len(Claimed) = ClaimSize
         /\ \A i \in 1 .. ClaimSize : Claimed[i] = due[i]
         /\ Unclaimed \in Seq(Jobs)
         /\ Len(Unclaimed) = Len(due) - ClaimSize
         /\ \A i \in 1 .. Len(due) - ClaimSize : Unclaimed[i] = due[ClaimSize + i]
<1>1. Len(due) \in Nat /\ ClaimSize \in 0 .. Len(due)
  BY LenProperties DEF ClaimSize, QueueAssumption
<1>2. \A i \in 1 .. Len(due) : due[i] \in Jobs
  BY ElementOfSeq
<1>3. /\ Claimed \in Seq(Jobs)
      /\ Len(Claimed) = IF 1 <= ClaimSize THEN ClaimSize - 1 + 1 ELSE 0
      /\ \A i \in 1 .. ClaimSize - 1 + 1 : Claimed[i] = due[1 + i - 1]
  <2>1. 1 \in Int /\ ClaimSize \in Int /\ \A i \in 1 .. ClaimSize : due[i] \in Jobs
    BY <1>1, <1>2
  <2>. QED BY <2>1, SubSeqProperties DEF Claimed
<1>4. /\ Unclaimed \in Seq(Jobs)
      /\ Len(Unclaimed) =
           IF ClaimSize + 1 <= Len(due) THEN Len(due) - (ClaimSize + 1) + 1 ELSE 0
      /\ \A i \in 1 .. Len(due) - (ClaimSize + 1) + 1 :
           Unclaimed[i] = due[ClaimSize + 1 + i - 1]
  <2>1. /\ ClaimSize + 1 \in Int /\ Len(due) \in Int
        /\ \A i \in ClaimSize + 1 .. Len(due) : due[i] \in Jobs
    BY <1>1, <1>2
  <2>. QED BY <2>1, SubSeqProperties DEF Unclaimed
<1>. QED BY <1>1, <1>3, <1>4

\* A row that starts to wait goes behind the others and is there once.
LEMMA JoinsTheDueRows ==
  ASSUME due \in Seq(Jobs), DueOnce, NEW j \in Jobs, j \notin ToSet(due),
         due' = Append(due, j)
  PROVE  /\ due' \in Seq(Jobs)
         /\ DueOnce'
         /\ ToSet(due') = ToSet(due) \cup {j}
<1>1. /\ due' \in Seq(Jobs)
      /\ Len(due') = Len(due) + 1
      /\ \A i \in 1 .. Len(due) : due'[i] = due[i]
      /\ due'[Len(due) + 1] = j
  BY AppendProperties
<1>2. /\ Len(due) \in Nat
      /\ DOMAIN due = 1 .. Len(due)
      /\ DOMAIN due' = 1 .. Len(due')
  BY <1>1, LenProperties
<1>3. \A i \in 1 .. Len(due) : due[i] # j
  BY <1>2 DEF ToSet
<1>4. DueOnce'
  BY <1>1, <1>2, <1>3 DEF DueOnce
<1>5. ToSet(due') = ToSet(due) \cup {j}
  BY <1>1, <1>2 DEF ToSet
<1>. QED BY <1>1, <1>4, <1>5

\* Once a call is past its first job, every batch holds what it held before
\* except that job.
LEMMA AdvancePassesTheFirst ==
  ASSUME TypeOK, HeldOnce, IdleHoldsNothing,
         NEW p \in Polls, batch[p] # <<>>, Advance(p)
  PROVE  /\ Current(p) \in Jobs
         /\ Current(p) = batch[p][1] /\ 1 \in 1 .. Len(batch[p])
         /\ batch' \in [Polls -> Seq(Jobs)]
         /\ phase' \in [Polls -> Phase]
         /\ IdleHoldsNothing'
         /\ HeldOnce'
         /\ \A q \in Polls : \A i \in 1 .. Len(batch'[q]) :
              /\ batch'[q][i] # Current(p)
              /\ \E k \in 1 .. Len(batch[q]) : batch'[q][i] = batch[q][k]
         /\ \A q \in Polls : \A k \in 1 .. Len(batch[q]) :
              \/ batch[q][k] = Current(p)
              \/ \E i \in 1 .. Len(batch'[q]) : batch'[q][i] = batch[q][k]
<1>1. /\ batch[p] \in Seq(Jobs)
      /\ batch' = [batch EXCEPT ![p] = Tail(batch[p])]
      /\ phase' = [phase EXCEPT ![p] = IF Tail(batch[p]) = <<>> THEN "idle" ELSE "handling"]
  BY DEF TypeOK, Advance
<1>2. /\ Tail(batch[p]) \in Seq(Jobs)
      /\ Len(Tail(batch[p])) = Len(batch[p]) - 1
      /\ \A i \in 1 .. Len(Tail(batch[p])) : Tail(batch[p])[i] = batch[p][i + 1]
      /\ Head(batch[p]) \in Jobs
  BY <1>1, HeadTailProperties
<1>3. Len(batch[p]) \in Nat \ {0} /\ Head(batch[p]) = batch[p][1]
  BY <1>1, EmptySeq
<1>4. /\ batch' \in [Polls -> Seq(Jobs)]
      /\ phase' \in [Polls -> Phase]
  BY <1>1, <1>2 DEF TypeOK, Phase
<1>5. IdleHoldsNothing'
  BY <1>1 DEF IdleHoldsNothing, TypeOK
<1>6. \A q \in Polls : Len(batch[q]) \in Nat
  BY LenProperties DEF TypeOK
<1>7. \A q \in Polls : \A i \in 1 .. Len(batch'[q]) :
        IF q = p THEN i + 1 \in 1 .. Len(batch[p]) /\ batch'[p][i] = batch[p][i + 1]
                 ELSE i \in 1 .. Len(batch[q]) /\ batch'[q][i] = batch[q][i]
  BY <1>1, <1>2, <1>3 DEF TypeOK
<1>8. HeldOnce'
  <2>. SUFFICES ASSUME NEW q \in Polls, NEW r \in Polls,
                       NEW i \in 1 .. Len(batch'[q]), NEW k \in 1 .. Len(batch'[r]),
                       batch'[q][i] = batch'[r][k]
                PROVE  q = r /\ i = k
    BY DEF HeldOnce
  <2>1. /\ i \in Nat /\ k \in Nat
        /\ IF q = p THEN i + 1 \in 1 .. Len(batch[p]) /\ batch'[p][i] = batch[p][i + 1]
                    ELSE i \in 1 .. Len(batch[q]) /\ batch'[q][i] = batch[q][i]
        /\ IF r = p THEN k + 1 \in 1 .. Len(batch[p]) /\ batch'[p][k] = batch[p][k + 1]
                    ELSE k \in 1 .. Len(batch[r]) /\ batch'[r][k] = batch[r][k]
    BY <1>7
  <2>2. CASE q = p /\ r = p
    BY <2>1, <2>2 DEF HeldOnce
  <2>3. CASE q = p /\ r # p
    BY <2>1, <2>3 DEF HeldOnce
  <2>4. CASE q # p /\ r = p
    BY <2>1, <2>4 DEF HeldOnce
  <2>5. CASE q # p /\ r # p
    BY <2>1, <2>5 DEF HeldOnce
  <2>. QED BY <2>2, <2>3, <2>4, <2>5
<1>9. \A q \in Polls : \A i \in 1 .. Len(batch'[q]) :
        /\ batch'[q][i] # Current(p)
        /\ \E k \in 1 .. Len(batch[q]) : batch'[q][i] = batch[q][k]
  <2>. SUFFICES ASSUME NEW q \in Polls, NEW i \in 1 .. Len(batch'[q])
                PROVE  /\ batch'[q][i] # batch[p][1]
                       /\ \E k \in 1 .. Len(batch[q]) : batch'[q][i] = batch[q][k]
    BY <1>3 DEF Current
  <2>1. CASE q = p
    <3>1. i + 1 \in 1 .. Len(batch[q]) /\ batch'[q][i] = batch[q][i + 1] /\ i + 1 # 1
      BY <2>1, <1>7, <1>4, LenProperties
    <3>. QED BY <3>1, <2>1, <1>3 DEF HeldOnce
  <2>2. CASE q # p
    <3>1. i \in 1 .. Len(batch[q]) /\ batch'[q][i] = batch[q][i]
      BY <2>2, <1>7
    <3>. QED BY <3>1, <2>2, <1>3 DEF HeldOnce
  <2>. QED BY <2>1, <2>2
<1>10. \A q \in Polls : \A k \in 1 .. Len(batch[q]) :
         \/ batch[q][k] = Current(p)
         \/ \E i \in 1 .. Len(batch'[q]) : batch'[q][i] = batch[q][k]
  <2>. SUFFICES ASSUME NEW q \in Polls, NEW k \in 1 .. Len(batch[q]),
                       batch[q][k] # Current(p)
                PROVE  \E i \in 1 .. Len(batch'[q]) : batch'[q][i] = batch[q][k]
    OBVIOUS
  <2>1. CASE q = p
    <3>1. k # 1
      BY <2>1, <1>3 DEF Current
    <3>2. k - 1 \in 1 .. Len(batch'[q]) /\ batch'[q][k - 1] = batch[q][k]
      BY <2>1, <3>1, <1>1, <1>2, <1>3 DEF TypeOK
    <3>. QED BY <3>2
  <2>2. CASE q # p
    BY <2>2, <1>1 DEF TypeOK
  <2>. QED BY <2>1, <2>2
<1>. QED BY <1>2, <1>3, <1>4, <1>5, <1>8, <1>9, <1>10 DEF Current

\* What finish, deadLetter and the backoff have in common: the call settles the
\* first of its jobs, which it alone holds, and moves on.
LEMMA AdvanceSettlesTheFirst ==
  ASSUME QueueInv, NEW p \in Polls, batch[p] # <<>>, Advance(p),
         NEW s \in {"DONE", "DEAD", "READY"},
         status' = [status EXCEPT ![Current(p)] = s],
         UNCHANGED <<crashes, faults>>
  PROVE  /\ Current(p) \in Jobs
         /\ status[Current(p)] = "RUNNING"
         /\ Current(p) \notin ToSet(due) /\ Current(p) \notin delayed
         /\ status' \in [Jobs -> Status]
         /\ batch' \in [Polls -> Seq(Jobs)] /\ phase' \in [Polls -> Phase]
         /\ IdleHoldsNothing'
         /\ HeldOnce'
         /\ HeldIsRunning'
         /\ OnlyInterruptionsStrand'
<1>1. /\ TypeOK /\ HeldOnce /\ HeldIsRunning /\ IdleHoldsNothing /\ WaitingIsReady
      /\ OnlyInterruptionsStrand
  BY DEF QueueInv
<1>2. /\ Current(p) \in Jobs
      /\ Current(p) = batch[p][1] /\ 1 \in 1 .. Len(batch[p])
      /\ batch' \in [Polls -> Seq(Jobs)]
      /\ phase' \in [Polls -> Phase]
      /\ IdleHoldsNothing'
      /\ HeldOnce'
  BY <1>1, AdvancePassesTheFirst
<1>3. \A q \in Polls : \A i \in 1 .. Len(batch'[q]) :
        /\ batch'[q][i] # Current(p)
        /\ \E k \in 1 .. Len(batch[q]) : batch'[q][i] = batch[q][k]
  BY <1>1, AdvancePassesTheFirst
<1>4. \A q \in Polls : \A k \in 1 .. Len(batch[q]) :
        \/ batch[q][k] = Current(p)
        \/ \E i \in 1 .. Len(batch'[q]) : batch'[q][i] = batch[q][k]
  BY <1>1, AdvancePassesTheFirst
<1>5. status[Current(p)] = "RUNNING"
  BY <1>1, <1>2 DEF HeldIsRunning
<1>6. Current(p) \notin ToSet(due) /\ Current(p) \notin delayed
  BY <1>1, <1>2, <1>5 DEF WaitingIsReady
<1>7. status' \in [Jobs -> Status]
  BY <1>1, <1>2 DEF TypeOK, Status
<1>8. HeldIsRunning'
  <2>. SUFFICES ASSUME NEW q \in Polls, NEW i \in 1 .. Len(batch'[q])
                PROVE  status'[batch'[q][i]] = "RUNNING"
    BY DEF HeldIsRunning
  <2>1. PICK k \in 1 .. Len(batch[q]) : batch'[q][i] = batch[q][k] /\ batch'[q][i] # Current(p)
    BY <1>3
  <2>2. batch[q][k] \in Jobs /\ status[batch[q][k]] = "RUNNING"
    BY <1>1, ElementOfSeq DEF TypeOK, HeldIsRunning
  <2>. QED BY <2>1, <2>2, <1>1 DEF TypeOK
<1>9. OnlyInterruptionsStrand'
  <2>. SUFFICES ASSUME crashes + faults = 0, NEW j \in Jobs, status'[j] = "RUNNING"
                PROVE  InFlight(j)'
    BY DEF OnlyInterruptionsStrand
  <2>1. j # Current(p) /\ status[j] = "RUNNING"
    BY <1>1, <1>2 DEF TypeOK
  <2>2. PICK q \in Polls : j \in ToSet(batch[q])
    BY <2>1, <1>1 DEF OnlyInterruptionsStrand, InFlight
  <2>3. PICK k \in 1 .. Len(batch[q]) : j = batch[q][k]
    BY <2>2, <1>1, LenProperties DEF ToSet, TypeOK
  <2>4. \E i \in 1 .. Len(batch'[q]) : batch'[q][i] = j
    BY <2>1, <2>3, <1>4
  <2>5. DOMAIN batch'[q] = 1 .. Len(batch'[q])
    BY <1>2, LenProperties
  <2>6. j \in ToSet(batch'[q])
    BY <2>4, <2>5 DEF ToSet
  <2>. QED BY <2>6 DEF InFlight
<1>. QED BY <1>2, <1>5, <1>6, <1>7, <1>8, <1>9

\* Giving a row that is not RUNNING another such status concerns no batch.
LEMMA HoldersKeepTheirJobs ==
  ASSUME QueueInv, UNCHANGED batch, UNCHANGED <<crashes, faults>>,
         NEW j \in Jobs, status[j] # "RUNNING",
         NEW s \in Status \ {"RUNNING"},
         status' = [status EXCEPT ![j] = s]
  PROVE  HeldIsRunning' /\ OnlyInterruptionsStrand'
<1>1. TypeOK /\ HeldIsRunning /\ OnlyInterruptionsStrand
  BY DEF QueueInv
<1>2. HeldIsRunning'
  <2>. SUFFICES ASSUME NEW q \in Polls, NEW i \in 1 .. Len(batch[q])
                PROVE  status'[batch[q][i]] = "RUNNING"
    BY DEF HeldIsRunning
  <2>1. batch[q][i] \in Jobs /\ status[batch[q][i]] = "RUNNING"
    BY <1>1, ElementOfSeq DEF TypeOK, HeldIsRunning
  <2>. QED BY <2>1, <1>1 DEF TypeOK
<1>3. OnlyInterruptionsStrand'
  BY <1>1 DEF OnlyInterruptionsStrand, InFlight, TypeOK
<1>. QED BY <1>2, <1>3

-----------------------------------------------------------------------------
(* The invariant.                                                          *)

\* An empty table with no batch satisfies the invariant.
LEMMA QueueInitInv == QueueInit => QueueInv
<1>. SUFFICES ASSUME QueueInit PROVE QueueInv
  OBVIOUS
<1>1. /\ \A p \in Polls : batch[p] = <<>> /\ Len(batch[p]) = 0
      /\ Len(due) = 0 /\ due \in Seq(Jobs) /\ <<>> \in Seq(Jobs)
  BY EmptySeq DEF QueueInit
<1>2. TypeOK
  BY <1>1, QueueAssumption DEF QueueInit, TypeOK, Status, Phase
<1>3. DueOnce /\ HeldOnce /\ HeldIsRunning
  BY <1>1 DEF DueOnce, HeldOnce, HeldIsRunning
<1>4. ToSet(due) = {}
  BY <1>1, LenProperties DEF ToSet
<1>5. WaitingIsReady
  BY <1>4 DEF QueueInit, WaitingIsReady
<1>6. IdleHoldsNothing /\ FreshIsUntried /\ AttemptLeft /\ OnlyInterruptionsStrand
  BY DEF QueueInit, IdleHoldsNothing, FreshIsUntried, AttemptLeft, OnlyInterruptionsStrand
<1>. QED BY <1>2, <1>3, <1>5, <1>6 DEF QueueInv

\* A fresh row is untried and waits nowhere else.
LEMMA EnqueueInv ==
  ASSUME QueueInv, NEW j \in Jobs, Enqueue(j)
  PROVE  QueueInv'
<1>1. /\ TypeOK /\ DueOnce /\ WaitingIsReady /\ IdleHoldsNothing /\ FreshIsUntried
      /\ HeldOnce /\ AttemptLeft
  BY DEF QueueInv
<1>2. /\ due' \in Seq(Jobs) /\ DueOnce'
      /\ ToSet(due') = ToSet(due) \cup {j}
  BY <1>1, JoinsTheDueRows DEF TypeOK, Enqueue, WaitingIsReady
<1>3. TypeOK' /\ IdleHoldsNothing' /\ HeldOnce'
  BY <1>1, <1>2 DEF TypeOK, Enqueue, memory, Status, IdleHoldsNothing, HeldOnce
<1>4. WaitingIsReady'
  BY <1>1, <1>2 DEF TypeOK, Enqueue, WaitingIsReady
<1>5. FreshIsUntried' /\ AttemptLeft'
  BY <1>1, QueueAssumption DEF TypeOK, Enqueue, FreshIsUntried, AttemptLeft
<1>6. HeldIsRunning' /\ OnlyInterruptionsStrand'
  BY HoldersKeepTheirJobs DEF Enqueue, memory, Status
<1>. QED BY <1>2, <1>3, <1>4, <1>5, <1>6 DEF QueueInv

\* A delayed row is not among the due ones, and becomes one of them.
LEMMA BecomeDueInv ==
  ASSUME QueueInv, NEW j \in Jobs, BecomeDue(j)
  PROVE  QueueInv'
<1>1. /\ TypeOK /\ DueOnce /\ WaitingIsReady /\ IdleHoldsNothing /\ FreshIsUntried
      /\ HeldOnce /\ AttemptLeft /\ HeldIsRunning /\ OnlyInterruptionsStrand
  BY DEF QueueInv
<1>2. /\ due' \in Seq(Jobs) /\ DueOnce'
      /\ ToSet(due') = ToSet(due) \cup {j}
  BY <1>1, JoinsTheDueRows DEF TypeOK, BecomeDue, WaitingIsReady
<1>3. TypeOK' /\ IdleHoldsNothing' /\ HeldOnce' /\ FreshIsUntried' /\ AttemptLeft'
  BY <1>1, <1>2
     DEF TypeOK, BecomeDue, memory, IdleHoldsNothing, HeldOnce, FreshIsUntried, AttemptLeft
<1>4. WaitingIsReady'
  BY <1>1, <1>2 DEF TypeOK, BecomeDue, WaitingIsReady
<1>5. HeldIsRunning' /\ OnlyInterruptionsStrand'
  BY <1>1 DEF BecomeDue, memory, HeldIsRunning, OnlyInterruptionsStrand, InFlight
<1>. QED BY <1>2, <1>3, <1>4, <1>5 DEF QueueInv

\* A dead letter is neither waiting nor held, and its attempts are wiped.
LEMMA RetryJobInv ==
  ASSUME QueueInv, NEW j \in Jobs, RetryJob(j)
  PROVE  QueueInv'
<1>1. /\ TypeOK /\ DueOnce /\ WaitingIsReady /\ IdleHoldsNothing /\ FreshIsUntried
      /\ HeldOnce /\ AttemptLeft
  BY DEF QueueInv
<1>2. /\ due' \in Seq(Jobs) /\ DueOnce'
      /\ ToSet(due') = ToSet(due) \cup {j}
  BY <1>1, JoinsTheDueRows DEF TypeOK, RetryJob, WaitingIsReady
<1>3. TypeOK' /\ IdleHoldsNothing' /\ HeldOnce'
  BY <1>1, <1>2, QueueAssumption
     DEF TypeOK, RetryJob, memory, Status, IdleHoldsNothing, HeldOnce
<1>4. WaitingIsReady'
  BY <1>1, <1>2 DEF TypeOK, RetryJob, WaitingIsReady
<1>5. FreshIsUntried' /\ AttemptLeft'
  BY <1>1, QueueAssumption DEF TypeOK, RetryJob, FreshIsUntried, AttemptLeft
<1>6. HeldIsRunning' /\ OnlyInterruptionsStrand'
  BY HoldersKeepTheirJobs DEF RetryJob, memory, Status
<1>. QED BY <1>2, <1>3, <1>4, <1>5, <1>6 DEF QueueInv

\* A claim takes rows that wait, and so are READY and held by no batch.
LEMMA ClaimDueInv ==
  ASSUME QueueInv, NEW p \in Polls, ClaimDue(p)
  PROVE  QueueInv'
<1>1. /\ TypeOK /\ DueOnce /\ WaitingIsReady /\ IdleHoldsNothing /\ FreshIsUntried
      /\ HeldOnce /\ AttemptLeft /\ HeldIsRunning /\ OnlyInterruptionsStrand
  BY DEF QueueInv
<1> DEFINE n == ClaimSize
<1>2. /\ Len(due) \in Nat /\ n \in 0 .. Len(due)
      /\ Claimed \in Seq(Jobs) /\ Len(Claimed) = n
      /\ \A i \in 1 .. n : Claimed[i] = due[i]
      /\ Unclaimed \in Seq(Jobs) /\ Len(Unclaimed) = Len(due) - n
      /\ \A i \in 1 .. Len(due) - n : Unclaimed[i] = due[n + i]
  BY <1>1, ClaimSplits, QueueAssumption, LenProperties DEF TypeOK
<1>3. n # 0
  BY <1>1, EmptySeq, QueueAssumption DEF ClaimDue, ClaimSize, TypeOK
<1>4. /\ DOMAIN due = 1 .. Len(due) /\ DOMAIN Claimed = 1 .. n
      /\ DOMAIN Unclaimed = 1 .. Len(due) - n
  BY <1>1, <1>2, LenProperties DEF TypeOK
<1> HIDE DEF n
<1>5. /\ ToSet(Claimed) \subseteq ToSet(due)
      /\ ToSet(due) = ToSet(Claimed) \cup ToSet(Unclaimed)
      /\ ToSet(Claimed) \cap ToSet(Unclaimed) = {}
  <2>1. ToSet(Claimed) = {due[i] : i \in 1 .. n}
    BY <1>2, <1>4 DEF ToSet
  <2>2. ToSet(Unclaimed) = {due[n + i] : i \in 1 .. Len(due) - n}
    BY <1>2, <1>4 DEF ToSet
  <2>3. ToSet(due) = {due[i] : i \in 1 .. Len(due)}
    BY <1>4 DEF ToSet
  <2>4. \A i \in 1 .. n, k \in 1 .. Len(due) - n : due[i] # due[n + k]
    BY <1>1, <1>2 DEF DueOnce
  <2>5. \A i \in 1 .. Len(due) :
          i \in 1 .. n \/ \E k \in 1 .. Len(due) - n : i = n + k
    <3>. SUFFICES ASSUME NEW i \in 1 .. Len(due), i \notin 1 .. n
                  PROVE  \E k \in 1 .. Len(due) - n : i = n + k
      OBVIOUS
    <3>1. i - n \in 1 .. Len(due) - n /\ i = n + (i - n)
      BY <1>2
    <3>. QED BY <3>1
  <2>6. \A k \in 1 .. Len(due) - n : n + k \in 1 .. Len(due)
    BY <1>2
  <2>7. \A i \in 1 .. n : i \in 1 .. Len(due)
    BY <1>2
  <2>8. ToSet(Claimed) \subseteq ToSet(due) /\ ToSet(Unclaimed) \subseteq ToSet(due)
    BY <2>1, <2>2, <2>3, <2>6, <2>7
  <2>9. ToSet(due) \subseteq ToSet(Claimed) \cup ToSet(Unclaimed)
    <3>. SUFFICES ASSUME NEW i \in 1 .. Len(due)
                  PROVE  due[i] \in ToSet(Claimed) \cup ToSet(Unclaimed)
      BY <2>3
    <3>. QED BY <2>1, <2>2, <2>5
  <2>10. ToSet(Claimed) \cap ToSet(Unclaimed) = {}
    BY <2>1, <2>2, <2>4
  <2>. QED BY <2>8, <2>9, <2>10
<1>6. \A j \in ToSet(Claimed) : j \in Jobs /\ status[j] = "READY" /\ attempts[j] < MaxAttempts
  <2>1. \A j \in ToSet(Claimed) : j \in Jobs
    BY <1>2, <1>4, ElementOfSeq DEF ToSet
  <2>. QED BY <2>1, <1>1, <1>5 DEF WaitingIsReady, AttemptLeft
<1>7. TypeOK'
  <2>1. status' \in [Jobs -> Status]
    BY <1>1 DEF ClaimDue, TypeOK, Status
  <2>2. attempts' \in [Jobs -> 0 .. MaxAttempts]
    BY <1>1, <1>6, QueueAssumption DEF ClaimDue, TypeOK
  <2>3. batch' \in [Polls -> Seq(Jobs)] /\ phase' \in [Polls -> Phase]
    BY <1>1, <1>2 DEF ClaimDue, TypeOK, Phase
  <2>. QED BY <2>1, <2>2, <2>3, <1>1, <1>2 DEF ClaimDue, TypeOK
<1>8. DueOnce'
  <2>. SUFFICES ASSUME NEW i \in 1 .. Len(Unclaimed), NEW k \in 1 .. Len(Unclaimed),
                       Unclaimed[i] = Unclaimed[k]
                PROVE  i = k
    BY DEF DueOnce, ClaimDue
  <2>1. n + i \in 1 .. Len(due) /\ n + k \in 1 .. Len(due) /\ due[n + i] = due[n + k]
    BY <1>2
  <2>2. n + i = n + k
    BY <2>1, <1>1 DEF DueOnce
  <2>. QED BY <2>2, <1>2
<1>9. WaitingIsReady'
  BY <1>1, <1>5, <1>6 DEF ClaimDue, WaitingIsReady, TypeOK
<1>10. IdleHoldsNothing'
  <2>1. Claimed # <<>>
    BY <1>2, <1>3, EmptySeq
  <2>. QED BY <2>1, <1>1 DEF ClaimDue, IdleHoldsNothing, TypeOK
<1>11. FreshIsUntried' /\ AttemptLeft'
  BY <1>1, <1>6 DEF ClaimDue, FreshIsUntried, AttemptLeft, TypeOK
<1>12. \A q \in Polls : \A i \in 1 .. Len(batch'[q]) :
         IF q = p THEN i \in 1 .. n /\ batch'[q][i] = due[i] /\ batch'[q][i] \in ToSet(Claimed)
                  ELSE /\ i \in 1 .. Len(batch[q]) /\ batch'[q][i] = batch[q][i]
                       /\ status[batch'[q][i]] = "RUNNING" /\ batch'[q][i] \in Jobs
  <2>1. \A i \in 1 .. n : Claimed[i] \in ToSet(Claimed)
    BY <1>4 DEF ToSet
  <2>2. \A q \in Polls : \A i \in 1 .. Len(batch[q]) :
          batch[q][i] \in Jobs /\ status[batch[q][i]] = "RUNNING"
    BY <1>1, ElementOfSeq DEF TypeOK, HeldIsRunning
  <2>. QED BY <2>1, <2>2, <1>1, <1>2 DEF ClaimDue, TypeOK
<1>13. HeldOnce'
  <2>. SUFFICES ASSUME NEW q \in Polls, NEW r \in Polls,
                       NEW i \in 1 .. Len(batch'[q]), NEW k \in 1 .. Len(batch'[r]),
                       batch'[q][i] = batch'[r][k]
                PROVE  q = r /\ i = k
    BY DEF HeldOnce
  <2>1. CASE q = p /\ r = p
    <3>1. i \in 1 .. n /\ k \in 1 .. n /\ due[i] = due[k]
      BY <2>1, <1>12
    <3>. QED BY <3>1, <2>1, <1>1, <1>2 DEF DueOnce
  <2>2. CASE q # p /\ r # p
    <3>1. i \in 1 .. Len(batch[q]) /\ k \in 1 .. Len(batch[r]) /\ batch[q][i] = batch[r][k]
      BY <2>2, <1>12
    <3>. QED BY <3>1, <1>1 DEF HeldOnce
  <2>3. CASE (q = p) # (r = p)
    BY <2>3, <1>6, <1>12
  <2>. QED BY <2>1, <2>2, <2>3
<1>14. HeldIsRunning'
  <2>. SUFFICES ASSUME NEW q \in Polls, NEW i \in 1 .. Len(batch'[q])
                PROVE  status'[batch'[q][i]] = "RUNNING"
    BY DEF HeldIsRunning
  <2>1. batch'[q][i] \in Jobs /\ (batch'[q][i] \in ToSet(Claimed) \/ status[batch'[q][i]] = "RUNNING")
    BY <1>6, <1>12
  <2>. QED BY <2>1 DEF ClaimDue
<1>15. OnlyInterruptionsStrand'
  <2>. SUFFICES ASSUME crashes + faults = 0, NEW j \in Jobs, status'[j] = "RUNNING"
                PROVE  InFlight(j)'
    BY DEF OnlyInterruptionsStrand, ClaimDue
  <2>1. CASE j \in ToSet(Claimed)
    BY <2>1, <1>1 DEF ClaimDue, InFlight, TypeOK
  <2>2. CASE j \notin ToSet(Claimed)
    <3>1. PICK q \in Polls : j \in ToSet(batch[q])
      BY <2>2, <1>1 DEF ClaimDue, OnlyInterruptionsStrand, InFlight
    <3>2. q # p
      BY <3>1, EmptySeq DEF ClaimDue, ToSet
    <3>. QED BY <3>1, <3>2, <1>1 DEF ClaimDue, InFlight, TypeOK
  <2>. QED BY <2>1, <2>2
<1>. QED
  BY <1>7, <1>8, <1>9, <1>10, <1>11, <1>13, <1>14, <1>15 DEF QueueInv

\* A call that is not idle holds a job, and its row is RUNNING.
LEMMA BusyHoldsARunningJob ==
  ASSUME QueueInv, NEW p \in Polls, phase[p] # "idle"
  PROVE  /\ batch[p] # <<>>
         /\ Current(p) \in Jobs
         /\ Current(p) = batch[p][1] /\ 1 \in 1 .. Len(batch[p])
         /\ status[Current(p)] = "RUNNING"
         /\ Current(p) \notin ToSet(due) /\ Current(p) \notin delayed
<1>1. batch[p] # <<>> /\ batch[p] \in Seq(Jobs)
  BY DEF QueueInv, TypeOK, IdleHoldsNothing
<1>2. Current(p) = batch[p][1] /\ 1 \in 1 .. Len(batch[p]) /\ Current(p) \in Jobs
  BY <1>1, EmptySeq, HeadTailProperties DEF Current
<1>3. status[Current(p)] = "RUNNING"
  BY <1>2 DEF QueueInv, HeldIsRunning
<1>. QED BY <1>1, <1>2, <1>3 DEF QueueInv, WaitingIsReady

\* A step of the handler, or a failed finish, moves a call from one busy phase
\* to another.
LEMMA PhaseStepInv ==
  ASSUME QueueInv, NEW p \in Polls, phase[p] # "idle",
         NEW to \in Phase \ {"idle"},
         phase' = [phase EXCEPT ![p] = to],
         UNCHANGED <<rows, batch, crashes>>,
         faults' \in 0 .. MaxFaults,
         crashes' + faults' = 0 => crashes + faults = 0
  PROVE  QueueInv'
<1>1. UNCHANGED <<status, attempts, retries, due, delayed, batch, crashes>>
  BY DEF rows
<1>2. TypeOK' /\ IdleHoldsNothing'
  BY <1>1 DEF QueueInv, TypeOK, IdleHoldsNothing
<1>3. DueOnce' /\ WaitingIsReady' /\ FreshIsUntried' /\ HeldOnce' /\ HeldIsRunning' /\ AttemptLeft'
  BY <1>1
     DEF QueueInv, DueOnce, WaitingIsReady, FreshIsUntried, HeldOnce, HeldIsRunning, AttemptLeft
<1>4. OnlyInterruptionsStrand'
  BY <1>1 DEF QueueInv, OnlyInterruptionsStrand, InFlight
<1>. QED BY <1>2, <1>3, <1>4 DEF QueueInv

\* The handler changes no row.
LEMMA HandlerEndsInv ==
  ASSUME QueueInv, NEW p \in Polls, NEW outcome \in {"ok", "transient", "permanent"},
         HandlerEnds(p, outcome)
  PROVE  QueueInv'
BY PhaseStepInv DEF HandlerEnds, Phase, QueueInv, TypeOK

\* Nor does a write that fails.
LEMMA FinishFailsInv ==
  ASSUME QueueInv, NEW p \in Polls, FinishFails(p)
  PROVE  QueueInv'
<1>1. faults \in 0 .. MaxFaults /\ crashes \in 0 .. MaxCrashes
  BY DEF QueueInv, TypeOK
<1>2. faults' \in 0 .. MaxFaults /\ crashes' + faults' # 0
  BY <1>1, QueueAssumption DEF FinishFails, Fault
<1>. QED BY <1>2, PhaseStepInv DEF FinishFails, Phase

\* A job that is finished leaves its batch as DONE.
LEMMA FinishInv ==
  ASSUME QueueInv, NEW p \in Polls, Finish(p)
  PROVE  QueueInv'
<1>1. batch[p] # <<>>
  BY BusyHoldsARunningJob DEF Finish
<1>2. /\ Current(p) \in Jobs
      /\ Current(p) \notin ToSet(due) /\ Current(p) \notin delayed
      /\ status' \in [Jobs -> Status]
      /\ batch' \in [Polls -> Seq(Jobs)] /\ phase' \in [Polls -> Phase]
      /\ IdleHoldsNothing' /\ HeldOnce' /\ HeldIsRunning' /\ OnlyInterruptionsStrand'
  BY <1>1, AdvanceSettlesTheFirst DEF Finish
<1>3. TypeOK' /\ DueOnce'
  BY <1>2 DEF QueueInv, TypeOK, DueOnce, Finish
<1>4. WaitingIsReady' /\ FreshIsUntried' /\ AttemptLeft'
  BY <1>2 DEF QueueInv, TypeOK, WaitingIsReady, FreshIsUntried, AttemptLeft, Finish
<1>. QED BY <1>2, <1>3, <1>4 DEF QueueInv

\* A job that is given up leaves its batch as DEAD.
LEMMA DeadLetterInv ==
  ASSUME QueueInv, NEW p \in Polls, DeadLetter(p)
  PROVE  QueueInv'
<1>1. batch[p] # <<>>
  BY BusyHoldsARunningJob DEF DeadLetter, MarkDead, GivenUp, Unrunnable
<1>2. /\ Current(p) \in Jobs
      /\ Current(p) \notin ToSet(due) /\ Current(p) \notin delayed
      /\ status' \in [Jobs -> Status]
      /\ batch' \in [Polls -> Seq(Jobs)] /\ phase' \in [Polls -> Phase]
      /\ IdleHoldsNothing' /\ HeldOnce' /\ HeldIsRunning' /\ OnlyInterruptionsStrand'
  BY <1>1, AdvanceSettlesTheFirst DEF DeadLetter, MarkDead
<1>3. TypeOK' /\ DueOnce'
  BY <1>2 DEF QueueInv, TypeOK, DueOnce, DeadLetter, MarkDead
<1>4. WaitingIsReady' /\ FreshIsUntried' /\ AttemptLeft'
  BY <1>2
     DEF QueueInv, TypeOK, WaitingIsReady, FreshIsUntried, AttemptLeft, DeadLetter, MarkDead
<1>. QED BY <1>2, <1>3, <1>4 DEF QueueInv

\* A job that comes back has an attempt left and starts to wait.
LEMMA BackOffInv ==
  ASSUME QueueInv, NEW p \in Polls, BackOff(p)
  PROVE  QueueInv'
<1>1. batch[p] # <<>>
  BY BusyHoldsARunningJob DEF BackOff, MarkDelayed, ComesBack
<1>2. /\ Current(p) \in Jobs
      /\ Current(p) \notin ToSet(due) /\ Current(p) \notin delayed
      /\ status' \in [Jobs -> Status]
      /\ batch' \in [Polls -> Seq(Jobs)] /\ phase' \in [Polls -> Phase]
      /\ IdleHoldsNothing' /\ HeldOnce' /\ HeldIsRunning' /\ OnlyInterruptionsStrand'
  BY <1>1, AdvanceSettlesTheFirst DEF BackOff, MarkDelayed
<1>3. TypeOK' /\ DueOnce'
  BY <1>2 DEF QueueInv, TypeOK, DueOnce, BackOff, MarkDelayed
<1>4. attempts[Current(p)] < MaxAttempts
  BY <1>2, QueueAssumption DEF QueueInv, TypeOK, BackOff, MarkDelayed, ComesBack, Exhausted
<1>5. WaitingIsReady' /\ FreshIsUntried' /\ AttemptLeft'
  BY <1>2, <1>4
     DEF QueueInv, TypeOK, WaitingIsReady, FreshIsUntried, AttemptLeft, BackOff, MarkDelayed
<1>. QED BY <1>2, <1>3, <1>5 DEF QueueInv

\* A crash empties every batch and is counted as an interruption.
LEMMA CrashInv ==
  ASSUME QueueInv, Crash
  PROVE  QueueInv'
<1>1. /\ UNCHANGED <<status, attempts, retries, due, delayed, faults>>
      /\ \A p \in Polls : batch'[p] = <<>> /\ Len(batch'[p]) = 0 /\ phase'[p] = "idle"
  BY EmptySeq DEF Crash, rows
<1>2. TypeOK' /\ crashes' + faults' # 0
  BY <1>1, EmptySeq, QueueAssumption DEF QueueInv, TypeOK, Crash, Phase
<1>3. DueOnce' /\ WaitingIsReady' /\ FreshIsUntried' /\ AttemptLeft'
  BY <1>1 DEF QueueInv, DueOnce, WaitingIsReady, FreshIsUntried, AttemptLeft
<1>4. IdleHoldsNothing' /\ HeldOnce' /\ HeldIsRunning'
  BY <1>1 DEF IdleHoldsNothing, HeldOnce, HeldIsRunning
<1>. QED BY <1>2, <1>3, <1>4 DEF QueueInv, OnlyInterruptionsStrand

\* The job is dropped with its batch: no other batch holds it, so its row may
\* have become READY or DEAD.
LEMMA BookkeepingFailsInv ==
  ASSUME QueueInv, NEW p \in Polls, BookkeepingFails(p)
  PROVE  QueueInv'
<1>1. /\ Current(p) \in Jobs
      /\ Current(p) = batch[p][1] /\ 1 \in 1 .. Len(batch[p])
      /\ Current(p) \notin ToSet(due) /\ Current(p) \notin delayed
      /\ status[Current(p)] = "RUNNING"
  BY BusyHoldsARunningJob
     DEF BookkeepingFails, MarkDead, MarkDelayed, GivenUp, ComesBack, Unrunnable
<1>2. /\ \A j \in Jobs \ {Current(p)} :
           status'[j] = status[j] /\ (j \in delayed' <=> j \in delayed)
      /\ status' \in [Jobs -> Status]
      /\ delayed' \subseteq Jobs
      /\ UNCHANGED <<attempts, retries, due>>
      /\ status'[Current(p)] = "READY" <=> Current(p) \in delayed'
      /\ status'[Current(p)] = "READY" => attempts[Current(p)] < MaxAttempts
      /\ status'[Current(p)] # "ABSENT"
  <2>1. CASE UNCHANGED rows
    BY <2>1, <1>1 DEF rows, QueueInv, TypeOK
  <2>2. CASE MarkDead(p)
    BY <2>2, <1>1 DEF MarkDead, QueueInv, TypeOK, Status
  <2>3. CASE MarkDelayed(p)
    BY <2>3, <1>1, QueueAssumption
       DEF MarkDelayed, ComesBack, Exhausted, QueueInv, TypeOK, Status
  <2>. QED BY <2>1, <2>2, <2>3 DEF BookkeepingFails
<1>3. /\ batch' = [batch EXCEPT ![p] = <<>>]
      /\ phase' = [phase EXCEPT ![p] = "idle"]
      /\ <<>> \in Seq(Jobs) /\ Len(<<>>) = 0
  BY EmptySeq DEF BookkeepingFails, Abandon
<1>4. /\ faults' \in 0 .. MaxFaults
      /\ crashes' \in 0 .. MaxCrashes
      /\ crashes' + faults' # 0
  BY QueueAssumption DEF BookkeepingFails, Fault, QueueInv, TypeOK
<1>5. TypeOK' /\ IdleHoldsNothing'
  BY <1>2, <1>3, <1>4 DEF QueueInv, TypeOK, Phase, IdleHoldsNothing
<1>6. DueOnce' /\ WaitingIsReady' /\ FreshIsUntried' /\ AttemptLeft'
  BY <1>1, <1>2 DEF QueueInv, DueOnce, WaitingIsReady, FreshIsUntried, AttemptLeft
<1>7. \A q \in Polls : \A i \in 1 .. Len(batch'[q]) :
        q # p /\ i \in 1 .. Len(batch[q]) /\ batch'[q][i] = batch[q][i]
  BY <1>3 DEF QueueInv, TypeOK
<1>8. HeldOnce'
  BY <1>7 DEF QueueInv, HeldOnce
<1>9. HeldIsRunning'
  <2>. SUFFICES ASSUME NEW q \in Polls, NEW i \in 1 .. Len(batch'[q])
                PROVE  status'[batch'[q][i]] = "RUNNING"
    BY DEF HeldIsRunning
  <2>1. q # p /\ i \in 1 .. Len(batch[q]) /\ batch'[q][i] = batch[q][i]
    BY <1>7
  <2>2. batch[q][i] \in Jobs /\ status[batch[q][i]] = "RUNNING"
    BY <2>1, ElementOfSeq DEF QueueInv, TypeOK, HeldIsRunning
  <2>3. batch[q][i] # Current(p)
    BY <2>1, <1>1 DEF QueueInv, HeldOnce
  <2>. QED BY <2>1, <2>2, <2>3, <1>2
<1>. QED BY <1>4, <1>5, <1>6, <1>8, <1>9 DEF QueueInv, OnlyInterruptionsStrand

\* Nothing changes.
LEMMA QueueStutterInv == QueueInv /\ UNCHANGED queueVars => QueueInv'
BY DEF QueueInv, queueVars, memory, rows, TypeOK, DueOnce, WaitingIsReady, IdleHoldsNothing,
       FreshIsUntried, HeldOnce, HeldIsRunning, AttemptLeft, OnlyInterruptionsStrand, InFlight

\* The invariant is inductive.
LEMMA QueueNextInv == QueueInv /\ [QueueNext]_queueVars => QueueInv'
<1>. SUFFICES ASSUME QueueInv, QueueNext PROVE QueueInv'
  BY QueueStutterInv
<1>1. ASSUME NEW j \in Jobs, Enqueue(j) \/ BecomeDue(j) \/ RetryJob(j)
      PROVE  QueueInv'
  BY <1>1, EnqueueInv, BecomeDueInv, RetryJobInv
<1>2. ASSUME NEW p \in Polls, ClaimDue(p) PROVE QueueInv'
  BY <1>2, ClaimDueInv
<1>3. ASSUME NEW p \in Polls, NEW outcome \in {"ok", "transient", "permanent"},
             HandlerEnds(p, outcome)
      PROVE  QueueInv'
  BY <1>3, HandlerEndsInv
<1>4. ASSUME NEW p \in Polls, Finish(p) \/ FinishFails(p) PROVE QueueInv'
  BY <1>4, FinishInv, FinishFailsInv
<1>5. ASSUME NEW p \in Polls, DeadLetter(p) \/ BackOff(p) \/ BookkeepingFails(p)
      PROVE  QueueInv'
  BY <1>5, DeadLetterInv, BackOffInv, BookkeepingFailsInv
<1>6. CASE Crash
  BY <1>6, CrashInv
<1>. QED BY <1>1, <1>2, <1>3, <1>4, <1>5, <1>6 DEF QueueNext

\* A settled row moves only when retryJob moves it: every other write of a
\* status goes to a row that is READY or RUNNING.
LEMMA SettledStep ==
  ASSUME QueueInv, [QueueNext]_queueVars, NEW j \in Jobs
  PROVE  /\ status[j] = "DONE" => status'[j] = "DONE"
         /\ status[j] = "DEAD" => \/ status'[j] = "DEAD"
                                  \/ status'[j] = "READY" /\ attempts'[j] = 0
<1>. DEFINE Settled == /\ status[j] = "DONE" => status'[j] = "DONE"
                       /\ status[j] = "DEAD" => \/ status'[j] = "DEAD"
                                                \/ status'[j] = "READY" /\ attempts'[j] = 0
<1>0. TypeOK
  BY DEF QueueInv
<1>1. ASSUME NEW k \in Jobs, Enqueue(k) \/ BecomeDue(k) \/ RetryJob(k)
      PROVE  Settled
  BY <1>0, <1>1 DEF Enqueue, BecomeDue, RetryJob, TypeOK
<1>2. ASSUME NEW p \in Polls, ClaimDue(p) PROVE Settled
  <2>1. /\ Len(due) \in Nat /\ ClaimSize \in 0 .. Len(due)
        /\ Claimed \in Seq(Jobs) /\ Len(Claimed) = ClaimSize
        /\ \A i \in 1 .. ClaimSize : Claimed[i] = due[i]
    BY <1>0, ClaimSplits, LenProperties, QueueAssumption DEF TypeOK
  <2>2. DOMAIN Claimed = 1 .. ClaimSize /\ DOMAIN due = 1 .. Len(due)
    BY <2>1, <1>0, LenProperties DEF TypeOK
  <2>3. \A i \in 1 .. ClaimSize : i \in 1 .. Len(due)
    BY <2>1
  <2>4. ToSet(Claimed) \subseteq ToSet(due)
    BY <2>1, <2>2, <2>3 DEF ToSet
  <2>. QED BY <1>2, <2>4 DEF ClaimDue, QueueInv, WaitingIsReady
<1>3. ASSUME NEW p \in Polls, phase[p] # "idle",
             \A k \in Jobs \ {Current(p)} : status'[k] = status[k]
      PROVE  Settled
  BY <1>3, BusyHoldsARunningJob
<1>4. ASSUME UNCHANGED status PROVE Settled
  BY <1>4
<1>5. ASSUME NEW p \in Polls, Finish(p) \/ DeadLetter(p) \/ BackOff(p) PROVE Settled
  BY <1>0, <1>3, <1>5
     DEF Finish, DeadLetter, BackOff, MarkDead, MarkDelayed, GivenUp, ComesBack, Unrunnable, TypeOK
<1>6. ASSUME NEW p \in Polls, BookkeepingFails(p) PROVE Settled
  BY <1>0, <1>3, <1>4, <1>6
     DEF BookkeepingFails, MarkDead, MarkDelayed, GivenUp, ComesBack, Unrunnable, rows, TypeOK
<1>7. ASSUME NEW p \in Polls, NEW outcome \in {"ok", "transient", "permanent"},
             HandlerEnds(p, outcome) \/ FinishFails(p)
      PROVE  Settled
  BY <1>4, <1>7 DEF HandlerEnds, FinishFails, rows
<1>8. CASE Crash \/ UNCHANGED queueVars
  BY <1>4, <1>8 DEF Crash, queueVars, rows
<1>. QED BY <1>1, <1>2, <1>5, <1>6, <1>7, <1>8 DEF QueueNext

-----------------------------------------------------------------------------
(* The theorems.                                                           *)

THEOREM QueueInvariance == QueueSafeSpec => []QueueInv
<1>1. QueueInit => QueueInv
  BY QueueInitInv
<1>2. QueueInv /\ [QueueNext]_queueVars => QueueInv'
  BY QueueNextInv
<1>. QED BY <1>1, <1>2, PTL DEF QueueSafeSpec

\* The rows and the batches keep their types; in particular no job is ever
\* tried more than MaxAttempts times between two revivals.
THEOREM QueueTypes == QueueSafeSpec => []TypeOK
<1>1. QueueInv => TypeOK
  BY DEF QueueInv
<1>. QED BY <1>1, QueueInvariance, PTL

\* However many batches overlap, no two hold the same job, so the unguarded
\* writes of finish, deadLetter and the backoff meet the row they mean.
THEOREM ClaimsAreExclusive == QueueSafeSpec => []ExclusiveClaim
<1>1. QueueInv => ExclusiveClaim
  BY DEF QueueInv, ExclusiveClaim
<1>. QED BY <1>1, QueueInvariance, PTL

\* A job that can be claimed has an attempt left.
THEOREM ClaimableHasAttemptLeft == QueueSafeSpec => []AttemptLeft
<1>1. QueueInv => AttemptLeft
  BY DEF QueueInv
<1>. QED BY <1>1, QueueInvariance, PTL

\* runJob leaves no RUNNING row behind unless a crash or a failed write
\* interrupts a batch.
THEOREM UninterruptedStrandsNothing == QueueSafeSpec => []OnlyInterruptionsStrand
<1>1. QueueInv => OnlyInterruptionsStrand
  BY DEF QueueInv
<1>. QED BY <1>1, QueueInvariance, PTL

\* A DONE job stays DONE, and a dead letter moves only through retryJob.
THEOREM SettledJobsStay == QueueSafeSpec => SettledIsStable
<1>1. ASSUME QueueInv, [QueueNext]_queueVars
      PROVE  [\A j \in Jobs :
                /\ status[j] = "DONE" => status'[j] = "DONE"
                /\ status[j] = "DEAD" => \/ status'[j] = "DEAD"
                                         \/ status'[j] = "READY" /\ attempts'[j] = 0]_queueVars
  BY <1>1, SettledStep
<1>. QED BY <1>1, QueueInvariance, PTL DEF QueueSafeSpec, SettledIsStable
=============================================================================
