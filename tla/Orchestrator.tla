---------------------------- MODULE Orchestrator -----------------------------
(***************************************************************************)
(* One run of orchestration/orchestrator.ts: a trigger is planned, through *)
(* the gateway, into a task graph (module Planner); the graph is walked in *)
(* waves; what the agents recommend goes to the executor; the plan closes. *)
(*                                                                         *)
(* A step is one turn of the event loop.  A turn whose name ends in Cut is *)
(* one in which a statement on the database throws: the rows are left as   *)
(* they were up to that statement.  A crash after such a step is a crash   *)
(* in the middle of the turn.                                              *)
(*                                                                         *)
(* An agent reads (which may fail), asks the gateway once, and returns     *)
(* what it recommends.  What a recommended call then does is the matter of *)
(* module Executor; here it is attempted.                                  *)
(***************************************************************************)
EXTENDS Planner, Gateway, Listing

CONSTANTS
  Proposals,      \* task graphs the model may answer with
  Questions,      \* questions, each the set of the phrases it contains
  Entities,       \* what a recommended call may name
  Advice,         \* what an agent may recommend, sequences of Recommendations
  MaxAttempts,    \* MAX_ATTEMPTS
  MaxExecutions,  \* MAX_EXECUTIONS_PER_PLAN
  MaxWalked,      \* bound: plans of more tasks are planned and not walked
  MaxFaults,      \* bound: agents that fail, and statements of a task that throw
  MaxCrashes      \* bound: how often the process dies

\* `moves' tells a price cut and a budget increase from the opposite.
Recommendation(entities) ==
  [tool : {"none", "update_price", "propose_budget_change", "pause_campaign",
           "create_purchase_order", "create_refund", "fulfill_order"},
   entity : entities,
   moves : {"up", "down", "none"},
   worth : Nat]

ASSUME OrchestratorAssumption ==
  /\ \A p \in Proposals : SchemaValid(p)
  /\ \A a \in AgentIds : Advice[a] \subseteq Seq(Recommendation(Entities))
  /\ "planner" \in Requests
  /\ \A p \in Proposals \cup {t.tasks : t \in TemplateSet} :
       Len(p) <= MaxWalked => KeysOf(p) \subseteq Requests \ {"planner"}
  /\ MaxAttempts \in Nat \ {0}
  /\ {MaxExecutions, MaxWalked, MaxFaults, MaxCrashes} \subseteq Nat

VARIABLES
  pc,         \* where runPlan stands
  fallback,   \* the template the trigger selects
  tasks,      \* the plan
  plannedBy,  \* plans.planned_by
  planRow,    \* plans.status
  row,        \* tasks.status
  attempts,   \* tasks.attempts
  at,         \* where executeTask stands for each task
  advice,     \* the recommendations in its result
  completed,  \* the keys of the tasks that succeeded
  finished,   \* the keys of the tasks that have an end
  results,    \* the keys of resultsByKey, in the order they were set
  agenda,     \* recommendations about to be attempted
  attempted,  \* executions
  skipped,
  faults, crashes  \* counters of the bounds

planVars == <<fallback, tasks, plannedBy>>
rows == <<planRow, row, attempts>>
ends == <<completed, finished, results>>
walkVars == <<at, advice, ends>>
outcomeVars == <<agenda, attempted, skipped>>
bounds == <<faults, crashes>>
orchestratorVars ==
  <<gatewayVars, pc, planVars, rows, walkVars, outcomeVars, bounds>>

Proposable == UNION {UNION {Range(s) : s \in Advice[a]} : a \in AgentIds}

Keys == KeysOf(tasks)
DependsOn(k) == TaskOf(tasks, k).dependsOn
AgentOf(k) == TaskOf(tasks, k).agentId
InOrder(S) ==
  LET places == {i \in DOMAIN tasks : tasks[i].key \in S}
  IN  Pick([i \in DOMAIN tasks |-> tasks[i].key], Listed(places, Ascending(places)))

Ended == {"closed", "rejected", "gone"}
Pc == {"asking", "planning", "persisting", "walking", "waiting", "attempting"} \cup Ended
At == {"waiting", "gathering", "reasoning", "backoff", "ok", "failed", "threw", "gone"}
Settled == {"COMPLETED", "FAILED", "BLOCKED"}
TaskStatus == {"ABSENT", "PENDING", "PLANNING", "RUNNING", "VERIFYING"} \cup Settled

PlanInit ==
  /\ GatewayInit
  /\ pc = "asking"
  /\ \/ \E e \in Triggers : fallback = TemplateForEvent(e).tasks
     \/ \E m \in Metrics : fallback = TemplateForGoal(m).tasks
     \/ \E q \in Questions : fallback = TemplateForIntent(q).tasks
  /\ tasks = <<>>
  /\ plannedBy = "template"
  /\ planRow = "ABSENT"
  /\ row = [k \in {} |-> "ABSENT"]
  /\ attempts = [k \in {} |-> 0]
  /\ at = [k \in {} |-> "waiting"]
  /\ advice = [k \in {} |-> <<>>]
  /\ completed = {}
  /\ finished = {}
  /\ results = <<>>
  /\ agenda = <<>>
  /\ attempted = <<>>
  /\ skipped = <<>>
  /\ faults = 0
  /\ crashes = 0

\* An agent fails, or a statement of its task throws.
Fault ==
  /\ faults < MaxFaults
  /\ faults' = faults + 1
  /\ UNCHANGED crashes

-----------------------------------------------------------------------------
(* Planning: planWithModel.                                                *)

AskPlanner ==
  /\ pc = "asking"
  /\ pc' = "planning"
  /\ Ask("planner")
  /\ UNCHANGED <<planVars, rows, walkVars, outcomeVars, bounds>>

Adopt(plan, by) ==
  /\ tasks' = plan
  /\ plannedBy' = by
  /\ row' = [k \in KeysOf(plan) |-> "ABSENT"]
  /\ attempts' = [k \in KeysOf(plan) |-> 0]
  /\ at' = [k \in KeysOf(plan) |-> "waiting"]
  /\ advice' = [k \in KeysOf(plan) |-> <<>>]

\* Mutant: a rejected plan is replaced, and still recorded as the model's.
ChooseUnderItsName ==
  \/ engine["planner"] = "deterministic" /\ Adopt(fallback, "template")
  \/ /\ engine["planner"] = "hosted"
     /\ \E proposal \in Proposals :
          Adopt(IF Accepted(proposal) THEN proposal ELSE fallback, "model")

\* No model answered: the template.  One did: its plan if it passes every check.
Choose ==
  \/ engine["planner"] = "deterministic" /\ Adopt(fallback, "template")
  \/ /\ engine["planner"] = "hosted"
     /\ \E proposal \in Proposals :
          \/ Accepted(proposal) /\ Adopt(proposal, "model")
          \/ ~Accepted(proposal) /\ Adopt(fallback, "template")

ReadPlan ==
  /\ pc = "planning"
  /\ stage["planner"] = "answered"
  /\ Choose
  /\ Take("planner")
  /\ pc' = "persisting"
  /\ UNCHANGED <<fallback, planRow, ends, outcomeVars, bounds>>

-----------------------------------------------------------------------------
(* persistPlan, persistTasks and the event.                                *)

Walked == Len(tasks) <= MaxWalked

Persist ==
  /\ pc = "persisting"
  /\ Walked
  /\ pc' = "walking"
  /\ planRow' = "RUNNING"
  /\ row' = [k \in Keys |-> "PENDING"]
  /\ UNCHANGED <<gatewayVars, planVars, attempts, walkVars, outcomeVars, bounds>>

\* The inserts are not one transaction.
PersistCut ==
  /\ pc = "persisting"
  /\ Walked
  /\ pc' = "rejected"
  /\ \/ UNCHANGED <<planRow, row>>
     \/ /\ planRow' = "RUNNING"
        /\ \E n \in 0 .. Len(tasks) :
             row' = [k \in Keys |-> IF \E i \in 1 .. n : tasks[i].key = k
                                   THEN "PENDING" ELSE "ABSENT"]
  /\ UNCHANGED <<gatewayVars, planVars, attempts, walkVars, outcomeVars, bounds>>

-----------------------------------------------------------------------------
(* executeTask.                                                            *)

\* Up to the first await of the agent: PLANNING, RUNNING, the count.
Begin(S) ==
  /\ row' = [k \in Keys |-> IF k \in S THEN "RUNNING" ELSE row[k]]
  /\ attempts' = [k \in Keys |-> IF k \in S THEN attempts[k] + 1 ELSE attempts[k]]
  /\ at' = [k \in Keys |-> IF k \in S THEN "gathering" ELSE at[k]]

\* One of these statements throws for k; they stand outside the try.
BeginCut(S, k) ==
  /\ \E left \in {row[k], "PLANNING", "RUNNING"} :
       row' = [j \in Keys |-> IF j = k THEN left ELSE IF j \in S THEN "RUNNING" ELSE row[j]]
  /\ attempts' = [j \in Keys |-> IF j \in S \ {k} THEN attempts[j] + 1 ELSE attempts[j]]
  /\ at' = [j \in Keys |-> IF j = k THEN "threw" ELSE IF j \in S THEN "gathering" ELSE at[j]]

\* The catch block: back off, or give the task up.
Fail(k, left) ==
  \/ /\ attempts[k] < MaxAttempts
     /\ at' = [at EXCEPT ![k] = "backoff"]
     /\ row' = [row EXCEPT ![k] = left]
  \/ /\ attempts[k] >= MaxAttempts
     /\ at' = [at EXCEPT ![k] = "failed"]
     /\ row' = [row EXCEPT ![k] = "FAILED"]

\* The agent has what it needs and asks the model to rank and explain it.
Consult(k) ==
  /\ at[k] = "gathering"
  /\ Ask(k)
  /\ at' = [at EXCEPT ![k] = "reasoning"]
  /\ UNCHANGED <<pc, planVars, rows, advice, ends, outcomeVars, bounds>>

\* A tool the agent reads with is denied or fails.
GatherFails(k) ==
  /\ at[k] = "gathering"
  /\ Fault
  /\ Fail(k, row[k])
  /\ UNCHANGED <<gatewayVars, pc, planVars, planRow, attempts, advice, ends,
                 outcomeVars>>

\* The recommendations of the results, by result and by their place in it.
Lines == UNION {{<<i, j>> : j \in DOMAIN advice[results[i]]} : i \in DOMAIN results}
Precedes == {e \in Lines \X Lines : \/ e[1][1] < e[2][1]
                                    \/ e[1][1] = e[2][1] /\ e[1][2] < e[2][2]}
By(l) == results[l[1]]
Said(l) == advice[By(l)][l[2]]

\* What is said there, one after the other.
Advised(lines) ==
  LET order == Listed(lines, Precedes)
  IN  [n \in DOMAIN order |-> Said(order[n])]

\* The findings the ceo reads: those of the tasks it depends on.
Findings(k) == Advised({l \in Lines : By(l) \in DependsOn(k) /\ AgentOf(By(l)) # "ceo"})

\* The ceo recommends again what it was told; its own order of that is left out,
\* since executeRecommendations drops what was said before.
Recommends(k) == IF AgentOf(k) = "ceo" THEN {Findings(k)} ELSE Advice[AgentOf(k)]

\* The agent returns a result, and it verifies.
Conclude(k) ==
  /\ at[k] = "reasoning"
  /\ Take(k)
  /\ \E recommended \in Recommends(k) : advice' = [advice EXCEPT ![k] = recommended]
  /\ row' = [row EXCEPT ![k] = "COMPLETED"]
  /\ at' = [at EXCEPT ![k] = "ok"]
  /\ UNCHANGED <<pc, planVars, planRow, attempts, ends, outcomeVars, bounds>>

\* A model's answer makes an empty headline: verify refuses the result.
VerifyFails(k) ==
  /\ at[k] = "reasoning"
  /\ engine[k] = "hosted"
  /\ Take(k)
  /\ Fault
  /\ Fail(k, "VERIFYING")
  /\ UNCHANGED <<pc, planVars, planRow, attempts, advice, ends, outcomeVars>>

\* A statement inside the try throws, at worst after COMPLETED was written.
ConcludeCut(k) ==
  /\ at[k] = "reasoning"
  /\ Take(k)
  /\ Fault
  /\ \E left \in {row[k], "VERIFYING", "COMPLETED"} : Fail(k, left)
  /\ UNCHANGED <<pc, planVars, planRow, attempts, advice, ends, outcomeVars>>

\* The last attempt fails and a statement of the catch block throws.
FailCut(k) ==
  /\ \/ at[k] = "gathering" /\ UNCHANGED gatewayVars
     \/ at[k] = "reasoning" /\ engine[k] = "hosted" /\ Take(k)
  /\ attempts[k] >= MaxAttempts
  /\ Fault
  /\ at' = [at EXCEPT ![k] = "threw"]
  /\ \E left \in {row[k], "FAILED"} : row' = [row EXCEPT ![k] = left]
  /\ UNCHANGED <<pc, planVars, planRow, attempts, advice, ends, outcomeVars>>

\* The backoff is over.
Retry(k) ==
  /\ at[k] = "backoff"
  /\ Begin({k})
  /\ UNCHANGED <<gatewayVars, pc, planVars, planRow, advice, ends, outcomeVars,
                 bounds>>

RetryCut(k) ==
  /\ at[k] = "backoff"
  /\ BeginCut({k}, k)
  /\ row'[k] # "PLANNING"
  /\ Fault
  /\ UNCHANGED <<gatewayVars, pc, planVars, planRow, advice, ends, outcomeVars>>

-----------------------------------------------------------------------------
(* The walk.                                                               *)

\* Mutant: a dependency counts as satisfied when it is finished, whatever its end.
ReadyAfterFailures ==
  {k \in Keys \ finished : DependsOn(k) \subseteq finished}

Ready ==
  {k \in Keys \ finished : DependsOn(k) \subseteq completed}

StartWave ==
  /\ pc = "walking"
  /\ Ready # {}
  /\ pc' = "waiting"
  /\ Begin(Ready)
  /\ UNCHANGED <<gatewayVars, planVars, planRow, advice, ends, outcomeVars, bounds>>

StartWaveCut ==
  /\ pc = "walking"
  /\ pc' = "waiting"
  /\ Fault
  /\ \E k \in Ready : BeginCut(Ready, k)
  /\ UNCHANGED <<gatewayVars, planVars, planRow, advice, ends, outcomeVars>>

Wave == {k \in Keys \ finished : at[k] # "waiting"}

\* Promise.all fulfils when every task of the wave has an end.
SettleWave ==
  /\ pc = "waiting"
  /\ \A k \in Wave : at[k] \in {"ok", "failed"}
  /\ pc' = "walking"
  /\ finished' = finished \cup Wave
  /\ completed' = completed \cup {k \in Wave : at[k] = "ok"}
  /\ results' = results \o InOrder({k \in Wave : at[k] = "ok"})
  /\ UNCHANGED <<gatewayVars, planVars, rows, at, advice, outcomeVars, bounds>>

\* It rejects as soon as one of them threw; the others go on.
RejectWave ==
  /\ pc = "waiting"
  /\ \E k \in Wave : at[k] = "threw"
  /\ pc' = "rejected"
  /\ UNCHANGED <<gatewayVars, planVars, rows, walkVars, outcomeVars, bounds>>

\* Mutant: the rows are left alone.
BlockRestUnrecorded ==
  /\ pc = "walking"
  /\ finished # Keys
  /\ Ready = {}
  /\ finished' = Keys
  /\ UNCHANGED <<gatewayVars, pc, planVars, rows, at, advice, completed, results, outcomeVars, bounds>>

\* Mutant: the first failure blocks what could still run.
BlockRestHastily ==
  /\ pc = "walking"
  /\ finished # Keys
  /\ finished # completed
  /\ row' = [k \in Keys |-> IF k \in finished THEN row[k] ELSE "BLOCKED"]
  /\ finished' = Keys
  /\ UNCHANGED <<gatewayVars, pc, planVars, planRow, attempts, at, advice, completed, results,
                 outcomeVars, bounds>>

\* Mutant: the blocked tasks are not counted as finished.
BlockRestForever ==
  /\ pc = "walking"
  /\ finished # Keys
  /\ Ready = {}
  /\ row' = [k \in Keys |-> IF k \in finished THEN row[k] ELSE "BLOCKED"]
  /\ UNCHANGED <<gatewayVars, pc, planVars, planRow, attempts, walkVars, outcomeVars, bounds>>

\* Everything left depends on something that failed.
BlockRest ==
  /\ pc = "walking"
  /\ finished # Keys
  /\ Ready = {}
  /\ row' = [k \in Keys |-> IF k \in finished THEN row[k] ELSE "BLOCKED"]
  /\ finished' = Keys
  /\ UNCHANGED <<gatewayVars, pc, planVars, planRow, attempts, at, advice, completed, results,
                 outcomeVars, bounds>>

BlockRestCut ==
  /\ pc = "walking"
  /\ finished # Keys
  /\ Ready = {}
  /\ pc' = "rejected"
  /\ \E n \in DOMAIN tasks :
       row' = [k \in Keys |-> IF k \notin finished /\ \E i \in 1 .. n - 1 : tasks[i].key = k
                             THEN "BLOCKED" ELSE row[k]]
  /\ UNCHANGED <<gatewayVars, planVars, planRow, attempts, walkVars, outcomeVars, bounds>>

-----------------------------------------------------------------------------
(* executeRecommendations and the end of the plan.                         *)

\* In the order of resultsByKey.
Actionable == Advised({l \in Lines : Said(l).tool # "none"})

SameCall(r, s) == r.tool = s.tool /\ r.entity = s.entity

\* Mutant: duplicates are dropped without a word.
DuplicatesUnreported(recs) == <<>>

\* What `seen' holds back, and what it lets through, sorted by expected impact; the
\* sort is stable.
Repeats(recs) == {i \in DOMAIN recs : \E j \in 1 .. i - 1 : SameCall(recs[j], recs[i])}
Firsts(recs) == DOMAIN recs \ Repeats(recs)
Dearer(recs) ==
  {e \in (DOMAIN recs) \X (DOMAIN recs) :
     \/ recs[e[1]].worth > recs[e[2]].worth
     \/ recs[e[1]].worth = recs[e[2]].worth /\ e[1] < e[2]}

Duplicates(recs) == Pick(recs, Listed(Repeats(recs), Ascending(Repeats(recs))))
Ranked(recs) == Pick(recs, Listed(Firsts(recs), Dearer(recs)))
Chosen(recs) == SubSeq(Ranked(recs), 1, Min({MaxExecutions, Len(Ranked(recs))}))
Beyond(recs) == SubSeq(Ranked(recs), MaxExecutions + 1, Len(Ranked(recs)))

\* Reported as skipped, and why.
Reported(recs, why) == [n \in DOMAIN recs |-> [rec |-> recs[n], why |-> why]]

RankRecommendations ==
  /\ pc = "walking"
  /\ finished = Keys
  /\ pc' = "attempting"
  /\ \E recs \in {Actionable} :
       /\ agenda' = Chosen(recs)
       /\ skipped' = Reported(Duplicates(recs), "duplicate") \o Reported(Beyond(recs), "limit")
  /\ UNCHANGED <<gatewayVars, planVars, rows, walkVars, attempted, bounds>>

\* callTool answers, whatever it decided.
Attempt ==
  /\ pc = "attempting"
  /\ agenda # <<>>
  /\ attempted' = Append(attempted, Head(agenda))
  /\ agenda' = Tail(agenda)
  /\ UNCHANGED <<gatewayVars, pc, planVars, rows, walkVars, skipped, bounds>>

\* It rethrows what the database threw.
AttemptCut ==
  /\ pc = "attempting"
  /\ agenda # <<>>
  /\ pc' = "rejected"
  /\ UNCHANGED <<gatewayVars, planVars, rows, walkVars, outcomeVars, bounds>>

\* failed.length counts the failed tasks; the blocked are in Keys as well.
Verdict ==
  IF Keys # {} /\ \A k \in Keys : at[k] = "failed" THEN "FAILED" ELSE "COMPLETED"

Close ==
  /\ pc = "attempting"
  /\ agenda = <<>>
  /\ pc' = "closed"
  /\ planRow' = Verdict
  /\ UNCHANGED <<gatewayVars, planVars, row, attempts, walkVars, outcomeVars, bounds>>

\* The update throws, or the event cannot be stored after it.
CloseCut ==
  /\ pc = "attempting"
  /\ agenda = <<>>
  /\ pc' = "rejected"
  /\ planRow' \in {planRow, Verdict}
  /\ UNCHANGED <<gatewayVars, planVars, row, attempts, walkVars, outcomeVars, bounds>>

\* The process dies.  Nothing looks for a plan that is RUNNING when it starts again.
Crash ==
  /\ crashes < MaxCrashes
  /\ crashes' = crashes + 1
  /\ pc \notin {"closed", "gone"}
  /\ pc' = "gone"
  /\ at' = [k \in Keys |-> IF k \in finished THEN at[k] ELSE "gone"]
  /\ Forget
  /\ UNCHANGED <<planVars, rows, advice, ends, outcomeVars, faults>>

-----------------------------------------------------------------------------
(* The specification.                                                      *)

GatewayStep(A) == A /\ UNCHANGED <<pc, planVars, rows, walkVars, outcomeVars, bounds>>

Walk ==
  \/ AskPlanner \/ ReadPlan \/ Persist \/ StartWave \/ SettleWave \/ RejectWave
  \/ BlockRest \/ RankRecommendations \/ Attempt \/ Close

WalkCut ==
  PersistCut \/ StartWaveCut \/ BlockRestCut \/ AttemptCut \/ CloseCut

Execute(k) == Consult(k) \/ Conclude(k) \/ Retry(k)

ExecuteBadly(k) ==
  GatherFails(k) \/ VerifyFails(k) \/ ConcludeCut(k) \/ FailCut(k) \/ RetryCut(k)

PlanNext ==
  \/ GatewayStep(Serve)
  \/ Walk
  \/ WalkCut
  \/ \E k \in Keys : Execute(k) \/ ExecuteBadly(k)
  \/ Crash

\* The event loop does not stand still while something is due: a continuation, a
\* timer of a pause or a backoff, or the answer to a send, which its own timeout
\* bounds (gateway.ts:182).
Due ==
  \/ Walk
  \/ \E k \in Keys : Execute(k)
  \/ GatewayStep(\E r \in Requests : Reply(r) \/ SendAgain(r))

PlanSafeSpec == PlanInit /\ [][PlanNext]_orchestratorVars
PlanSpec == PlanSafeSpec /\ WF_orchestratorVars(Due)

-----------------------------------------------------------------------------
(* Properties.                                                             *)

\* Whatever the model proposed, the plan that is run can be finished and ends in a
\* synthesis (llm-planner.ts:131-162); this holds for every template as well.
PlansAreRunnable ==
  tasks # <<>> => Runnable(tasks)

\* planned_by names where the task graph came from: "model" only for a plan that
\* a configured model answered with, "template" only for the fallback
\* (llm-planner.ts:100-128).
PlannedByIsHonest ==
  /\ plannedBy = "model" => hosted /\ tasks \in Proposals
  /\ plannedBy = "template" => tasks \in {<<>>, fallback}

\* A task has started only if the row of every task it depends on says COMPLETED,
\* through retries, overlapping tasks, failed statements and a crash
\* (orchestrator.ts:172-195).
DependenciesFirst ==
  \A k \in Keys :
    attempts[k] > 0 => \A d \in DependsOn(k) : row[d] = "COMPLETED"

\* When the plan says it is over, every task has an end: completed, failed after
\* every attempt it was due, or blocked, without an attempt, behind a task that
\* did not complete; and a plan that says FAILED has completed nothing
\* (orchestrator.ts:178-225).
ClosedPlansAreSettled ==
  planRow \in {"COMPLETED", "FAILED"} =>
    \A k \in Keys :
      \/ row[k] = "COMPLETED" /\ attempts[k] \in 1 .. MaxAttempts /\ planRow = "COMPLETED"
      \/ row[k] = "FAILED" /\ attempts[k] = MaxAttempts
      \/ /\ row[k] = "BLOCKED" /\ attempts[k] = 0
         /\ \E d \in DependsOn(k) : row[d] # "COMPLETED"

Times(recs, r) == Cardinality({i \in DOMAIN recs : recs[i] = r})
SkippedRecs == [i \in DOMAIN skipped |-> skipped[i].rec]
LeftOut == {s.rec : s \in {t \in Range(skipped) : t.why = "limit"}}

\* "Recommendations not attempted, and why.  Never silently dropped": at the end
\* each actionable recommendation is in executions or in skipped, exactly once; no
\* call is attempted twice; what is left out for the limit is worth no more than
\* what was attempted, and the limit was reached; a duplicate is like something that
\* was attempted or, against its reason (line 276), left out (orchestrator.ts:259-318).
RecommendationsAreAccountedFor ==
  pc = "closed" =>
    /\ \A r \in Range(Actionable) :
         Times(Actionable, r) = Times(attempted, r) + Times(SkippedRecs, r)
    /\ Len(Actionable) = Len(attempted) + Len(skipped)
    /\ \A i, j \in DOMAIN attempted : SameCall(attempted[i], attempted[j]) => i = j
    /\ Len(attempted) <= MaxExecutions
    /\ \A s \in LeftOut :
         Len(attempted) = MaxExecutions /\ \A r \in Range(attempted) : r.worth >= s.worth
    /\ \A s \in Range(skipped) : s.why = "duplicate" =>
         \E r \in Range(attempted) \cup LeftOut : SameCall(r, s.rec)

\* What a finished task ended as is never changed: no late attempt, no second
\* answer and no later wave touches its row or its result (orchestrator.ts:197-207).
OutcomesAreFinal ==
  [][\A k \in finished : row'[k] = row[k] /\ advice'[k] = advice[k]]_orchestratorVars

\* A plan that is started is brought to an end, unless the process dies or a
\* statement throws: with failing agents, an unreliable model and all slots taken.
PlanEnds ==
  <>(pc \in Ended \/ (pc = "persisting" /\ ~Walked))

\* The run refines the promise of module TaskGraph.
Fate(k) ==
  CASE k \notin finished -> "open"
    [] k \in completed -> "done"
    [] k \in finished \ completed /\ at[k] = "failed" -> "failed"
    [] OTHER -> "blocked"

Promise == INSTANCE TaskGraph WITH
  graph <- [k \in Keys |-> DependsOn(k)],
  fate <- [k \in Keys |-> Fate(k)],
  closed <- pc = "closed"

KeepsThePromise == Promise!TaskGraphSpec

\* What the ceo resolved to hold back until later (ceo.ts:153-197): an increase of a
\* budget next to a price cut, or a change of one next to stock that runs out.
HeldBack ==
  {r \in Proposable :
     \E c \in completed :
       /\ AgentOf(c) = "ceo"
       /\ r \in Range(Findings(c))
       /\ r.tool = "propose_budget_change"
       /\ \/ /\ r.moves = "up"
             /\ \E s \in Range(Findings(c)) : s.tool = "update_price" /\ s.moves = "down"
          \/ \E j \in completed :
               j \in DependsOn(c) /\ AgentOf(j) = "inventory" /\ advice[j] # <<>>}

\* Said by ceo.ts:6-8 and ceo.ts:169, and not so: what the ceo holds back is not
\* attempted in the same run.
ResolutionsAreApplied ==
  Range(attempted) \cap HeldBack = {}
=============================================================================
