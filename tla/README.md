# Commerce OS in TLA+

Commerce OS is an operations console for a shop run by software agents: one
Next.js process with a SQLite database, whose agents propose actions, whose
governance decides them, and whose queue hands paid orders to a dropshipping
supplier.  A second process, the MCP server, lets an external agent call the
same tools on the same database.  This directory holds a specification of the
parts of it that are hard to test, TLC configurations that check it on small
instances, and proofs checked by TLAPS.  `PROJECT.json` names, for every
definition, the lines of the repository it translates.

## 1. The system

| Component | Source | State it keeps | Operations | Hard part |
|---|---|---|---|---|
| Durable job queue | `events/queue.ts` | `job_queue` rows; the batches in memory | `enqueue`, `runDueJobs` (claim, run, finish, back off, dead-letter), `retryJob`, the poller | batches overlap; crashes; the error path can fail |
| Fulfilment pipeline | `tools/definitions.ts` (`fulfill_order`), `integrations/*` | `fulfillments` rows; the call under way | commit and enqueue; the worker's handler | lost answers, retries, two writers of one outcome |
| Governed executor | `tools/executor.ts` | `audit_logs`, `approvals`, agent budgets | `callTool`, `executeApproved` | duplicate proposals; budget read before, charged after |
| Policy engine | `policies/*` | none (reads tables) | `evaluate` | combination of decisions, boundaries |
| Approvals | `app/api/approvals/*` | `approvals.status` | approve, reject | decided before executed; double decisions |
| Tool registry | `tools/definitions.ts` | the business tables | refunds, purchase orders, prices, campaigns, stock, tickets | sequences of legal calls that add up; data that moves between proposal and call |
| Orchestrator | `orchestration/orchestrator.ts`, `plans.ts` | `plans`, `tasks` | `runPlan`, `executeRecommendations` | failed and blocked tasks, crash in a plan |
| LLM planner | `orchestration/llm-planner.ts` | none | `validate`, `findCycle` | graph validation |
| AI gateway | `ai/gateway.ts` | slots, cooldown, cache of health | `structured`, `chat`, `withSlot` | waiters and slots |
| Event bus and stream | `events/bus.ts`, `app/api/events/stream/route.ts`, `components/live.tsx` | subscriptions, timers; the page's one `EventSource` | `publish`, `subscribe`, the SSE stream | clean-up of a broken stream; gaps when it reconnects |
| Agents | `agents/*` | status rows | `runAgent`, the rules of each specialist | figures read long before they are acted on |
| Simulation, seeding | `simulation/` | demo data | seed, reset, scenarios, story | a reset under work in progress |
| Memory | `memory/` | notes | remember, search, clear | none |
| Database layer | `database/*` | the tables | queries | two processes on one file |
| Routes | `app/api/*`, `lib/`, `proxy.ts` | none | HTTP | a handler that throws halfway |
| Console pages | `components/*`, `app/*.tsx` | what a page shows and is busy with | requests, answers, live events | late, lost and overtaking answers |

How they interact: an agent run proposes tool calls; `callTool` validates one,
asks the policy engine, and executes it, parks it as an approval, or refuses
it; `fulfill_order` writes a fulfilment and a job; the poller, started by the
first request, runs the job, which calls the supplier and publishes on the bus;
the stream forwards what the bus publishes to the browsers.

### What makes each part correct

- *Job queue.*  No job is run by two batches at once, none more often than
  `MAX_ATTEMPTS`, none is left behind by a batch that was not interrupted, what
  is settled stays settled, and every job settles.
- *Fulfilment pipeline.*  One fulfilment for an order; one supplier call at a
  time for it; the supplier gets an order twice only if its first acceptance was
  never seen; no fulfilment is closed unanswered; an answered one changes only by the
  hand of the handler call that wrote it.
- *Policy engine and executor.*  What needs a human does not happen without one;
  an approval is executed at most once, and only if it was not rejected; asking
  twice does not put two requests before the operators; a budget is not passed
  by spending that could have been counted; a price moves in bounded steps.
- *Tool registry and agents.*  No order is refunded in full twice, whoever asks;
  what the agents propose is what policy lets them do, and a refusal has a
  reason outside the agent; no campaign is both raised and paused on the same returns; a
  customer who asks for a refund is not forgotten without a cause.
- *Simulation.*  A reset leaves nothing of the old business behind, whatever was
  under way; money that goes back overtakes only what was on its way already.
- *Orchestrator and planner.*  Tasks run after their dependencies, each once; a
  plan ends, and its status says what became of it; an accepted graph is acyclic.
- *AI gateway.*  At most two requests in flight, and no waiter is forgotten.
- *Event stream.*  A closed stream leaves neither a subscription nor a timer, and
  what a page shows is what was published, in its order and once.
- *Console.*  What a page shows, lists and says it is busy with agrees with what
  was asked, what was answered and what is in the tables.

What can go wrong in each, line by line, is the list `hazards` of
`PROJECT.json`.

## 2. The modules

| Module | Models | Variables and what they stand for |
|---|---|---|
| `JobQueue` | `events/queue.ts` | `status`, `attempts`: columns of `job_queue`; `due`, `delayed`: the READY rows in claim order, and those whose `run_after` lies ahead; `batch`, `phase`: the array a `runDueJobs` call iterates over and how far it is with its first job |
| `Fulfillment` (extends `JobQueue`) | `fulfill_order`, the worker, the supplier's adapter | `ful`, `orderOf`: columns of `fulfillments`; `tool`: the statement each caller of the tool has reached; `call`: how far a batch's handler is with its supplier call and the answer; `drafts`, `unseen`: what the supplier accepted, and which of it the handler never recorded |
| `Handover` | nothing: it is the promise about one order | `stage`, `accepted` |
| `Governance` | `policies/governance.ts`, `rules.ts`, the permissions and autonomy of `agents/definitions.ts` | none: the engine reads, and answers |
| `Executor` (extends `Governance`) | `tools/executor.ts`, the approve and reject routes, the effects of three tools | `at`, `call`, `grant`: where each chain of calls stands; `status`, `parked`: the `approvals` table; `used`: `agents.budget_used_paise`; `refunds`, `purchased` (the cost of each purchase order of a product), `price`: what the tools write |
| `Planner` | `orchestration/plans.ts`, `validate` and `findCycle` of `llm-planner.ts` | none: operators on a sequence of tasks |
| `Gateway` | `ai/gateway.ts` | `stage`, `round`, `sends`, `engine`: where each caller's request stands; `inFlight`, `waiting`: the module's own; `cooling`: `Date.now() < disabledUntil` |
| `Orchestrator` (extends `Planner`, `Gateway` and `Listing`) | `orchestration/orchestrator.ts`, `planWithModel`, what an agent does to it | `pc`: where `runPlan` stands; `tasks`, `plannedBy`, `planRow`, `row`, `attempts`: columns of `plans` and `tasks`; `at`: where `executeTask` stands; `completed`, `finished`, `results`: the collections of `runPlan`; `agenda`, `attempted`, `skipped`: those of `executeRecommendations` |
| `Listing` | nothing of its own: lists in the order of a relation | none |
| `TaskGraph` | nothing: it is the promise about a plan | `graph`, `fate`, `closed` |
| `Simulation` (extends `Fulfillment`) | the reset and seeding, refunds and failing payments, `describeOrderState` | `pay`: `orders.payment_status`; `gone`: rows a reset deleted; `overtaken`, `forgotten`: history for the properties |
| `Commerce` (extends `Governance`) | the queries the specialists read and the tools that write, `database/queries.ts` and `tools/definitions.ts` | none: operators on a database, which is a record of the columns somebody writes |
| `Specialists` (extends `Commerce`) | the rules of `agents/inventory.ts`, `procurement.ts`, `pricing.ts`, `marketing.ts`, `customer.ts` | none: what an agent proposes, given what it read |
| `Reviews` (extends `Specialists`) | reviews under way, the operator, clients of the MCP server, `simulation/scenarios.ts` | `db`, `used`: the tables; `run`: what each review has still to do (calls to make, replies to send, `returns` to propose refunds for); `requests`: PENDING approvals; the rest is history: `passedOver`, `asked`, `dropped` and others |
| `EventStream` | `events/bus.ts`, the stream's route, `components/live.tsx` | `attached`, `closed`: the closure of each `start`; `request`, `broken`, `aborted`: how a connection stands; `pipe`: frames on their way; `source`, `mounted`, `feed`: the module and hooks of the page |
| `Console` (extends `EventStream`) | `components/interactive.tsx`, `ask.tsx`, `run-agent.tsx` and the routes they call | `busy`, `shown`, `draft`, `timer`, `queue`, `list`: the hooks' state; `calls`, `waiting`, `answers`: requests and answers on their way; `status`, `records`: the tables |
| `MCJobQueue`, `MCFulfillment`, `MCSimulation`, `MCExecutor`, `MCReviews`, `MCOrchestrator`, `MCConsole` | | symmetry sets and the instances' constants |
| `JobQueueProofs`, `FulfillmentProofs` (extends it), `SimulationProofs` (uses an instance of it), `ExecutorProofs`, `ListingProofs`, `ReviewsProofs` and `OrchestratorProofs` (both extend it), `EventStreamProofs` | | inductive invariants and theorems |

`Fulfillment` composes with `JobQueue` by conjoining its handler's steps with the
queue's `HandlerEnds`; the queue's other steps run unchanged.  `Executor` uses
`Governance` as a function of the budgets and prices it holds.  `Orchestrator`
conjoins its steps with the gateway's `Ask` and `Take`, made for the planner and
for each task, and leaves the gateway's own steps, `Serve`, alone.

### JobQueue

| Code | Action |
|---|---|
| `enqueue` | `Enqueue` |
| `claimDue`, one transaction | `ClaimDue`: up to `ClaimLimit` rows become RUNNING and one attempt dearer.  A transaction that fails changes nothing and is no step. |
| `await handler(job)` returns or throws | `HandlerEnds`, with `ok`, `transient` or `permanent` |
| `finish` | `Finish`; inside the `try`, so a failing write makes a failure of a success: `FinishFails` |
| `deadLetter`, no handler registered | `DeadLetter` |
| backoff `UPDATE` | `BackOff`; `BecomeDue` when its time comes |
| the catch block throws itself | `BookkeepingFails`: the error leaves `runDueJobs`, with the rest of the batch |
| `retryJob` | `RetryJob`.  No route in `src/` calls it; the tests do. |
| the process dies | `Crash` |

A job's `attempts` in the batch array is a snapshot; the row does not change while
it is RUNNING, so the row stands for both.  Rows with the same `run_after` are
ordered by when they joined.  Several polls run at once because `setInterval`
does not wait; each action is one stretch of code between awaits.  Actions of
two polls interleave between any two of them, which is more than the microtask
queue would allow and includes all it does.

### Fulfillment and Handover

A fulfilment and its job share an identifier, since each pair is created together.
The guards of `fulfill_order` that only read (order missing, unpaid, without
lines) shrink `Orders` to the orders that pass them.  No code in `src/` writes
the status CANCELLED, and the adapters return SUBMITTED only.  The supplier is
outside `src/`: it accepts, refuses for good (4xx), is unavailable (5xx, 429,
timeout), or accepts and is not heard.  That it refuses a second order with the same
`external_id` is assumed nowhere.  The worker's own permanent errors, for an order that is missing
or has no lines, are those of a supplier that refuses for good: `fulfill_order` takes
only orders that exist and have lines, and only a reset removes rows.

An answer that arrives and is not recorded takes two steps, since the rows in between are
committed.  `RecordingThrows` is the try block, which throws at its `UPDATE` (the row stays as it
was) or at the event after it (the row says SUBMITTED); `CatchRecording` is the catch block, which
on the last attempt writes EXCEPTION over either.  Nothing of the application comes between the two
(`EventLoopFree`), but a crash or another process can.  The same holds of `tool`, between its two
INSERTs.  Otherwise a step is one turn of the event loop.

The MCP server is a caller outside `InProcess`: its statements interleave with anything, and
`AppCrash` leaves it alone.  A write may fail because the second process holds the database
(`SQLITE_BUSY`), which is what `faults` and `lapses` are.  The runs have callers of the
application only; what holds with the MCP server as well is proved (`AnswersStand`,
`FulfillmentTypesHold`).

`Handover` is the promise order by order: committed at most once, submitted only
if accepted, in the end answered, parked as an exception, or dead-lettered; an order
that was submitted is withdrawn to an exception at most (`Withdraw`: the overwrite just described).
`Fulfillment` implements it under `Promise`, an `INSTANCE` that derives an order's
stage from its fulfilment and job.

### Simulation

| Code | Action |
|---|---|
| `POST /api/simulation/reset`: `truncateAll` and `seedDemo`, synchronous | `Reset` |
| `recordRefund` by the refund tool | `RecordRefund` |
| the `payment_failure` scenario | `PaymentFailure` |
| `fulfill_order` with its check of the payment | `FindPaid`, then as in `Fulfillment` |
| a job whose row is gone: the handler finds no fulfilment | `NoSuchFulfillment` |
| its supplier call answers all the same | `GhostAccepted`, `GhostAnswered` |
| `finish`, `deadLetter` and the backoff match no row | `GhostSettles`, `GhostBookkeepingFails` |
| `describeOrderState` | `DescribeOrderState` |

A reset empties the tables and is not told to what runs in memory: a claimed batch goes on with
jobs no row stands for.  The order comes back under its identifier, fulfilments and jobs under
new ones, so a late answer meets nothing.  The seed cancels orders that are paid, too
(`CancelledOrders`): `describeOrderState` calls them cancelled whatever their fulfilment says,
while `fulfill_order` sends them like any other.  The run has none, because nothing it is told
of such an order depends on the supplier; the proofs have any.  Callers are those of the
application, as the reset is one of its routes; a reset under an MCP client's half-done call is
left out.

### Commerce, Specialists and Reviews

A call of the executor is one step in `Reviews`, for `Executor` has shown what
its parts can do to each other; the step asks the same `Decision` of
`Governance`.  What a step is *between* is the point here: a review reads, a model
words the answer, and only then are its proposals attempted one by one, or wait
for a human, while another review, a client or a scenario changes what was read.

| Code | Action |
|---|---|
| `inventoryAgent`, `procurementAgent` after it or alone | `InventoryRun`, `ProcurementRun`, `ProcurementAlone` |
| `pricingAgent`, `marketingAgent` | `PricingRun`, `MarketingRun` |
| `customerAgent` up to the model's answer: it reads the queue, once | `CustomerRun` |
| the replies it then sends within its run, one by one | `Reply` |
| the refunds it works out after the last of them | `ProposeRefunds` |
| its run throws before that, and `executeTask` retries: what was answered is no longer open | `ReviewFails`, and a new `CustomerRun` |
| `executeRecommendations`, one by one | `Attempt`; `Conclude` when there was nothing |
| approve and reject | `Approve`, `Reject` |
| a client of the MCP server, bound to one agent: prices, goods received, refunds, replies | `CallAsBoundAgent` |
| the scenarios | `Stockout`, `SupplierDelay`, `CompetitorPrice`, `CampaignFailure`, `ReturnSurge` |

Money is in paise and ratios are integers in the last digit the code keeps, rounded where it
rounds.  A report is `Listed` in the order of its columns, and then in that of the table
(`Row`), as SQLite and a stable sort leave it.  Profit under the constant elasticity of -1.4
has its peak at 3.5 times the cost; where that alone does not tell whether a move pays, both
answers are possible (`Profitable`).  Some facts a reader may not expect, all of the code:
`supplier_delay` leaves `supplier_quotes` alone, so that procurement's choice, which goes by
the quotes, does not change; at the seed's margins a price cut never pays, so the
`competitor_price` scenario alone yields no proposal; of the products under the market the two
with the smallest gaps are taken; a reallocation counts the budgets of all that lose money and
two of them are paused, so that the same money can be moved twice; what is already on order is
not looked at, so that overlapping reviews order twice when the first request was approved
before the second is attempted; a purchase beyond ₹5,00,000 is denied and not asked about.  A
ticket's order is among the 40 newest, so that the customer agent's `get_orders` with its limit
of 200 always finds it.

`PricingRun` takes the two reads of the pricing agent (`get_competitor_prices`, then
`simulate_price_change` of each candidate) as one.  A client bound to marketing or inventory is left out.

### EventStream and Console

| Code | Action |
|---|---|
| `GET /api/events/stream` | `Serve` |
| `publish`, after the event is stored | `Publish` |
| the heartbeat finds the reader gone | `Heartbeat` |
| the runtime cancels the reader; the signal fires | `ReaderCancelled`; `Abort`, with `Close` |
| `useLiveEvents` mounts and unmounts | `Mount`, `Unmount` |
| the browser loses the connection and opens another | `Drop` |
| `onmessage` | `Deliver` |
| a click, a submit, a slider, its timer | `Ask`, `Fire`, `StartDemo`, `Submit`, `RunAgent`, `Search`, `Resolve`, `Clear`, `SelectProduct`, `SetPrice`, `SetElasticity`, `Project` |
| the routes | `AskRoute`, `SimulateRoute`, `StartRoute`, `GoalsRoute`, `AgentRoute`, `RecommendRoute`, `PricingRoute`, `ApproveRoute`, `RejectRoute`, `ClearRoute`; `Handle` throws before anything is done |
| `await fetch` returns or throws | `Answered`, `CutOff` |

`Project` has no guard on the draft, because a draft always has a product and a price above zero.
`ResetButton` (`shell.tsx`), which sends the reset and reloads the page, is left out: the page it would
show is a new one, and what the reset does is in `Simulation`.

A request and its answer travel in any order among others.  A cut-off is told to the
component whether or not the request has reached, or will reach, the server.  What a
route starts is the matter of the other modules; here it changes what the page lists.
Somebody else's run writes to the memory (`Remember`).  The browser, and the order
in which the runtime cancels a reader and fires a signal, are outside `src/`: both
orders are allowed.

### Governance and Executor

A call carries its agent, tool, entity, amount, and the two facts the policies
ask for: whether fraud is suspected, and whether the supplier has quoted the product.  Money is
in one unit.  `Decision` is the severest answer of `evaluate`: the early returns
and the reduction over reasons come to a disjunction of what denies and one of what
asks for a human.

| Code | Action |
|---|---|
| `callTool` up to the decision | `Propose`; a call that is denied or finds a pending duplicate writes only the audit log and is no step |
| `createApproval` | `Park` |
| `tool.execute` up to its return | `Execute` (`CreateRefund`, `CreatePurchaseOrder`, `UpdatePrice`), `ExecuteFails` |
| what follows `await tool.execute` | `Charge`, in a turn of its own |
| the routes: read, await the body, decide | `ReadApproval`, then `Approve`, `Reject` or `Conflict` |
| `executeApproved` | `Replay` |
| a statement throws | `Lapse` |
| the application dies | `AppCrash` |

The statements of `callTool` between two awaits run without interruption inside
the application (`Running`), and interleave freely for a caller in another
process.  The await on the tool splits the evaluation of a budget from its charge even within
one process: a second call whose continuation is already queued runs in between.
A second refund of the same amount on the same order has the identifier of the first
and fails on the primary key; a collision of identifiers between different rows
counts as a lapse.  `budget_used_paise` is reset by nothing in `src/` but
seeding.  A replay can be denied in principle; among these tools only price
changes have a policy that reads what may have changed, and they are never
parked, so a replay fails at the tool or not at all.  `executions`,
`refused`, `autoSpent` and `raced` record history for the properties and guard nothing.

Left out of both: the audit log, metrics, events and wording.

### Planner

A plan is a sequence of tasks with key, agent and dependencies.  The templates are written out,
because properties are checked of them.  `FindsCycle` is the search of `findCycle` with its two
marks, in whatever order (`Visit` is one turn of it); `Acyclic` says what the search is for
without searching, and `Runnable` what `validate` is for.  A question is the set of phrases it
contains: which occur in a text is string search, the choice among them is the code's.  Two
phrases of one length go to the template that comes first, as the stable sort does.

### Gateway

| Code | Action |
|---|---|
| `structured`, no hosted model or cooling down | `AskFallback` |
| `structured` up to the wait for a slot or the send | `AskModel`, with `Admit` |
| an answer of the right shape | `ReplyFits` |
| of the wrong shape: again, or the fallback without a cooldown | `ReplyMismatch` |
| 429 with sends left; the sleep ends | `ReplyBusy`, `SendAgain`: the slot is kept meanwhile |
| the last 429, another status, a timeout, a broken connection | `ReplyFails`, which starts the cooldown |
| `disabledUntil` passes | `CoolDown` |
| `finally` of `withSlot` | `Leave`, or `GoAgain` for a second round |

A step is one turn of the event loop.  A slot given back and the first waiter's
continuation are one step: the waiter resumes in the next microtask, and what
else is in the queue at that moment is the releasing request's own tail, which
takes more microtasks to ask again.  The exception would be a request that fails before
it reaches the network (a malformed `AI_BASE_URL`): it ends in the turn in
which its neighbours start, and is left out.  `text`, the entry for shoppers, takes
the steps of `structured` without the second round (an empty answer is a
`ReplyFails`), so `Gateway` alone covers it; in `Orchestrator` the plan is the only caller.

### Orchestrator and TaskGraph

| Code | Action |
|---|---|
| `planFor...`, `planWithModel` up to its await | `PlanInit`, `AskPlanner` |
| the model's answer is validated | `ReadPlan`, with `Choose` |
| `persistPlan`, `persistTasks`, the event | `Persist`, `PersistCut` |
| `ready`, and `executeTask` of each up to its await | `StartWave`, `StartWaveCut` |
| an agent has read, or cannot | `Consult`, `GatherFails` |
| it returns, `verify`, the result is stored | `Conclude`, `VerifyFails`, `ConcludeCut` |
| the catch block | `Fail`, `FailCut`; `Retry`, `RetryCut` after the backoff |
| `Promise.all` | `SettleWave`, or `RejectWave` when a task threw |
| `ready.length === 0` | `BlockRest`, `BlockRestCut` |
| `executeRecommendations` | `RankRecommendations`, then `Attempt` or `AttemptCut` for each |
| the final status | `Close`, `CloseCut` |
| the process dies | `Crash`: rows stay, memory goes |

An action whose name ends in `Cut` is a turn in which a statement on the database
throws; what was written before it stays.  They matter because some statements stand
outside the `try` of `executeTask`: the walk is left at once, and the other tasks of
the wave go on without it, which the model lets them do (`pc = "rejected"`).
What an agent finds is left open; what it recommends is any member of `Advice` for it, and the
ceo repeats the recommendations of the tasks it depends on, as `ceo.ts` does.
The order in which the ceo ranks them is abstracted, as they all name calls that were
named before and are dropped as duplicates.  Loops that filter and sort (`InOrder`,
`Findings`, `executeRecommendations`) are written with `Listed`, which puts an element
behind those that come before it: what `SelectSeq` and `SortSeq` return, in a form that can
be reasoned about.  What a recommended call does is the
matter of `Executor`; here it is attempted.

`TaskGraph` is the promise: a graph is drawn once, a task ends after everything it
depends on ended well, what cannot run is blocked and only then, an end is final,
and the plan closes when nothing is open.  `Orchestrator` implements it under `Promise`.

## 3. The runs

`CHECK_DEADLOCK FALSE` everywhere: the bounds run out, and a shop with nothing to do stops.

| Run | Question | Bounds |
|---|---|---|
| `queue_safety` | Is every row handled by one batch, does what is settled stay so, and is nothing left behind but by an interruption? | 3 jobs, one of a kind without handler, 2 polls, claims of 2, 3 attempts, 1 crash, 1 failed write, 1 revival each |
| `fulfillment_safety` | Is an order fulfilled once, and does an answer stay as recorded?  Does the pipeline implement `Handover`? | 2 orders, 2 polls, 1 caller, 3 attempts, 1 revival, 1 crash, 1 failed queue write, 2 failed writes of tool or handler |
| `fulfillment_liveness` | Does every job settle, every handover end, and `Handover` make progress? | the same with 2 attempts and no interruption |
| `simulation` | Does the pipeline stay sound when orders are refunded and the demo is reset under it, and is a customer told the truth? | 1 order, 2 jobs, 2 polls, 1 caller, 2 attempts, 1 reset, 2 setbacks, 1 revival, 1 crash, 1 failed queue write, 2 failed writes of tool or handler |
| `executor_safety` | Do governance and approvals hold together under interleaving operators and callers, a crash and a failure? | 2 callers, 2 operators, 3 approvals, 4 proposals out of 8 calls, 1 crash, 1 lapse |
| `reviews` | Do the specialists' proposals still fit when they are acted on, and who is forgotten? | 2 reviews at once out of 3, each of which may break off, 1 scenario, 1 client's call, one desk (supply, prices, campaigns, service) a behaviour; 5 products, 4 campaigns, 3 orders |
| `plan_runs` | Does whatever gets planned run in order, once, to a recorded end, with no slot and no recommendation lost?  Does it implement `TaskGraph`? | about 1,600 graphs of 1 to 3 tasks, every template, plans of up to 3 tasks walked, 1 slot, 2 bad answers, 2 faults, 1 crash, 1 attempted recommendation |
| `console` | What leaks, and does a page show what is so? | 1 page a behaviour; 2 live components, 2 connections, 3 events of which 3 are kept, 1 drop; 3 requests, 1 cut off, 1 handler that throws; 2 tabs, 2 approvals |
| `crash_strands_jobs` | Do jobs survive a restart? (no) | one crash |
| `lost_answer_sends_twice` | Is an order the supplier accepted never sent again? (no) | no interruption |
| `overlap_overspends` | Does an agent stay within its daily authority? (no) | 2 refunds, one process, no failure |
| `resolutions_are_not_applied` | Is what the ceo holds back not attempted? (no) | as `plan_runs`, with the real limit of 6 |

Why the bounds are enough.  Whatever two batches can do to each other needs two
polls and one contested job; a second and a third job give a batch a tail to lose
and something to claim next to it.  3 attempts are the real cap; the liveness run has
2 so that a job can come back once and still be exhausted.  A claim of 2 stands for
the poller's 10 and the story's 50: what matters is that a batch can hold more
than one job and leave more behind.  One revival brings every state of a dead
letter back to READY.  One crash, fault and lapse each, anywhere, combine to any pair
of interruptions; two lapses, because the catch block can fail over an answer whose
recording has failed.  The proofs lift the bound for the
queue, the pipeline and the executor.

For the simulation, one identifier is for the old business and one for the new, both
for the one order that comes back.  Two setbacks are a refund of the old and of the
new order, or a failed payment that is refunded; two polls are an old batch that
goes on next to a new one.

For the executor, two callers and two operators are every pair that can race;
three approvals are a pending one, its successor and one of another tool.  The limits keep
their order and shrink: a refund limit of 1, a purchase limit of 3, a ceiling of 4, a
daily budget of the customer agent of 1, which one small refund fills where ten
of ₹2,000 fill ₹20,000.  Prices of 19, 22 and 24 for a product of 20 that costs
15 are one below the floor, one step that is allowed and one that is so only
after it.

For the reviews, behaviours are about one desk, since no rule reads what another desk writes,
and the real limits and the seed's kind of figures are kept.  Among the products are one that
runs out, one nobody buys, one far under the market, one with an odd price and one that sells
for less than the margin floor asks; among the campaigns two that do well and two that lose
money, with the returns of the seed (5.4, 8.2, 0.7, 0.5); the orders' tickets are a damaged
item, refunds, and two about one order; a client answers the first of them.  Two reviews at
once and a third one after them are all that can race for one proposal or come back to it.

For the console, a page is a document of its own and shares nothing with the
others but the tables, so one page a behaviour loses nothing; the two tabs of approvals are
the one case where two pages write the same row.  Three requests let an answer
overtake one and be overtaken.  Two connections are one and its successor.

For plans, three tasks are the smallest graphs with a fork, a join, a chain and a
cycle through all; two tasks are enumerated in full over known and unknown keys
and agents, self-dependencies and duplicates included.  Longer templates are planned and
checked for being runnable and not walked (`MaxWalked`).  One slot instead of two
makes two parallel tasks compete as three would.  The real caps of attempts (2),
sends (2 instead of 3) and rounds (2) are kept or cut to the least that retries.  Two
bad answers and two faults exhaust one task, or hit two.  A limit of one
recommendation instead of six is passed by the three graphs' recommendations, and
pricing has two pieces of advice, so that agents repeat each other and outbid each other.

Symmetry is declared in the safety runs, over jobs, polls, orders, callers,
operators and approvals that no constant tells apart, and not in the runs with a liveness property.

Every property of a passing run has a mutant in `PROJECT.json`: a plausible slip
in the code (a dropped guard, an off-by-one, an early return) that makes TLC
find it violated in the same run.

## 4. Fairness

Weak fairness is assumed of what the code is bound to do: the poller fires every `POLL_MS`,
whatever the other batches do; a claimed batch is worked through, since nothing in `runJob`
waits but the handler; a supplier call ends, because the adapter gives it
`AbortSignal.timeout`; the `run_after` of a delayed row passes; the synchronous rest of a tool
call runs.  For a plan it is assumed of the event loop as a whole (`Due`): while a
continuation, a timer or the answer to a send is due, one of them comes, a send being bounded
by its own timeout (`REQUEST_TIMEOUT_MS`).  The end of the cooldown, failures and crashes are
not in `Due`.  Nothing is assumed of callers, operators, retries of dead letters, crashes,
failures or what the supplier answers: in `fulfillment_liveness` it may refuse everything.
Interruptions are excluded there because one is enough to strand a job (`crash_strands_jobs`).

## 5. What the code does not keep

Each of these is a run with `expect: violation`, and quoted in `findings`.

1. A crash strands the claimed jobs: `claimDue` reads READY rows and `retryJob`
   DEAD ones, and nothing ever looks at RUNNING.
2. An acceptance whose answer is lost is retried, and the order is sent again.
3. Two calls of one agent that overlap are evaluated against the same
   budget and together exceed it.
4. The ceo resolves that a budget increase waits while prices are cut; the
   resolution is text, and the same run attempts the increase.

These were met while modelling and have no run of their own:

- An answer is recorded and the event that says so cannot be stored.  On the last attempt
  the catch block (`fulfillment-worker.ts:66`) then writes EXCEPTION over SUBMITTED, and `get_order_status`
  says that the order failed to reach the supplier, which has it (`definitions.ts:791`).
  `AnswerIsFinal` says that there is no other way to lose a recorded answer.
- The scenario that lets the best campaign collapse to 0.4 says "Marketing catches the reversal and
  moves budget away from it" (`scenarios.ts:103`).  A review pauses two of the wasting campaigns, from the
  best return down (`marketing.ts:35`), and the seed has two at 0.7 and 0.5 (`seed.ts:352`, `356`): the one
  that collapsed is the third, and is left running until those are paused.  The test of that name
  (`scenarios.test.ts:52`) asks only for a result of marketing's.
- A recommendation is skipped as the "duplicate of an action already attempted this
  run" (`orchestrator.ts:276`) before anything is attempted; when the limit then cuts
  the first of the two, neither was.  The ceo repeats what it was told, so any plan beyond
  the limit says so.  `RecommendationsAreAccountedFor` asks for a like that was
  attempted or left out; the stronger form, that it was attempted, does not hold.
- A permanent error on an early attempt dead-letters the job and leaves the
  fulfilment PENDING_SUPPLIER, which the comment at `fulfillment-worker.ts:64`
  reserves for those coming back.  `PendingIsExplained` lists this case.
- With the MCP server the duplicate check of `fulfill_order` can be passed twice, and
  `definitions.ts:721` says one fulfilment per order.  The theorem
  `OrdersAreFulfilledOnce` therefore assumes callers of the application only.
- Refunds are compared with the order's total one by one; refunds of
  different parts add up to more.  `RefundsFitTheOrder` is about whole totals.
- Goods received are credited each time they are reported, and the purchase order
  is neither looked up nor closed.
- `ask.tsx:113` says that the agents left the business unchanged whenever an
  answer does not come or is an error, also when the run went on without its page or
  failed halfway.
- A stream that finds its reader gone before it hears of the end of the request, or
  is set up after that end, keeps its subscription and its heartbeat.
  `OnlyBrokenPipesLeak` says that there is no third way.
- A projection in the simulator can stay that of an earlier draft: an older answer
  overtook a newer one, or the newer was an error.  `AnswersAreExplained` lists both.
- The memory panel stays busy after a cut-off and shows an empty list after an error.
- A price far below the market is raised without a look at the margin floor: the branch of
  `proposePrice` for it (`pricing.ts:212`) has no counterpart to the floor of the
  other.  Where the price is under the floor, the proposal is denied, while `pricing.ts:6`
  says that proposals are sized to stay inside policy.  `RefusalsAreExplained` lists it.
- A customer whose ticket asks for a refund is answered and never refunded when the ticket
  is the third or a later such one of its run, when the run throws between its replies and its
  refunds (the retry reads open tickets only), or when a client of the MCP server answered.
- An increase of a campaign's budget that was parked before its returns collapsed can be approved
  after that.  `MoneyFollowsReturns` says that the campaign has collapsed, not when.
- An order that was refunded while its fulfilment was queued is still sent to the
  supplier: the worker does not look at the payment.

## 6. The proofs

`JobQueueProofs` proves, from `QueueAssumption` alone, that the safety of
`JobQueue` holds for any number of jobs, polls, attempts, crashes and faults.
`ExclusiveClaim` is not inductive: that a claim takes no job another batch holds
follows from held rows being RUNNING and waiting rows being READY, and the
latter needs each row to wait at one place only.  `QueueInv` adds these:
`DueOnce`, `WaitingIsReady`, `IdleHoldsNothing`, `FreshIsUntried`.  The lemmas on
sequences say what a claim takes and leaves; one lemma for each action shows that
it keeps the invariant; the theorems are corollaries.  `SettledIsStable`, an
action property, follows from the invariant.

`ExecutorProofs` proves, from `ExecutorAssumption`, the executor's safety for any calls,
limits and threads.  The invariant `ExecutorInv` has three strands:

- *Approvals.*  At most one thread carries an approval, the approval stands as
  APPROVED, nothing has come of it, and its call is the parked one
  (`CarriedOutOnce`); what was refused was approved.  Hence `ApprovalSpentOnce`.
- *Moves.*  What executes without an approval is small (`UnapprovedIsSmall`, by the
  lemma `AllowedIsSmall` on the policy engine), and no purchase order is; what executes with
  one has it counted.  The purchase orders of a product map one to one to executed approvals of
  their cost (`Covers`): a further one is under an approval not executed before, by the first
  strand, so it extends the map and keeps it injective (`CoverGrows`).  Hence `LargeMovesWereApproved`.
- *Budgets.*  For an agent that never raced, one call at most is uncharged
  (`OneUncharged`), what was spent is charged except for that one
  (`SpendingIsCharged`), and it fits (`SpendingFits`).  Hence `WithinAuthority`.

`ApprovedIsAnswered` rests on the first strand and a lemma of its own: an interruption is
counted when it happens (`InterruptionsCount`), and short of one an approved
call only moves on to where it is being carried out, has taken effect or was refused.

These hold whatever process the callers live in.  Two more need all of them in the
application (`InProcess = Callers`): `OneProcessInv` adds that one thread at most
is between two statements without an await, so that what it found when it was evaluated
still holds when it writes.  Hence `OnePendingPerEntity` and, for every step,
`PriceStepsAreBounded`.

`FulfillmentProofs` proves the pipeline's safety for any orders, jobs, batches,
attempts, crashes and failed writes.  One lemma, `QueueRefinement`, says that every
step of the pipeline is a step of the queue or leaves it alone, so that what
`JobQueueProofs` shows is used and not repeated.  On top of the queue's invariant:

- *Rows* (`RowsInv`): every row has its order and its status, and a batch
  waits for the supplier only with the job it holds, whose fulfilment is
  PENDING_SUPPLIER, or SUBMITTED while that very handler is on its way to the catch block.
  It holds whatever process the callers live in.  Hence `FulfillmentTypesHold` and, for every step,
  `AnswersStand`: that handler alone, on the last attempt, moves a recorded answer.
- *The check still holds* (`CheckStillHolds`): between the tool's look for a
  fulfilment and its INSERT nobody else inserts one, which is where
  `InProcess = Callers` is needed.  Hence `OrdersAreFulfilledOnce` and
  `OrdersAreCalledInOnePlace`.
- *Acceptances* (`AcceptancesAreSpent`): an acceptance the handler has in hand or has
  recorded, or which a crash has stranded with its job, is not followed by
  another call for that order.  That a stranded job stays so, since nothing claims or
  revives a RUNNING row, is the lemma `StrandedStays`.  Hence
  `DuplicatesAreUnseenAcceptances`: the supplier gets an order again only after an
  acceptance that was not recorded.
- *The promise* (`OrdersKeepThePromise`): the pipeline implements `Handover`.
  What is submitted was accepted, because an acceptance in the handler's hands has been
  counted (`HandedOver`); that a step moves one order at most follows from
  `OneFulfillmentPerOrder` (an order's stage is that of its one row) and from the
  queue giving up or reviving one job at a time (`DeadLettersMoveAlone`).
- *Retries* (`RetryInv`): what the handler leaves behind at each of its ends.  It ends
  well only with an answer (`OkIsAnswered`), the last attempt leaves nothing pending
  unless a write of the handler failed (`LastTryIsParked`), and a parked
  fulfilment is in the untouched part of a batch only if an operator revived its job
  (`UntriedIsOpen`, which speaks of the later jobs of a batch too, since
  those are claimed before they are handled).  Hence `ExceptionMeansExhausted` and
  `PendingIsExplained`.  It needs `RowsInv` only, so both hold with the MCP
  server as well.

`SimulationProofs` proves the four invariants of `simulation` for any number of orders,
batches, resets and setbacks, without proving the pipeline a second time.  After a reset
an old batch goes on as if its rows were there, so the proof takes them to be
there: `AsIf` is an instance of `FulfillmentProofs` in which each row that is
gone is RUNNING, its fulfilment pending, for an order nobody else can name, whose one
acceptance went unseen.  A step of the present business is then a step of the
instance (`PresentStep`), and its lemmas apply.  What needs proofs here is
the reset (what it leaves is a fresh start, `ResetIsFresh`, and a fresh
start keeps the invariant whatever old batches are about), each step of an old batch, which
changes nothing but the batch (`OldStepInv`), and the setbacks of payments.  An old batch may stop
without a fault, its row being gone, so the instance counts one crash more than
there were; nothing that is concluded here depends on there being none.
`SimulationInv` adds to the instance's invariant that no row of a gone
job is left and that nothing comes between the tool's look at the payment
and its INSERT (`CreatesArePaid`); the latter is why `SimulationAssumption` has the
callers in the application's process.  `ToldIsTrue` comes from the instance's
`AnswersAreTrue`: what is SUBMITTED was accepted, and what is not was not, or is
being recorded, or went unseen.

`ListingProofs` is about the operators that `Orchestrator` and `Reviews` list with.  `ListedInOrder`
says of `Listed` that it has every element once and in order, whatever strict total order it is
given: the ranks differ, and there are as many places as elements.  `AmongHas` says the same of
the part of a list that a filter leaves, and `TotalIsANumber` is about a recursive function.  Where an
induction is needed, it is the least number principle (`HasALeast`, from the well-foundedness of
`<`) said of sets, since the library's induction theorems have an operator as a parameter.

`ReviewsProofs` proves the four properties of `reviews`, from `CommerceAssumption` and
`ReviewsAssumption`: for any products, quotes, campaigns, tickets and orders, any number of
reviews under way, and any decisions, client calls and scenarios.  The module first says what
the specialists propose, column by column (`MarketingProposes`, `PricesFit`,
`ProcurementProposes`, `RepliesAreAboutOpenTickets`, `RefundsAreOfOrders`), then what the
policy engine can say to such a call (`DenialsAreFew`), then that every step of `Reviews` is
one of four kinds: a review that begins, goes on or ends, a call, a scenario, or a request
withdrawn (`StepsAreMoves`).  On top of these, each with an invariant of its own next to
`Shape`:

- *Campaigns* (`MoneyInv`).  What a review still has to pause or raise, and what waits for a human,
  had its reason when it was proposed, and figures change for one reason alone.  A
  campaign that has collapsed performs never again, so what is raised was running
  and performing at the start, or has collapsed since (`Raisable`), and what is paused was
  paused or wasting at the start, or has collapsed (`Pausable`).  Hence
  `MoneyFollowsReturns`, of what is parked as well as of what was done.
- *Tickets* (`TicketInv`).  What a review still has to answer is among its `returns` if it is
  refundable (`ReturnsAreSeen`), and answers are never parked, so that a ticket is answered by the review
  that read it, another one or a client.  A review leaves its returns in three ways alone: it asks
  for the refund, passes the ticket over, or breaks off (`Accounted`).  Hence `OverlookedReturnsAreExplained`.
- *Refunds* (`Booked`).  The identifier of a refund is the primary key of its row, and it is a
  function of order and amount.  Nothing else keeps a second refund of an order's total out,
  whatever the agents, the operator and the clients do: `RefundsFitTheOrder`.
- *Refusals* (`RefusalInv`).  The prices a review asks for fit those it has read
  (`Fits`): with the roundings of the code a step stays within a tenth unless the price is odd, and
  a lowered price keeps to the floor (`LoweredKeepsToTheFloor`).  A refusal has its reason when it
  happens (`RefusalsHaveReasons`) and keeps it, since refunds stay booked and tickets stay
  answered (`ReasonsLast`).  Hence `RefusalsAreExplained`.

The proof found two things that the first data of the run did not: a price under the
margin floor (section 5), and that a refund can be refused for its size when a client asked
for it.  `RefusalsAreExplained` names both now, and the run has a product that shows the first.

`EventStreamProofs` proves that a stream leaks only when it broke first or was set up too
late, from what the closed flag says of a connection (`LeakInv`), and that `Console`
implements `EventStream`, so that it holds there.  That a feed is faithful is not inductive:
it depends on what is still under way.  `FeedInv` adds that the frames of a pipe
are consecutive and end, while the stream is alive, with the event published last
(`PipesInOrder`), that they come after all that is shown, next to it or with an opening line
between (`PipesAreAhead`), and that the page has one source at a time (`OneSource`).

The other half of that module is the console's, whose invariant `ConsoleInv` has two parts:

- *The server's* (`ServerInv`): a request that no handler has taken up has no answer,
  an "ok" means the approval is decided, and whoever decided an approval still on its own list
  awaits the answer or was not told well.  Hence `ListsAreExplained`.
- *The page's* (`PageInv`): a component that is disabled while it waits has
  one request, its last, and until that is answered shows nothing newer; a tab which
  decides about one approval only asks once at a time.  Hence `AnswersAreExplained` and `BusyIsExplained`.

That requests are told apart by their number (`Numbered`) holds them together.
`ConsoleAssumption` says that the names of components differ, as hooks of different
components do.

The end of `ExecutorProofs` shows that asking for more, or with more of the budget
used, is never decided more mildly.

The first half of `OrchestratorProofs` proves `GatewayInv` for any callers, limits and answers.  It needs
to say that `inFlight` is the cardinality of the requests with a slot and that
the queue holds exactly those that wait, each once, and that what is on its
way to a model has one configured; a slot that passes from one
request to another leaves the cardinality alone, which is a lemma on finite sets.

The second half proves `PlanIInv`, the gateway's invariant next to `WalkInv`:

- *Tasks.*  For each task, its row, its attempts and its place in `executeTask` agree
  (`TaskInv`): what is "ok" is COMPLETED, what failed has used every attempt.
- *Ends.*  What is finished has ended or was blocked, what completed is "ok", and
  the results are those of the completed (`EndInv`).
- *Stages.*  What `runPlan` has reached agrees with the plan's row (`StageInv`).

`DependenciesFirst` alone is not inductive: that a row once COMPLETED stays so, though the
task may be retried after that was written, holds because a task starts only when what
it depends on is in `completed`, which nothing leaves and whose tasks have returned
from `executeTask`.  One lemma, `StepsOfTheGateway`, says that every step of the plan is a step of
the gateway or leaves it alone, so that the gateway is proved once; `SlotsAreCounted` and
`NobodyWaitsForNothing` hold of a plan's requests for that reason.  The refinement
`RunsKeepThePromise` maps each action to `Draw`, `End`, `Block`, `Close` or a stutter.

`AcceptedMeansRunnable` is about the checks of the planner: `validate` accepts a plan if and
only if it can be walked to its end and ends in a synthesis, whatever its size.  What has to be
shown is that `findCycle` is right (`CyclesAreFound`).  That its recursion returns is not given
by the definition of a function and is proved (`SearchesReturn`), by a bound on what is ahead
of a search which every call lowers; `SearchIsRight` then goes by the search with the least
ahead of it that is wrong.  A search that finds no cycle leaves done keys that wait for nothing
in a circle (`Grounded`), in whatever order it looked; one that finds a cycle has its open keys
to show for it, each of which needs another (`OnAPath`).  With the templates, which list their
tasks in an order they can be walked in (`InTurn`), this gives `PlansAreRunnable` for any
answers of the model.

`RecommendationsAreAllAccountedFor` holds for lists of any length and any limit.  The
lemmas of `ListingProofs` replace an induction over the sort; a repetition has a first because the
places are well founded (`RepeatsHaveAFirst`).  `OutcomeByPlaces` gives the agenda and the report
place by place, and `Accounted` counts them: both pick places of the list of
recommendations, together each place once.  The invariant is `AgendaInv`: what was
attempted and what is still on the agenda are the chosen ones, in their order, and what
is skipped is told, of results that nobody changes any more.

The type invariants of queue, pipeline and executor are proved and are no
properties of a run, nor are `OneCallPerOrder` and that a finished task keeps its
row (`EndsAreFinal`).

Only model-checked are the liveness properties (`JobsSettle`, `KeepsPromiseInTheEnd`, `PlanEnds`),
which the prover cannot do.  Every other property of a passing run is proved.

## 7. What is not modelled

Left out for good: the reporting queries and the pages that render them (no
state), the payload sent to the vendor and the wording of anything, similarity
search (floating point), the proxy's headers, the JSON-RPC framing of the MCP
server, generated demo data beyond the columns the rules read.  `adjust_reorder_point` writes a
column no rule modelled here reads, and has its policy only.  The scenarios
`revenue_drop` and `demand_spike` change the figures of reports, and the story calls in a row
what is modelled with its components.  `retryJob` has no route, so that no page
of `Console` calls it.  No liveness is stated of the console: nothing in the code
bounds how long a browser waits for an answer.

Properties of the models assume that a committed transaction survives (SQLite's
promise) and that identifiers of `newId` do not collide.

## 8. What could follow

The order was: the queue with the pipeline on it, governance with the executor, the
planner, gateway and orchestrator, and then what surrounds them: resets and refunds
(`Simulation`), the specialists between their reading and their acting (`Reviews`), and the
pages (`EventStream`, `Console`).  What is left, in the order of its worth:

1. *Composition*: several plans and shoppers on one `Gateway`; a reset under a plan
   that is walking, whose tasks then write rows that are gone; an MCP client's
   half-done call under a reset.
2. *Executor*: a duplicate `fulfill_order` that charges the budget again.
