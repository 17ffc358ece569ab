------------------------------ MODULE Executor ------------------------------
(***************************************************************************)
(* The governed executor of tools/executor.ts and the routes that resolve  *)
(* approvals: callTool evaluates a call (module Governance), refuses it,   *)
(* parks it as an approval or executes it and charges the agent's budget;  *)
(* approving replays the parked call through the same pipeline.            *)
(*                                                                         *)
(* A thread is a chain of calls (`Callers': plans, agents, the MCP server) *)
(* or the request of an operator.  Threads of the application's process    *)
(* share one event loop: callTool runs without interruption up to the      *)
(* await on the tool, whose continuation, the charge, is a turn of its     *)
(* own.  A thread of another process interleaves at every statement.       *)
(*                                                                         *)
(* Three tools stand for the registry: a refund, whose outcome depends on  *)
(* earlier refunds; a purchase order, which always needs a human; a price  *)
(* change, whose policy reads what earlier changes wrote.                  *)
(***************************************************************************)
EXTENDS Governance, Sequences

CONSTANTS
  Calls,         \* the calls that may be proposed, CallRecords
  NoCall,
  Orders,        \* what create_refund may name
  Total,         \* orders.total_paise
  MinimumOrder,  \* what the smallest purchase order a supplier accepts costs
  FirstPrice,    \* products.price_paise at the start
  Approvals,     \* identifiers of approvals, each used at most once
  NoApproval,
  Callers,
  InProcess,     \* the callers that live in the application's process
  Operators,     \* requests to the approve and reject routes under way together
  MaxCalls,      \* bound: how many proposals get past a refusal or a duplicate
  MaxLapses,     \* bound: how often one thread is cut short
  MaxCrashes     \* bound: how often the application dies

Products == DOMAIN FirstPrice

ASSUME ExecutorAssumption ==
  /\ {RefundLimit, PurchaseLimit, HardCeiling, MaxCalls, MaxLapses, MaxCrashes} \subseteq Nat
  /\ DailyBudget \in [Agents -> Nat]
  /\ FirstPrice \in [Products -> Nat]
  /\ Cost \in [Products -> Nat]
  /\ Calls \subseteq CallRecord(Orders \cup Products, Nat)
  /\ \A c \in Calls : IF c.tool = "create_refund"
                     THEN c.entity \in Orders
                     ELSE /\ c.tool \in {"create_purchase_order", "update_price"}
                          /\ c.entity \in Products
  /\ NoCall \notin Calls
  /\ NoApproval \notin Approvals
  /\ InProcess \subseteq Callers
  /\ Callers \cap Operators = {}

VARIABLES
  at,          \* where each thread is
  call,        \* the call it is dealing with
  grant,       \* the approval it reads or replays
  status,      \* approvals.status, NONE before the row exists
  parked,      \* approvals.tool_name and input
  used,        \* agents.budget_used_paise
  refunds,     \* amounts of the REFUNDED payments of each order
  purchased,   \* what each purchase order of each product costs
  price,       \* products.price_paise
  executions,  \* for the properties: how often the call of an approval took effect
  refused,     \* for the properties: approvals whose replay was denied or failed
  autoSpent,   \* for the properties: money moved without an approval, by agent
  raced,       \* for the properties: agents with a call evaluated before the
               \* charge of another, or a charge that was never made
  calls, lapses, crashes  \* counters of the bounds

threads == <<at, call, grant>>
approvals == <<status, parked>>
ledger == <<refunds, purchased, price>>
ghosts == <<executions, refused, autoSpent, raced>>
counters == <<calls, lapses, crashes>>
executorVars == <<threads, approvals, used, ledger, ghosts, counters>>

Threads == Callers \cup Operators
AppThreads == InProcess \cup Operators

At == {"idle", "park", "execute", "charge", "deciding", "replay"}

ExecutorTypeOK ==
  /\ at \in [Threads -> At]
  /\ call \in [Threads -> Calls \cup {NoCall}]
  /\ grant \in [Threads -> Approvals \cup {NoApproval}]
  /\ status \in [Approvals -> {"NONE", "PENDING", "APPROVED", "REJECTED"}]
  /\ parked \in [Approvals -> Calls \cup {NoCall}]
  /\ used \in [Agents -> Nat]
  /\ refunds \in [Orders -> SUBSET Nat]
  /\ purchased \in [Products -> Seq(Nat)]
  /\ price \in [Products -> Nat]
  /\ executions \in [Approvals -> Nat]
  /\ refused \subseteq Approvals
  /\ autoSpent \in [Agents -> Nat]
  /\ raced \subseteq Agents
  /\ calls \in 0 .. MaxCalls
  /\ lapses \in 0 .. MaxLapses
  /\ crashes \in 0 .. MaxCrashes

ExecutorInit ==
  /\ at = [t \in Threads |-> "idle"]
  /\ call = [t \in Threads |-> NoCall]
  /\ grant = [t \in Threads |-> NoApproval]
  /\ status = [a \in Approvals |-> "NONE"]
  /\ parked = [a \in Approvals |-> NoCall]
  /\ used = [g \in Agents |-> 0]
  /\ refunds = [o \in Orders |-> {}]
  /\ purchased = [p \in Products |-> <<>>]
  /\ price = FirstPrice
  /\ executions = [a \in Approvals |-> 0]
  /\ refused = {}
  /\ autoSpent = [g \in Agents |-> 0]
  /\ raced = {}
  /\ calls = 0
  /\ lapses = 0
  /\ crashes = 0

-----------------------------------------------------------------------------
(* Threads.                                                                *)

\* Between two statements with no await between them.
Synchronous(t) == at[t] \in {"park", "execute", "replay"}

\* The thread may run: no other one of its process is in mid-turn.
Running(t) == t \in AppThreads => \A u \in AppThreads \ {t} : ~Synchronous(u)

Goto(t, place, c, a) ==
  /\ at' = [at EXCEPT ![t] = place]
  /\ call' = [call EXCEPT ![t] = c]
  /\ grant' = [grant EXCEPT ![t] = a]

Return(t) == Goto(t, "idle", NoCall, NoApproval)

\* The thread moved money without an approval, or is about to, and `used' lacks it.
Uncharged(t) ==
  at[t] \in {"execute", "charge"} /\ grant[t] = NoApproval /\ Impact(call[t]) > 0

-----------------------------------------------------------------------------
(* callTool.                                                               *)

Refused(c) == Denied(c, price)
AsksHuman(c) == Decision(c, used, price) = "REQUIRE_APPROVAL"

\* Mutant: the request that is looked for is one already approved.
ApprovedDuplicates(c) ==
  {a \in Approvals : /\ status[a] = "APPROVED"
                     /\ parked[a].tool = c.tool
                     /\ parked[a].entity = c.entity}

\* findPendingDuplicate: the tool and the entity count, the rest of the input does not.
PendingDuplicates(c) ==
  {a \in Approvals : /\ status[a] = "PENDING"
                     /\ parked[a].tool = c.tool
                     /\ parked[a].entity = c.entity}

\* The agent is about to spend while another of its calls is uncharged.
Races(t, c) ==
  Impact(c) > 0 /\ \E u \in Threads \ {t} : Uncharged(u) /\ call[u].agent = c.agent

\* A call that is refused, or for which a pending request is found, changes
\* nothing but the audit log and is not a step.  Of the others, those that
\* need a human go on to park a request, the rest to execute.
Propose(t, c) ==
  /\ at[t] = "idle"
  /\ Running(t)
  /\ calls < MaxCalls
  /\ calls' = calls + 1
  /\ ~Refused(c)
  /\ \/ /\ AsksHuman(c)
        /\ PendingDuplicates(c) = {}
        /\ Goto(t, "park", c, NoApproval)
        /\ UNCHANGED raced
     \/ /\ ~AsksHuman(c)
        /\ Goto(t, "execute", c, NoApproval)
        /\ raced' = IF Races(t, c) THEN raced \cup {c.agent} ELSE raced
  /\ UNCHANGED <<approvals, used, ledger, executions, refused, autoSpent, lapses, crashes>>

Park(t, a) ==
  /\ at[t] = "park"
  /\ status[a] = "NONE"
  /\ status' = [status EXCEPT ![a] = "PENDING"]
  /\ parked' = [parked EXCEPT ![a] = call[t]]
  /\ Return(t)
  /\ UNCHANGED <<used, ledger, ghosts, counters>>

\* The tool's own validation.  A refund of the same amount on the same order
\* has the identifier of the first, which payments refuses.
Throws(c) ==
  \/ c.tool = "create_refund" /\ (c.amount > Total[c.entity] \/ c.amount \in refunds[c.entity])
  \/ c.tool = "create_purchase_order" /\ c.amount < MinimumOrder

CreateRefund(c) ==
  /\ c.tool = "create_refund"
  /\ refunds' = [refunds EXCEPT ![c.entity] = @ \cup {c.amount}]
  /\ UNCHANGED <<purchased, price>>

CreatePurchaseOrder(c) ==
  /\ c.tool = "create_purchase_order"
  /\ purchased' = [purchased EXCEPT ![c.entity] = Append(@, c.amount)]
  /\ UNCHANGED <<refunds, price>>

UpdatePrice(c) ==
  /\ c.tool = "update_price"
  /\ price' = [price EXCEPT ![c.entity] = c.amount]
  /\ UNCHANGED <<refunds, purchased>>

\* The bookkeeping of the properties when the call of thread t takes effect.
TakesEffect(t) ==
  IF grant[t] = NoApproval
  THEN /\ autoSpent' = [autoSpent EXCEPT ![call[t].agent] = @ + Impact(call[t])]
       /\ UNCHANGED executions
  ELSE /\ executions' = [executions EXCEPT ![grant[t]] = @ + 1]
       /\ UNCHANGED autoSpent

\* tool.execute returns; what follows the await is still to come.
Execute(t) ==
  /\ at[t] = "execute"
  /\ ~Throws(call[t])
  /\ CreateRefund(call[t]) \/ CreatePurchaseOrder(call[t]) \/ UpdatePrice(call[t])
  /\ TakesEffect(t)
  /\ at' = [at EXCEPT ![t] = "charge"]
  /\ UNCHANGED <<call, grant, approvals, used, refused, raced, counters>>

\* A replay that does not go through is spent all the same: the approval stays APPROVED.
Spent(t) == refused' = IF grant[t] = NoApproval THEN refused ELSE refused \cup {grant[t]}

\* tool.execute throws: the call is reported as FAILED and nothing is charged.
ExecuteFails(t) ==
  /\ at[t] = "execute"
  /\ Throws(call[t])
  /\ Spent(t)
  /\ Return(t)
  /\ UNCHANGED <<approvals, used, ledger, executions, autoSpent, raced, counters>>

Charge(t) ==
  /\ at[t] = "charge"
  /\ Running(t)
  /\ used' = [used EXCEPT ![call[t].agent] = @ + Impact(call[t])]
  /\ Return(t)
  /\ UNCHANGED <<approvals, ledger, ghosts, counters>>

-----------------------------------------------------------------------------
(* The approve and reject routes.                                          *)

\* The route finds the approval PENDING and awaits the body of the request.
ReadApproval(o, a) ==
  /\ at[o] = "idle"
  /\ Running(o)
  /\ status[a] = "PENDING"
  /\ Goto(o, "deciding", NoCall, a)
  /\ UNCHANGED <<approvals, used, ledger, ghosts, counters>>

\* Mutant: the UPDATE does not ask whether the approval is still pending.
ResolveAnyway(a, decision) == status' = [status EXCEPT ![a] = decision]

\* resolveApproval: the first decision stands.
Resolve(a, decision) == status[a] = "PENDING" /\ status' = [status EXCEPT ![a] = decision]

Approve(o) ==
  /\ at[o] = "deciding"
  /\ Running(o)
  /\ Resolve(grant[o], "APPROVED")
  /\ Goto(o, "replay", parked[grant[o]], grant[o])
  /\ UNCHANGED <<parked, used, ledger, ghosts, counters>>

Reject(o) ==
  /\ at[o] = "deciding"
  /\ Running(o)
  /\ Resolve(grant[o], "REJECTED")
  /\ Return(o)
  /\ UNCHANGED <<parked, used, ledger, ghosts, counters>>

\* Someone else decided while the body was awaited.
Conflict(o) ==
  /\ at[o] = "deciding"
  /\ Running(o)
  /\ status[grant[o]] # "PENDING"
  /\ Return(o)
  /\ UNCHANGED <<approvals, used, ledger, ghosts, counters>>

\* Mutant: a replayed call is parked again like any other.
ReplayParks(o) ==
  /\ at[o] = "replay"
  /\ Goto(o, IF AsksHuman(call[o]) THEN "park" ELSE "execute", call[o], grant[o])
  /\ UNCHANGED <<approvals, used, ledger, ghosts, counters>>

\* executeApproved: callTool with the approval.  A refusal still holds, the
\* need for a human is satisfied.
Replay(o) ==
  /\ at[o] = "replay"
  /\ IF Refused(call[o])
     THEN Return(o) /\ Spent(o)
     ELSE Goto(o, "execute", call[o], grant[o]) /\ UNCHANGED refused
  /\ UNCHANGED <<approvals, used, ledger, executions, autoSpent, raced, counters>>

-----------------------------------------------------------------------------
(* Interruptions.                                                          *)

\* The agents whose spending by the threads ts took effect and will not be charged.
NeverCharged(ts) == {call[t].agent : t \in {u \in ts : at[u] = "charge" /\ Uncharged(u)}}

\* A statement of the thread throws (the database is locked by the other
\* process), or its request goes away.
Lapse(t) ==
  /\ at[t] # "idle"
  /\ lapses < MaxLapses
  /\ lapses' = lapses + 1
  /\ raced' = raced \cup NeverCharged({t})
  /\ Return(t)
  /\ UNCHANGED <<approvals, used, ledger, executions, refused, autoSpent, calls, crashes>>

\* The application dies between two statements; the database is what it was.
AppCrash ==
  /\ crashes < MaxCrashes
  /\ crashes' = crashes + 1
  /\ raced' = raced \cup NeverCharged(AppThreads)
  /\ at' = [t \in Threads |-> IF t \in AppThreads THEN "idle" ELSE at[t]]
  /\ call' = [t \in Threads |-> IF t \in AppThreads THEN NoCall ELSE call[t]]
  /\ grant' = [t \in Threads |-> IF t \in AppThreads THEN NoApproval ELSE grant[t]]
  /\ UNCHANGED <<approvals, used, ledger, executions, refused, autoSpent, calls, lapses>>

ExecutorNext ==
  \/ \E t \in Callers :
       \/ \E c \in Calls : Propose(t, c)
       \/ \E a \in Approvals : Park(t, a)
  \/ \E t \in Threads :
       Execute(t) \/ ExecuteFails(t) \/ Charge(t) \/ Lapse(t)
  \/ \E o \in Operators :
       \/ \E a \in Approvals : ReadApproval(o, a)
       \/ Approve(o)
       \/ Reject(o)
       \/ Conflict(o)
       \/ Replay(o)
  \/ AppCrash

ExecutorSpec == ExecutorInit /\ [][ExecutorNext]_executorVars

-----------------------------------------------------------------------------
(* Properties.                                                             *)

\* Two plans, or two agents, that reach the same conclusion do not put two
\* requests for one tool and one entity before the operators: looking for a
\* duplicate and inserting the request cannot be split within one process.
OnePendingPerEntity ==
  \A a, b \in Approvals :
    /\ status[a] = "PENDING" /\ status[b] = "PENDING"
    /\ parked[a].tool = parked[b].tool /\ parked[a].entity = parked[b].entity
    => a = b

\* However the requests of several operators, crashes and failures interleave,
\* the call of an approval takes effect at most once, and only if the approval
\* stands as APPROVED: a rejection that came first is never overridden.
ApprovalSpentOnce ==
  \A a \in Approvals :
    executions[a] <= IF status[a] = "APPROVED" /\ a \notin refused THEN 1 ELSE 0

\* Without a crash or a failure, an approved call took effect, was refused by
\* policy or by its tool, or is being replayed right now.
ApprovedIsAnswered ==
  lapses + crashes = 0 =>
    \A a \in Approvals : status[a] = "APPROVED" =>
      \/ executions[a] = 1
      \/ a \in refused
      \/ \E o \in Operators : grant[o] = a /\ at[o] \in {"replay", "execute"}

\* What moves more than a limit was approved, each time anew: every refund above
\* the limit has an executed approval for its order and amount, and every purchase
\* order, procurement having no autonomy, one of its own, shared with no other
\* purchase order, for its product and its cost.
LargeMovesWereApproved ==
  /\ \A o \in Orders : \A amount \in refunds[o] : amount > RefundLimit =>
       \E a \in Approvals : /\ executions[a] = 1
                            /\ parked[a].tool = "create_refund"
                            /\ parked[a].entity = o /\ parked[a].amount = amount
  /\ \A p \in Products : \E under \in [DOMAIN purchased[p] -> Approvals] :
       /\ \A i, k \in DOMAIN purchased[p] : under[i] = under[k] => i = k
       /\ \A i \in DOMAIN purchased[p] :
            /\ executions[under[i]] = 1
            /\ parked[under[i]].tool = "create_purchase_order"
            /\ parked[under[i]].entity = p /\ parked[under[i]].amount = purchased[p][i]

\* Without an approval an agent spends no more than its daily budget, unless
\* two of its calls overlapped or a charge was never made: approvals, retries,
\* failed calls and repeated proposals alone cannot get it past the limit.
WithinAuthority ==
  \A g \in Agents \ raced : DailyBudget[g] > 0 => autoSpent[g] <= DailyBudget[g]

\* Within one process a price never moves by more than a tenth at once, nor to
\* a margin under a quarter: what was evaluated is what is overwritten.
PriceStepsAreBounded ==
  [][\A p \in Products : price'[p] # price[p] =>
       /\ 10 * (price'[p] - price[p]) <= price[p]
       /\ 10 * (price[p] - price'[p]) <= price[p]
       /\ 3 * price'[p] >= 4 * Cost[p]]_executorVars

\* BUD-001 of policies/rules.ts: an agent may not exceed its daily spend authority.
DailyAuthority ==
  \A g \in Agents : DailyBudget[g] > 0 => autoSpent[g] <= DailyBudget[g]
=============================================================================
