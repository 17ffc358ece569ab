--------------------------- MODULE ExecutorProofs ---------------------------
(***************************************************************************)
(* The safety of the governed executor for any calls, limits, orders,      *)
(* callers, operators, processes, crashes and failures, and what the       *)
(* policy engine it asks promises of its own.                              *)
(***************************************************************************)
EXTENDS Executor, SequenceTheorems, TLAPS

\* A thread that deals with a call or an approval has one.
ThreadsHaveTheirCall ==
  \A t \in Threads :
    /\ at[t] \in {"park", "execute", "charge", "replay"} => call[t] \in Calls
    /\ at[t] \in {"deciding", "replay"} => grant[t] \in Approvals

RequestsHaveTheirCall ==
  /\ \A a \in Approvals : status[a] # "NONE" => parked[a] \in Calls
  /\ \A t \in Threads : at[t] = "deciding" => status[grant[t]] # "NONE"

\* The thread is about to carry out approval a.
Carries(t, a) == at[t] \in {"replay", "execute"} /\ grant[t] = a

\* One thread at most carries out an approval, the approval stands, its call is
\* the one parked, and nothing has come of it yet.
CarriedOutOnce ==
  \A a \in Approvals :
    /\ \A t, u \in Threads : Carries(t, a) /\ Carries(u, a) => t = u
    /\ \A t \in Threads : Carries(t, a) =>
         status[a] = "APPROVED" /\ executions[a] = 0 /\ a \notin refused /\ call[t] = parked[a]

\* Nothing is replayed in vain but what was approved.
RefusedWereApproved == \A a \in refused : status[a] = "APPROVED"

\* What executes without an approval is small enough for that.
UnapprovedIsSmall ==
  \A t \in Threads : at[t] = "execute" /\ grant[t] = NoApproval =>
    /\ call[t].tool = "create_refund" => call[t].amount <= RefundLimit
    /\ call[t].tool # "create_purchase_order"

\* For an agent that never raced: at most one of its calls is uncharged, what
\* is under way fits, and what is neither charged nor under way is nothing.
OneUncharged ==
  \A g \in Agents \ raced : \A t, u \in Threads :
    Uncharged(t) /\ call[t].agent = g /\ Uncharged(u) /\ call[u].agent = g => t = u

SpendingIsCharged ==
  \A g \in Agents \ raced :
    \/ autoSpent[g] <= used[g]
    \/ \E t \in Threads : /\ at[t] = "charge" /\ Uncharged(t) /\ call[t].agent = g
                          /\ autoSpent[g] <= used[g] + Impact(call[t])

SpendingFits ==
  \A g \in Agents \ raced : DailyBudget[g] > 0 =>
    /\ autoSpent[g] <= DailyBudget[g]
    /\ \A t \in Threads : at[t] = "execute" /\ Uncharged(t) /\ call[t].agent = g =>
         autoSpent[g] + Impact(call[t]) <= DailyBudget[g]

\* The inductive invariant of what holds whoever calls, in whatever process.
ExecutorInv ==
  /\ ExecutorTypeOK
  /\ ThreadsHaveTheirCall
  /\ RequestsHaveTheirCall
  /\ CarriedOutOnce
  /\ RefusedWereApproved
  /\ ApprovalSpentOnce
  /\ UnapprovedIsSmall
  /\ LargeMovesWereApproved
  /\ OneUncharged
  /\ SpendingIsCharged
  /\ SpendingFits

\* The part that needs one process: nobody else runs while a call is between its
\* evaluation and its request or its tool, so what was found still holds.
OneRuns == \A t, u \in Threads : Synchronous(t) /\ Synchronous(u) => t = u
StillNoDuplicate == \A t \in Threads : at[t] = "park" => PendingDuplicates(call[t]) = {}
StillAllowed == \A t \in Threads : at[t] = "execute" => ~Refused(call[t])

OneProcessInv ==
  ExecutorInv /\ OneRuns /\ StillNoDuplicate /\ StillAllowed /\ OnePendingPerEntity

-----------------------------------------------------------------------------
(* Calls and threads.                                                      *)

\* What a call says is in range, and what it moves is an amount.
LEMMA CallTypes ==
  ASSUME NEW c \in Calls
  PROVE  /\ c.agent \in Agents /\ c.tool \in Tools /\ c.amount \in Nat
         /\ c.tool = "create_refund" => c.entity \in Orders
         /\ c.tool # "create_refund" => c.entity \in Products
         /\ Impact(c) \in Nat
<1>1. c \in CallRecord(Orders \cup Products, Nat)
  BY ExecutorAssumption DEF ExecutorAssumption
<1>2. IF c.tool = "create_refund" THEN c.entity \in Orders ELSE c.entity \in Products
  BY ExecutorAssumption DEF ExecutorAssumption
<1>. QED BY <1>1, <1>2 DEF CallRecord, Impact

\* Goto moves one thread and leaves the others where they are.
LEMMA GotoMoves ==
  ASSUME ExecutorTypeOK, NEW t \in Threads, NEW place \in At,
         NEW c \in Calls \cup {NoCall}, NEW a \in Approvals \cup {NoApproval},
         Goto(t, place, c, a)
  PROVE  /\ at' \in [Threads -> At]
         /\ call' \in [Threads -> Calls \cup {NoCall}]
         /\ grant' \in [Threads -> Approvals \cup {NoApproval}]
         /\ at'[t] = place /\ call'[t] = c /\ grant'[t] = a
         /\ \A u \in Threads \ {t} : at'[u] = at[u] /\ call'[u] = call[u] /\ grant'[u] = grant[u]
BY DEF ExecutorTypeOK, Goto

\* Return sends one thread back to idle, without an approval.
LEMMA ReturnMoves ==
  ASSUME ExecutorTypeOK, NEW t \in Threads, Return(t)
  PROVE  /\ at' \in [Threads -> At]
         /\ call' \in [Threads -> Calls \cup {NoCall}]
         /\ grant' \in [Threads -> Approvals \cup {NoApproval}]
         /\ at'[t] = "idle" /\ grant'[t] = NoApproval
         /\ \A u \in Threads \ {t} : at'[u] = at[u] /\ call'[u] = call[u] /\ grant'[u] = grant[u]
BY GotoMoves DEF Return, At

\* Each purchase order of a product has an executed approval, `under', of its own.
Covers(p, under) ==
  /\ \A i, k \in DOMAIN purchased[p] : under[i] = under[k] => i = k
  /\ \A i \in DOMAIN purchased[p] :
       /\ executions[under[i]] = 1
       /\ parked[under[i]].tool = "create_purchase_order"
       /\ parked[under[i]].entity = p /\ parked[under[i]].amount = purchased[p][i]

-----------------------------------------------------------------------------
(* The invariant, action by action.                                        *)

\* At the start nothing is under way, parked or spent.
LEMMA ExecutorInitInv == ExecutorInit => ExecutorInv
<1>. SUFFICES ASSUME ExecutorInit PROVE ExecutorInv
  OBVIOUS
<1>1. ExecutorTypeOK
  BY ExecutorAssumption
     DEF ExecutorInit, ExecutorTypeOK, At, ExecutorAssumption
<1>2. LargeMovesWereApproved
  <2>. SUFFICES ASSUME NEW p \in Products
                PROVE  \E under \in [DOMAIN purchased[p] -> Approvals] : Covers(p, under)
    BY DEF ExecutorInit, LargeMovesWereApproved, Covers
  <2>1. DOMAIN purchased[p] = {}
    BY DEF ExecutorInit
  <2>2. [i \in {} |-> NoApproval] \in [{} -> Approvals]
    OBVIOUS
  <2>. QED BY <2>1, <2>2 DEF Covers
<1>. QED
  BY <1>1, <1>2, ExecutorAssumption
     DEF ExecutorAssumption, ExecutorInit, ExecutorInv, ThreadsHaveTheirCall,
         RequestsHaveTheirCall, CarriedOutOnce, Carries, RefusedWereApproved, ApprovalSpentOnce,
         UnapprovedIsSmall, OneUncharged, SpendingIsCharged, SpendingFits, Uncharged

\* Every step keeps the types: what it writes comes from a call, which is typed.
LEMMA TypesStep == ExecutorInv /\ [ExecutorNext]_executorVars => ExecutorTypeOK'
<1>. SUFFICES ASSUME ExecutorInv, [ExecutorNext]_executorVars PROVE ExecutorTypeOK'
  OBVIOUS
<1>. USE DEF approvals, ledger, ghosts, counters
<1>0. /\ ExecutorTypeOK /\ ThreadsHaveTheirCall
      /\ MaxCalls \in Nat /\ MaxLapses \in Nat /\ MaxCrashes \in Nat
      /\ calls \in Nat /\ lapses \in Nat /\ crashes \in Nat
  BY ExecutorAssumption DEF ExecutorInv, ExecutorTypeOK, ExecutorAssumption
<1>1. ASSUME NEW t \in Callers, NEW c \in Calls, Propose(t, c) PROVE ExecutorTypeOK'
  <2>1. c.agent \in Agents
    BY CallTypes
  <2>2. /\ at' \in [Threads -> At] /\ call' \in [Threads -> Calls \cup {NoCall}]
        /\ grant' \in [Threads -> Approvals \cup {NoApproval}]
    BY <1>0, <1>1, GotoMoves DEF Propose, Threads, At
  <2>. QED BY <1>0, <1>1, <2>1, <2>2 DEF Propose, ExecutorTypeOK
<1>2. ASSUME NEW t \in Callers, NEW a \in Approvals, Park(t, a) PROVE ExecutorTypeOK'
  <2>1. call[t] \in Calls
    BY <1>0, <1>2 DEF Park, ThreadsHaveTheirCall, Threads
  <2>2. /\ at' \in [Threads -> At] /\ call' \in [Threads -> Calls \cup {NoCall}]
        /\ grant' \in [Threads -> Approvals \cup {NoApproval}]
    BY <1>0, <1>2, ReturnMoves DEF Park, Threads
  <2>. QED BY <1>0, <1>2, <2>1, <2>2 DEF Park, ExecutorTypeOK
<1>3. ASSUME NEW t \in Threads, Execute(t) PROVE ExecutorTypeOK'
  <2>1. call[t] \in Calls
    BY <1>0, <1>3 DEF Execute, ThreadsHaveTheirCall
  <2>2. /\ call[t].agent \in Agents /\ call[t].amount \in Nat /\ Impact(call[t]) \in Nat
        /\ call[t].tool = "create_refund" => call[t].entity \in Orders
        /\ call[t].tool # "create_refund" => call[t].entity \in Products
    BY <2>1, CallTypes
  <2>3. at' \in [Threads -> At] /\ UNCHANGED <<call, grant>>
    BY <1>0, <1>3 DEF Execute, ExecutorTypeOK, At
  <2>4. /\ refunds' \in [Orders -> SUBSET Nat]
        /\ purchased' \in [Products -> Seq(Nat)]
        /\ price' \in [Products -> Nat]
    <3>1. CASE CreateRefund(call[t])
      BY <1>0, <3>1, <2>2 DEF ExecutorTypeOK, CreateRefund
    <3>2. CASE CreatePurchaseOrder(call[t])
      BY <1>0, <3>2, <2>2 DEF ExecutorTypeOK, CreatePurchaseOrder
    <3>3. CASE UpdatePrice(call[t])
      BY <1>0, <3>3, <2>2 DEF ExecutorTypeOK, UpdatePrice
    <3>. QED BY <1>3, <3>1, <3>2, <3>3 DEF Execute
  <2>5. autoSpent' \in [Agents -> Nat] /\ executions' \in [Approvals -> Nat]
    <3>1. CASE grant[t] = NoApproval
      BY <1>0, <1>3, <3>1, <2>2 DEF Execute, TakesEffect, ExecutorTypeOK
    <3>2. CASE grant[t] # NoApproval
      <4>1. /\ autoSpent \in [Agents -> Nat] /\ executions \in [Approvals -> Nat]
            /\ grant[t] \in Approvals
        BY <1>0, <3>2 DEF ExecutorTypeOK
      <4>2. autoSpent' = autoSpent /\ executions' = [executions EXCEPT ![grant[t]] = @ + 1]
        BY <1>3, <3>2 DEF Execute, TakesEffect
      <4>. QED BY <4>1, <4>2
    <3>. QED BY <3>1, <3>2
  <2>. QED BY <1>0, <1>3, <2>3, <2>4, <2>5 DEF Execute, ExecutorTypeOK
<1>4. ASSUME NEW t \in Threads, ExecuteFails(t) PROVE ExecutorTypeOK'
  <2>1. /\ at' \in [Threads -> At] /\ call' \in [Threads -> Calls \cup {NoCall}]
        /\ grant' \in [Threads -> Approvals \cup {NoApproval}]
    BY <1>0, <1>4, ReturnMoves DEF ExecuteFails
  <2>. QED BY <1>0, <1>4, <2>1 DEF ExecuteFails, Spent, ExecutorTypeOK
<1>5. ASSUME NEW t \in Threads, Charge(t) PROVE ExecutorTypeOK'
  <2>1. call[t].agent \in Agents /\ Impact(call[t]) \in Nat
    BY <1>0, <1>5, CallTypes DEF Charge, ThreadsHaveTheirCall
  <2>2. /\ at' \in [Threads -> At] /\ call' \in [Threads -> Calls \cup {NoCall}]
        /\ grant' \in [Threads -> Approvals \cup {NoApproval}]
    BY <1>0, <1>5, ReturnMoves DEF Charge
  <2>. QED BY <1>0, <1>5, <2>1, <2>2 DEF Charge, ExecutorTypeOK
<1>6. ASSUME NEW t \in Threads, Lapse(t) PROVE ExecutorTypeOK'
  <2>1. NeverCharged({t}) \subseteq Agents
    BY <1>0, CallTypes DEF NeverCharged, ThreadsHaveTheirCall
  <2>2. /\ at' \in [Threads -> At] /\ call' \in [Threads -> Calls \cup {NoCall}]
        /\ grant' \in [Threads -> Approvals \cup {NoApproval}]
    BY <1>0, <1>6, ReturnMoves DEF Lapse
  <2>3. raced' \subseteq Agents
    <3>1. raced' = raced \cup NeverCharged({t}) /\ raced \subseteq Agents
      BY <1>0, <1>6 DEF Lapse, ExecutorTypeOK
    <3>. QED BY <2>1, <3>1
  <2>4. lapses' \in 0 .. MaxLapses
    <3>1. lapses < MaxLapses /\ lapses' = lapses + 1
      BY <1>6 DEF Lapse
    <3>. QED BY <1>0, <3>1
  <2>. QED BY <1>0, <1>6, <2>2, <2>3, <2>4 DEF Lapse, ExecutorTypeOK
<1>7. ASSUME NEW o \in Operators, NEW a \in Approvals, ReadApproval(o, a) PROVE ExecutorTypeOK'
  <2>1. /\ at' \in [Threads -> At] /\ call' \in [Threads -> Calls \cup {NoCall}]
        /\ grant' \in [Threads -> Approvals \cup {NoApproval}]
    BY <1>0, <1>7, GotoMoves DEF ReadApproval, Threads, At
  <2>. QED BY <1>0, <1>7, <2>1 DEF ReadApproval, ExecutorTypeOK
<1>8. ASSUME NEW o \in Operators, Approve(o) PROVE ExecutorTypeOK'
  <2>1. grant[o] \in Approvals /\ parked[grant[o]] \in Calls \cup {NoCall}
    BY <1>0, <1>8 DEF Approve, ThreadsHaveTheirCall, ExecutorTypeOK, Threads
  <2>2. /\ at' \in [Threads -> At] /\ call' \in [Threads -> Calls \cup {NoCall}]
        /\ grant' \in [Threads -> Approvals \cup {NoApproval}]
    BY <1>0, <1>8, <2>1, GotoMoves DEF Approve, Threads, At
  <2>. QED BY <1>0, <1>8, <2>1, <2>2 DEF Approve, Resolve, ExecutorTypeOK
<1>9. ASSUME NEW o \in Operators, Reject(o) PROVE ExecutorTypeOK'
  <2>1. /\ at' \in [Threads -> At] /\ call' \in [Threads -> Calls \cup {NoCall}]
        /\ grant' \in [Threads -> Approvals \cup {NoApproval}]
    BY <1>0, <1>9, ReturnMoves DEF Reject, Threads
  <2>. QED BY <1>0, <1>9, <2>1 DEF Reject, Resolve, ExecutorTypeOK
<1>10. ASSUME NEW o \in Operators, Conflict(o) PROVE ExecutorTypeOK'
  <2>1. /\ at' \in [Threads -> At] /\ call' \in [Threads -> Calls \cup {NoCall}]
        /\ grant' \in [Threads -> Approvals \cup {NoApproval}]
    BY <1>0, <1>10, ReturnMoves DEF Conflict, Threads
  <2>. QED BY <1>0, <1>10, <2>1 DEF Conflict, ExecutorTypeOK
<1>11. ASSUME NEW o \in Operators, Replay(o) PROVE ExecutorTypeOK'
  <2>1. grant[o] \in Approvals /\ call[o] \in Calls
    BY <1>0, <1>11 DEF Replay, ThreadsHaveTheirCall, Threads
  <2>2. /\ at' \in [Threads -> At] /\ call' \in [Threads -> Calls \cup {NoCall}]
        /\ grant' \in [Threads -> Approvals \cup {NoApproval}]
    BY <1>0, <1>11, <2>1, GotoMoves, ReturnMoves DEF Replay, Threads, At
  <2>. QED BY <1>0, <1>11, <2>1, <2>2 DEF Replay, Spent, ExecutorTypeOK
<1>12. CASE AppCrash
  <2>1. NeverCharged(AppThreads) \subseteq Agents
    BY <1>0, CallTypes, ExecutorAssumption
       DEF NeverCharged, ThreadsHaveTheirCall, AppThreads, Threads, ExecutorAssumption
  <2>. QED BY <1>0, <1>12, <2>1 DEF AppCrash, ExecutorTypeOK, At
<1>13. CASE UNCHANGED executorVars
  BY <1>0, <1>13 DEF executorVars, threads, ExecutorTypeOK
<1>. QED
  BY <1>1, <1>2, <1>3, <1>4, <1>5, <1>6, <1>7, <1>8, <1>9, <1>10, <1>11, <1>12, <1>13
     DEF ExecutorNext

\* Every step gives a thread the call, or the approval, that its place requires.
LEMMA CallsStep ==
  ExecutorInv /\ [ExecutorNext]_executorVars => ThreadsHaveTheirCall' /\ RequestsHaveTheirCall'
<1>. SUFFICES ASSUME ExecutorInv, [ExecutorNext]_executorVars
              PROVE  ThreadsHaveTheirCall' /\ RequestsHaveTheirCall'
  OBVIOUS
<1>. USE DEF approvals, ledger, ghosts, counters, ThreadsHaveTheirCall, RequestsHaveTheirCall
<1>0. ExecutorTypeOK /\ ThreadsHaveTheirCall /\ RequestsHaveTheirCall
  BY DEF ExecutorInv
<1>1. ASSUME NEW t \in Callers, NEW c \in Calls, Propose(t, c)
      PROVE  ThreadsHaveTheirCall' /\ RequestsHaveTheirCall'
  <2>. DEFINE place == at'[t]
  <2>1. place \in {"park", "execute"} /\ Goto(t, place, c, NoApproval)
    <3>1. /\ Goto(t, "park", c, NoApproval) => at'[t] = "park"
          /\ Goto(t, "execute", c, NoApproval) => at'[t] = "execute"
      BY <1>0, GotoMoves DEF Threads, At
    <3>. QED BY <3>1, <1>1 DEF Propose
  <2>2. /\ at'[t] \in {"park", "execute"} /\ call'[t] = c
        /\ \A u \in Threads \ {t} : at'[u] = at[u] /\ call'[u] = call[u] /\ grant'[u] = grant[u]
    BY <1>0, <2>1, GotoMoves DEF Threads, At
  <2>3. UNCHANGED <<status, parked>>
    BY <1>1 DEF Propose
  <2>. HIDE DEF place
  <2>. QED BY <1>0, <2>2, <2>3
<1>2. ASSUME NEW t \in Callers, NEW a \in Approvals, Park(t, a)
      PROVE  ThreadsHaveTheirCall' /\ RequestsHaveTheirCall'
  <2>1. at[t] = "park" /\ call[t] \in Calls
    BY <1>0, <1>2 DEF Park, Threads
  <2>2. /\ at'[t] = "idle"
        /\ \A u \in Threads \ {t} : at'[u] = at[u] /\ call'[u] = call[u] /\ grant'[u] = grant[u]
    BY <1>0, <1>2, ReturnMoves DEF Park, Threads
  <2>3. \A b \in Approvals : /\ b # a => status'[b] = status[b] /\ parked'[b] = parked[b]
                             /\ b = a => status'[b] = "PENDING" /\ parked'[b] = call[t]
    BY <1>0, <1>2 DEF Park, ExecutorTypeOK
  <2>. QED BY <1>0, <2>1, <2>2, <2>3
<1>3. ASSUME NEW t \in Threads, Execute(t)
      PROVE  ThreadsHaveTheirCall' /\ RequestsHaveTheirCall'
  <2>1. /\ at[t] = "execute" /\ at'[t] = "charge"
        /\ \A u \in Threads \ {t} : at'[u] = at[u]
        /\ UNCHANGED <<call, grant, status, parked>>
    BY <1>0, <1>3 DEF Execute, ExecutorTypeOK
  <2>. QED BY <1>0, <2>1
<1>4. ASSUME NEW t \in Threads, ExecuteFails(t) \/ Charge(t) \/ Lapse(t)
      PROVE  ThreadsHaveTheirCall' /\ RequestsHaveTheirCall'
  <2>1. Return(t) /\ UNCHANGED <<status, parked>>
    BY <1>4 DEF ExecuteFails, Charge, Lapse
  <2>2. /\ at'[t] = "idle"
        /\ \A u \in Threads \ {t} : at'[u] = at[u] /\ call'[u] = call[u] /\ grant'[u] = grant[u]
    BY <1>0, <2>1, ReturnMoves
  <2>. QED BY <1>0, <2>1, <2>2
<1>5. ASSUME NEW o \in Operators, NEW a \in Approvals, ReadApproval(o, a)
      PROVE  ThreadsHaveTheirCall' /\ RequestsHaveTheirCall'
  <2>1. status[a] = "PENDING" /\ UNCHANGED <<status, parked>>
    BY <1>5 DEF ReadApproval
  <2>2. /\ at'[o] = "deciding" /\ grant'[o] = a
        /\ \A u \in Threads \ {o} : at'[u] = at[u] /\ call'[u] = call[u] /\ grant'[u] = grant[u]
    BY <1>0, <1>5, GotoMoves DEF ReadApproval, Threads, At
  <2>. QED BY <1>0, <2>1, <2>2
<1>6. ASSUME NEW o \in Operators, Approve(o)
      PROVE  ThreadsHaveTheirCall' /\ RequestsHaveTheirCall'
  <2>1. /\ at[o] = "deciding" /\ grant[o] \in Approvals /\ status[grant[o]] = "PENDING"
        /\ parked[grant[o]] \in Calls
    BY <1>0, <1>6 DEF Approve, Resolve, Threads
  <2>2. /\ at'[o] = "replay" /\ call'[o] = parked[grant[o]] /\ grant'[o] = grant[o]
        /\ \A u \in Threads \ {o} : at'[u] = at[u] /\ call'[u] = call[u] /\ grant'[u] = grant[u]
    BY <1>0, <1>6, <2>1, GotoMoves DEF Approve, Threads, At
  <2>3. /\ parked' = parked
        /\ \A b \in Approvals : status'[b] = "NONE" <=> status[b] = "NONE"
    BY <1>0, <1>6, <2>1 DEF Approve, Resolve, ExecutorTypeOK
  <2>4. \A u \in Threads : at[u] = "deciding" => status'[grant[u]] # "NONE"
    BY <1>0, <2>3
  <2>5. RequestsHaveTheirCall'
    BY <1>0, <2>2, <2>3, <2>4
  <2>6. ThreadsHaveTheirCall'
    BY <1>0, <2>1, <2>2
  <2>. QED BY <2>5, <2>6
<1>7. ASSUME NEW o \in Operators, Reject(o) \/ Conflict(o)
      PROVE  ThreadsHaveTheirCall' /\ RequestsHaveTheirCall'
  <2>1. Return(o) /\ parked' = parked /\ at[o] = "deciding"
    BY <1>7 DEF Reject, Conflict
  <2>2. /\ at'[o] = "idle"
        /\ \A u \in Threads \ {o} : at'[u] = at[u] /\ call'[u] = call[u] /\ grant'[u] = grant[u]
    BY <1>0, <2>1, ReturnMoves DEF Threads
  <2>3. \A b \in Approvals : status'[b] = "NONE" <=> status[b] = "NONE"
    <3>1. CASE Reject(o)
      BY <1>0, <2>1, <3>1 DEF Reject, Resolve, ExecutorTypeOK, Threads
    <3>2. CASE Conflict(o)
      BY <3>2 DEF Conflict
    <3>. QED BY <1>7, <3>1, <3>2
  <2>4. \A u \in Threads : at[u] = "deciding" => status'[grant[u]] # "NONE"
    BY <1>0, <2>3
  <2>. QED BY <1>0, <2>1, <2>2, <2>3, <2>4
<1>8. ASSUME NEW o \in Operators, Replay(o)
      PROVE  ThreadsHaveTheirCall' /\ RequestsHaveTheirCall'
  <2>1. /\ call[o] \in Calls /\ grant[o] \in Approvals /\ UNCHANGED <<status, parked>>
        /\ Return(o) \/ Goto(o, "execute", call[o], grant[o])
    BY <1>0, <1>8 DEF Replay, Threads
  <2>2. /\ \/ at'[o] = "idle"
           \/ at'[o] = "execute" /\ call'[o] = call[o]
        /\ \A u \in Threads \ {o} : at'[u] = at[u] /\ call'[u] = call[u] /\ grant'[u] = grant[u]
    BY <1>0, <2>1, GotoMoves, ReturnMoves DEF Threads, At
  <2>. QED BY <1>0, <2>1, <2>2
<1>9. CASE AppCrash
  <2>1. /\ UNCHANGED <<status, parked>>
        /\ \A u \in Threads : \/ at'[u] = "idle"
                              \/ at'[u] = at[u] /\ call'[u] = call[u] /\ grant'[u] = grant[u]
    BY <1>9 DEF AppCrash
  <2>. QED BY <1>0, <2>1
<1>10. CASE UNCHANGED executorVars
  BY <1>0, <1>10 DEF executorVars, threads
<1>. QED
  BY <1>1, <1>2, <1>3, <1>4, <1>5, <1>6, <1>7, <1>8, <1>9, <1>10 DEF ExecutorNext

\* What a step must do to the approvals to keep the three statements about them.
LEMMA SpentOnceFrame ==
  ASSUME ExecutorInv,
         UNCHANGED <<executions, refused>>,
         \A a \in Approvals : status[a] # "NONE" => parked'[a] = parked[a],
         \A a \in Approvals : status[a] # "PENDING" \/ a \in refused =>
           status'[a] = status[a] \/ (status[a] = "NONE" /\ status'[a] = "PENDING"),
         \A t \in Threads, a \in Approvals : Carries(t, a)' => Carries(t, a) /\ call'[t] = call[t]
  PROVE  CarriedOutOnce' /\ RefusedWereApproved' /\ ApprovalSpentOnce'
<1>1. /\ ExecutorTypeOK /\ CarriedOutOnce /\ RefusedWereApproved /\ ApprovalSpentOnce
  BY DEF ExecutorInv
<1>2. CarriedOutOnce'
  BY <1>1 DEF CarriedOutOnce
<1>3. RefusedWereApproved'
  BY <1>1 DEF RefusedWereApproved, ExecutorTypeOK
<1>4. ApprovalSpentOnce'
  <2>1. executions \in [Approvals -> Nat]
    BY <1>1 DEF ExecutorTypeOK
  <2>. QED BY <1>1, <2>1 DEF ApprovalSpentOnce
<1>. QED BY <1>2, <1>3, <1>4

\* Only the approval a thread carries is executed or refused, and it is carried
\* from the one UPDATE that finds it pending.
LEMMA SpentOnceStep ==
  ExecutorInv /\ [ExecutorNext]_executorVars =>
    CarriedOutOnce' /\ RefusedWereApproved' /\ ApprovalSpentOnce'
<1>. SUFFICES ASSUME ExecutorInv, [ExecutorNext]_executorVars
              PROVE  CarriedOutOnce' /\ RefusedWereApproved' /\ ApprovalSpentOnce'
  OBVIOUS
<1>. USE DEF approvals, ledger, ghosts, counters, Carries
<1>0. /\ ExecutorTypeOK /\ ThreadsHaveTheirCall /\ RequestsHaveTheirCall
      /\ CarriedOutOnce /\ RefusedWereApproved /\ ApprovalSpentOnce
      /\ NoApproval \notin Approvals
  BY ExecutorAssumption DEF ExecutorInv, ExecutorAssumption
<1>1. ASSUME NEW t \in Callers, NEW c \in Calls, Propose(t, c)
      PROVE  CarriedOutOnce' /\ RefusedWereApproved' /\ ApprovalSpentOnce'
  <2>1. UNCHANGED <<executions, refused, status, parked>>
    BY <1>1 DEF Propose
  <2>2. /\ grant'[t] = NoApproval
        /\ \A u \in Threads \ {t} : at'[u] = at[u] /\ call'[u] = call[u] /\ grant'[u] = grant[u]
    BY <1>0, <1>1, GotoMoves DEF Propose, Threads, At
  <2>. QED BY <1>0, <2>1, <2>2, SpentOnceFrame
<1>2. ASSUME NEW t \in Callers, NEW a \in Approvals, Park(t, a)
      PROVE  CarriedOutOnce' /\ RefusedWereApproved' /\ ApprovalSpentOnce'
  <2>1. /\ UNCHANGED <<executions, refused>>
        /\ status[a] = "NONE" /\ status'[a] = "PENDING"
        /\ \A b \in Approvals : b # a => status'[b] = status[b] /\ parked'[b] = parked[b]
    BY <1>0, <1>2 DEF Park, ExecutorTypeOK
  <2>2. /\ grant'[t] = NoApproval
        /\ \A u \in Threads \ {t} : at'[u] = at[u] /\ call'[u] = call[u] /\ grant'[u] = grant[u]
    BY <1>0, <1>2, ReturnMoves DEF Park, Threads
  <2>. QED BY <1>0, <2>1, <2>2, SpentOnceFrame
<1>3. ASSUME NEW t \in Threads, Execute(t)
      PROVE  CarriedOutOnce' /\ RefusedWereApproved' /\ ApprovalSpentOnce'
  <2>1. /\ at[t] = "execute" /\ at'[t] = "charge"
        /\ \A u \in Threads \ {t} : at'[u] = at[u]
        /\ UNCHANGED <<call, grant, status, parked, refused>>
    BY <1>0, <1>3 DEF Execute, ExecutorTypeOK
  <2>2. CASE grant[t] = NoApproval
    <3>1. executions' = executions
      BY <1>3, <2>2 DEF Execute, TakesEffect
    <3>. QED BY <1>0, <2>1, <2>2, <3>1, SpentOnceFrame
  <2>3. CASE grant[t] \in Approvals
    <3>1. executions' = [executions EXCEPT ![grant[t]] = @ + 1]
      BY <1>0, <1>3, <2>3 DEF Execute, TakesEffect
    <3>2. /\ status[grant[t]] = "APPROVED" /\ executions[grant[t]] = 0 /\ grant[t] \notin refused
          /\ \A u \in Threads \ {t} : ~Carries(u, grant[t])
      BY <1>0, <2>1, <2>3 DEF CarriedOutOnce
    <3>3. /\ executions'[grant[t]] = 1
          /\ \A b \in Approvals \ {grant[t]} : executions'[b] = executions[b]
      BY <1>0, <2>3, <3>1, <3>2 DEF ExecutorTypeOK
    <3>4. CarriedOutOnce'
      BY <1>0, <2>1, <3>2, <3>3 DEF CarriedOutOnce
    <3>5. ApprovalSpentOnce'
      BY <1>0, <2>1, <2>3, <3>2, <3>3 DEF ApprovalSpentOnce
    <3>. QED BY <1>0, <2>1, <3>4, <3>5 DEF RefusedWereApproved
  <2>. QED BY <1>0, <2>2, <2>3 DEF ExecutorTypeOK
<1>4. ASSUME NEW t \in Threads, Return(t), Spent(t), at[t] \in {"execute", "replay"},
             UNCHANGED <<status, parked, executions>>
      PROVE  CarriedOutOnce' /\ RefusedWereApproved' /\ ApprovalSpentOnce'
  <2>1. /\ at'[t] = "idle"
        /\ \A u \in Threads \ {t} : at'[u] = at[u] /\ call'[u] = call[u] /\ grant'[u] = grant[u]
    BY <1>0, <1>4, ReturnMoves
  <2>2. CASE grant[t] = NoApproval
    <3>1. refused' = refused
      BY <1>4, <2>2 DEF Spent
    <3>. QED BY <1>0, <1>4, <2>1, <3>1, SpentOnceFrame
  <2>3. CASE grant[t] \in Approvals
    <3>1. refused' = refused \cup {grant[t]}
      BY <1>0, <1>4, <2>3 DEF Spent
    <3>2. /\ status[grant[t]] = "APPROVED" /\ executions[grant[t]] = 0
          /\ \A u \in Threads \ {t} : ~Carries(u, grant[t])
      BY <1>0, <1>4, <2>3 DEF CarriedOutOnce
    <3>3. CarriedOutOnce'
      BY <1>0, <1>4, <2>1, <3>1, <3>2 DEF CarriedOutOnce
    <3>4. RefusedWereApproved'
      BY <1>0, <1>4, <3>1, <3>2 DEF RefusedWereApproved
    <3>5. ApprovalSpentOnce'
      BY <1>0, <1>4, <2>3, <3>1, <3>2 DEF ApprovalSpentOnce
    <3>. QED BY <3>3, <3>4, <3>5
  <2>. QED BY <1>0, <2>2, <2>3 DEF ExecutorTypeOK
<1>5. ASSUME NEW t \in Threads, Charge(t) \/ Lapse(t)
      PROVE  CarriedOutOnce' /\ RefusedWereApproved' /\ ApprovalSpentOnce'
  <2>1. Return(t) /\ UNCHANGED <<status, parked, executions, refused>>
    BY <1>5 DEF Charge, Lapse
  <2>2. /\ at'[t] = "idle"
        /\ \A u \in Threads \ {t} : at'[u] = at[u] /\ call'[u] = call[u] /\ grant'[u] = grant[u]
    BY <1>0, <2>1, ReturnMoves
  <2>. QED BY <1>0, <2>1, <2>2, SpentOnceFrame
<1>6. ASSUME NEW o \in Operators, NEW a \in Approvals, ReadApproval(o, a)
      PROVE  CarriedOutOnce' /\ RefusedWereApproved' /\ ApprovalSpentOnce'
  <2>1. UNCHANGED <<status, parked, executions, refused>>
    BY <1>6 DEF ReadApproval
  <2>2. /\ at'[o] = "deciding"
        /\ \A u \in Threads \ {o} : at'[u] = at[u] /\ call'[u] = call[u] /\ grant'[u] = grant[u]
    BY <1>0, <1>6, GotoMoves DEF ReadApproval, Threads, At
  <2>. QED BY <1>0, <2>1, <2>2, SpentOnceFrame
<1>7. ASSUME NEW o \in Operators, Approve(o)
      PROVE  CarriedOutOnce' /\ RefusedWereApproved' /\ ApprovalSpentOnce'
  <2>. DEFINE a == grant[o]
  <2>1. /\ a \in Approvals /\ status[a] = "PENDING" /\ parked[a] \in Calls
        /\ UNCHANGED <<parked, executions, refused>>
    BY <1>0, <1>7 DEF Approve, Resolve, ThreadsHaveTheirCall, RequestsHaveTheirCall, Threads
  <2>2. /\ at'[o] = "replay" /\ call'[o] = parked[a] /\ grant'[o] = a
        /\ \A u \in Threads \ {o} : at'[u] = at[u] /\ call'[u] = call[u] /\ grant'[u] = grant[u]
    BY <1>0, <1>7, <2>1, GotoMoves DEF Approve, Threads, At
  <2>3. /\ status'[a] = "APPROVED"
        /\ \A b \in Approvals \ {a} : status'[b] = status[b]
    BY <1>0, <1>7, <2>1 DEF Approve, Resolve, ExecutorTypeOK
  <2>4. executions[a] = 0 /\ a \notin refused
    BY <1>0, <2>1 DEF ApprovalSpentOnce, RefusedWereApproved, ExecutorTypeOK
  <2>5. \A u \in Threads : ~Carries(u, a)
    BY <1>0, <2>1 DEF CarriedOutOnce
  <2>6. o \in Threads
    BY DEF Threads
  <2>. HIDE DEF a
  <2>7. CarriedOutOnce'
    BY <1>0, <2>1, <2>2, <2>3, <2>4, <2>5, <2>6 DEF CarriedOutOnce
  <2>8. RefusedWereApproved'
    BY <1>0, <2>1, <2>3, <2>4 DEF RefusedWereApproved, ExecutorTypeOK
  <2>9. ApprovalSpentOnce'
    BY <1>0, <2>1, <2>3, <2>4 DEF ApprovalSpentOnce
  <2>. QED BY <2>7, <2>8, <2>9
<1>8. ASSUME NEW o \in Operators, Reject(o)
      PROVE  CarriedOutOnce' /\ RefusedWereApproved' /\ ApprovalSpentOnce'
  <2>1. /\ grant[o] \in Approvals /\ status[grant[o]] = "PENDING"
        /\ UNCHANGED <<parked, executions, refused>>
    BY <1>0, <1>8 DEF Reject, Resolve, ThreadsHaveTheirCall, Threads
  <2>2. /\ at'[o] = "idle"
        /\ \A u \in Threads \ {o} : at'[u] = at[u] /\ call'[u] = call[u] /\ grant'[u] = grant[u]
    BY <1>0, <1>8, ReturnMoves DEF Reject, Threads
  <2>3. \A b \in Approvals \ {grant[o]} : status'[b] = status[b]
    BY <1>0, <1>8, <2>1 DEF Reject, Resolve, ExecutorTypeOK
  <2>4. grant[o] \notin refused
    BY <1>0, <2>1 DEF RefusedWereApproved
  <2>. QED BY <1>0, <2>1, <2>2, <2>3, <2>4, SpentOnceFrame
<1>9. ASSUME NEW o \in Operators, Conflict(o)
      PROVE  CarriedOutOnce' /\ RefusedWereApproved' /\ ApprovalSpentOnce'
  <2>1. UNCHANGED <<status, parked, executions, refused>>
    BY <1>9 DEF Conflict
  <2>2. /\ at'[o] = "idle"
        /\ \A u \in Threads \ {o} : at'[u] = at[u] /\ call'[u] = call[u] /\ grant'[u] = grant[u]
    BY <1>0, <1>9, ReturnMoves DEF Conflict, Threads
  <2>. QED BY <1>0, <2>1, <2>2, SpentOnceFrame
<1>10. ASSUME NEW o \in Operators, Replay(o)
       PROVE  CarriedOutOnce' /\ RefusedWereApproved' /\ ApprovalSpentOnce'
  <2>1. /\ at[o] = "replay" /\ call[o] \in Calls /\ grant[o] \in Approvals
        /\ UNCHANGED <<status, parked, executions>> /\ o \in Threads
    BY <1>0, <1>10 DEF Replay, ThreadsHaveTheirCall, Threads
  <2>2. CASE Refused(call[o])
    BY <1>4, <1>10, <2>1, <2>2 DEF Replay
  <2>3. CASE ~Refused(call[o])
    <3>1. Goto(o, "execute", call[o], grant[o]) /\ refused' = refused
      BY <1>10, <2>3 DEF Replay
    <3>2. /\ call'[o] = call[o] /\ grant'[o] = grant[o]
          /\ \A u \in Threads \ {o} : at'[u] = at[u] /\ call'[u] = call[u] /\ grant'[u] = grant[u]
      BY <1>0, <2>1, <3>1, GotoMoves DEF At
    <3>. QED BY <1>0, <2>1, <3>1, <3>2, SpentOnceFrame
  <2>. QED BY <2>2, <2>3
<1>11. CASE AppCrash
  <2>1. /\ UNCHANGED <<status, parked, executions, refused>>
        /\ \A u \in Threads : \/ at'[u] = "idle"
                              \/ at'[u] = at[u] /\ call'[u] = call[u] /\ grant'[u] = grant[u]
    BY <1>11 DEF AppCrash
  <2>. QED BY <1>0, <2>1, SpentOnceFrame
<1>12. CASE UNCHANGED executorVars
  BY <1>0, <1>12, SpentOnceFrame DEF executorVars, threads
<1>. QED
  <2>1. ASSUME NEW t \in Threads, ExecuteFails(t)
        PROVE  CarriedOutOnce' /\ RefusedWereApproved' /\ ApprovalSpentOnce'
    BY <1>4, <2>1 DEF ExecuteFails
  <2>. QED
    BY <1>1, <1>2, <1>3, <2>1, <1>5, <1>6, <1>7, <1>8, <1>9, <1>10, <1>11, <1>12
       DEF ExecutorNext

\* A purchase order more, under an approval that none had been made under.
LEMMA CoverGrows ==
  ASSUME LargeMovesWereApproved, NEW p \in Products, NEW a \in Approvals, NEW amount \in Nat,
         purchased[p] \in Seq(Nat), purchased'[p] = Append(purchased[p], amount),
         executions[a] = 0, executions'[a] = 1,
         parked[a].tool = "create_purchase_order", parked[a].entity = p,
         parked[a].amount = amount,
         parked' = parked, \A b \in Approvals : executions[b] = 1 => executions'[b] = 1
  PROVE  \E under \in [DOMAIN purchased'[p] -> Approvals] : Covers(p, under)'
<1>0. PICK n \in Nat : n = Len(purchased[p])
  BY LenProperties
<1>1. /\ DOMAIN purchased[p] = 1 .. n /\ DOMAIN purchased'[p] = 1 .. n + 1
      /\ purchased'[p][n + 1] = amount
      /\ \A i \in 1 .. n : purchased'[p][i] = purchased[p][i]
  BY <1>0, LenProperties, AppendProperties
<1>2. PICK under \in [1 .. n -> Approvals] : Covers(p, under)
  BY <1>1 DEF LargeMovesWereApproved, Covers
<1>3. \A i \in 1 .. n + 1 : i = n + 1 \/ i \in 1 .. n
  OBVIOUS
<1>4. PICK more \in [1 .. n + 1 -> Approvals] :
        more = [i \in 1 .. n + 1 |-> IF i = n + 1 THEN a ELSE under[i]]
  BY <1>2, <1>3
<1>5. /\ more[n + 1] = a
      /\ \A i \in 1 .. n : more[i] = under[i] /\ executions[under[i]] = 1
  <2>1. n + 1 \in 1 .. n + 1 /\ \A i \in 1 .. n : i \in 1 .. n + 1 /\ i # n + 1
    OBVIOUS
  <2>. QED BY <1>1, <1>2, <1>4, <2>1 DEF Covers
<1>6. \A i, k \in 1 .. n : under[i] = under[k] => i = k
  BY <1>1, <1>2 DEF Covers
<1>7. \A i, k \in 1 .. n + 1 : more[i] = more[k] => i = k
  BY <1>3, <1>5, <1>6
<1>8. ASSUME NEW i \in 1 .. n + 1
      PROVE  /\ executions'[more[i]] = 1
             /\ parked'[more[i]].tool = "create_purchase_order"
             /\ parked'[more[i]].entity = p /\ parked'[more[i]].amount = purchased'[p][i]
  <2>1. CASE i = n + 1
    BY <1>1, <1>5, <2>1
  <2>2. CASE i \in 1 .. n
    <3>1. more[i] = under[i] /\ under[i] \in Approvals /\ purchased'[p][i] = purchased[p][i]
      BY <1>1, <1>5, <2>2
    <3>2. /\ executions[under[i]] = 1
          /\ parked[under[i]].tool = "create_purchase_order"
          /\ parked[under[i]].entity = p /\ parked[under[i]].amount = purchased[p][i]
      BY <1>1, <1>2, <2>2 DEF Covers
    <3>. QED BY <3>1, <3>2
  <2>. QED BY <1>3, <2>1, <2>2
<1>9. Covers(p, more)'
  BY <1>1, <1>7, <1>8 DEF Covers
<1>. QED BY <1>1, <1>4, <1>9

\* The purchase orders that are there keep the approvals they have.
LEMMA CoverStays ==
  ASSUME LargeMovesWereApproved, NEW p \in Products, purchased'[p] = purchased[p],
         \A a \in Approvals : executions[a] = 1 => executions'[a] = 1 /\ parked'[a] = parked[a]
  PROVE  \E under \in [DOMAIN purchased'[p] -> Approvals] : Covers(p, under)'
<1>1. PICK under \in [DOMAIN purchased[p] -> Approvals] : Covers(p, under)
  BY DEF LargeMovesWereApproved, Covers
<1>2. Covers(p, under)'
  BY <1>1 DEF Covers
<1>. QED BY <1>2

\* What is approved stays so while the approvals that were executed are as they were.
LEMMA LargeMovesFrame ==
  ASSUME LargeMovesWereApproved, UNCHANGED <<refunds, purchased>>,
         \A a \in Approvals : executions[a] = 1 => executions'[a] = 1 /\ parked'[a] = parked[a]
  PROVE  LargeMovesWereApproved'
<1>1. ASSUME NEW o \in Orders, NEW amount \in refunds[o], amount > RefundLimit
      PROVE  \E a \in Approvals : /\ executions'[a] = 1
                                  /\ parked'[a].tool = "create_refund"
                                  /\ parked'[a].entity = o /\ parked'[a].amount = amount
  BY <1>1 DEF LargeMovesWereApproved
<1>2. ASSUME NEW p \in Products
      PROVE  \E under \in [DOMAIN purchased[p] -> Approvals] : Covers(p, under)'
  BY CoverStays
<1>. QED BY <1>1, <1>2 DEF LargeMovesWereApproved, Covers

\* What a step that moves nothing must do to keep the two statements about moves.
LEMMA MovesFrame ==
  ASSUME ExecutorInv,
         UNCHANGED <<executions, refunds, purchased>>,
         \A a \in Approvals : status[a] # "NONE" => parked'[a] = parked[a],
         \A t \in Threads : at'[t] = "execute" /\ grant'[t] = NoApproval =>
           at[t] = "execute" /\ grant[t] = NoApproval /\ call'[t] = call[t]
  PROVE  UnapprovedIsSmall' /\ LargeMovesWereApproved'
<1>1. UnapprovedIsSmall'
  BY DEF ExecutorInv, UnapprovedIsSmall
<1>2. \A a \in Approvals : executions[a] = 1 => parked'[a] = parked[a]
  BY DEF ExecutorInv, ExecutorTypeOK, ApprovalSpentOnce
<1>3. LargeMovesWereApproved'
  BY <1>2, LargeMovesFrame DEF ExecutorInv
<1>. QED BY <1>1, <1>3

\* The policy lets no purchase order through, and no refund above the limit.
LEMMA AllowedIsSmall ==
  ASSUME NEW c \in Calls, ~Refused(c), ~AsksHuman(c)
  PROVE  /\ c.tool = "create_refund" => c.amount <= RefundLimit
         /\ c.tool # "create_purchase_order"
         /\ DailyBudget[c.agent] > 0 /\ Impact(c) > 0 =>
              ~(Impact(c) > DailyBudget[c.agent] - used[c.agent])
<1>1. ~Denied(c, price) /\ ~NeedsHuman(c, used)
  BY DEF Refused, AsksHuman, Decision
<1>2. c.agent \in Agents /\ c.amount \in Nat /\ RefundLimit \in Nat
  BY CallTypes, ExecutorAssumption DEF ExecutorAssumption
<1>3. ASSUME c.tool = "create_refund" PROVE c.amount <= RefundLimit
  <2>1. Impact(c) = c.amount
    BY <1>3 DEF Impact
  <2>. QED BY <1>1, <1>2, <1>3, <2>1 DEF NeedsHuman
<1>4. ASSUME c.tool = "create_purchase_order" PROVE FALSE
  <2>1. "WRITE_PURCHASE_ORDERS" \in Grants[c.agent]
    BY <1>1, <1>4 DEF Denied, Permitted, Permission
  <2>2. c.agent = "procurement"
    BY <1>2, <2>1 DEF Grants, Agents
  <2>. QED BY <1>1, <2>2 DEF NeedsHuman, HeldBack
<1>. QED BY <1>1, <1>3, <1>4 DEF NeedsHuman, OverBudget

\* A tool moves what the policy let through, or what the thread's approval says.
LEMMA MovesStep ==
  ExecutorInv /\ [ExecutorNext]_executorVars => UnapprovedIsSmall' /\ LargeMovesWereApproved'
<1>. SUFFICES ASSUME ExecutorInv, [ExecutorNext]_executorVars
              PROVE  UnapprovedIsSmall' /\ LargeMovesWereApproved'
  OBVIOUS
<1>. USE DEF approvals, ledger, ghosts, counters
<1>0. /\ ExecutorTypeOK /\ ThreadsHaveTheirCall /\ CarriedOutOnce /\ ApprovalSpentOnce
      /\ UnapprovedIsSmall /\ LargeMovesWereApproved
      /\ NoApproval \notin Approvals
  BY ExecutorAssumption DEF ExecutorInv, ExecutorAssumption
<1>1. ASSUME NEW t \in Callers, NEW c \in Calls, Propose(t, c)
      PROVE  UnapprovedIsSmall' /\ LargeMovesWereApproved'
  <2>1. UNCHANGED <<executions, refunds, purchased, parked>>
    BY <1>1 DEF Propose
  <2>2. /\ call'[t] = c
        /\ at'[t] = "execute" => ~Refused(c) /\ ~AsksHuman(c)
        /\ \A u \in Threads \ {t} : at'[u] = at[u] /\ call'[u] = call[u] /\ grant'[u] = grant[u]
    BY <1>0, <1>1, GotoMoves DEF Propose, Threads, At
  <2>3. UnapprovedIsSmall'
    BY <1>0, <2>2, AllowedIsSmall DEF UnapprovedIsSmall
  <2>4. LargeMovesWereApproved'
    BY <1>0, <2>1, LargeMovesFrame
  <2>. QED BY <2>3, <2>4
<1>2. ASSUME NEW t \in Callers, NEW a \in Approvals, Park(t, a)
      PROVE  UnapprovedIsSmall' /\ LargeMovesWereApproved'
  <2>1. /\ UNCHANGED <<executions, refunds, purchased>>
        /\ status[a] = "NONE"
        /\ \A b \in Approvals : b # a => parked'[b] = parked[b]
    BY <1>0, <1>2 DEF Park, ExecutorTypeOK
  <2>2. /\ at'[t] = "idle"
        /\ \A u \in Threads \ {t} : at'[u] = at[u] /\ call'[u] = call[u] /\ grant'[u] = grant[u]
    BY <1>0, <1>2, ReturnMoves DEF Park, Threads
  <2>. QED BY <2>1, <2>2, MovesFrame
<1>3. ASSUME NEW t \in Threads, Execute(t)
      PROVE  UnapprovedIsSmall' /\ LargeMovesWereApproved'
  <2>. DEFINE c == call[t]
  <2>1. /\ at[t] = "execute" /\ at'[t] = "charge"
        /\ \A u \in Threads \ {t} : at'[u] = at[u]
        /\ UNCHANGED <<call, grant, parked>>
        /\ c \in Calls /\ c.amount \in Nat
        /\ c.tool = "create_refund" => c.entity \in Orders
        /\ c.tool # "create_refund" => c.entity \in Products
    BY <1>0, <1>3, CallTypes DEF Execute, ExecutorTypeOK, ThreadsHaveTheirCall
  <2>2. UnapprovedIsSmall'
    BY <1>0, <2>1 DEF UnapprovedIsSmall
  <2>3. \A a \in Approvals : executions[a] = 1 => executions'[a] = 1
    <3>1. CASE grant[t] = NoApproval
      BY <1>3, <3>1 DEF Execute, TakesEffect
    <3>2. CASE grant[t] # NoApproval
      <4>1. executions[grant[t]] = 0
        BY <1>0, <2>1, <3>2 DEF CarriedOutOnce, Carries, ExecutorTypeOK
      <4>2. executions' = [executions EXCEPT ![grant[t]] = @ + 1]
        BY <1>3, <3>2 DEF Execute, TakesEffect
      <4>. QED BY <1>0, <4>1, <4>2 DEF ExecutorTypeOK
    <3>. QED BY <3>1, <3>2
  <2>4. ASSUME grant[t] # NoApproval
        PROVE  grant[t] \in Approvals /\ executions'[grant[t]] = 1 /\ parked'[grant[t]] = c
    <3>1. grant[t] \in Approvals /\ executions[grant[t]] = 0 /\ parked[grant[t]] = c
      BY <1>0, <2>1, <2>4 DEF CarriedOutOnce, Carries, ExecutorTypeOK
    <3>2. executions' = [executions EXCEPT ![grant[t]] = @ + 1]
      BY <1>3, <2>4 DEF Execute, TakesEffect
    <3>. QED BY <1>0, <2>1, <3>1, <3>2 DEF ExecutorTypeOK
  <2>5. CASE CreateRefund(c)
    <3>1. /\ c.tool = "create_refund" /\ purchased' = purchased
          /\ \A o \in Orders : refunds'[o] = IF o = c.entity THEN refunds[o] \cup {c.amount}
                                                             ELSE refunds[o]
      BY <1>0, <2>1, <2>5 DEF CreateRefund, ExecutorTypeOK
    <3>2. c.amount > RefundLimit => grant[t] # NoApproval
      BY <1>0, <2>1, <3>1, ExecutorAssumption DEF UnapprovedIsSmall, ExecutorAssumption
    <3>3. ASSUME NEW o \in Orders, NEW amount \in refunds'[o], amount > RefundLimit
          PROVE  \E a \in Approvals : /\ executions'[a] = 1
                                      /\ parked'[a].tool = "create_refund"
                                      /\ parked'[a].entity = o /\ parked'[a].amount = amount
      <4>1. CASE amount \in refunds[o]
        <5>1. PICK a \in Approvals : /\ executions[a] = 1
                                     /\ parked[a].tool = "create_refund"
                                     /\ parked[a].entity = o /\ parked[a].amount = amount
          BY <1>0, <3>3, <4>1 DEF LargeMovesWereApproved
        <5>. QED BY <2>1, <2>3, <5>1
      <4>2. CASE o = c.entity /\ amount = c.amount
        BY <2>4, <3>1, <3>2, <3>3, <4>2
      <4>. QED BY <3>1, <3>3, <4>1, <4>2
    <3>4. ASSUME NEW p \in Products
          PROVE  \E under \in [DOMAIN purchased'[p] -> Approvals] : Covers(p, under)'
      BY <1>0, <2>1, <2>3, <3>1, CoverStays
    <3>. QED BY <2>2, <3>3, <3>4 DEF LargeMovesWereApproved, Covers
  <2>6. CASE CreatePurchaseOrder(c)
    <3>1. /\ c.tool = "create_purchase_order" /\ refunds' = refunds
          /\ c.entity \in Products
          /\ \A p \in Products : p # c.entity => purchased'[p] = purchased[p]
          /\ purchased'[c.entity] = Append(purchased[c.entity], c.amount)
      BY <1>0, <2>1, <2>6 DEF CreatePurchaseOrder, ExecutorTypeOK
    <3>2. grant[t] # NoApproval
      BY <1>0, <2>1, <3>1 DEF UnapprovedIsSmall
    <3>3. ASSUME NEW o \in Orders, NEW amount \in refunds'[o], amount > RefundLimit
          PROVE  \E a \in Approvals : /\ executions'[a] = 1
                                      /\ parked'[a].tool = "create_refund"
                                      /\ parked'[a].entity = o /\ parked'[a].amount = amount
      BY <1>0, <2>1, <2>3, <3>1, <3>3 DEF LargeMovesWereApproved
    <3>4. ASSUME NEW p \in Products, p # c.entity
          PROVE  \E under \in [DOMAIN purchased'[p] -> Approvals] : Covers(p, under)'
      BY <1>0, <2>1, <2>3, <3>1, <3>4, CoverStays
    <3>5. ASSUME NEW p \in Products, p = c.entity
          PROVE  \E under \in [DOMAIN purchased'[p] -> Approvals] : Covers(p, under)'
      <4>1. PICK a \in Approvals :
              /\ a = grant[t] /\ executions[a] = 0 /\ executions'[a] = 1 /\ parked[a] = c
        BY <1>0, <2>1, <2>4, <3>2 DEF CarriedOutOnce, Carries, ExecutorTypeOK
      <4>2. purchased[p] \in Seq(Nat) /\ purchased'[p] = Append(purchased[p], c.amount)
        BY <1>0, <3>1, <3>5 DEF ExecutorTypeOK
      <4>. QED BY <1>0, <2>1, <2>3, <3>1, <3>5, <4>1, <4>2, CoverGrows
    <3>. QED BY <2>2, <3>3, <3>4, <3>5 DEF LargeMovesWereApproved, Covers
  <2>7. CASE UpdatePrice(c)
    <3>1. UNCHANGED <<refunds, purchased>>
      BY <2>7 DEF UpdatePrice
    <3>. QED BY <1>0, <2>1, <2>2, <2>3, <3>1, LargeMovesFrame
  <2>. QED BY <1>3, <2>5, <2>6, <2>7 DEF Execute
<1>4. ASSUME NEW t \in Threads, Return(t),
             UNCHANGED <<parked, executions, refunds, purchased>>
      PROVE  UnapprovedIsSmall' /\ LargeMovesWereApproved'
  <2>1. /\ at'[t] = "idle"
        /\ \A u \in Threads \ {t} : at'[u] = at[u] /\ call'[u] = call[u] /\ grant'[u] = grant[u]
    BY <1>0, <1>4, ReturnMoves
  <2>. QED BY <1>4, <2>1, MovesFrame
<1>5. ASSUME NEW t \in Threads, ExecuteFails(t) \/ Charge(t) \/ Lapse(t)
      PROVE  UnapprovedIsSmall' /\ LargeMovesWereApproved'
  BY <1>4, <1>5 DEF ExecuteFails, Charge, Lapse
<1>6. ASSUME NEW o \in Operators, NEW a \in Approvals, ReadApproval(o, a)
      PROVE  UnapprovedIsSmall' /\ LargeMovesWereApproved'
  <2>1. UNCHANGED <<parked, executions, refunds, purchased>>
    BY <1>6 DEF ReadApproval
  <2>2. /\ at'[o] = "deciding"
        /\ \A u \in Threads \ {o} : at'[u] = at[u] /\ call'[u] = call[u] /\ grant'[u] = grant[u]
    BY <1>0, <1>6, GotoMoves DEF ReadApproval, Threads, At
  <2>. QED BY <2>1, <2>2, MovesFrame
<1>7. ASSUME NEW o \in Operators, Approve(o)
      PROVE  UnapprovedIsSmall' /\ LargeMovesWereApproved'
  <2>1. /\ grant[o] \in Approvals /\ parked[grant[o]] \in Calls \cup {NoCall}
        /\ UNCHANGED <<parked, executions, refunds, purchased>>
    BY <1>0, <1>7 DEF Approve, ThreadsHaveTheirCall, Threads, ExecutorTypeOK
  <2>2. /\ at'[o] = "replay"
        /\ \A u \in Threads \ {o} : at'[u] = at[u] /\ call'[u] = call[u] /\ grant'[u] = grant[u]
    BY <1>0, <1>7, <2>1, GotoMoves DEF Approve, Threads, At
  <2>. QED BY <2>1, <2>2, MovesFrame
<1>8. ASSUME NEW o \in Operators, Reject(o) \/ Conflict(o)
      PROVE  UnapprovedIsSmall' /\ LargeMovesWereApproved'
  BY <1>4, <1>8 DEF Reject, Conflict, Threads
<1>9. ASSUME NEW o \in Operators, Replay(o)
      PROVE  UnapprovedIsSmall' /\ LargeMovesWereApproved'
  <2>1. /\ call[o] \in Calls /\ grant[o] \in Approvals /\ o \in Threads
        /\ UNCHANGED <<parked, executions, refunds, purchased>>
        /\ Return(o) \/ Goto(o, "execute", call[o], grant[o])
    BY <1>0, <1>9 DEF Replay, ThreadsHaveTheirCall, Threads
  <2>2. CASE Goto(o, "execute", call[o], grant[o])
    <3>1. /\ grant'[o] = grant[o]
          /\ \A u \in Threads \ {o} : at'[u] = at[u] /\ call'[u] = call[u] /\ grant'[u] = grant[u]
      BY <1>0, <2>1, <2>2, GotoMoves DEF At
    <3>. QED BY <1>0, <2>1, <3>1, MovesFrame
  <2>. QED BY <1>4, <2>1, <2>2
<1>10. CASE AppCrash
  <2>1. /\ UNCHANGED <<parked, executions, refunds, purchased>>
        /\ \A u \in Threads : \/ at'[u] = "idle"
                              \/ at'[u] = at[u] /\ call'[u] = call[u] /\ grant'[u] = grant[u]
    BY <1>10 DEF AppCrash
  <2>. QED BY <2>1, MovesFrame
<1>11. CASE UNCHANGED executorVars
  BY <1>11, MovesFrame DEF executorVars, threads
<1>. QED
  BY <1>1, <1>2, <1>3, <1>5, <1>6, <1>7, <1>8, <1>9, <1>10, <1>11 DEF ExecutorNext

\* What a step at which nobody spends must do to keep the budgets: no thread
\* becomes uncharged, and the agent of one that no longer is has raced.
LEMMA BudgetFrame ==
  ASSUME ExecutorInv,
         UNCHANGED <<used, autoSpent>>,
         raced \subseteq raced',
         \A t \in Threads : Uncharged(t)' =>
           Uncharged(t) /\ at'[t] = at[t] /\ call'[t] = call[t],
         \A t \in Threads : at[t] = "charge" /\ Uncharged(t) /\ ~Uncharged(t)' =>
           call[t].agent \in raced'
  PROVE  OneUncharged' /\ SpendingIsCharged' /\ SpendingFits'
<1>1. OneUncharged /\ SpendingIsCharged /\ SpendingFits
  BY DEF ExecutorInv
<1>2. OneUncharged'
  BY <1>1 DEF OneUncharged
<1>3. SpendingIsCharged'
  <2>. SUFFICES ASSUME NEW g \in Agents \ raced', ~(autoSpent[g] <= used[g])
                PROVE  \E t \in Threads : /\ at'[t] = "charge" /\ Uncharged(t)'
                                          /\ call'[t].agent = g
                                          /\ autoSpent[g] <= used[g] + Impact(call'[t])
    BY DEF SpendingIsCharged
  <2>1. PICK t \in Threads : /\ at[t] = "charge" /\ Uncharged(t) /\ call[t].agent = g
                             /\ autoSpent[g] <= used[g] + Impact(call[t])
    BY <1>1 DEF SpendingIsCharged
  <2>. QED BY <2>1
<1>4. SpendingFits'
  BY <1>1 DEF SpendingFits
<1>. QED BY <1>2, <1>3, <1>4

\* A call that starts to spend fits what is left, or its agent has raced; a call
\* that has spent is charged, or its agent has raced.
LEMMA BudgetStep ==
  ExecutorInv /\ [ExecutorNext]_executorVars =>
    OneUncharged' /\ SpendingIsCharged' /\ SpendingFits'
<1>. SUFFICES ASSUME ExecutorInv, [ExecutorNext]_executorVars
              PROVE  OneUncharged' /\ SpendingIsCharged' /\ SpendingFits'
  OBVIOUS
<1>. USE DEF approvals, ledger, ghosts, counters
<1>0. /\ ExecutorTypeOK /\ ThreadsHaveTheirCall
      /\ OneUncharged /\ SpendingIsCharged /\ SpendingFits
      /\ NoApproval \notin Approvals
      /\ DailyBudget \in [Agents -> Nat]
  BY ExecutorAssumption DEF ExecutorInv, ExecutorAssumption
<1>1. ASSUME NEW t \in Callers, NEW c \in Calls, Propose(t, c)
      PROVE  OneUncharged' /\ SpendingIsCharged' /\ SpendingFits'
  <2>1. /\ UNCHANGED <<used, autoSpent>> /\ at[t] = "idle" /\ t \in Threads
        /\ c.agent \in Agents /\ Impact(c) \in Nat
    BY <1>1, CallTypes DEF Propose, Threads
  <2>2. /\ call'[t] = c /\ grant'[t] = NoApproval
        /\ \/ at'[t] = "park" /\ raced' = raced
           \/ /\ at'[t] = "execute" /\ ~Refused(c) /\ ~AsksHuman(c)
              /\ raced' = IF Races(t, c) THEN raced \cup {c.agent} ELSE raced
        /\ \A u \in Threads \ {t} : at'[u] = at[u] /\ call'[u] = call[u] /\ grant'[u] = grant[u]
    BY <1>0, <1>1, GotoMoves DEF Propose, Threads, At
  <2>3. raced \subseteq raced'
    BY <2>2
  <2>4. \A u \in Threads \ {t} : Uncharged(u)' <=> Uncharged(u)
    BY <2>2 DEF Uncharged
  <2>5. CASE ~Uncharged(t)'
    BY <2>1, <2>2, <2>3, <2>4, <2>5, BudgetFrame DEF Uncharged
  <2>6. CASE Uncharged(t)'
    <3>1. /\ at'[t] = "execute" /\ Impact(c) > 0 /\ ~Refused(c) /\ ~AsksHuman(c)
          /\ c.agent \notin raced' => ~Races(t, c)
      BY <2>2, <2>6 DEF Uncharged
    <3>2. c.agent \notin raced' =>
            \A u \in Threads \ {t} : ~(Uncharged(u) /\ call[u].agent = c.agent)
      BY <3>1 DEF Races
    <3>3. OneUncharged'
      BY <1>0, <2>2, <2>3, <2>4, <3>2 DEF OneUncharged
    <3>4. SpendingIsCharged'
      <4>1. ASSUME NEW g \in Agents \ raced', ~(autoSpent[g] <= used[g])
            PROVE  \E u \in Threads : /\ at'[u] = "charge" /\ Uncharged(u)'
                                      /\ call'[u].agent = g
                                      /\ autoSpent[g] <= used[g] + Impact(call'[u])
        <5>1. PICK u \in Threads : /\ at[u] = "charge" /\ Uncharged(u) /\ call[u].agent = g
                                   /\ autoSpent[g] <= used[g] + Impact(call[u])
          BY <1>0, <2>3, <4>1 DEF SpendingIsCharged
        <5>. QED BY <2>1, <2>2, <2>4, <5>1
      <4>. QED BY <2>1, <4>1 DEF SpendingIsCharged
    <3>5. ASSUME NEW g \in Agents \ raced', DailyBudget[g] > 0, g = c.agent
          PROVE  autoSpent[g] + Impact(c) <= DailyBudget[g]
      <4>1. autoSpent[g] <= used[g]
        BY <1>0, <2>1, <2>3, <3>2, <3>5 DEF SpendingIsCharged, Uncharged
      <4>2. ~(Impact(c) > DailyBudget[g] - used[g])
        BY <3>1, <3>5, AllowedIsSmall
      <4>3. autoSpent[g] \in Nat /\ used[g] \in Nat /\ DailyBudget[g] \in Nat
        BY <1>0 DEF ExecutorTypeOK
      <4>. QED BY <2>1, <4>1, <4>2, <4>3
    <3>6. SpendingFits'
      BY <1>0, <2>1, <2>2, <2>3, <2>4, <3>5 DEF SpendingFits
    <3>. QED BY <3>3, <3>4, <3>6
  <2>. QED BY <2>5, <2>6
<1>2. ASSUME NEW t \in Threads, Execute(t)
      PROVE  OneUncharged' /\ SpendingIsCharged' /\ SpendingFits'
  <2>1. /\ at[t] = "execute" /\ at'[t] = "charge" /\ call[t] \in Calls
        /\ call[t].agent \in Agents /\ Impact(call[t]) \in Nat
        /\ \A u \in Threads \ {t} : at'[u] = at[u]
        /\ UNCHANGED <<call, grant, used, raced>>
    BY <1>0, <1>2, CallTypes DEF Execute, ExecutorTypeOK, ThreadsHaveTheirCall
  <2>2. \A u \in Threads : Uncharged(u)' <=> Uncharged(u)
    BY <2>1 DEF Uncharged
  <2>3. OneUncharged'
    BY <1>0, <2>1, <2>2 DEF OneUncharged
  <2>4. CASE ~Uncharged(t)
    <3>1. autoSpent' = autoSpent
      <4>1. CASE grant[t] # NoApproval
        BY <1>2, <4>1 DEF Execute, TakesEffect
      <4>2. CASE grant[t] = NoApproval
        <5>1. Impact(call[t]) = 0
          BY <2>1, <2>4, <4>2 DEF Uncharged
        <5>2. autoSpent' = [autoSpent EXCEPT ![call[t].agent] = @ + Impact(call[t])]
          BY <1>2, <4>2 DEF Execute, TakesEffect
        <5>. QED BY <1>0, <2>1, <5>1, <5>2 DEF ExecutorTypeOK
      <4>. QED BY <4>1, <4>2
    <3>2. \A u \in Threads : Uncharged(u) => u # t
      BY <2>4
    <3>. QED BY <2>1, <2>2, <3>1, <3>2, BudgetFrame
  <2>5. CASE Uncharged(t)
    <3>. DEFINE g == call[t].agent
    <3>1. /\ grant[t] = NoApproval /\ Impact(call[t]) > 0
          /\ autoSpent' = [autoSpent EXCEPT ![g] = @ + Impact(call[t])]
      BY <1>2, <2>5 DEF Execute, TakesEffect, Uncharged
    <3>2. /\ autoSpent'[g] = autoSpent[g] + Impact(call[t])
          /\ \A h \in Agents \ {g} : autoSpent'[h] = autoSpent[h]
          /\ g \in Agents /\ autoSpent[g] \in Nat /\ used[g] \in Nat
      BY <1>0, <2>1, <3>1 DEF ExecutorTypeOK
    <3>3. ASSUME g \notin raced, NEW u \in Threads, Uncharged(u), call[u].agent = g
          PROVE  u = t
      BY <2>5, <3>2, <3>3, <1>0 DEF OneUncharged
    <3>4. ASSUME g \notin raced PROVE autoSpent[g] <= used[g]
      BY <1>0, <2>1, <3>2, <3>3, <3>4 DEF SpendingIsCharged
    <3>. HIDE DEF g
    <3>5. SpendingIsCharged'
      <4>1. ASSUME NEW h \in Agents \ raced
            PROVE  \/ autoSpent'[h] <= used[h]
                   \/ \E u \in Threads : /\ at'[u] = "charge" /\ Uncharged(u)
                                         /\ call[u].agent = h
                                         /\ autoSpent'[h] <= used[h] + Impact(call[u])
        <5>1. CASE h = g
          <6>1. autoSpent'[h] <= used[h] + Impact(call[t])
            BY <2>1, <3>2, <3>4, <4>1, <5>1
          <6>. QED BY <2>1, <2>5, <5>1, <6>1 DEF g
        <5>2. CASE h # g
          <6>1. autoSpent'[h] = autoSpent[h]
            BY <3>2, <5>2
          <6>2. CASE autoSpent[h] <= used[h]
            BY <6>1, <6>2
          <6>3. CASE ~(autoSpent[h] <= used[h])
            <7>1. PICK u \in Threads : /\ at[u] = "charge" /\ Uncharged(u)
                                       /\ call[u].agent = h
                                       /\ autoSpent[h] <= used[h] + Impact(call[u])
              BY <1>0, <4>1, <6>3 DEF SpendingIsCharged
            <7>. QED BY <2>1, <6>1, <7>1
          <6>. QED BY <6>2, <6>3
        <5>. QED BY <5>1, <5>2
      <4>. QED BY <2>1, <2>2, <4>1 DEF SpendingIsCharged
    <3>6. SpendingFits'
      <4>1. ASSUME NEW h \in Agents \ raced, DailyBudget[h] > 0
            PROVE  autoSpent'[h] <= DailyBudget[h]
        BY <1>0, <2>1, <2>5, <3>2, <4>1 DEF SpendingFits, g
      <4>2. ASSUME NEW h \in Agents \ raced, DailyBudget[h] > 0, NEW u \in Threads,
                   at'[u] = "execute", Uncharged(u), call[u].agent = h
            PROVE  autoSpent'[h] + Impact(call[u]) <= DailyBudget[h]
        <5>1. u # t /\ at[u] = "execute"
          BY <2>1, <4>2
        <5>2. h # g
          BY <3>3, <4>2, <5>1
        <5>. QED BY <1>0, <3>2, <4>2, <5>1, <5>2 DEF SpendingFits
      <4>. QED BY <2>1, <2>2, <4>1, <4>2 DEF SpendingFits
    <3>. QED BY <2>3, <3>5, <3>6
  <2>. QED BY <2>4, <2>5
<1>3. ASSUME NEW t \in Threads, Charge(t)
      PROVE  OneUncharged' /\ SpendingIsCharged' /\ SpendingFits'
  <2>1. /\ at[t] = "charge" /\ call[t] \in Calls
        /\ call[t].agent \in Agents /\ Impact(call[t]) \in Nat
        /\ UNCHANGED <<autoSpent, raced>>
        /\ used' = [used EXCEPT ![call[t].agent] = @ + Impact(call[t])]
    BY <1>0, <1>3, CallTypes DEF Charge, ThreadsHaveTheirCall
  <2>2. /\ at'[t] = "idle"
        /\ \A u \in Threads \ {t} : at'[u] = at[u] /\ call'[u] = call[u] /\ grant'[u] = grant[u]
    BY <1>0, <1>3, ReturnMoves DEF Charge
  <2>3. /\ ~Uncharged(t)'
        /\ \A u \in Threads \ {t} : Uncharged(u)' <=> Uncharged(u)
    BY <2>2 DEF Uncharged
  <2>4. /\ used'[call[t].agent] = used[call[t].agent] + Impact(call[t])
        /\ \A h \in Agents : h # call[t].agent => used'[h] = used[h]
        /\ \A h \in Agents : used[h] \in Nat /\ used'[h] \in Nat /\ autoSpent[h] \in Nat
    BY <1>0, <2>1 DEF ExecutorTypeOK
  <2>5. \A h \in Agents : used[h] <= used'[h]
    BY <2>1, <2>4
  <2>6. OneUncharged'
    BY <1>0, <2>1, <2>2, <2>3 DEF OneUncharged
  <2>7. SpendingFits'
    BY <1>0, <2>1, <2>2, <2>3 DEF SpendingFits
  <2>8. ASSUME NEW h \in Agents \ raced
        PROVE  \/ autoSpent[h] <= used'[h]
               \/ \E u \in Threads : /\ at'[u] = "charge" /\ Uncharged(u)'
                                     /\ call'[u].agent = h
                                     /\ autoSpent[h] <= used'[h] + Impact(call'[u])
    <3>1. CASE autoSpent[h] <= used[h]
      BY <2>4, <2>5, <3>1
    <3>2. CASE ~(autoSpent[h] <= used[h])
      <4>1. PICK u \in Threads : /\ at[u] = "charge" /\ Uncharged(u) /\ call[u].agent = h
                                 /\ autoSpent[h] <= used[h] + Impact(call[u])
        BY <1>0, <2>8, <3>2 DEF SpendingIsCharged
      <4>2. CASE u = t
        BY <2>4, <4>1, <4>2
      <4>3. CASE u # t
        <5>1. Impact(call[u]) \in Nat
          BY <1>0, <4>1, CallTypes DEF ThreadsHaveTheirCall
        <5>2. autoSpent[h] <= used'[h] + Impact(call[u])
          BY <2>4, <2>5, <4>1, <5>1
        <5>. QED BY <2>2, <2>3, <4>1, <4>3, <5>2
      <4>. QED BY <4>2, <4>3
    <3>. QED BY <3>1, <3>2
  <2>. QED BY <2>1, <2>6, <2>7, <2>8 DEF SpendingIsCharged
<1>4. ASSUME NEW t \in Threads, Return(t), at[t] # "charge" \/ Lapse(t),
             raced \subseteq raced', UNCHANGED <<used, autoSpent>>
      PROVE  OneUncharged' /\ SpendingIsCharged' /\ SpendingFits'
  <2>1. /\ at'[t] = "idle"
        /\ \A u \in Threads \ {t} : at'[u] = at[u] /\ call'[u] = call[u] /\ grant'[u] = grant[u]
    BY <1>0, <1>4, ReturnMoves
  <2>2. at[t] = "charge" /\ Uncharged(t) => call[t].agent \in raced'
    BY <1>4 DEF Lapse, NeverCharged
  <2>3. /\ ~Uncharged(t)'
        /\ \A u \in Threads \ {t} : Uncharged(u)' <=> Uncharged(u)
    BY <2>1 DEF Uncharged
  <2>. QED BY <1>4, <2>1, <2>2, <2>3, BudgetFrame
<1>5. ASSUME NEW t \in Threads, ExecuteFails(t) \/ Lapse(t)
      PROVE  OneUncharged' /\ SpendingIsCharged' /\ SpendingFits'
  BY <1>4, <1>5 DEF ExecuteFails, Lapse
<1>6. ASSUME NEW t \in Callers, NEW a \in Approvals, Park(t, a)
      PROVE  OneUncharged' /\ SpendingIsCharged' /\ SpendingFits'
  BY <1>4, <1>6 DEF Park, Threads
<1>7. ASSUME NEW o \in Operators, NEW place \in At, NEW c \in Calls \cup {NoCall},
             NEW a \in Approvals, Goto(o, place, c, a), at[o] \in {"idle", "deciding", "replay"},
             UNCHANGED <<used, autoSpent, raced>>
      PROVE  OneUncharged' /\ SpendingIsCharged' /\ SpendingFits'
  <2>1. /\ grant'[o] = a
        /\ \A u \in Threads \ {o} : at'[u] = at[u] /\ call'[u] = call[u] /\ grant'[u] = grant[u]
    BY <1>0, <1>7, GotoMoves DEF Threads
  <2>2. /\ ~Uncharged(o)'
        /\ \A u \in Threads \ {o} : Uncharged(u)' <=> Uncharged(u)
    BY <1>0, <1>7, <2>1 DEF Uncharged
  <2>. QED BY <1>7, <2>1, <2>2, BudgetFrame
<1>8. ASSUME NEW o \in Operators, NEW a \in Approvals, ReadApproval(o, a)
      PROVE  OneUncharged' /\ SpendingIsCharged' /\ SpendingFits'
  BY <1>7, <1>8 DEF ReadApproval, At
<1>9. ASSUME NEW o \in Operators, Approve(o)
      PROVE  OneUncharged' /\ SpendingIsCharged' /\ SpendingFits'
  <2>1. grant[o] \in Approvals /\ parked[grant[o]] \in Calls \cup {NoCall}
    BY <1>0, <1>9 DEF Approve, ThreadsHaveTheirCall, Threads, ExecutorTypeOK
  <2>. QED BY <1>7, <1>9, <2>1 DEF Approve, At
<1>10. ASSUME NEW o \in Operators, Reject(o) \/ Conflict(o)
       PROVE  OneUncharged' /\ SpendingIsCharged' /\ SpendingFits'
  BY <1>4, <1>10 DEF Reject, Conflict, Threads
<1>11. ASSUME NEW o \in Operators, Replay(o)
       PROVE  OneUncharged' /\ SpendingIsCharged' /\ SpendingFits'
  <2>1. /\ at[o] = "replay" /\ call[o] \in Calls /\ grant[o] \in Approvals /\ o \in Threads
        /\ UNCHANGED <<used, autoSpent, raced>>
        /\ Return(o) \/ Goto(o, "execute", call[o], grant[o])
    BY <1>0, <1>11 DEF Replay, ThreadsHaveTheirCall, Threads
  <2>. QED BY <1>4, <1>7, <2>1 DEF At
<1>12. CASE AppCrash
  <2>1. /\ UNCHANGED <<used, autoSpent>>
        /\ raced' = raced \cup NeverCharged(AppThreads)
        /\ \A u \in AppThreads \cap Threads : at'[u] = "idle"
        /\ \A u \in Threads \ AppThreads :
             at'[u] = at[u] /\ call'[u] = call[u] /\ grant'[u] = grant[u]
    BY <1>12 DEF AppCrash
  <2>2. /\ \A u \in AppThreads \cap Threads : ~Uncharged(u)'
        /\ \A u \in Threads \ AppThreads : Uncharged(u)' <=> Uncharged(u)
    BY <2>1 DEF Uncharged
  <2>3. \A u \in AppThreads : at[u] = "charge" /\ Uncharged(u) => call[u].agent \in raced'
    BY <2>1 DEF NeverCharged
  <2>. QED BY <2>1, <2>2, <2>3, BudgetFrame
<1>13. CASE UNCHANGED executorVars
  BY <1>13, BudgetFrame DEF executorVars, threads, Uncharged
<1>. QED
  BY <1>1, <1>2, <1>3, <1>5, <1>6, <1>8, <1>9, <1>10, <1>11, <1>12, <1>13 DEF ExecutorNext

\* The invariant is inductive.
LEMMA ExecutorNextInv == ExecutorInv /\ [ExecutorNext]_executorVars => ExecutorInv'
BY TypesStep, CallsStep, SpentOnceStep, MovesStep, BudgetStep DEF ExecutorInv

-----------------------------------------------------------------------------
(* What the executor guarantees.                                           *)

\* The inductive invariant holds of every behaviour of the executor.
THEOREM ExecutorInvariance == ExecutorSpec => []ExecutorInv
BY ExecutorInitInv, ExecutorNextInv, PTL DEF ExecutorSpec

\* The variables of threads, approvals, budgets and the ledger keep their types.
THEOREM ExecutorTypes == ExecutorSpec => []ExecutorTypeOK
<1>1. ExecutorInv => ExecutorTypeOK
  BY DEF ExecutorInv
<1>. QED BY <1>1, ExecutorInvariance, PTL

\* Whatever operators, crashes and failures interleave, in however many
\* processes, an approval is executed at most once and only while it stands.
THEOREM ApprovalsAreSpentOnce == ExecutorSpec => []ApprovalSpentOnce
<1>1. ExecutorInv => ApprovalSpentOnce
  BY DEF ExecutorInv
<1>. QED BY <1>1, ExecutorInvariance, PTL

\* No refund above the limit and no purchase order is in the database without
\* an executed approval of the same refund, or of an order of the same product.
THEOREM LargeMovesAreApproved == ExecutorSpec => []LargeMovesWereApproved
<1>1. ExecutorInv => LargeMovesWereApproved
  BY DEF ExecutorInv
<1>. QED BY <1>1, ExecutorInvariance, PTL

\* An agent none of whose calls overlapped or went uncharged has spent, without
\* an approval, no more than its daily budget.
THEOREM AuthorityHolds == ExecutorSpec => []WithinAuthority
<1>1. ExecutorInv => WithinAuthority
  BY DEF ExecutorInv, SpendingFits, WithinAuthority
<1>. QED BY <1>1, ExecutorInvariance, PTL

-----------------------------------------------------------------------------
(* No approved call is lost.                                               *)

\* Approval a has been dealt with, or an operator's request is at it.
Answered(a) ==
  \/ executions[a] = 1
  \/ a \in refused
  \/ \E o \in Operators : Carries(o, a)

\* Approvals are dealt with only while a request carries them, so a step of a
\* thread that carries none loses none.
LEMMA AnsweredFrame ==
  ASSUME NEW t, NEW a \in Approvals, status[a] = "APPROVED" => Answered(a),
         ~Carries(t, a), UNCHANGED <<executions, refused>>, status'[a] \in {status[a], "PENDING", "REJECTED"},
         \A u \in Threads \ {t} : at'[u] = at[u] /\ grant'[u] = grant[u]
  PROVE  status'[a] = "APPROVED" => Answered(a)'
BY DEF Answered, Carries, Threads

\* A request that has an approval carried out ends with its tool, which takes
\* effect or throws, or with a refusal; only an interruption ends it before.
LEMMA AnsweredStep ==
  ASSUME ExecutorInv, ExecutorNext, ~AppCrash, \A t \in Threads : ~Lapse(t),
         NEW a \in Approvals, status[a] = "APPROVED" => Answered(a)
  PROVE  status'[a] = "APPROVED" => Answered(a)'
<1>. USE DEF approvals, ledger, ghosts, counters
<1>0. /\ ExecutorTypeOK /\ ThreadsHaveTheirCall /\ CarriedOutOnce
      /\ NoApproval \notin Approvals
  BY ExecutorAssumption DEF ExecutorInv, ExecutorAssumption
<1>1. ASSUME NEW t \in Callers, NEW c \in Calls, Propose(t, c)
      PROVE  status'[a] = "APPROVED" => Answered(a)'
  <2>1. at[t] = "idle" /\ UNCHANGED <<executions, refused, status>>
    BY <1>1 DEF Propose
  <2>2. \A u \in Threads \ {t} : at'[u] = at[u] /\ grant'[u] = grant[u]
    BY <1>0, <1>1, GotoMoves DEF Propose, Threads, At
  <2>. QED BY <2>1, <2>2, AnsweredFrame DEF Carries
<1>2. ASSUME NEW t \in Callers, NEW b \in Approvals, Park(t, b)
      PROVE  status'[a] = "APPROVED" => Answered(a)'
  <2>1. /\ at[t] = "park" /\ UNCHANGED <<executions, refused>>
        /\ status'[a] \in {status[a], "PENDING"}
    BY <1>0, <1>2 DEF Park, ExecutorTypeOK
  <2>2. \A u \in Threads \ {t} : at'[u] = at[u] /\ grant'[u] = grant[u]
    BY <1>0, <1>2, ReturnMoves DEF Park, Threads
  <2>. QED BY <2>1, <2>2, AnsweredFrame DEF Carries
<1>3. ASSUME NEW t \in Threads, Execute(t)
      PROVE  status'[a] = "APPROVED" => Answered(a)'
  <2>1. /\ at[t] = "execute" /\ UNCHANGED <<grant, status, refused>>
        /\ \A u \in Threads \ {t} : at'[u] = at[u]
    BY <1>0, <1>3 DEF Execute, ExecutorTypeOK
  <2>2. CASE grant[t] = a
    <3>1. executions[a] = 0
      BY <1>0, <2>1, <2>2 DEF CarriedOutOnce, Carries
    <3>2. executions' = [executions EXCEPT ![a] = @ + 1]
      BY <1>0, <1>3, <2>2 DEF Execute, TakesEffect
    <3>3. executions'[a] = 1
      BY <1>0, <3>1, <3>2 DEF ExecutorTypeOK
    <3>. QED BY <3>3 DEF Answered
  <2>3. CASE grant[t] # a
    <3>1. executions'[a] = executions[a]
      BY <1>0, <1>3, <2>3 DEF Execute, TakesEffect, ExecutorTypeOK
    <3>2. \A o \in Operators : Carries(o, a) => Carries(o, a)'
      BY <2>1, <2>3 DEF Carries, Threads
    <3>. QED BY <2>1, <3>1, <3>2 DEF Answered
  <2>. QED BY <2>2, <2>3
<1>4. ASSUME NEW t \in Threads, Return(t), Spent(t), UNCHANGED <<status, executions>>
      PROVE  status'[a] = "APPROVED" => Answered(a)'
  <2>1. \A u \in Threads \ {t} : at'[u] = at[u] /\ grant'[u] = grant[u]
    BY <1>0, <1>4, ReturnMoves
  <2>2. CASE grant[t] = a
    BY <1>0, <1>4, <2>2 DEF Spent, Answered
  <2>3. CASE grant[t] # a
    <3>1. a \in refused => a \in refused'
      BY <1>4 DEF Spent
    <3>2. \A o \in Operators : Carries(o, a) => Carries(o, a)'
      BY <2>1, <2>3 DEF Carries, Threads
    <3>. QED BY <1>4, <3>1, <3>2 DEF Answered
  <2>. QED BY <2>2, <2>3
<1>5. ASSUME NEW t \in Threads, Charge(t)
      PROVE  status'[a] = "APPROVED" => Answered(a)'
  <2>1. at[t] = "charge" /\ UNCHANGED <<executions, refused, status>>
    BY <1>5 DEF Charge
  <2>2. \A u \in Threads \ {t} : at'[u] = at[u] /\ grant'[u] = grant[u]
    BY <1>0, <1>5, ReturnMoves DEF Charge
  <2>. QED BY <2>1, <2>2, AnsweredFrame DEF Carries
<1>6. ASSUME NEW o \in Operators, NEW b \in Approvals, ReadApproval(o, b)
      PROVE  status'[a] = "APPROVED" => Answered(a)'
  <2>1. at[o] = "idle" /\ UNCHANGED <<executions, refused, status>>
    BY <1>6 DEF ReadApproval
  <2>2. \A u \in Threads \ {o} : at'[u] = at[u] /\ grant'[u] = grant[u]
    BY <1>0, <1>6, GotoMoves DEF ReadApproval, Threads, At
  <2>. QED BY <2>1, <2>2, AnsweredFrame DEF Carries
<1>7. ASSUME NEW o \in Operators, Approve(o)
      PROVE  status'[a] = "APPROVED" => Answered(a)'
  <2>1. /\ at[o] = "deciding" /\ grant[o] \in Approvals /\ UNCHANGED <<executions, refused>>
        /\ status' = [status EXCEPT ![grant[o]] = "APPROVED"]
        /\ parked[grant[o]] \in Calls \cup {NoCall}
    BY <1>0, <1>7 DEF Approve, Resolve, ThreadsHaveTheirCall, Threads, ExecutorTypeOK
  <2>2. /\ at'[o] = "replay" /\ grant'[o] = grant[o]
        /\ \A u \in Threads \ {o} : at'[u] = at[u] /\ grant'[u] = grant[u]
    BY <1>0, <1>7, <2>1, GotoMoves DEF Approve, Threads, At
  <2>3. CASE grant[o] = a
    BY <2>2, <2>3 DEF Answered, Carries
  <2>4. CASE grant[o] # a
    <3>1. status'[a] = status[a] /\ ~Carries(o, a)
      BY <1>0, <2>1, <2>4 DEF Carries, ExecutorTypeOK
    <3>. QED BY <2>1, <2>2, <3>1, AnsweredFrame
  <2>. QED BY <2>3, <2>4
<1>8. ASSUME NEW o \in Operators, Reject(o) \/ Conflict(o)
      PROVE  status'[a] = "APPROVED" => Answered(a)'
  <2>1. /\ at[o] = "deciding" /\ UNCHANGED <<executions, refused>> /\ Return(o)
        /\ status'[a] \in {status[a], "REJECTED"}
    BY <1>0, <1>8 DEF Reject, Conflict, Resolve, ExecutorTypeOK
  <2>2. \A u \in Threads \ {o} : at'[u] = at[u] /\ grant'[u] = grant[u]
    BY <1>0, <2>1, ReturnMoves DEF Threads
  <2>. QED BY <2>1, <2>2, AnsweredFrame DEF Carries
<1>9. ASSUME NEW o \in Operators, Replay(o)
      PROVE  status'[a] = "APPROVED" => Answered(a)'
  <2>0. /\ at[o] = "replay" /\ UNCHANGED <<status, executions>> /\ o \in Threads
        /\ grant[o] \in Approvals /\ call[o] \in Calls
    BY <1>0, <1>9 DEF Replay, ThreadsHaveTheirCall, Threads
  <2>1. CASE Refused(call[o])
    BY <1>4, <1>9, <2>0, <2>1 DEF Replay
  <2>2. CASE ~Refused(call[o])
    <3>1. refused' = refused /\ Goto(o, "execute", call[o], grant[o])
      BY <1>9, <2>2 DEF Replay
    <3>2. /\ at'[o] = "execute" /\ grant'[o] = grant[o]
          /\ \A u \in Threads \ {o} : at'[u] = at[u] /\ grant'[u] = grant[u]
      BY <1>0, <2>0, <3>1, GotoMoves DEF At
    <3>3. \A u \in Operators : Carries(u, a) => Carries(u, a)'
      BY <3>2 DEF Carries, Threads
    <3>. QED BY <2>0, <3>1, <3>3 DEF Answered
  <2>. QED BY <2>1, <2>2
<1>. QED
  BY <1>1, <1>2, <1>3, <1>4, <1>5, <1>6, <1>7, <1>8, <1>9 DEF ExecutorNext, ExecuteFails

\* The bounds' counters only grow, and an interruption is counted.
LEMMA InterruptionsCount ==
  ASSUME ExecutorInv, [ExecutorNext]_executorVars, lapses' + crashes' = 0
  PROVE  lapses + crashes = 0 /\ ~AppCrash /\ \A t \in Threads : ~Lapse(t)
<1>1. lapses' \in Nat /\ crashes' \in Nat /\ lapses \in Nat /\ crashes \in Nat
  BY TypesStep DEF ExecutorTypeOK, ExecutorInv
<1>2. \A m, n \in Nat : m + n = 0 => m = 0 /\ n = 0
  OBVIOUS
<1>3. lapses' = 0 /\ crashes' = 0
  BY <1>1, <1>2
<1>4. \A m \in Nat : m + 1 # 0
  OBVIOUS
<1>5. ~AppCrash /\ \A t \in Threads : ~Lapse(t)
  BY <1>1, <1>3, <1>4 DEF AppCrash, Lapse
<1>6. lapses' = lapses /\ crashes' = crashes
  BY <1>5
     DEF ExecutorNext, Propose, Park, Execute, ExecuteFails, Charge, ReadApproval, Approve,
         Reject, Conflict, Replay, executorVars, counters
<1>. QED BY <1>3, <1>5, <1>6

\* Unless a thread is cut short or the application dies, a call that was
\* approved takes effect, is refused, or is being carried out.
THEOREM ApprovedCallsAreAnswered == ExecutorSpec => []ApprovedIsAnswered
<1>. DEFINE AnsweredInv ==
       lapses + crashes = 0 => \A a \in Approvals : status[a] = "APPROVED" => Answered(a)
<1>1. ExecutorInit => AnsweredInv
  BY DEF ExecutorInit
<1>2. ExecutorInv /\ AnsweredInv /\ [ExecutorNext]_executorVars => AnsweredInv'
  <2>. SUFFICES ASSUME ExecutorInv, AnsweredInv, [ExecutorNext]_executorVars,
                       lapses' + crashes' = 0, NEW a \in Approvals
                PROVE  status'[a] = "APPROVED" => Answered(a)'
    OBVIOUS
  <2>1. status[a] = "APPROVED" => Answered(a)
    BY InterruptionsCount
  <2>2. CASE UNCHANGED executorVars
    BY <2>1, <2>2 DEF executorVars, threads, approvals, ghosts, Answered, Carries
  <2>. QED BY <2>1, <2>2, InterruptionsCount, AnsweredStep
<1>3. AnsweredInv => ApprovedIsAnswered
  BY DEF ApprovedIsAnswered, Answered, Carries
<1>. QED BY <1>1, <1>2, <1>3, ExecutorInvariance, PTL DEF ExecutorSpec

-----------------------------------------------------------------------------
(* One process.                                                            *)

\* What a step that finds nothing anew must do to keep what was found.
LEMMA OneProcessFrame ==
  ASSUME OneProcessInv,
         price' = price,
         \A a \in Approvals : status'[a] = "PENDING" =>
           status[a] = "PENDING" /\ parked'[a] = parked[a],
         \A t \in Threads : Synchronous(t)' => Synchronous(t),
         \A t \in Threads : at'[t] = "park" => at[t] = "park" /\ call'[t] = call[t],
         \A t \in Threads : at'[t] = "execute" =>
           (at[t] = "execute" /\ call'[t] = call[t]) \/ ~Refused(call'[t])
  PROVE  OneRuns' /\ StillNoDuplicate' /\ StillAllowed' /\ OnePendingPerEntity'
<1>1. OneRuns'
  BY DEF OneProcessInv, OneRuns
<1>2. StillNoDuplicate'
  BY DEF OneProcessInv, StillNoDuplicate, PendingDuplicates
<1>3. StillAllowed'
  BY DEF OneProcessInv, StillAllowed, Refused
<1>4. OnePendingPerEntity'
  BY DEF OneProcessInv, OnePendingPerEntity
<1>. QED BY <1>1, <1>2, <1>3, <1>4

\* A caller's turn starts when no other is in one, and only the thread whose turn
\* it is adds requests or writes prices.
LEMMA OneProcessStep ==
  ASSUME InProcess = Callers, OneProcessInv, [ExecutorNext]_executorVars
  PROVE  OneRuns' /\ StillNoDuplicate' /\ StillAllowed' /\ OnePendingPerEntity'
<1>. DEFINE Kept == OneRuns' /\ StillNoDuplicate' /\ StillAllowed' /\ OnePendingPerEntity'
<1>. SUFFICES Kept
  OBVIOUS
<1>. USE DEF approvals, ledger, ghosts, counters
<1>0. /\ ExecutorTypeOK /\ ThreadsHaveTheirCall /\ OneRuns /\ StillNoDuplicate
      /\ StillAllowed /\ OnePendingPerEntity /\ ExecutorInv
      /\ AppThreads = Threads
  BY DEF OneProcessInv, ExecutorInv, AppThreads, Threads
<1>1. ASSUME NEW t \in Callers, NEW c \in Calls, Propose(t, c) PROVE Kept
  <2>1. /\ UNCHANGED <<price, status, parked>> /\ ~Refused(c)
        /\ t \in Threads /\ \A u \in Threads \ {t} : ~Synchronous(u)
    BY <1>0, <1>1 DEF Propose, Running, Threads
  <2>2. /\ call'[t] = c
        /\ \/ at'[t] = "park" /\ PendingDuplicates(c) = {}
           \/ at'[t] = "execute"
        /\ \A u \in Threads \ {t} : at'[u] = at[u] /\ call'[u] = call[u] /\ grant'[u] = grant[u]
    BY <1>0, <1>1, GotoMoves DEF Propose, Threads, At
  <2>3. \A u \in Threads \ {t} : at'[u] \notin {"park", "execute", "replay"}
    BY <2>1, <2>2 DEF Synchronous
  <2>4. OneRuns'
    BY <2>3 DEF OneRuns, Synchronous
  <2>5. StillNoDuplicate' /\ StillAllowed' /\ OnePendingPerEntity'
    BY <1>0, <2>1, <2>2, <2>3
       DEF StillNoDuplicate, StillAllowed, OnePendingPerEntity, PendingDuplicates, Refused
  <2>. QED BY <2>4, <2>5
<1>2. ASSUME NEW t \in Callers, NEW a \in Approvals, Park(t, a) PROVE Kept
  <2>1. /\ price' = price /\ at[t] = "park" /\ t \in Threads
        /\ status[a] = "NONE" /\ status'[a] = "PENDING" /\ parked'[a] = call[t]
        /\ \A b \in Approvals \ {a} : status'[b] = status[b] /\ parked'[b] = parked[b]
    BY <1>0, <1>2 DEF Park, ExecutorTypeOK, Threads
  <2>2. /\ at'[t] = "idle"
        /\ \A u \in Threads \ {t} : at'[u] = at[u] /\ call'[u] = call[u] /\ grant'[u] = grant[u]
    BY <1>0, <1>2, <2>1, ReturnMoves DEF Park
  <2>3. \A u \in Threads : at'[u] \notin {"park", "execute", "replay"}
    BY <1>0, <2>1, <2>2 DEF OneRuns, Synchronous
  <2>4. OneRuns' /\ StillNoDuplicate' /\ StillAllowed'
    BY <2>3 DEF OneRuns, StillNoDuplicate, StillAllowed, Synchronous
  <2>5. \A b \in Approvals \ {a} : status[b] = "PENDING" =>
          ~(parked[b].tool = call[t].tool /\ parked[b].entity = call[t].entity)
    BY <1>0, <2>1 DEF StillNoDuplicate, PendingDuplicates
  <2>6. OnePendingPerEntity'
    BY <1>0, <2>1, <2>5 DEF OnePendingPerEntity
  <2>. QED BY <2>4, <2>6
<1>3. ASSUME NEW t \in Threads, Execute(t) PROVE Kept
  <2>1. /\ at[t] = "execute" /\ at'[t] = "charge"
        /\ \A u \in Threads \ {t} : at'[u] = at[u]
        /\ UNCHANGED <<status, parked>>
    BY <1>0, <1>3 DEF Execute, ExecutorTypeOK
  <2>2. \A u \in Threads : at'[u] \notin {"park", "execute", "replay"}
    BY <1>0, <2>1 DEF OneRuns, Synchronous
  <2>. QED
    BY <1>0, <2>1, <2>2
       DEF OneRuns, StillNoDuplicate, StillAllowed, OnePendingPerEntity, Synchronous
<1>4. ASSUME NEW t \in Threads, Return(t), UNCHANGED <<price, parked>>,
             \A a \in Approvals : status'[a] = "PENDING" => status[a] = "PENDING"
      PROVE  Kept
  <2>1. /\ at'[t] = "idle"
        /\ \A u \in Threads \ {t} : at'[u] = at[u] /\ call'[u] = call[u] /\ grant'[u] = grant[u]
    BY <1>0, <1>4, ReturnMoves
  <2>. QED BY <1>4, <2>1, OneProcessFrame DEF Synchronous
<1>5. ASSUME NEW t \in Threads, ExecuteFails(t) \/ Charge(t) \/ Lapse(t) PROVE Kept
  BY <1>4, <1>5 DEF ExecuteFails, Charge, Lapse
<1>6. ASSUME NEW o \in Operators, NEW a \in Approvals, ReadApproval(o, a) PROVE Kept
  <2>1. UNCHANGED <<price, status, parked>>
    BY <1>6 DEF ReadApproval
  <2>2. /\ at'[o] = "deciding"
        /\ \A u \in Threads \ {o} : at'[u] = at[u] /\ call'[u] = call[u] /\ grant'[u] = grant[u]
    BY <1>0, <1>6, GotoMoves DEF ReadApproval, Threads, At
  <2>. QED BY <2>1, <2>2, OneProcessFrame DEF Synchronous
<1>7. ASSUME NEW o \in Operators, Approve(o) PROVE Kept
  <2>1. /\ grant[o] \in Approvals /\ parked[grant[o]] \in Calls \cup {NoCall}
        /\ UNCHANGED <<price, parked>> /\ o \in Threads
        /\ \A u \in Threads \ {o} : ~Synchronous(u)
    BY <1>0, <1>7 DEF Approve, Running, ThreadsHaveTheirCall, Threads, ExecutorTypeOK
  <2>2. /\ at'[o] = "replay"
        /\ \A u \in Threads \ {o} : at'[u] = at[u] /\ call'[u] = call[u] /\ grant'[u] = grant[u]
    BY <1>0, <1>7, <2>1, GotoMoves DEF Approve, At
  <2>3. \A u \in Threads \ {o} : at'[u] \notin {"park", "execute", "replay"}
    BY <2>1, <2>2 DEF Synchronous
  <2>4. \A a \in Approvals : status'[a] = "PENDING" => status[a] = "PENDING"
    BY <1>0, <1>7, <2>1 DEF Approve, Resolve, ExecutorTypeOK
  <2>5. OneRuns' /\ StillNoDuplicate' /\ StillAllowed'
    BY <2>2, <2>3 DEF OneRuns, StillNoDuplicate, StillAllowed, Synchronous
  <2>. QED BY <1>0, <2>1, <2>4, <2>5 DEF OnePendingPerEntity
<1>8. ASSUME NEW o \in Operators, Reject(o) \/ Conflict(o) PROVE Kept
  <2>1. /\ Return(o) /\ UNCHANGED <<price, parked>> /\ o \in Threads
        /\ status' = status \/ status' = [status EXCEPT ![grant[o]] = "REJECTED"]
    BY <1>8 DEF Reject, Conflict, Resolve, Threads
  <2>2. \A a \in Approvals : status'[a] = "PENDING" => status[a] = "PENDING"
    BY <1>0, <2>1 DEF ExecutorTypeOK
  <2>. QED BY <1>4, <2>1, <2>2
<1>9. ASSUME NEW o \in Operators, Replay(o) PROVE Kept
  <2>1. /\ call[o] \in Calls /\ grant[o] \in Approvals /\ o \in Threads /\ at[o] = "replay"
        /\ UNCHANGED <<price, status, parked>>
    BY <1>0, <1>9 DEF Replay, ThreadsHaveTheirCall, Threads
  <2>2. CASE Refused(call[o])
    BY <1>4, <1>9, <2>1, <2>2 DEF Replay
  <2>3. CASE ~Refused(call[o])
    <3>1. /\ at'[o] = "execute" /\ call'[o] = call[o]
          /\ \A u \in Threads \ {o} : at'[u] = at[u] /\ call'[u] = call[u]
      BY <1>0, <1>9, <2>1, <2>3, GotoMoves DEF Replay, At
    <3>. QED BY <2>1, <2>3, <3>1, OneProcessFrame DEF Synchronous
  <2>. QED BY <2>2, <2>3
<1>10. CASE AppCrash
  <2>1. /\ UNCHANGED <<price, status, parked>>
        /\ \A u \in Threads : \/ at'[u] = "idle"
                              \/ at'[u] = at[u] /\ call'[u] = call[u]
    BY <1>10 DEF AppCrash
  <2>. QED BY <2>1, OneProcessFrame DEF Synchronous
<1>11. CASE UNCHANGED executorVars
  BY <1>11, OneProcessFrame DEF executorVars, threads, Synchronous
<1>. QED
  BY <1>1, <1>2, <1>3, <1>5, <1>6, <1>7, <1>8, <1>9, <1>10, <1>11 DEF ExecutorNext

\* With one process, what a turn found out at its start holds to its end.
LEMMA OneProcessInvariance ==
  ASSUME InProcess = Callers PROVE ExecutorSpec => []OneProcessInv
<1>1. ExecutorInit => OneProcessInv
  <2>. SUFFICES ASSUME ExecutorInit PROVE OneProcessInv
    OBVIOUS
  <2>1. ExecutorInv
    BY ExecutorInitInv
  <2>2. OneRuns /\ StillNoDuplicate /\ StillAllowed /\ OnePendingPerEntity
    BY DEF ExecutorInit, OneRuns, StillNoDuplicate, StillAllowed, OnePendingPerEntity,
           Synchronous
  <2>. QED BY <2>1, <2>2 DEF OneProcessInv
<1>2. OneProcessInv /\ [ExecutorNext]_executorVars => OneProcessInv'
  BY OneProcessStep, ExecutorNextInv DEF OneProcessInv
<1>. QED BY <1>1, <1>2, PTL DEF ExecutorSpec

\* When every caller lives in the application's process, no tool has two
\* requests for one entity before the operators.
THEOREM OneRequestPerEntity ==
  ASSUME InProcess = Callers PROVE ExecutorSpec => []OnePendingPerEntity
<1>1. OneProcessInv => OnePendingPerEntity
  BY DEF OneProcessInv
<1>. QED BY <1>1, OneProcessInvariance, PTL

\* Only an allowed price change writes a price, while the price it was allowed for
\* is still there.
LEMMA PriceStep ==
  ASSUME OneProcessInv, [ExecutorNext]_executorVars, NEW p \in Products, price'[p] # price[p]
  PROVE  /\ 10 * (price'[p] - price[p]) <= price[p]
         /\ 10 * (price[p] - price'[p]) <= price[p]
         /\ 3 * price'[p] >= 4 * Cost[p]
<1>. USE DEF approvals, ledger, ghosts, counters
<1>1. PICK t \in Threads : Execute(t)
  BY DEF ExecutorNext, Propose, Park, ExecuteFails, Charge, Lapse, ReadApproval, Approve,
         Reject, Conflict, Replay, AppCrash, executorVars
<1>2. /\ call[t] \in Calls /\ ~Refused(call[t])
      /\ price \in [Products -> Nat] /\ Cost \in [Products -> Nat]
  BY <1>1, ExecutorAssumption
     DEF OneProcessInv, ExecutorInv, ThreadsHaveTheirCall, StillAllowed, Execute,
         ExecutorTypeOK, ExecutorAssumption
<1>3. UpdatePrice(call[t])
  BY <1>1 DEF Execute, CreateRefund, CreatePurchaseOrder
<1>4. call[t].amount \in Nat /\ call[t].entity \in Products
  BY <1>2, <1>3, CallTypes DEF UpdatePrice
<1>5. p = call[t].entity /\ price'[p] = call[t].amount
  BY <1>2, <1>3, <1>4 DEF UpdatePrice
<1>6. ~BelowFloor(call[t]) /\ ~BeyondStep(call[t], price)
  BY <1>2, <1>3 DEF Refused, Denied, UpdatePrice
<1>. QED BY <1>2, <1>4, <1>5, <1>6 DEF BelowFloor, BeyondStep

\* When every caller lives in the application's process, the price that a change
\* was checked against is the price it replaces.
THEOREM PricesMoveWithinBounds ==
  ASSUME InProcess = Callers PROVE ExecutorSpec => PriceStepsAreBounded
<1>1. OneProcessInv /\ [ExecutorNext]_executorVars =>
        [\A p \in Products : price'[p] # price[p] =>
           /\ 10 * (price'[p] - price[p]) <= price[p]
           /\ 10 * (price[p] - price'[p]) <= price[p]
           /\ 3 * price'[p] >= 4 * Cost[p]]_executorVars
  BY PriceStep
<1>. QED BY <1>1, OneProcessInvariance, PTL DEF ExecutorSpec, PriceStepsAreBounded

-----------------------------------------------------------------------------
(* What the policy engine promises of its own, for any limits and budgets. *)

\* The same call for another amount.
For(c, amount) == [c EXCEPT !.amount = amount]

\* It is the same call in everything but the amount.
LEMMA SameCall ==
  ASSUME NEW entities, NEW c \in CallRecord(entities, Nat), NEW amount \in Nat
  PROVE  /\ For(c, amount).agent = c.agent /\ For(c, amount).tool = c.tool
         /\ For(c, amount).entity = c.entity /\ For(c, amount).amount = amount
         /\ For(c, amount).suspect = c.suspect /\ For(c, amount).quoted = c.quoted
BY DEF For, CallRecord

\* A larger amount moves no less money.
LEMMA ImpactGrows ==
  ASSUME NEW entities, NEW c \in CallRecord(entities, Nat), NEW amount \in Nat,
         amount >= c.amount
  PROVE  /\ Impact(c) \in Nat /\ Impact(For(c, amount)) \in Nat
         /\ Impact(For(c, amount)) >= Impact(c)
BY SameCall DEF Impact, CallRecord

\* Asking for more, or asking when more has been used, is never answered more
\* mildly: a refused call is still refused and one that needs a human still does.
\* A new price is no amount of money and is left out.
THEOREM MoreIsNeverMilder ==
  ASSUME NEW entities, NEW c \in CallRecord(entities, Nat), c.tool # "update_price",
         NEW amount \in Nat, amount >= c.amount,
         NEW prices,
         NEW before \in [Agents -> Int], NEW after \in [Agents -> Int],
         \A g \in Agents : before[g] <= after[g],
         DailyBudget \in [Agents -> Nat],
         RefundLimit \in Nat, PurchaseLimit \in Nat, HardCeiling \in Nat,
         CampaignStep \in Nat, ReorderStep \in Nat
  PROVE  Severity[Decision(c, before, prices)] <= Severity[Decision(For(c, amount), after, prices)]
<1>. DEFINE d == For(c, amount)
<1>1. /\ d.agent = c.agent /\ d.tool = c.tool /\ d.entity = c.entity
      /\ d.suspect = c.suspect /\ d.quoted = c.quoted
      /\ d.amount \in Nat /\ c.amount \in Nat /\ d.amount >= c.amount
      /\ Impact(c) \in Nat /\ Impact(d) \in Nat /\ Impact(d) >= Impact(c)
      /\ c.agent \in Agents
  BY SameCall, ImpactGrows DEF CallRecord
<1>. HIDE DEF d
<1>2. Denied(c, prices) => Denied(d, prices)
  BY <1>1 DEF Denied, Permitted
<1>3. OverBudget(c, before) => OverBudget(d, after)
  <2>1. /\ before[c.agent] \in Int /\ after[c.agent] \in Int /\ before[c.agent] <= after[c.agent]
        /\ DailyBudget[c.agent] \in Nat
    BY <1>1
  <2>. QED BY <1>1, <2>1 DEF OverBudget
<1>4. NeedsHuman(c, before) => NeedsHuman(d, after)
  BY <1>1, <1>3 DEF NeedsHuman
<1>5. Severity[Decision(c, before, prices)] <= Severity[Decision(d, after, prices)]
  <2>1. /\ Severity["ALLOW"] = 0 /\ Severity["REQUIRE_APPROVAL"] = 1 /\ Severity["DENY"] = 2
    BY DEF Severity
  <2>2. CASE Denied(c, prices)
    BY <1>2, <2>1, <2>2 DEF Decision
  <2>3. CASE ~Denied(c, prices) /\ NeedsHuman(c, before)
    BY <1>4, <2>1, <2>3 DEF Decision
  <2>4. CASE ~Denied(c, prices) /\ ~NeedsHuman(c, before)
    BY <2>1, <2>4 DEF Decision
  <2>. QED BY <2>2, <2>3, <2>4
<1>. QED BY <1>5 DEF d
=============================================================================
