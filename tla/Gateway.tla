------------------------------ MODULE Gateway -------------------------------
(***************************************************************************)
(* The AI gateway of ai/gateway.ts: structured requests that share the     *)
(* slots of one hosted model, or fall back to the deterministic engine.    *)
(*                                                                         *)
(* A step is one turn of the event loop, started by an answer of the model *)
(* or by a caller.  A slot that is given back goes to the first waiter in  *)
(* the same turn: the waiter's continuation is the next microtask.  What a *)
(* request asks is left out; of an answer only its class is kept.          *)
(***************************************************************************)
EXTENDS Naturals, Sequences, FiniteSets

CONSTANTS
  Requests,      \* callers of structured(), each with one request at a time
  MaxConcurrent, \* MAX_CONCURRENT
  MaxSends,      \* how often chat sends while it is told 429
  MaxRounds,     \* how often structured asks for an answer of the right shape
  MaxTroubles    \* bound: answers that are late, refused or of the wrong shape

ASSUME GatewayAssumption ==
  /\ MaxConcurrent \in Nat \ {0}
  /\ MaxSends \in Nat \ {0}
  /\ MaxRounds \in Nat \ {0}
  /\ MaxTroubles \in Nat
  /\ IsFiniteSet(Requests)

VARIABLES
  hosted,    \* a hosted model is configured
  cooling,   \* Date.now() < disabledUntil
  stage,     \* where the request of each caller stands
  round,     \* attempt of structured
  sends,     \* attempt of chat
  engine,    \* the label of an answered request
  inFlight,  \* slots taken, as the code counts them
  waiting,   \* callers queued for a slot
  troubles   \* counter of the bound

gatewayVars == <<hosted, cooling, stage, round, sends, engine, inFlight, waiting, troubles>>

Stage == {"idle", "queued", "sending", "pausing", "answered"}
Engine == {"none", "deterministic", "hosted"}

GatewayTypeOK ==
  /\ hosted \in BOOLEAN
  /\ cooling \in BOOLEAN
  /\ stage \in [Requests -> Stage]
  /\ round \in [Requests -> 1 .. MaxRounds]
  /\ sends \in [Requests -> 1 .. MaxSends]
  /\ engine \in [Requests -> Engine]
  /\ inFlight \in Nat
  /\ waiting \in Seq(Requests)
  /\ troubles \in 0 .. MaxTroubles

GatewayInit ==
  /\ hosted \in BOOLEAN
  /\ cooling = FALSE
  /\ stage = [r \in Requests |-> "idle"]
  /\ round = [r \in Requests |-> 1]
  /\ sends = [r \in Requests |-> 1]
  /\ engine = [r \in Requests |-> "none"]
  /\ inFlight = 0
  /\ waiting = <<>>
  /\ troubles = 0

-----------------------------------------------------------------------------
(* withSlot.  A request holds its slot while it sends and while it pauses  *)
(* before sending again.                                                   *)

Holders == {r \in Requests : stage[r] \in {"sending", "pausing"}}

\* Mutant: the comparison lets one request more than the limit in.
AdmitOneMore(r) ==
  \/ /\ inFlight > MaxConcurrent
     /\ waiting' = Append(waiting, r)
     /\ stage' = [stage EXCEPT ![r] = "queued"]
     /\ UNCHANGED inFlight
  \/ /\ inFlight <= MaxConcurrent
     /\ inFlight' = inFlight + 1
     /\ stage' = [stage EXCEPT ![r] = "sending"]
     /\ UNCHANGED waiting

Admit(r) ==
  \/ /\ inFlight >= MaxConcurrent
     /\ waiting' = Append(waiting, r)
     /\ stage' = [stage EXCEPT ![r] = "queued"]
     /\ UNCHANGED inFlight
  \/ /\ inFlight < MaxConcurrent
     /\ inFlight' = inFlight + 1
     /\ stage' = [stage EXCEPT ![r] = "sending"]
     /\ UNCHANGED waiting

\* Mutant: the slot is counted as free, and the waiter is not woken.
LeaveUnnoticed(r, next) ==
  /\ inFlight' = inFlight - 1
  /\ stage' = [stage EXCEPT ![r] = next]
  /\ UNCHANGED waiting

\* The finally block, and the waiter it wakes.
Leave(r, next) ==
  \/ /\ waiting = <<>>
     /\ inFlight' = inFlight - 1
     /\ stage' = [stage EXCEPT ![r] = next]
     /\ UNCHANGED waiting
  \/ /\ waiting # <<>>
     /\ waiting' = Tail(waiting)
     /\ stage' = [stage EXCEPT ![r] = next, ![Head(waiting)] = "sending"]
     /\ UNCHANGED inFlight

\* The slot is given back and asked for again: the waiters go first.
GoAgain(r) ==
  \/ /\ waiting = <<>>
     /\ stage' = [stage EXCEPT ![r] = "sending"]
     /\ UNCHANGED <<inFlight, waiting>>
  \/ /\ waiting # <<>>
     /\ waiting' = Append(Tail(waiting), r)
     /\ stage' = [stage EXCEPT ![r] = "queued", ![Head(waiting)] = "sending"]
     /\ UNCHANGED inFlight

-----------------------------------------------------------------------------
(* structured and chat.                                                    *)

Answer(r, label) ==
  /\ engine' = [engine EXCEPT ![r] = label]
  /\ round' = [round EXCEPT ![r] = 1]
  /\ sends' = [sends EXCEPT ![r] = 1]

\* No model is configured, or it is cooling down: the fallback, at once.
AskFallback(r) ==
  /\ stage[r] = "idle"
  /\ ~hosted \/ cooling
  /\ stage' = [stage EXCEPT ![r] = "answered"]
  /\ Answer(r, "deterministic")
  /\ UNCHANGED <<hosted, cooling, inFlight, waiting, troubles>>

AskModel(r) ==
  /\ stage[r] = "idle"
  /\ hosted /\ ~cooling
  /\ Admit(r)
  /\ UNCHANGED <<hosted, cooling, round, sends, engine, troubles>>

Ask(r) == AskFallback(r) \/ AskModel(r)

\* An answer of the right shape.
ReplyFits(r) ==
  /\ stage[r] = "sending"
  /\ Leave(r, "answered")
  /\ Answer(r, "hosted")
  /\ UNCHANGED <<hosted, cooling, troubles>>

Trouble ==
  /\ troubles < MaxTroubles
  /\ troubles' = troubles + 1

\* An answer of the wrong shape is handed back once; then the fallback answers,
\* and the model stays in use.
ReplyMismatch(r) ==
  /\ stage[r] = "sending"
  /\ Trouble
  /\ \/ /\ round[r] < MaxRounds
        /\ GoAgain(r)
        /\ round' = [round EXCEPT ![r] = @ + 1]
        /\ sends' = [sends EXCEPT ![r] = 1]
        /\ UNCHANGED engine
     \/ /\ round[r] = MaxRounds
        /\ Leave(r, "answered")
        /\ Answer(r, "deterministic")
  /\ UNCHANGED <<hosted, cooling>>

\* 429: pause and send again, with the slot in hand.
ReplyBusy(r) ==
  /\ stage[r] = "sending"
  /\ sends[r] < MaxSends
  /\ Trouble
  /\ stage' = [stage EXCEPT ![r] = "pausing"]
  /\ sends' = [sends EXCEPT ![r] = @ + 1]
  /\ UNCHANGED <<hosted, cooling, round, engine, inFlight, waiting>>

SendAgain(r) ==
  /\ stage[r] = "pausing"
  /\ stage' = [stage EXCEPT ![r] = "sending"]
  /\ UNCHANGED <<hosted, cooling, round, sends, engine, inFlight, waiting, troubles>>

\* The last 429, another status, a timeout or a broken connection.
ReplyFails(r) ==
  /\ stage[r] = "sending"
  /\ Trouble
  /\ Leave(r, "answered")
  /\ Answer(r, "deterministic")
  /\ cooling' = TRUE
  /\ UNCHANGED hosted

\* disabledUntil passes.
CoolDown ==
  /\ cooling
  /\ cooling' = FALSE
  /\ UNCHANGED <<hosted, stage, round, sends, engine, inFlight, waiting, troubles>>

\* The caller's await returns.
Take(r) ==
  /\ stage[r] = "answered"
  /\ stage' = [stage EXCEPT ![r] = "idle"]
  /\ engine' = [engine EXCEPT ![r] = "none"]
  /\ UNCHANGED <<hosted, cooling, round, sends, inFlight, waiting, troubles>>

Reply(r) ==
  ReplyFits(r) \/ ReplyMismatch(r) \/ ReplyBusy(r) \/ ReplyFails(r)

\* The process dies: its slots, its queue and its cooldown are memory.
Forget ==
  /\ cooling' = FALSE
  /\ stage' = [r \in Requests |-> "idle"]
  /\ round' = [r \in Requests |-> 1]
  /\ sends' = [r \in Requests |-> 1]
  /\ engine' = [r \in Requests |-> "none"]
  /\ inFlight' = 0
  /\ waiting' = <<>>
  /\ UNCHANGED <<hosted, troubles>>

\* A step of the gateway on its own.
Serve ==
  CoolDown \/ \E r \in Requests : Reply(r) \/ SendAgain(r)

\* Every step a caller or the gateway may take.
GatewayNext ==
  Serve \/ Forget \/ \E r \in Requests : Ask(r) \/ Take(r)

GatewaySpec == GatewayInit /\ [][GatewayNext]_gatewayVars

-----------------------------------------------------------------------------
(* Properties.                                                             *)

\* No more requests are in flight than MAX_CONCURRENT, and the counter that says
\* so never drifts from the requests that hold a slot (gateway.ts:207-230).
SlotsAreCounted ==
  /\ Cardinality(Holders) <= MaxConcurrent
  /\ inFlight = Cardinality(Holders)

\* No wake-up is lost: a caller is queued once, exactly while it waits, and only
\* while every slot is taken by a request that will give it back.
NobodyWaitsForNothing ==
  /\ \A r \in Requests : stage[r] = "queued" <=> \E i \in DOMAIN waiting : waiting[i] = r
  /\ \A i, j \in DOMAIN waiting : waiting[i] = waiting[j] => i = j
  /\ waiting # <<>> => inFlight = MaxConcurrent

\* The label on an answer: without a model nothing is said to come from one, and
\* a request that was not answered has none.
LabelIsHonest ==
  \A r \in Requests : /\ engine[r] = "hosted" => hosted
                      /\ engine[r] # "none" <=> stage[r] = "answered"

GatewayInv ==
  GatewayTypeOK /\ SlotsAreCounted /\ NobodyWaitsForNothing /\ LabelIsHonest
=============================================================================
