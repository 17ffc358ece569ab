------------------------------- MODULE Console -------------------------------
(***************************************************************************)
(* The pages of the console and the routes they call.  A component sends a *)
(* request, shows that it is busy and waits; the server handles the        *)
(* request, its answer travels back, and either way may be cut off, in     *)
(* which case the component is told so whether or not the request arrives. *)
(*                                                                         *)
(* One page is open at a time, except that the approvals are open in two   *)
(* tabs.  A page is a document of its own: a behaviour is about one of     *)
(* them.  The live components (module EventStream) make up a page as well. *)
(***************************************************************************)
EXTENDS EventStream, FiniteSets

CONSTANTS
  Tabs,          \* components that show the approval queue
  Approvals,     \* requests that were pending when the pages were loaded
  Products,      \* products of the pricing simulator
  ListPrice,     \* the price of each, from which its slider starts
  FirstDraft,    \* the product, price and elasticity it opens with
  Prices,        \* the prices its slider can be moved to
  Elasticities,  \* values of the other slider
  NoCall,        \* nothing a component could be busy with
  Pages,         \* bound: the pages behaviours are about
  MaxCalls,      \* bound: how many requests are sent
  MaxCutOffs,    \* bound: how many of them or of their answers are cut off
  MaxThrows      \* bound: how often a handler throws

\* Components that ask for a run and show its report, by the page they are on.
RunnersOf(p) ==
  CASE p = "overview" -> {"ask"}
    [] p = "simulation" -> {"scenario", "demo"}
    [] p = "goals" -> {"goal"}
    [] p = "agent" -> {"agent"}
    [] p = "customers" -> {"shop"}
    [] OTHER -> {}

Runners == {"ask", "scenario", "demo", "goal", "agent", "shop"}
Components == Tabs \cup Runners \cup {"pricing", "memory"}

ASSUME ConsoleAssumption ==
  /\ Tabs \cap (Runners \cup {"pricing", "memory", "nobody"}) = {}
  /\ NoCall \notin Approvals \cup {"question", "hm", "stockout", "demand_spike", "reset", "goal",
                                    "short", "this", "query", "q", "all"}
  /\ \A p \in Products : ListPrice[p] \in Prices[p]
  /\ MaxCalls \in Nat /\ MaxCutOffs \in Nat /\ MaxThrows \in Nat

VARIABLES
  page,
  sent,     \* how many requests have been sent; they are numbered
  calls,    \* requests that no handler has taken up yet
  waiting,  \* requests whose answer a component awaits
  answers,  \* answers on their way, with the request
  busy,     \* what a component says it is busy with, or NoCall
  shown,    \* the request whose answer a component shows, or 0
  newest,   \* the latest request of it whose answer was ever shown
  last,     \* the last request of it, and what that was about
  draft,    \* the product, price and elasticity set in the simulator
  timer,    \* whether the simulator is about to ask
  queue,    \* the approvals each tab lists
  list,     \* the memory records that are listed
  status,   \* the approvals in the database, with who resolved them
  records,  \* the memory in the database: "old" and "new" records
  unheard,  \* what a component was not told had been done, or not told well
  clicked,  \* the approvals each tab has decided about
  cutOffs, throws

pageVars == <<busy, shown, newest, last, draft, timer, queue, list>>
dataVars == <<status, records>>
consoleVars == <<page, sent, calls, waiting, answers, pageVars, dataVars, unheard, clicked,
                 cutOffs, throws>>

ConsoleInit ==
  /\ EventStreamInit
  /\ page \in Pages
  /\ sent = 0 /\ calls = {} /\ waiting = {} /\ answers = {}
  /\ busy = [w \in Components |-> NoCall]
  /\ shown = [w \in Components |-> 0]
  /\ newest = shown
  /\ last = [w \in Components |-> [n |-> 0, about |-> NoCall]]
  /\ draft = FirstDraft
  /\ timer = (page = "pricing")
  /\ queue = [t \in Tabs |-> Approvals]
  /\ list = {"old"}
  /\ status = [a \in Approvals |-> [is |-> "PENDING", by |-> "nobody"]]
  /\ records = {"old"}
  /\ unheard = {}
  /\ clicked = [t \in Tabs |-> {}]
  /\ cutOffs = 0 /\ throws = 0

-----------------------------------------------------------------------------
(* A component sends a request.                                            *)

Send(w, about) ==
  LET c == [n |-> sent + 1, by |-> w, about |-> about]
  IN /\ sent < MaxCalls
     /\ sent' = sent + 1
     /\ calls' = calls \cup {c} /\ waiting' = waiting \cup {c}
     /\ last' = [last EXCEPT ![w] = [n |-> sent + 1, about |-> about]]
     /\ UNCHANGED <<page, answers, newest, dataVars, unheard, cutOffs, throws>>

\* The button is disabled while the component is busy; the report goes.
Run(w, about) ==
  /\ w \in RunnersOf(page)
  /\ busy[w] = NoCall
  /\ busy' = [busy EXCEPT ![w] = about]
  /\ shown' = [shown EXCEPT ![w] = 0]
  /\ Send(w, about)
  /\ UNCHANGED <<draft, timer, queue, list, clicked>>

\* The bar asks for no blank question, and the route for one of three letters.
Ask == \E q \in {"question", "hm"} : Run("ask", q)
Fire == \E s \in {"stockout", "demand_spike"} : Run("scenario", s)
StartDemo == Run("demo", "reset")
Submit == \E g \in {"goal", "short"} : Run("goal", g)
RunAgent == Run("agent", "this")

\* The recommendation shown stays until another one comes.
Search ==
  /\ page = "customers"
  /\ busy["shop"] = NoCall
  /\ \E q \in {"query", "q"} :
       busy' = [busy EXCEPT !["shop"] = q] /\ Send("shop", q)
  /\ UNCHANGED <<shown, draft, timer, queue, list, clicked>>

\* The tab remembers one approval it is busy with, and only its buttons are
\* disabled.
Resolve(t, a, decision) ==
  /\ page = "approvals"
  /\ a \in queue[t] /\ busy[t] # a
  /\ busy' = [busy EXCEPT ![t] = a]
  /\ clicked' = [clicked EXCEPT ![t] = @ \cup {a}]
  /\ Send(t, [approval |-> a, decision |-> decision])
  /\ UNCHANGED <<shown, draft, timer, queue, list>>

Clear ==
  /\ page = "memory"
  /\ busy["memory"] = NoCall /\ list # {}
  /\ busy' = [busy EXCEPT !["memory"] = "all"]
  /\ Send("memory", "all")
  /\ UNCHANGED <<shown, draft, timer, queue, list, clicked>>

(* The pricing simulator.  A change of the draft starts the timer again; it *)
(* does not call back a request that has been sent.                         *)

Redraft(d) ==
  /\ page = "pricing"
  /\ d # draft
  /\ draft' = d
  /\ UNCHANGED <<page, sent, calls, waiting, answers, busy, shown, newest, last, queue, list,
                 dataVars, unheard, clicked, cutOffs, throws>>

SelectProduct ==
  /\ \E p \in Products :
       Redraft([draft EXCEPT !.product = p, !.price = ListPrice[p]])
  /\ timer' = TRUE

SetPrice == (\E x \in Prices[draft.product] : Redraft([draft EXCEPT !.price = x])) /\ timer' = TRUE

\* Mutant: the effect does not depend on the elasticity.
SetElasticityUnwatched ==
  (\E e \in Elasticities : Redraft([draft EXCEPT !.elasticity = e])) /\ UNCHANGED timer

SetElasticity ==
  (\E e \in Elasticities : Redraft([draft EXCEPT !.elasticity = e])) /\ timer' = TRUE

\* A draft always has a product and a price above zero.
Project ==
  /\ timer /\ timer' = FALSE
  /\ Send("pricing", draft)
  /\ UNCHANGED <<busy, shown, draft, queue, list, clicked>>

-----------------------------------------------------------------------------
(* The server takes up a request and answers "ok", "refused" (4xx) or      *)
(* "error" (500).                                                          *)

Answer(c, how) ==
  /\ calls' = calls \ {c}
  /\ answers' = answers \cup {[call |-> c, how |-> how]}
  /\ throws' = IF how = "error" THEN throws + 1 ELSE throws
  /\ throws' <= MaxThrows
  /\ UNCHANGED <<page, sent, waiting, pageVars, unheard, clicked, cutOffs>>

\* The outcomes of a run whose input is valid.
RouteAnswers(c, w, invalid) ==
  /\ c.by = w
  /\ \/ c.about = invalid /\ Answer(c, "refused")
     \/ c.about # invalid /\ \E how \in {"ok", "error"} : Answer(c, how)
  /\ UNCHANGED dataVars

AskRoute(c) == RouteAnswers(c, "ask", "hm")
SimulateRoute(c) == RouteAnswers(c, "scenario", "unknown")
StartRoute(c) == RouteAnswers(c, "demo", "")
GoalsRoute(c) == RouteAnswers(c, "goal", "short")
AgentRoute(c) == RouteAnswers(c, "agent", "nobody")
RecommendRoute(c) == RouteAnswers(c, "shop", "q")

\* The projection is computed from the request and the tables, and stored nowhere.
PricingRoute(c) ==
  /\ c.by = "pricing"
  /\ \E how \in {"ok", "error"} : Answer(c, how)
  /\ UNCHANGED dataVars

\* The first decision counts.  The action may throw after it has been recorded.
DecideRoute(c, decision, outcome) ==
  /\ c.by \in Tabs /\ c.about.decision = decision
  /\ IF status[c.about.approval].is = "PENDING"
     THEN /\ status' = [status EXCEPT ![c.about.approval] = [is |-> outcome, by |-> c.by]]
          /\ \E how \in {"ok", "error"} : Answer(c, how)
     ELSE Answer(c, "refused") /\ UNCHANGED status
  /\ UNCHANGED records

ApproveRoute(c) == DecideRoute(c, "approve", "APPROVED")
RejectRoute(c) == DecideRoute(c, "reject", "REJECTED")

ClearRoute(c) ==
  /\ c.by = "memory"
  /\ records' = {}
  /\ Answer(c, "ok")
  /\ UNCHANGED status

\* Any handler may throw before it has done anything.
Handle(c) == Answer(c, "error") /\ UNCHANGED dataVars

\* Somebody else's run remembers something.
Remember ==
  /\ page = "memory"
  /\ records' = records \cup {"new"}
  /\ UNCHANGED <<page, sent, calls, waiting, answers, pageVars, status, unheard, clicked,
                 cutOffs, throws>>

-----------------------------------------------------------------------------
(* The component hears of its request: an answer, or that it was cut off.  *)

Heard(c, how) ==
  /\ waiting' = waiting \ {c}
  /\ answers' = {x \in answers : x.call # c}
  /\ unheard' = IF how \in {"error", "cut"} THEN unheard \cup {<<c.by, c.about>>} ELSE unheard
  /\ UNCHANGED <<page, sent, calls, last, draft, timer, dataVars, clicked, throws>>

Free(w) == busy' = [busy EXCEPT ![w] = NoCall]

Show(c) ==
  /\ shown' = [shown EXCEPT ![c.by] = c.n]
  /\ newest' = [newest EXCEPT ![c.by] = IF c.n > @ THEN c.n ELSE @]

\* Mutant: the component is free again only when the answer was a good one.
ReportIfGood(c, how) ==
  /\ IF how = "ok" THEN Free(c.by) ELSE UNCHANGED busy
  /\ Show(c)

\* An error is shown like a report, and the component is free in any case.
Report(c, how) == Free(c.by) /\ Show(c)

\* What is not ok is not shown.
Recommend(c, how) ==
  /\ Free(c.by)
  /\ IF how = "ok" THEN Show(c) ELSE UNCHANGED <<shown, newest>>

Projected(c, how) ==
  /\ IF how = "ok" THEN Show(c) ELSE UNCHANGED <<shown, newest>>
  /\ UNCHANGED busy

\* Mutant: the approval goes from the list whatever the answer says.
ResolvedAnyway(c, how) ==
  /\ Free(c.by)
  /\ queue' = [queue EXCEPT ![c.by] = @ \ {c.about.approval}]

\* The tab is free again, also when it is another approval it is busy with.
Resolved(c, how) ==
  /\ Free(c.by)
  /\ queue' = IF how = "ok" THEN [queue EXCEPT ![c.by] = @ \ {c.about.approval}] ELSE queue

\* No answer is looked at, and a request that is cut off leaves the panel busy.
Cleared(c, how) ==
  IF how = "cut"
  THEN UNCHANGED <<busy, list>>
  ELSE Free("memory") /\ list' = {}

Settle(c, how) ==
  /\ Heard(c, how)
  /\ \/ /\ c.by \in Runners \ {"shop"} /\ Report(c, how)
        /\ UNCHANGED <<queue, list>>
     \/ /\ c.by = "shop" /\ Recommend(c, how)
        /\ UNCHANGED <<queue, list>>
     \/ /\ c.by = "pricing" /\ Projected(c, how)
        /\ UNCHANGED <<queue, list>>
     \/ /\ c.by \in Tabs /\ Resolved(c, how)
        /\ UNCHANGED <<shown, newest, list>>
     \/ /\ c.by = "memory" /\ Cleared(c, how)
        /\ UNCHANGED <<shown, newest, queue>>

Answered == \E x \in answers :
  x.call \in waiting /\ Settle(x.call, x.how) /\ UNCHANGED cutOffs

CutOff(c) ==
  /\ cutOffs < MaxCutOffs
  /\ cutOffs' = cutOffs + 1
  /\ Settle(c, "cut")

-----------------------------------------------------------------------------
ConsoleStep ==
  \/ Ask \/ Fire \/ StartDemo \/ Submit \/ RunAgent \/ Search
  \/ \E t \in Tabs, a \in Approvals, d \in {"approve", "reject"} : Resolve(t, a, d)
  \/ Clear
  \/ SelectProduct \/ SetPrice \/ SetElasticity \/ Project
  \/ \E c \in calls :
       \/ AskRoute(c) \/ SimulateRoute(c) \/ StartRoute(c) \/ GoalsRoute(c)
       \/ AgentRoute(c) \/ RecommendRoute(c) \/ PricingRoute(c)
       \/ ApproveRoute(c) \/ RejectRoute(c) \/ ClearRoute(c) \/ Handle(c)
  \/ Remember
  \/ Answered
  \/ \E c \in waiting : CutOff(c)

ConsoleNext ==
  \/ page = "live" /\ EventStreamNext /\ UNCHANGED consoleVars
  \/ ConsoleStep /\ UNCHANGED streamVars

ConsoleSpec == ConsoleInit /\ [][ConsoleNext]_<<streamVars, consoleVars>>

-----------------------------------------------------------------------------
(* Properties.                                                             *)

Awaited(w) == {c \in waiting : c.by = w}

\* What a component shows when it has come to rest answers the last thing it was
\* asked, and the simulator was asked about the draft it shows.  The two that
\* ignore an answer that is no good show an older one then, and say nothing; the
\* simulator also does when answers overtake each other: it stops the timer of an
\* older draft and not its request.
AnswersAreExplained ==
  \A w \in Runners \cup {"pricing"} :
    Awaited(w) = {} /\ (w = "pricing" => ~timer)
    => /\ \/ shown[w] = last[w].n
          \/ w \in {"shop", "pricing"} /\ newest[w] < last[w].n
          \/ w = "pricing" /\ shown[w] < newest[w]
       /\ w = "pricing" /\ page = "pricing" => last[w].about = draft

\* What a page lists agrees with the tables but for what it was not told, or told
\* badly, and for what others did: an approval that is gone from a tab has been
\* decided; one that is listed and decided was decided by the other tab, or its
\* answer is awaited or did not come as it should.  An emptied memory that is
\* not empty has been written to, or the error was not looked at.
ListsAreExplained ==
  /\ \A t \in Tabs, a \in Approvals :
       /\ a \notin queue[t] => status[a].is # "PENDING"
       /\ a \in queue[t] /\ status[a].by = t
          => \/ \E c \in Awaited(t) : c.about.approval = a
             \/ \E x \in unheard : x[1] = t /\ x[2].approval = a
  /\ list = {} /\ "old" \in records => <<"memory", "all">> \in unheard
  /\ list # {} /\ "old" \notin records
     => Awaited("memory") # {} \/ <<"memory", "all">> \in unheard

\* A component that says it is busy awaits an answer, but for the memory panel,
\* which stays busy for good when its request was cut off.  The answers of two requests
\* about one thing are awaited only by a tab that has decided about another
\* approval as well, for it remembers one it is busy with.
BusyIsExplained ==
  /\ \A w \in Components :
       busy[w] # NoCall => Awaited(w) # {} \/ (w = "memory" /\ cutOffs > 0)
  /\ \A c, d \in waiting :
       /\ c # d /\ c.by = d.by /\ c.by # "pricing"
       /\ c.by \in Tabs => c.about.approval = d.about.approval
       => c.by \in Tabs /\ Cardinality(clicked[c.by]) > 1
=============================================================================
