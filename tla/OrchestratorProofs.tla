-------------------------- MODULE OrchestratorProofs --------------------------
(***************************************************************************)
(* A run of a plan, for any plans, any agents, any number of attempts and  *)
(* any faults: the gateway's promises hold inside it, tasks run in order,  *)
(* a closed plan is settled, and the run keeps the promise of TaskGraph.   *)
(*                                                                         *)
(* The argument: where executeTask stands for a task bounds its attempts   *)
(* and fixes its row once it has an end; a task leaves "waiting" only when *)
(* all it depends on is in completed, and nothing ever leaves completed.   *)
(* What findCycle returns is shown by how much of the search is ahead.     *)
(* What executeRecommendations does is followed place by place: its agenda *)
(* and its report list the places of the recommendations, each once.       *)
(***************************************************************************)
EXTENDS Orchestrator, ListingProofs

-----------------------------------------------------------------------------
(* The gateway.  A slot is handed over, freed or taken, and each of the    *)
(* three keeps the counter equal to the number of requests that hold one;  *)
(* a queue without repetitions that holds just the queued requests makes   *)
(* every hand-over reach one that waits.                                   *)

\* r stands in the queue q; q has no repetitions.
Waits(q, r) == \E i \in DOMAIN q : q[i] = r
OnceEach(q) == \A i, j \in DOMAIN q : q[i] = q[j] => i = j

\* Joining a queue one does not wait in.
LEMMA JoinQueue ==
  ASSUME NEW S, NEW q \in Seq(S), NEW r \in S, OnceEach(q), ~Waits(q, r)
  PROVE  /\ Append(q, r) \in Seq(S) /\ Append(q, r) # <<>>
         /\ OnceEach(Append(q, r))
         /\ \A s : Waits(Append(q, r), s) <=> Waits(q, s) \/ s = r
<1>1. /\ Append(q, r) \in Seq(S) /\ Append(q, r) # <<>>
      /\ DOMAIN q = 1 .. Len(q) /\ Len(q) \in Nat
      /\ DOMAIN Append(q, r) = 1 .. Len(q) + 1
      /\ \A i \in 1 .. Len(q) : Append(q, r)[i] = q[i]
      /\ Append(q, r)[Len(q) + 1] = r
  OBVIOUS
<1>2. OnceEach(Append(q, r))
  BY <1>1 DEF OnceEach, Waits
<1>3. \A s : Waits(Append(q, r), s) <=> Waits(q, s) \/ s = r
  BY <1>1 DEF Waits
<1> QED BY <1>1, <1>2, <1>3

\* The first of a queue leaves it.
LEMMA LeaveQueue ==
  ASSUME NEW S, NEW q \in Seq(S), q # <<>>, OnceEach(q)
  PROVE  /\ Head(q) \in S /\ Waits(q, Head(q))
         /\ Tail(q) \in Seq(S)
         /\ OnceEach(Tail(q))
         /\ \A s : Waits(Tail(q), s) <=> Waits(q, s) /\ s # Head(q)
<1>1. /\ Head(q) \in S /\ Head(q) = q[1]
      /\ Tail(q) \in Seq(S)
      /\ Len(q) \in Nat \ {0} /\ DOMAIN q = 1 .. Len(q)
      /\ DOMAIN Tail(q) = 1 .. Len(q) - 1
      /\ \A i \in 1 .. Len(q) - 1 : Tail(q)[i] = q[i + 1]
  BY HeadTailProperties, EmptySeq, LenProperties
<1>2. Waits(q, Head(q))
  BY <1>1 DEF Waits
<1>3. OnceEach(Tail(q))
  BY <1>1 DEF OnceEach
<1>4. ASSUME NEW s
      PROVE  Waits(Tail(q), s) <=> Waits(q, s) /\ s # Head(q)
  <2>1. ASSUME Waits(Tail(q), s) PROVE Waits(q, s) /\ s # Head(q)
    <3>1. PICK i \in 1 .. Len(q) - 1 : q[i + 1] = s
      BY <2>1, <1>1 DEF Waits
    <3>2. i + 1 \in DOMAIN q /\ i + 1 # 1 /\ 1 \in DOMAIN q
      BY <1>1
    <3> QED BY <3>1, <3>2, <1>1 DEF Waits, OnceEach
  <2>2. ASSUME Waits(q, s), s # Head(q) PROVE Waits(Tail(q), s)
    <3>1. PICK i \in 1 .. Len(q) : q[i] = s
      BY <2>2, <1>1 DEF Waits
    <3>2. i # 1 /\ i - 1 \in 1 .. Len(q) - 1 /\ (i - 1) + 1 = i
      BY <3>1, <2>2, <1>1
    <3> QED BY <3>1, <3>2, <1>1 DEF Waits
  <2> QED BY <2>1, <2>2
<1> QED BY <1>1, <1>2, <1>3, <1>4

-----------------------------------------------------------------------------
(* The three ways a slot moves.                                            *)

\* What is said about slots, and only that.
SlotInv ==
  /\ stage \in [Requests -> Stage]
  /\ inFlight \in Nat
  /\ waiting \in Seq(Requests)
  /\ SlotsAreCounted
  /\ NobodyWaitsForNothing

LEMMA HoldersAreFinite ==
  IsFiniteSet(Holders) /\ Cardinality(Holders) \in Nat
BY GatewayAssumption, FS_Subset, FS_CardinalityType DEF Holders

LEMMA QueueFacts ==
  ASSUME SlotInv
  PROVE  /\ OnceEach(waiting)
         /\ \A r \in Requests : Waits(waiting, r) <=> stage[r] = "queued"
BY DEF SlotInv, NobodyWaitsForNothing, OnceEach, Waits

\* One holder in the place of another: as many as before.
LEMMA SameNumber ==
  ASSUME NEW S, IsFiniteSet(S), NEW a \in S, NEW b, b \notin S \ {a}
  PROVE  Cardinality((S \ {a}) \cup {b}) = Cardinality(S)
<1> DEFINE T == S \ {a}
<1>1. IsFiniteSet(T) /\ Cardinality(T) = Cardinality(S) - 1
  BY FS_RemoveElement
<1>2. b \notin T
  OBVIOUS
<1> HIDE DEF T
<1>3. Cardinality(T \cup {b}) = Cardinality(T) + 1
  BY <1>1, <1>2, FS_AddElement
<1>4. Cardinality(S) \in Nat
  BY FS_CardinalityType
<1> QED BY <1>1, <1>3, <1>4 DEF T

\* A slot is taken, or the request is queued (gateway.ts:219-223).
LEMMA AdmitKeepsSlots ==
  ASSUME SlotInv, NEW r \in Requests, stage[r] = "idle", Admit(r)
  PROVE  SlotInv'
<1> USE GatewayAssumption DEF SlotInv, Stage
<1>1. CASE inFlight >= MaxConcurrent
  <2>1. /\ waiting' = Append(waiting, r) /\ inFlight' = inFlight
        /\ stage' = [stage EXCEPT ![r] = "queued"]
    BY <1>1 DEF Admit
  <2>2. Holders' = Holders
    BY <2>1 DEF Holders
  <2>3. inFlight = MaxConcurrent
    BY <1>1, HoldersAreFinite DEF SlotsAreCounted
  <2>4. /\ waiting' \in Seq(Requests) /\ OnceEach(waiting')
        /\ \A s : Waits(waiting', s) <=> Waits(waiting, s) \/ s = r
    BY <2>1, QueueFacts, JoinQueue
  <2>5. \A s \in Requests : Waits(waiting', s) <=> stage'[s] = "queued"
    BY <2>1, <2>4, QueueFacts
  <2>6. NobodyWaitsForNothing'
    BY <2>1, <2>3, <2>4, <2>5 DEF NobodyWaitsForNothing, OnceEach, Waits
  <2> QED BY <2>1, <2>2, <2>4, <2>6 DEF SlotsAreCounted
<1>2. CASE inFlight < MaxConcurrent
  <2>1. /\ waiting' = waiting /\ inFlight' = inFlight + 1
        /\ stage' = [stage EXCEPT ![r] = "sending"]
    BY <1>2 DEF Admit
  <2>2. Holders' = Holders \cup {r} /\ r \notin Holders
    BY <2>1 DEF Holders
  <2>3. Cardinality(Holders') = Cardinality(Holders) + 1
    BY <2>2, HoldersAreFinite, FS_AddElement
  <2>4. waiting = <<>>
    BY <1>2 DEF NobodyWaitsForNothing
  <2>5. NobodyWaitsForNothing'
    BY <2>1, <2>4 DEF NobodyWaitsForNothing
  <2> QED BY <1>2, <2>1, <2>3, <2>5, HoldersAreFinite DEF SlotsAreCounted
<1> QED BY <1>1, <1>2

\* A slot is freed, or handed to the first that waits (gateway.ts:224-229).
LEMMA LeaveKeepsSlots ==
  ASSUME SlotInv, NEW r \in Requests, stage[r] = "sending", Leave(r, "answered")
  PROVE  SlotInv'
<1> USE GatewayAssumption DEF SlotInv, Stage
<1>0. r \in Holders
  BY DEF Holders
<1>1. CASE waiting = <<>>
  <2>1. /\ waiting' = waiting /\ inFlight' = inFlight - 1
        /\ stage' = [stage EXCEPT ![r] = "answered"]
    BY <1>1 DEF Leave
  <2>2. Holders' = Holders \ {r}
    BY <2>1 DEF Holders
  <2>3. Cardinality(Holders') = Cardinality(Holders) - 1 /\ Cardinality(Holders') \in Nat
    BY <1>0, <2>2, HoldersAreFinite, FS_RemoveElement, FS_CardinalityType
  <2>4. NobodyWaitsForNothing'
    BY <1>1, <2>1 DEF NobodyWaitsForNothing
  <2> QED BY <2>1, <2>3, <2>4, HoldersAreFinite DEF SlotsAreCounted
<1>2. CASE waiting # <<>>
  <2> DEFINE h == Head(waiting)
  <2>1. /\ waiting' = Tail(waiting) /\ inFlight' = inFlight
        /\ stage' = [stage EXCEPT ![r] = "answered", ![h] = "sending"]
    BY <1>2 DEF Leave
  <2>2. /\ h \in Requests /\ Waits(waiting, h)
        /\ waiting' \in Seq(Requests) /\ OnceEach(waiting')
        /\ \A s : Waits(waiting', s) <=> Waits(waiting, s) /\ s # h
    BY <1>2, <2>1, QueueFacts, LeaveQueue
  <2>3. stage[h] = "queued" /\ h # r
    BY <2>2, QueueFacts
  <2> HIDE DEF h
  <2>4. Holders' = (Holders \ {r}) \cup {h} /\ h \notin Holders \ {r}
    BY <2>1, <2>2, <2>3 DEF Holders
  <2>5. Cardinality(Holders') = Cardinality(Holders)
    BY <1>0, <2>4, HoldersAreFinite, SameNumber
  <2>6. \A s \in Requests : Waits(waiting', s) <=> stage'[s] = "queued"
    BY <2>1, <2>2, <2>3, QueueFacts
  <2>7. NobodyWaitsForNothing'
    BY <1>2, <2>1, <2>2, <2>6 DEF NobodyWaitsForNothing, OnceEach, Waits
  <2> QED BY <2>1, <2>2, <2>5, <2>7 DEF SlotsAreCounted
<1> QED BY <1>1, <1>2

\* A slot is given back and asked for again, behind those that wait.
LEMMA GoAgainKeepsSlots ==
  ASSUME SlotInv, NEW r \in Requests, stage[r] = "sending", GoAgain(r)
  PROVE  SlotInv'
<1> USE GatewayAssumption DEF SlotInv, Stage
<1>0. r \in Holders
  BY DEF Holders
<1>1. CASE waiting = <<>>
  <2>1. /\ waiting' = waiting /\ inFlight' = inFlight /\ stage' = stage
    BY <1>1 DEF GoAgain
  <2> QED BY <2>1 DEF SlotsAreCounted, NobodyWaitsForNothing, Holders
<1>2. CASE waiting # <<>>
  <2> DEFINE h == Head(waiting)
  <2>1. /\ waiting' = Append(Tail(waiting), r) /\ inFlight' = inFlight
        /\ stage' = [stage EXCEPT ![r] = "queued", ![h] = "sending"]
    BY <1>2 DEF GoAgain
  <2>2. /\ h \in Requests /\ Waits(waiting, h)
        /\ Tail(waiting) \in Seq(Requests) /\ OnceEach(Tail(waiting))
        /\ \A s : Waits(Tail(waiting), s) <=> Waits(waiting, s) /\ s # h
    BY <1>2, QueueFacts, LeaveQueue
  <2>3. stage[h] = "queued" /\ h # r
    BY <2>2, QueueFacts
  <2> HIDE DEF h
  <2>4. ~Waits(Tail(waiting), r)
    BY <2>2, QueueFacts
  <2>5. /\ waiting' \in Seq(Requests) /\ OnceEach(waiting')
        /\ \A s : Waits(waiting', s) <=> Waits(Tail(waiting), s) \/ s = r
    BY <2>1, <2>2, <2>4, JoinQueue
  <2>6. Holders' = (Holders \ {r}) \cup {h} /\ h \notin Holders \ {r}
    BY <2>1, <2>2, <2>3 DEF Holders
  <2>7. Cardinality(Holders') = Cardinality(Holders)
    BY <1>0, <2>6, HoldersAreFinite, SameNumber
  <2>8. \A s \in Requests : Waits(waiting', s) <=> stage'[s] = "queued"
    BY <2>1, <2>2, <2>3, <2>5, QueueFacts
  <2>9. NobodyWaitsForNothing'
    BY <1>2, <2>1, <2>5, <2>8 DEF NobodyWaitsForNothing, OnceEach, Waits
  <2> QED BY <2>1, <2>5, <2>7, <2>9 DEF SlotsAreCounted
<1> QED BY <1>1, <1>2

-----------------------------------------------------------------------------
(* The search for a cycle.  A search that finds none leaves a set of keys   *)
(* none of which waits for others in a circle; one that finds a cycle has  *)
(* the path of its open keys to show.  Both are shown for the searches with *)
(* the least ahead of them first.                                          *)

Needed(plan, k) == TaskOf(plan, k).dependsOn

\* Its tasks depend on tasks of it.
Sensible(plan) ==
  /\ IsFiniteSet(KeysOf(plan))
  /\ \A k \in KeysOf(plan) : Needed(plan, k) \subseteq KeysOf(plan)

\* What is done depends on what is done, and waits for nothing in a circle.
Grounded(plan, D) ==
  /\ \A k \in D : Needed(plan, k) \subseteq D
  /\ \A S \in SUBSET D : S # {} => \E k \in S : Needed(plan, k) \cap S = {}

\* The open keys are a path: each needs the next, and the last what is left.
OnAPath(plan, s) ==
  \/ s.open = {}
  \/ \E top \in s.open :
       /\ s.left \subseteq Needed(plan, top)
       /\ \A k \in s.open \ {top} : Needed(plan, k) \cap s.open # {}

Outcomes(plan) == [done : SUBSET KeysOf(plan), cycle : BOOLEAN]

\* How much of a search is ahead: a bound on the depth of its calls.
Ahead(plan, s) ==
  Cardinality(KeysOf(plan) \ s.open) * (Cardinality(KeysOf(plan)) + 1) + Cardinality(s.left)

\* The searches a visit of k goes on with: what it depends on, and the other keys.
Below(plan, s, k) ==
  [left |-> Needed(plan, k), open |-> s.open \cup {k}, done |-> s.done]

After(s, k, D) == [left |-> s.left \ {k}, open |-> s.open, done |-> D]

\* A key is done once what it depends on is.
LEMMA GroundedGrows ==
  ASSUME NEW plan, NEW D, Grounded(plan, D), NEW k, Needed(plan, k) \subseteq D
  PROVE  Grounded(plan, D \cup {k})
<1>1. CASE k \in D
  <2>1. D \cup {k} = D
    BY <1>1
  <2>. QED BY <2>1
<1>2. CASE k \notin D
  <2>1. \A l \in D \cup {k} : Needed(plan, l) \subseteq D
    BY DEF Grounded
  <2>2. ASSUME NEW S \in SUBSET (D \cup {k}), S # {}
        PROVE  \E l \in S : Needed(plan, l) \cap S = {}
    <3>1. CASE S \cap D = {}
      <4>1. \A x \in S : x = k
        BY <3>1
      <4>2. k \in S
        <5>1. PICK x : x \in S
          BY <2>2
        <5>. QED BY <4>1, <5>1
      <4>3. \A x \in S : x \notin Needed(plan, k)
        BY <1>2, <4>1
      <4>. QED BY <4>2, <4>3
    <3>2. CASE S \cap D # {}
      <4>1. PICK l \in S \cap D : Needed(plan, l) \cap (S \cap D) = {}
        BY <3>2 DEF Grounded
      <4>2. Needed(plan, l) \cap S = {}
        BY <2>1, <4>1
      <4>. QED BY <4>1, <4>2
    <3>. QED BY <3>1, <3>2
  <2>. QED BY <2>1, <2>2 DEF Grounded
<1>. QED BY <1>1, <1>2

\* The bound is a number, and less of it is ahead of the searches below and after.
LEMMA AheadIsANumber ==
  ASSUME NEW plan, Sensible(plan), NEW s \in Searches(plan)
  PROVE  Ahead(plan, s) \in Nat
<1>1. s.left \in SUBSET KeysOf(plan) /\ IsFiniteSet(KeysOf(plan))
  BY DEF Searches, Sensible
<1>2. IsFiniteSet(s.left) /\ IsFiniteSet(KeysOf(plan) \ s.open)
  BY <1>1, FS_Subset
<1>3. /\ Cardinality(s.left) \in Nat /\ Cardinality(KeysOf(plan) \ s.open) \in Nat
      /\ Cardinality(KeysOf(plan)) \in Nat
  BY <1>1, <1>2, FS_CardinalityType
<1>4. \A a, n, m \in Nat : a * (n + 1) + m \in Nat
  OBVIOUS
<1>. QED BY <1>3, <1>4 DEF Ahead

LEMMA SearchesGoOn ==
  ASSUME NEW plan, Sensible(plan), NEW s \in Searches(plan), NEW k \in s.left
  PROVE  /\ Ahead(plan, s) \in Nat
         /\ k \in KeysOf(plan)
         /\ k \notin s.open =>
              Below(plan, s, k) \in Searches(plan) /\ Ahead(plan, Below(plan, s, k)) < Ahead(plan, s)
         /\ \A D \in SUBSET KeysOf(plan) :
              After(s, k, D) \in Searches(plan) /\ Ahead(plan, After(s, k, D)) < Ahead(plan, s)
<1>. DEFINE K == KeysOf(plan)
            n == Cardinality(K)
            a == Cardinality(K \ s.open)
            m == Cardinality(s.left)
<1>1. /\ s \in [left : SUBSET K, open : SUBSET K, done : SUBSET K]
      /\ IsFiniteSet(K) /\ Needed(plan, k) \subseteq K /\ k \in K
  BY DEF Searches, Sensible
<1>2. IsFiniteSet(s.left) /\ IsFiniteSet(K \ s.open)
  BY <1>1, FS_Subset
<1>3. n \in Nat /\ a \in Nat /\ m \in Nat
  BY <1>1, <1>2, FS_CardinalityType
<1>4. Ahead(plan, s) = a * (n + 1) + m
  BY DEF Ahead
<1>5. ASSUME k \notin s.open
      PROVE  Below(plan, s, k) \in Searches(plan) /\ Ahead(plan, Below(plan, s, k)) < Ahead(plan, s)
  <2>. DEFINE c == Cardinality(Needed(plan, k))
  <2>1. Below(plan, s, k) \in Searches(plan)
    BY <1>1 DEF Below, Searches
  <2>2. K \ (s.open \cup {k}) = (K \ s.open) \ {k} /\ k \in K \ s.open
    BY <1>1, <1>5
  <2>3. Cardinality(K \ (s.open \cup {k})) = a - 1
    <3>1. Cardinality((K \ s.open) \ {k}) = a - 1
      BY <1>2, <2>2, FS_RemoveElement
    <3>. QED BY <2>2, <3>1
  <2>4. c \in Nat /\ c <= n
    BY <1>1, FS_Subset, FS_CardinalityType
  <2>5. Ahead(plan, Below(plan, s, k)) = (a - 1) * (n + 1) + c
    BY <2>3 DEF Ahead, Below
  <2>6. (a - 1) * (n + 1) = a * (n + 1) - (n + 1)
    <3>. HIDE DEF a, n
    <3>. QED BY <1>3
  <2>7. a * (n + 1) \in Nat
    <3>. HIDE DEF a, n
    <3>. QED BY <1>3
  <2>. HIDE DEF a, n, m, c
  <2>. QED BY <1>3, <1>4, <2>1, <2>4, <2>5, <2>6, <2>7
<1>6. ASSUME NEW D \in SUBSET K
      PROVE  After(s, k, D) \in Searches(plan) /\ Ahead(plan, After(s, k, D)) < Ahead(plan, s)
  <2>1. After(s, k, D) \in Searches(plan)
    BY <1>1 DEF After, Searches
  <2>2. Cardinality(s.left \ {k}) = m - 1
    BY <1>2, FS_RemoveElement
  <2>3. Ahead(plan, After(s, k, D)) = a * (n + 1) + (m - 1)
    BY <2>2 DEF Ahead, After
  <2>7. a * (n + 1) \in Nat
    <3>. HIDE DEF a, n
    <3>. QED BY <1>3
  <2>. HIDE DEF a, n, m
  <2>. QED BY <1>3, <1>4, <2>1, <2>3, <2>7
<1>7. Ahead(plan, s) \in Nat
  <2>. HIDE DEF a, n, m
  <2>. QED BY <1>3, <1>4
<1>. QED BY <1>1, <1>5, <1>6, <1>7

\* The key that is visited next.
Foremost(s) == CHOOSE k \in s.left : TRUE

\* What a search returns, in terms of the searches below it and after it.
Returns(plan, f, s, k, outcome) ==
  LET below == f[Below(plan, s, k)]
  IN  /\ s.left = {} => outcome = [done |-> s.done, cycle |-> FALSE]
      /\ s.left # {} /\ k \in s.done => outcome = f[After(s, k, s.done)]
      /\ s.left # {} /\ k \in s.open \ s.done => outcome = [done |-> s.done, cycle |-> TRUE]
      /\ s.left # {} /\ k \notin s.open \cup s.done =>
           outcome = IF below.cycle
                     THEN [done |-> below.done \cup {k}, cycle |-> below.cycle]
                     ELSE f[After(s, k, below.done \cup {k})]

LEMMA VisitReturns ==
  ASSUME NEW plan, NEW f, NEW s
  PROVE  Returns(plan, f, s, Foremost(s), Visit(plan, f, s))
<1>. DEFINE k == Foremost(s)
            below == f[Below(plan, s, k)]
            seen == CASE k \in s.done -> [done |-> s.done, cycle |-> FALSE]
                      [] k \in s.open \ s.done -> [done |-> s.done, cycle |-> TRUE]
                      [] OTHER -> [done |-> below.done \cup {k}, cycle |-> below.cycle]
<1>1. s.left = {} => Visit(plan, f, s) = [done |-> s.done, cycle |-> FALSE]
  BY DEF Visit
<1>2. ASSUME s.left # {}
      PROVE  Visit(plan, f, s) = IF seen.cycle THEN seen ELSE f[After(s, k, seen.done)]
  BY <1>2 DEF Visit, Below, After, Needed, Foremost
<1>3. ASSUME k \in s.done PROVE seen = [done |-> s.done, cycle |-> FALSE]
  BY <1>3
<1>4. ASSUME k \in s.open \ s.done PROVE seen = [done |-> s.done, cycle |-> TRUE]
  BY <1>4
<1>5. ASSUME k \notin s.open \cup s.done
      PROVE  seen = [done |-> below.done \cup {k}, cycle |-> below.cycle]
  BY <1>5
<1>. HIDE DEF seen, below, k
<1>6. s.left # {} /\ k \in s.done => Visit(plan, f, s) = f[After(s, k, s.done)]
  BY <1>2, <1>3
<1>7. s.left # {} /\ k \in s.open \ s.done =>
        Visit(plan, f, s) = [done |-> s.done, cycle |-> TRUE]
  BY <1>2, <1>4
<1>8. s.left # {} /\ k \notin s.open \cup s.done =>
        Visit(plan, f, s) =
          IF below.cycle THEN [done |-> below.done \cup {k}, cycle |-> below.cycle]
          ELSE f[After(s, k, below.done \cup {k})]
  BY <1>2, <1>5
<1>. QED BY <1>1, <1>6, <1>7, <1>8 DEF below, k, Returns

\* A search looks at what lies ahead of it, and its outcome is one if theirs are.
LEMMA VisitLooksAhead ==
  ASSUME NEW plan, Sensible(plan), NEW f, NEW g, NEW s \in Searches(plan),
         \A t \in Searches(plan) :
           Ahead(plan, t) < Ahead(plan, s) => f[t] = g[t] /\ f[t] \in Outcomes(plan)
  PROVE  Visit(plan, f, s) = Visit(plan, g, s) /\ Visit(plan, f, s) \in Outcomes(plan)
<1>. DEFINE k == Foremost(s)
            d == Below(plan, s, k)
<1>1. s.done \in SUBSET KeysOf(plan)
  BY DEF Searches
<1>2. s.left # {} =>
        /\ k \in KeysOf(plan)
        /\ k \notin s.open => f[d] = g[d] /\ f[d] \in Outcomes(plan)
        /\ \A D \in SUBSET KeysOf(plan) :
             f[After(s, k, D)] = g[After(s, k, D)] /\ f[After(s, k, D)] \in Outcomes(plan)
  <2>1. s.left # {} => k \in s.left
    BY DEF Foremost
  <2>. HIDE DEF k
  <2>. QED BY <2>1, SearchesGoOn
<1>3. /\ Returns(plan, f, s, k, Visit(plan, f, s))
      /\ Returns(plan, g, s, k, Visit(plan, g, s))
  BY VisitReturns
<1>. HIDE DEF k
<1>4. CASE s.left = {}
  <2>1. Visit(plan, f, s) = [done |-> s.done, cycle |-> FALSE] /\ Visit(plan, g, s) = Visit(plan, f, s)
    BY <1>3, <1>4 DEF Returns
  <2>. QED BY <1>1, <2>1 DEF Outcomes
<1>5. CASE s.left # {} /\ k \in s.done
  <2>1. /\ Visit(plan, f, s) = f[After(s, k, s.done)]
        /\ Visit(plan, g, s) = g[After(s, k, s.done)]
    BY <1>3, <1>5 DEF Returns
  <2>. QED BY <1>1, <1>2, <1>5, <2>1
<1>6. CASE s.left # {} /\ k \in s.open \ s.done
  <2>1. Visit(plan, f, s) = [done |-> s.done, cycle |-> TRUE] /\ Visit(plan, g, s) = Visit(plan, f, s)
    BY <1>3, <1>6 DEF Returns
  <2>. QED BY <1>1, <2>1 DEF Outcomes
<1>7. CASE s.left # {} /\ k \notin s.open \cup s.done
  <2>1. /\ f[d] = g[d] /\ f[d].done \cup {k} \in SUBSET KeysOf(plan)
        /\ f[d].cycle \in BOOLEAN
    BY <1>2, <1>7 DEF Outcomes
  <2>2. /\ Visit(plan, f, s) = IF f[d].cycle
                               THEN [done |-> f[d].done \cup {k}, cycle |-> f[d].cycle]
                               ELSE f[After(s, k, f[d].done \cup {k})]
        /\ Visit(plan, g, s) = IF g[d].cycle
                               THEN [done |-> g[d].done \cup {k}, cycle |-> g[d].cycle]
                               ELSE g[After(s, k, g[d].done \cup {k})]
    BY <1>3, <1>7 DEF Returns
  <2>. HIDE DEF d
  <2>3. CASE f[d].cycle
    BY <2>1, <2>2, <2>3 DEF Outcomes
  <2>4. CASE ~f[d].cycle
    BY <1>2, <1>7, <2>1, <2>2, <2>4
  <2>. QED BY <2>3, <2>4
<1>. QED BY <1>4, <1>5, <1>6, <1>7

\* There is a function that visits: up to every depth there is one.
LEMMA SearchesReturn ==
  ASSUME NEW plan, Sensible(plan)
  PROVE  \E f \in [Searches(plan) -> Outcomes(plan)] :
           \A s \in Searches(plan) : f[s] = Visit(plan, f, s)
<1>. DEFINE UpTo(f, n) ==
              /\ f \in [Searches(plan) -> Outcomes(plan)]
              /\ \A s \in Searches(plan) : Ahead(plan, s) < n => f[s] = Visit(plan, f, s)
            Deep == {n \in Nat : \E f : UpTo(f, n)}
<1>1. \A s \in Searches(plan) : Ahead(plan, s) \in Nat
  BY AheadIsANumber
<1>2. 0 \in Deep
  <2>1. [done |-> {}, cycle |-> FALSE] \in Outcomes(plan)
    BY DEF Outcomes
  <2>2. [s \in Searches(plan) |-> [done |-> {}, cycle |-> FALSE]]
          \in [Searches(plan) -> Outcomes(plan)]
    BY <2>1
  <2>3. UpTo([s \in Searches(plan) |-> [done |-> {}, cycle |-> FALSE]], 0)
    BY <1>1, <2>2
  <2>. HIDE DEF UpTo
  <2>. QED BY <2>3
<1>3. ASSUME NEW n \in Nat, n \in Deep PROVE n + 1 \in Deep
  <2>1. PICK f : UpTo(f, n)
    BY <1>3
  <2>. DEFINE g == [s \in Searches(plan) |-> IF Ahead(plan, s) = n THEN Visit(plan, f, s) ELSE f[s]]
  <2>2. ASSUME NEW s \in Searches(plan), Ahead(plan, s) < n + 1
        PROVE  Visit(plan, f, s) = Visit(plan, g, s) /\ Visit(plan, f, s) \in Outcomes(plan)
    <3>1. \A t \in Searches(plan) :
            Ahead(plan, t) < Ahead(plan, s) => f[t] = g[t] /\ f[t] \in Outcomes(plan)
      BY <1>1, <2>1, <2>2
    <3>. HIDE DEF g, UpTo
    <3>. QED BY <3>1, VisitLooksAhead
  <2>3. ASSUME NEW s \in Searches(plan), Ahead(plan, s) < n + 1 PROVE g[s] = Visit(plan, g, s)
    BY <1>1, <2>1, <2>2, <2>3
  <2>4. ASSUME NEW s \in Searches(plan) PROVE g[s] \in Outcomes(plan)
    <3>1. CASE Ahead(plan, s) = n
      <4>1. g[s] = Visit(plan, f, s)
        BY <3>1
      <4>. HIDE DEF g
      <4>2. n < n + 1
        OBVIOUS
      <4>. QED BY <2>2, <3>1, <4>1, <4>2
    <3>2. CASE Ahead(plan, s) # n
      <4>1. f \in [Searches(plan) -> Outcomes(plan)]
        BY <2>1
      <4>. HIDE DEF UpTo
      <4>2. g[s] = f[s]
        BY <3>2
      <4>. QED BY <4>1, <4>2
    <3>. QED BY <3>1, <3>2
  <2>5. g \in [Searches(plan) -> Outcomes(plan)]
    BY <2>4
  <2>6. UpTo(g, n + 1)
    <3>. HIDE DEF g
    <3>. QED BY <2>3, <2>5
  <2>. HIDE DEF UpTo, g
  <2>. QED BY <2>6
<1>4. PICK n \in Nat : \A s \in Searches(plan) : Ahead(plan, s) < n
  <2>. DEFINE N == Cardinality(KeysOf(plan))
  <2>1. N \in Nat /\ (N + 1) * (N + 1) \in Nat
    <3>1. N \in Nat
      BY FS_CardinalityType DEF Sensible
    <3>. HIDE DEF N
    <3>. QED BY <3>1
  <2>2. ASSUME NEW s \in Searches(plan) PROVE Ahead(plan, s) < (N + 1) * (N + 1)
    <3>1. /\ IsFiniteSet(KeysOf(plan)) /\ s.left \in SUBSET KeysOf(plan)
          /\ KeysOf(plan) \ s.open \in SUBSET KeysOf(plan)
      BY DEF Searches, Sensible
    <3>2. /\ Cardinality(s.left) \in Nat /\ Cardinality(s.left) <= N
          /\ Cardinality(KeysOf(plan) \ s.open) \in Nat /\ Cardinality(KeysOf(plan) \ s.open) <= N
      BY <3>1, FS_Subset, FS_CardinalityType
    <3>3. ASSUME NEW a \in Nat, NEW m \in Nat, NEW k \in Nat, a <= k, m <= k
          PROVE  a * (k + 1) + m < (k + 1) * (k + 1)
      <4>1. (k - a) * (k + 1) >= 0
        BY <3>3
      <4>2. (k - a) * (k + 1) = k * (k + 1) - a * (k + 1)
        OBVIOUS
      <4>3. (k + 1) * (k + 1) = k * (k + 1) + (k + 1)
        OBVIOUS
      <4>4. a * (k + 1) \in Int /\ k * (k + 1) \in Int
        OBVIOUS
      <4>. QED BY <3>3, <4>1, <4>2, <4>3, <4>4
    <3>. HIDE DEF N
    <3>. QED BY <2>1, <3>2, <3>3 DEF Ahead, N
  <2>. HIDE DEF N
  <2>. QED BY <2>1, <2>2
<1>5. n \in Deep
  <2>. HIDE DEF Deep
  <2>. QED BY <1>2, <1>3, Counting
<1>. QED BY <1>4, <1>5

\* Its one name for all that is proved of it below.
Visitor(plan) ==
  CHOOSE f : f = [s \in Searches(plan) |-> Visit(plan, f, s)]

LEMMA VisitorReturns ==
  ASSUME NEW plan, Sensible(plan)
  PROVE  /\ \A s \in Searches(plan) : Visitor(plan)[s] = Visit(plan, Visitor(plan), s)
         /\ FindsCycle(plan) =
              Visitor(plan)[[left |-> KeysOf(plan), open |-> {}, done |-> {}]].cycle
<1>1. PICK f \in [Searches(plan) -> Outcomes(plan)] :
        \A s \in Searches(plan) : f[s] = Visit(plan, f, s)
  BY SearchesReturn
<1>2. f = [s \in Searches(plan) |-> Visit(plan, f, s)]
  BY <1>1
<1>3. Visitor(plan) = [s \in Searches(plan) |-> Visit(plan, Visitor(plan), s)]
  BY <1>2 DEF Visitor
<1>4. FindsCycle(plan) =
        Visitor(plan)[[left |-> KeysOf(plan), open |-> {}, done |-> {}]].cycle
  BY DEF FindsCycle, Visitor
<1>. HIDE DEF Visitor
<1>. QED BY <1>3, <1>4

\* What a search without a cycle leaves is grounded and holds what was asked for;
\* one that finds a cycle has met it.
Right(plan, s) ==
  LET outcome == Visitor(plan)[s]
  IN  /\ outcome \in Outcomes(plan)
      /\ Grounded(plan, s.done) /\ ~outcome.cycle =>
           Grounded(plan, outcome.done) /\ s.done \cup s.left \subseteq outcome.done
      /\ OnAPath(plan, s) /\ outcome.cycle =>
           \E S \in SUBSET KeysOf(plan) : S # {} /\ \A k \in S : Needed(plan, k) \cap S # {}

\* A search is right if those with less ahead are.
LEMMA SearchIsRight ==
  ASSUME NEW plan, Sensible(plan), NEW s \in Searches(plan),
         \A t \in Searches(plan) : Ahead(plan, t) < Ahead(plan, s) => Right(plan, t)
  PROVE  Right(plan, s)
<1>. DEFINE k == Foremost(s)
            d == Below(plan, s, k)
            Circle == \E S \in SUBSET KeysOf(plan) :
                        S # {} /\ \A l \in S : Needed(plan, l) \cap S # {}
<1>1. s \in [left : SUBSET KeysOf(plan), open : SUBSET KeysOf(plan), done : SUBSET KeysOf(plan)]
  BY DEF Searches
<1>2. s.left # {} =>
        /\ k \in s.left /\ k \in KeysOf(plan) /\ Needed(plan, k) \subseteq KeysOf(plan)
        /\ k \notin s.open => d \in Searches(plan) /\ Right(plan, d)
        /\ \A D \in SUBSET KeysOf(plan) :
             After(s, k, D) \in Searches(plan) /\ Right(plan, After(s, k, D))
  <2>1. s.left # {} => k \in s.left
    BY DEF Foremost
  <2>. HIDE DEF k
  <2>. QED BY <2>1, SearchesGoOn DEF Sensible
<1>3. Returns(plan, Visitor(plan), s, k, Visitor(plan)[s])
  BY VisitReturns, VisitorReturns
<1>. HIDE DEF k
<1>4. ASSUME NEW D
      PROVE  /\ After(s, k, D).left = s.left \ {k} /\ After(s, k, D).open = s.open
             /\ After(s, k, D).done = D
  BY DEF After
<1>5. ASSUME NEW D, OnAPath(plan, s) PROVE OnAPath(plan, After(s, k, D))
  BY <1>4, <1>5 DEF OnAPath
<1>6. CASE s.left = {}
  <2>1. Visitor(plan)[s] = [done |-> s.done, cycle |-> FALSE]
    BY <1>3, <1>6 DEF Returns
  <2>2. [done |-> s.done, cycle |-> FALSE] \in Outcomes(plan)
    BY <1>1 DEF Outcomes
  <2>. QED BY <1>6, <2>1, <2>2 DEF Right
\* The rest of the search, after something done is added.
<1>7. ASSUME s.left # {}, NEW D \in SUBSET KeysOf(plan), s.done \subseteq D, k \in D,
             Grounded(plan, s.done) => Grounded(plan, D),
             Visitor(plan)[s] = Visitor(plan)[After(s, k, D)]
      PROVE  Right(plan, s)
  <2>1. Right(plan, After(s, k, D))
    BY <1>2, <1>7
  <2>. DEFINE o == Visitor(plan)[After(s, k, D)]
  <2>2. /\ o \in Outcomes(plan)
        /\ Grounded(plan, D) /\ ~o.cycle =>
             Grounded(plan, o.done) /\ D \cup (s.left \ {k}) \subseteq o.done
        /\ OnAPath(plan, After(s, k, D)) /\ o.cycle => Circle
    BY <1>4, <2>1 DEF Right
  <2>. HIDE DEF o, Circle
  <2>3. OnAPath(plan, s) /\ o.cycle => Circle
    BY <1>5, <2>2
  <2>4. Grounded(plan, s.done) /\ ~o.cycle =>
          Grounded(plan, o.done) /\ s.done \cup s.left \subseteq o.done
    BY <1>7, <2>2
  <2>5. Visitor(plan)[s] = o
    BY <1>7 DEF o
  <2>. QED BY <2>2, <2>3, <2>4, <2>5 DEF Right, Circle
<1>8. CASE s.left # {} /\ k \in s.done
  <2>1. Visitor(plan)[s] = Visitor(plan)[After(s, k, s.done)]
    BY <1>3, <1>8 DEF Returns
  <2>. QED BY <1>1, <1>7, <1>8, <2>1
<1>9. CASE s.left # {} /\ k \in s.open \ s.done
  <2>1. Visitor(plan)[s] = [done |-> s.done, cycle |-> TRUE]
    BY <1>3, <1>9 DEF Returns
  <2>2. [done |-> s.done, cycle |-> TRUE] \in Outcomes(plan)
    BY <1>1 DEF Outcomes
  <2>3. ASSUME OnAPath(plan, s) PROVE Circle
    <3>1. PICK top \in s.open : /\ s.left \subseteq Needed(plan, top)
                                /\ \A l \in s.open \ {top} : Needed(plan, l) \cap s.open # {}
      BY <1>9, <2>3 DEF OnAPath
    <3>2. k \in Needed(plan, top) \cap s.open
      BY <1>2, <1>9, <3>1
    <3>3. \A l \in s.open : Needed(plan, l) \cap s.open # {}
      BY <3>1, <3>2
    <3>4. s.open \in SUBSET KeysOf(plan) /\ s.open # {}
      BY <1>1, <3>1
    <3>. QED BY <3>3, <3>4
  <2>. HIDE DEF Circle
  <2>. QED BY <2>1, <2>2, <2>3 DEF Right, Circle
<1>10. CASE s.left # {} /\ k \notin s.open \cup s.done
  <2>. DEFINE o == Visitor(plan)[d]
  <2>1. Visitor(plan)[s] = IF o.cycle THEN [done |-> o.done \cup {k}, cycle |-> o.cycle]
                           ELSE Visitor(plan)[After(s, k, o.done \cup {k})]
    BY <1>3, <1>10 DEF Returns
  <2>2. d.left = Needed(plan, k) /\ d.open = s.open \cup {k} /\ d.done = s.done
    BY DEF Below
  <2>3. Right(plan, d)
    BY <1>2, <1>10
  <2>. HIDE DEF d
  <2>4. /\ o \in Outcomes(plan)
        /\ Grounded(plan, s.done) /\ ~o.cycle =>
             Grounded(plan, o.done) /\ s.done \cup Needed(plan, k) \subseteq o.done
        /\ OnAPath(plan, d) /\ o.cycle => Circle
    BY <2>2, <2>3 DEF Right
  <2>5. OnAPath(plan, s) => OnAPath(plan, d)
    <3>. SUFFICES ASSUME OnAPath(plan, s) PROVE OnAPath(plan, d)
      OBVIOUS
    <3>1. ASSUME NEW l \in (s.open \cup {k}) \ {k} PROVE Needed(plan, l) \cap (s.open \cup {k}) # {}
      <4>1. PICK top \in s.open : /\ s.left \subseteq Needed(plan, top)
                                  /\ \A x \in s.open \ {top} : Needed(plan, x) \cap s.open # {}
        BY <3>1 DEF OnAPath
      <4>2. CASE l = top
        <5>1. k \in Needed(plan, l)
          BY <1>2, <1>10, <4>1, <4>2
        <5>. QED BY <5>1
      <4>3. CASE l # top
        <5>1. Needed(plan, l) \cap s.open # {}
          BY <3>1, <4>1, <4>3
        <5>. QED BY <5>1
      <4>. QED BY <4>2, <4>3
    <3>. QED BY <2>2, <3>1 DEF OnAPath
  <2>. HIDE DEF o, Circle
  <2>6. o.done \in SUBSET KeysOf(plan) /\ o.cycle \in BOOLEAN
    BY <2>4 DEF Outcomes
  <2>7. CASE o.cycle
    <3>1. Visitor(plan)[s] = [done |-> o.done \cup {k}, cycle |-> TRUE]
      BY <2>1, <2>6, <2>7
    <3>2. [done |-> o.done \cup {k}, cycle |-> TRUE] \in Outcomes(plan)
      BY <1>2, <1>10, <2>6 DEF Outcomes
    <3>3. OnAPath(plan, s) => Circle
      BY <2>4, <2>5, <2>7
    <3>. QED BY <3>1, <3>2, <3>3 DEF Right, Circle
  <2>8. CASE ~o.cycle /\ Grounded(plan, s.done)
    <3>1. /\ Grounded(plan, o.done \cup {k}) /\ s.done \subseteq o.done \cup {k}
          /\ k \in o.done \cup {k} /\ o.done \cup {k} \in SUBSET KeysOf(plan)
      BY <1>2, <1>10, <2>4, <2>6, <2>8, GroundedGrows
    <3>. QED BY <1>7, <1>10, <2>1, <2>8, <3>1
  <2>9. CASE ~o.cycle /\ ~Grounded(plan, s.done)
    <3>1. Right(plan, After(s, k, o.done \cup {k}))
      BY <1>2, <1>10, <2>6
    <3>2. Visitor(plan)[s] = Visitor(plan)[After(s, k, o.done \cup {k})]
      BY <2>1, <2>9
    <3>3. OnAPath(plan, s) => OnAPath(plan, After(s, k, o.done \cup {k}))
      BY <1>5
    <3>. QED BY <2>9, <3>1, <3>2, <3>3 DEF Right
  <2>. QED BY <2>7, <2>8, <2>9
<1>. QED BY <1>6, <1>8, <1>9, <1>10

\* findCycle finds a cycle if and only if there is one.
LEMMA CyclesAreFound ==
  ASSUME NEW plan, Sensible(plan)
  PROVE  FindsCycle(plan) <=> ~Acyclic(plan)
<1>. DEFINE start == [left |-> KeysOf(plan), open |-> {}, done |-> {}]
            Wrong == {Ahead(plan, s) : s \in {t \in Searches(plan) : ~Right(plan, t)}}
<1>1. start \in Searches(plan)
  BY DEF Searches
<1>2. \A s \in Searches(plan) : Ahead(plan, s) \in Nat
  BY AheadIsANumber
<1>3. Wrong = {}
  <2>. SUFFICES ASSUME Wrong # {} PROVE FALSE
    OBVIOUS
  <2>1. PICK n \in Wrong : \A m \in Wrong : n <= m
    <3>1. Wrong \in SUBSET Nat
      BY <1>2
    <3>. HIDE DEF Wrong
    <3>. QED BY <3>1, HasALeast
  <2>2. PICK s \in Searches(plan) : ~Right(plan, s) /\ Ahead(plan, s) = n
    BY <2>1
  <2>3. \A t \in Searches(plan) : Ahead(plan, t) < Ahead(plan, s) => Right(plan, t)
    BY <1>2, <2>1, <2>2
  <2>. QED BY <2>2, <2>3, SearchIsRight
<1>4. Right(plan, start)
  BY <1>1, <1>3
<1>. DEFINE o == Visitor(plan)[start]
<1>5. FindsCycle(plan) = o.cycle
  BY VisitorReturns
<1>6. start.left = KeysOf(plan) /\ start.open = {} /\ start.done = {}
  OBVIOUS
<1>7. OnAPath(plan, start) /\ Grounded(plan, {})
  BY <1>6 DEF OnAPath, Grounded
<1>8. /\ o \in Outcomes(plan)
      /\ ~o.cycle => Grounded(plan, o.done) /\ KeysOf(plan) \subseteq o.done
      /\ o.cycle =>
           \E S \in SUBSET KeysOf(plan) : S # {} /\ \A k \in S : Needed(plan, k) \cap S # {}
  <2>. HIDE DEF start
  <2>. QED BY <1>4, <1>6, <1>7 DEF Right
<1>. HIDE DEF o
<1>9. o.cycle => ~Acyclic(plan)
  <2>. SUFFICES ASSUME o.cycle, Acyclic(plan) PROVE FALSE
    OBVIOUS
  <2>1. PICK S \in SUBSET KeysOf(plan) : S # {} /\ \A k \in S : Needed(plan, k) \cap S # {}
    BY <1>8
  <2>2. S \in (SUBSET KeysOf(plan)) \ {{}}
    BY <2>1
  <2>. QED BY <2>1, <2>2 DEF Acyclic, Needed
<1>10. ~o.cycle => Acyclic(plan)
  <2>. SUFFICES ASSUME ~o.cycle, NEW S \in (SUBSET KeysOf(plan)) \ {{}}
                PROVE  \E k \in S : TaskOf(plan, k).dependsOn \cap S = {}
    BY DEF Acyclic
  <2>1. S # {} /\ S \in SUBSET KeysOf(plan)
    OBVIOUS
  <2>2. S \in SUBSET o.done
    BY <1>8, <2>1
  <2>. QED BY <1>8, <2>1, <2>2 DEF Grounded, Needed
<1>. QED BY <1>5, <1>8, <1>9, <1>10 DEF Outcomes

\* A plan has a task for each of its keys, and finitely many.
LEMMA KeysHaveTasks ==
  ASSUME NEW plan, KeysAreUnique(plan), NEW t \in Range(plan)
  PROVE  TaskOf(plan, t.key) = t /\ t.key \in KeysOf(plan)
<1>1. t.key \in KeysOf(plan)
  BY DEF KeysOf
<1>2. TaskOf(plan, t.key) \in Range(plan) /\ TaskOf(plan, t.key).key = t.key
  BY DEF TaskOf
<1>3. PICK i \in DOMAIN plan, j \in DOMAIN plan : plan[i] = t /\ plan[j] = TaskOf(plan, t.key)
  BY <1>2 DEF Range
<1>. QED BY <1>1, <1>2, <1>3 DEF KeysAreUnique

LEMMA PlansAreFinite ==
  ASSUME NEW plan, plan \in Seq(Range(plan))
  PROVE  IsFiniteSet(KeysOf(plan))
<1>1. IsFiniteSet(DOMAIN plan)
  <2>1. DOMAIN plan = 1 .. Len(plan) /\ Len(plan) \in Nat
    OBVIOUS
  <2>. QED BY <2>1, FS_Interval
<1>. DEFINE key == [i \in DOMAIN plan |-> plan[i].key]
<1>2. \A k \in KeysOf(plan) : \E i \in DOMAIN plan : key[i] = k
  BY DEF KeysOf, Range
<1>3. \A i \in DOMAIN plan : key[i] \in KeysOf(plan)
  BY DEF KeysOf, Range
<1>4. key \in Surjection(DOMAIN plan, KeysOf(plan))
  BY <1>2, <1>3 DEF Surjection
<1>. QED BY <1>1, <1>4, FS_Surjection

\* validate accepts a plan if and only if the plan can be walked to its end and
\* ends in a synthesis (llm-planner.ts:131-162).
THEOREM AcceptedMeansRunnable ==
  ASSUME NEW plan, SchemaValid(plan)
  PROVE  Accepted(plan) <=> Runnable(plan)
<1>0. IsFiniteSet(KeysOf(plan))
  BY PlansAreFinite DEF SchemaValid
<1>1. ASSUME KeysAreUnique(plan), \A t \in Range(plan) : t.dependsOn \subseteq KeysOf(plan)
      PROVE  FindsCycle(plan) <=> ~Acyclic(plan)
  <2>1. \A k \in KeysOf(plan) : TaskOf(plan, k) \in Range(plan)
    BY DEF KeysOf, TaskOf
  <2>2. Sensible(plan)
    BY <1>0, <1>1, <2>1 DEF Sensible, Needed
  <2>. QED BY <2>2, CyclesAreFound
<1>2. ASSUME KeysAreUnique(plan), Acyclic(plan), NEW t \in Range(plan)
      PROVE  t.key \notin t.dependsOn
  <2>1. {t.key} \in (SUBSET KeysOf(plan)) \ {{}}
    BY <1>2, KeysHaveTasks
  <2>2. TaskOf(plan, t.key).dependsOn \cap {t.key} = {}
    BY <1>2, <2>1 DEF Acyclic
  <2>. QED BY <1>2, <2>2, KeysHaveTasks
<1>3. Accepted(plan) => Runnable(plan)
  BY <1>1 DEF Accepted, Runnable
<1>4. Runnable(plan) => Accepted(plan)
  BY <1>1, <1>2 DEF Accepted, Runnable
<1>. QED BY <1>3, <1>4

\* A plan whose tasks depend on earlier ones only has no cycle.
InTurn(plan) ==
  \A i \in DOMAIN plan : \A k \in plan[i].dependsOn :
    \E j \in DOMAIN plan : j < i /\ plan[j].key = k

LEMMA InTurnIsAcyclic ==
  ASSUME NEW plan, plan \in Seq(Range(plan)), KeysAreUnique(plan), InTurn(plan)
  PROVE  Acyclic(plan)
<1>. SUFFICES ASSUME NEW S \in (SUBSET KeysOf(plan)) \ {{}}
              PROVE  \E k \in S : TaskOf(plan, k).dependsOn \cap S = {}
  BY DEF Acyclic
<1>. DEFINE places == {i \in DOMAIN plan : plan[i].key \in S}
<1>1. DOMAIN plan \in SUBSET Nat
  OBVIOUS
<1>2. places \in SUBSET Nat /\ places # {}
  <2>1. PICK k \in S : k \in KeysOf(plan)
    OBVIOUS
  <2>2. PICK i \in DOMAIN plan : plan[i].key = k
    BY <2>1 DEF KeysOf, Range
  <2>. QED BY <1>1, <2>1, <2>2
<1>3. PICK i \in places : \A j \in places : i <= j
  BY <1>2, HasALeast
<1>4. plan[i] \in Range(plan) /\ plan[i].key \in S
  BY DEF Range
<1>5. TaskOf(plan, plan[i].key) = plan[i]
  BY <1>4, KeysHaveTasks
<1>6. \A k \in plan[i].dependsOn : k \notin S
  <2>. SUFFICES ASSUME NEW k \in plan[i].dependsOn, k \in S PROVE FALSE
    OBVIOUS
  <2>1. PICK j \in DOMAIN plan : j < i /\ plan[j].key = k
    BY DEF InTurn
  <2>2. j \in places
    BY <2>1
  <2>. QED BY <1>1, <1>3, <2>1, <2>2
<1>. QED BY <1>4, <1>5, <1>6

\* Every template is listed in the order it can be walked in.
Listable(plan) ==
  /\ plan \in Seq(Range(plan)) /\ KeysAreUnique(plan) /\ InTurn(plan)
  /\ \A t \in Range(plan) : t.agentId \in AgentIds /\ t.dependsOn \subseteq KeysOf(plan)
  /\ \E t \in Terminal(plan) : t.agentId = "ceo"

LEMMA ListableIsRunnable ==
  ASSUME NEW plan, Listable(plan)
  PROVE  Runnable(plan)
BY InTurnIsAcyclic DEF Listable, Runnable

LEMMA TemplatesAreRunnable ==
  \A t \in TemplateSet : Runnable(t.tasks)
<1> USE DEF Listable, KeysAreUnique, InTurn, Terminal, KeysOf, Range, Template, Task, AgentIds
<1>1. Listable(RevenueInvestigation.tasks)
  BY DEF RevenueInvestigation
<1>2. ASSUME NEW triggers, NEW metrics, NEW intents
      PROVE  Listable(Replenishment(triggers, metrics, intents).tasks)
  <2>. DEFINE plan == <<Task("assess", "inventory", {}), Task("source", "procurement", {"assess"}),
                        Task("decide", "ceo", {"assess", "source"})>>
  <2>1. Listable(plan)
    OBVIOUS
  <2>2. Replenishment(triggers, metrics, intents).tasks = plan
    BY DEF Replenishment
  <2>. HIDE DEF plan, Listable
  <2>. QED BY <2>1, <2>2
<1>3. Listable(CampaignReview.tasks)
  BY DEF CampaignReview
<1>4. Listable(CompetitorResponse.tasks)
  BY DEF CompetitorResponse
<1>5. Listable(ServiceRecovery.tasks)
  BY DEF ServiceRecovery
<1>6. Listable(StockoutResponse.tasks) /\ Listable(SupplyDisruption.tasks)
  <2>. HIDE DEF Listable
  <2>. QED BY <1>2 DEF StockoutResponse, SupplyDisruption
<1>7. Listable(FulfilmentRun.tasks)
  BY DEF FulfilmentRun
<1>8. Listable(FullBusinessReview.tasks)
  BY DEF FullBusinessReview
<1> HIDE DEF Listable, KeysAreUnique, InTurn, Terminal, KeysOf, Template, Task, AgentIds
<1>9. TemplateSet = {RevenueInvestigation, StockoutResponse, CampaignReview,
                     CompetitorResponse, ServiceRecovery, SupplyDisruption,
                     FulfilmentRun, FullBusinessReview}
  BY DEF TemplateSet, PlanTemplates
<1> QED BY <1>1, <1>2, <1>3, <1>4, <1>5, <1>6, <1>7, <1>8, <1>9, ListableIsRunnable

-----------------------------------------------------------------------------
(* The invariant.                                                          *)

\* Inductive with GatewayInv: what is on its way to a model is there because one
\* is configured.
OnItsWayToAModel ==
  \A r \in Requests : stage[r] \in {"queued", "sending", "pausing"} => hosted

GatewayIInv == GatewayInv /\ OnItsWayToAModel

LEMMA OneIsInRange ==
  1 \in 1 .. MaxRounds /\ 1 \in 1 .. MaxSends /\ 0 \in 0 .. MaxTroubles
BY GatewayAssumption

LEMMA GatewayStarts ==
  ASSUME GatewayInit
  PROVE  GatewayIInv
<1> USE DEF GatewayInit
<1>0. 1 \in 1 .. MaxRounds /\ 1 \in 1 .. MaxSends /\ 0 \in 0 .. MaxTroubles
  BY OneIsInRange
<1>1. GatewayTypeOK
  BY <1>0, EmptySeq DEF GatewayTypeOK, Stage, Engine
<1>2. Holders = {}
  BY DEF Holders
<1>3. SlotsAreCounted
  BY <1>2, FS_EmptySet, GatewayAssumption DEF SlotsAreCounted
<1> QED BY <1>1, <1>3 DEF GatewayIInv, GatewayInv, NobodyWaitsForNothing, LabelIsHonest,
                           OnItsWayToAModel

\* Where the stages of other requests do not leave or enter the queue or a slot.
LEMMA OtherStages ==
  ASSUME SlotInv, UNCHANGED <<inFlight, waiting>>, stage' \in [Requests -> Stage],
         \A r \in Requests : stage'[r] = "queued" <=> stage[r] = "queued",
         \A r \in Requests :
           stage'[r] \in {"sending", "pausing"} <=> stage[r] \in {"sending", "pausing"}
  PROVE  SlotInv'
<1>1. Holders' = Holders
  BY Zenon DEF Holders
<1>2. SlotsAreCounted'
  BY <1>1 DEF SlotInv, SlotsAreCounted
<1>3. NobodyWaitsForNothing'
  BY DEF SlotInv, NobodyWaitsForNothing
<1> QED BY <1>2, <1>3 DEF SlotInv

\* What Leave does to the stages.
LEMMA LeaveMoves ==
  ASSUME SlotInv, NEW r \in Requests, stage[r] = "sending", Leave(r, "answered")
  PROVE  /\ stage'[r] = "answered"
         /\ \A s \in Requests \ {r} :
              stage'[s] = stage[s] \/ (stage[s] = "queued" /\ stage'[s] = "sending")
<1>1. CASE waiting = <<>>
  BY <1>1 DEF Leave, SlotInv
<1>2. CASE waiting # <<>>
  <2> DEFINE h == Head(waiting)
  <2>1. h \in Requests /\ stage[h] = "queued" /\ h # r
    BY <1>2, QueueFacts, LeaveQueue DEF SlotInv
  <2>2. stage' = [stage EXCEPT ![r] = "answered", ![h] = "sending"]
    BY <1>2 DEF Leave
  <2> HIDE DEF h
  <2> QED BY <2>1, <2>2 DEF SlotInv
<1> QED BY <1>1, <1>2

LEMMA GoAgainMoves ==
  ASSUME SlotInv, NEW r \in Requests, stage[r] = "sending", GoAgain(r)
  PROVE  /\ stage'[r] \in {"queued", "sending"}
         /\ \A s \in Requests \ {r} :
              stage'[s] = stage[s] \/ (stage[s] = "queued" /\ stage'[s] = "sending")
<1>1. CASE waiting = <<>>
  BY <1>1 DEF GoAgain, SlotInv
<1>2. CASE waiting # <<>>
  <2> DEFINE h == Head(waiting)
  <2>1. h \in Requests /\ stage[h] = "queued" /\ h # r
    BY <1>2, QueueFacts, LeaveQueue DEF SlotInv
  <2>2. stage' = [stage EXCEPT ![r] = "queued", ![h] = "sending"]
    BY <1>2 DEF GoAgain
  <2> HIDE DEF h
  <2> QED BY <2>1, <2>2 DEF SlotInv
<1> QED BY <1>1, <1>2

LEMMA InvGivesSlotInv ==
  ASSUME GatewayIInv
  PROVE  SlotInv
BY DEF GatewayIInv, GatewayInv, GatewayTypeOK, SlotInv

LEMMA GatewayStepKeeps ==
  ASSUME GatewayIInv, [GatewayNext]_gatewayVars
  PROVE  GatewayIInv'
<1> USE GatewayAssumption
<1>0. SlotInv
  BY InvGivesSlotInv
<1>t. GatewayTypeOK
  BY DEF GatewayIInv, GatewayInv
<1>1. ASSUME NEW r \in Requests, AskFallback(r) PROVE GatewayIInv'
  <2>1. SlotInv'
    BY <1>0, <1>1, OtherStages DEF AskFallback, SlotInv, Stage
  <2>2. GatewayTypeOK'
    BY <1>1, <1>t, <2>1 DEF AskFallback, Answer, GatewayTypeOK, SlotInv, Engine
  <2>3. LabelIsHonest' /\ OnItsWayToAModel'
    BY <1>1, <1>t DEF AskFallback, Answer, GatewayTypeOK, GatewayIInv, GatewayInv,
                      LabelIsHonest, OnItsWayToAModel
  <2> QED BY <2>1, <2>2, <2>3 DEF GatewayIInv, GatewayInv, SlotInv
<1>2. ASSUME NEW r \in Requests, AskModel(r) PROVE GatewayIInv'
  <2>1. SlotInv'
    BY <1>0, <1>2, AdmitKeepsSlots DEF AskModel
  <2>2. GatewayTypeOK'
    BY <1>2, <1>t, <2>1 DEF AskModel, GatewayTypeOK, SlotInv
  <2>3. \/ stage' = [stage EXCEPT ![r] = "queued"]
        \/ stage' = [stage EXCEPT ![r] = "sending"]
    BY <1>2 DEF AskModel, Admit
  <2>4. LabelIsHonest' /\ OnItsWayToAModel'
    BY <1>2, <1>t, <2>3 DEF AskModel, GatewayTypeOK, GatewayIInv, GatewayInv,
                            LabelIsHonest, OnItsWayToAModel
  <2> QED BY <2>1, <2>2, <2>4 DEF GatewayIInv, GatewayInv, SlotInv
<1>3. ASSUME NEW r \in Requests, stage[r] = "sending", Leave(r, "answered"),
             NEW label \in {"hosted", "deterministic"}, Answer(r, label),
             hosted' = hosted, cooling' \in BOOLEAN, troubles' \in 0 .. MaxTroubles
      PROVE  GatewayIInv'
  <2>1. SlotInv'
    BY <1>0, <1>3, LeaveKeepsSlots
  <2>2. GatewayTypeOK'
    BY <1>3, <1>t, <2>1 DEF Answer, GatewayTypeOK, SlotInv, Engine
  <2>3. /\ stage'[r] = "answered"
        /\ \A s \in Requests \ {r} :
             stage'[s] = stage[s] \/ (stage[s] = "queued" /\ stage'[s] = "sending")
    BY <1>0, <1>3, LeaveMoves
  <2>4. LabelIsHonest' /\ OnItsWayToAModel'
    BY <1>3, <1>t, <2>3 DEF Answer, GatewayTypeOK, GatewayIInv, GatewayInv,
                            LabelIsHonest, OnItsWayToAModel
  <2> QED BY <2>1, <2>2, <2>4 DEF GatewayIInv, GatewayInv, SlotInv
<1>4. ASSUME NEW r \in Requests, ReplyFits(r) PROVE GatewayIInv'
  BY <1>3, <1>4, <1>t DEF ReplyFits, GatewayTypeOK
<1>5. ASSUME NEW r \in Requests, ReplyFails(r) PROVE GatewayIInv'
  BY <1>3, <1>5, <1>t DEF ReplyFails, Trouble, GatewayTypeOK
<1>6. ASSUME NEW r \in Requests, ReplyMismatch(r) PROVE GatewayIInv'
  <2>1. CASE round[r] = MaxRounds /\ Leave(r, "answered") /\ Answer(r, "deterministic")
    BY <1>3, <1>6, <1>t, <2>1 DEF ReplyMismatch, Trouble, GatewayTypeOK
  <2>2. CASE /\ round[r] < MaxRounds
             /\ GoAgain(r)
             /\ round' = [round EXCEPT ![r] = @ + 1]
             /\ sends' = [sends EXCEPT ![r] = 1]
             /\ UNCHANGED engine
    <3>1. SlotInv'
      BY <1>0, <1>6, <2>2, GoAgainKeepsSlots DEF ReplyMismatch
    <3>2. /\ round' \in [Requests -> 1 .. MaxRounds]
          /\ sends' \in [Requests -> 1 .. MaxSends]
      BY <1>t, <2>2, OneIsInRange DEF GatewayTypeOK
    <3>5. GatewayTypeOK'
      BY <1>6, <1>t, <2>2, <3>1, <3>2 DEF ReplyMismatch, Trouble, GatewayTypeOK, SlotInv
    <3>3. /\ stage'[r] \in {"queued", "sending"}
          /\ \A s \in Requests \ {r} :
               stage'[s] = stage[s] \/ (stage[s] = "queued" /\ stage'[s] = "sending")
      BY <1>0, <1>6, <2>2, GoAgainMoves DEF ReplyMismatch
    <3>4. LabelIsHonest' /\ OnItsWayToAModel'
      BY <1>6, <1>t, <2>2, <3>3 DEF ReplyMismatch, GatewayTypeOK, GatewayIInv, GatewayInv,
                                    LabelIsHonest, OnItsWayToAModel
    <3> QED BY <3>1, <3>5, <3>4 DEF GatewayIInv, GatewayInv, SlotInv
  <2> QED BY <1>6, <2>1, <2>2 DEF ReplyMismatch
<1>7. ASSUME NEW r \in Requests, ReplyBusy(r) \/ SendAgain(r) PROVE GatewayIInv'
  <2>1. /\ stage[r] \in {"sending", "pausing"}
        /\ \/ stage' = [stage EXCEPT ![r] = "pausing"]
           \/ stage' = [stage EXCEPT ![r] = "sending"]
        /\ UNCHANGED <<hosted, cooling, round, engine, inFlight, waiting>>
    BY <1>7 DEF ReplyBusy, SendAgain
  <2>2. SlotInv'
    BY <1>0, <2>1, OtherStages DEF SlotInv, Stage
  <2>3. sends' \in [Requests -> 1 .. MaxSends] /\ troubles' \in 0 .. MaxTroubles
    <3>1. CASE ReplyBusy(r)
      <4>1. sends[r] + 1 \in 1 .. MaxSends
        BY <1>t, <3>1 DEF ReplyBusy, GatewayTypeOK
      <4> QED BY <1>t, <3>1, <4>1 DEF ReplyBusy, Trouble, GatewayTypeOK
    <3>2. CASE SendAgain(r)
      BY <1>t, <3>2 DEF SendAgain, GatewayTypeOK
    <3> QED BY <1>7, <3>1, <3>2
  <2>4. GatewayTypeOK'
    BY <1>t, <2>1, <2>2, <2>3 DEF GatewayTypeOK, SlotInv
  <2>5. LabelIsHonest' /\ OnItsWayToAModel'
    BY <1>t, <2>1 DEF GatewayTypeOK, GatewayIInv, GatewayInv, LabelIsHonest,
                      OnItsWayToAModel
  <2> QED BY <2>2, <2>4, <2>5 DEF GatewayIInv, GatewayInv, SlotInv
<1>8. ASSUME NEW r \in Requests, Take(r) PROVE GatewayIInv'
  <2>1. SlotInv'
    BY <1>0, <1>8, OtherStages DEF Take, SlotInv, Stage
  <2>2. GatewayTypeOK'
    BY <1>8, <1>t, <2>1 DEF Take, GatewayTypeOK, SlotInv, Engine
  <2>3. LabelIsHonest' /\ OnItsWayToAModel'
    BY <1>8, <1>t DEF Take, GatewayTypeOK, GatewayIInv, GatewayInv, LabelIsHonest,
                      OnItsWayToAModel
  <2> QED BY <2>1, <2>2, <2>3 DEF GatewayIInv, GatewayInv, SlotInv
<1>9. CASE CoolDown \/ UNCHANGED gatewayVars
  <2>1. /\ UNCHANGED <<hosted, stage, round, sends, engine, inFlight, waiting, troubles>>
        /\ cooling' \in BOOLEAN
    BY <1>9, <1>t DEF CoolDown, gatewayVars, GatewayTypeOK
  <2>2. Holders' = Holders
    BY <2>1 DEF Holders
  <2> QED BY <2>1, <2>2 DEF GatewayIInv, GatewayInv, GatewayTypeOK, SlotsAreCounted,
                            NobodyWaitsForNothing, LabelIsHonest, OnItsWayToAModel
<1>10. CASE Forget
  <2>1. Holders' = {}
    BY <1>10 DEF Forget, Holders
  <2>2. SlotsAreCounted'
    BY <1>10, <2>1, FS_EmptySet DEF Forget, SlotsAreCounted
  <2>3. GatewayTypeOK'
    BY <1>10, <1>t, OneIsInRange, EmptySeq DEF Forget, GatewayTypeOK, Stage, Engine
  <2> QED BY <1>10, <2>2, <2>3 DEF Forget, GatewayIInv, GatewayInv, NobodyWaitsForNothing,
                                   LabelIsHonest, OnItsWayToAModel
<1> QED BY <1>1, <1>2, <1>4, <1>5, <1>6, <1>7, <1>8, <1>9, <1>10
        DEF GatewayNext, Serve, Ask, Reply

\* For any number of callers, any limit and any answers of the model: the slots
\* are counted, no wake-up is lost and every label is honest (gateway.ts:207-230).
THEOREM GatewayIsSound == GatewaySpec => []GatewayInv
<1>1. GatewayInit => GatewayIInv
  BY GatewayStarts
<1>2. GatewayIInv /\ [GatewayNext]_gatewayVars => GatewayIInv'
  BY GatewayStepKeeps
<1>3. GatewayIInv => GatewayInv
  BY DEF GatewayIInv
<1> QED BY <1>1, <1>2, <1>3, PTL DEF GatewaySpec

-----------------------------------------------------------------------------
(* Plans.                                                                  *)

\* Every dependency is another task of the plan.
Closed(plan) ==
  \A t \in Range(plan) : t.dependsOn \subseteq KeysOf(plan) \ {t.key}

LEMMA TemplatesAreClosed ==
  \A t \in TemplateSet : KeysOf(t.tasks) # {} /\ Closed(t.tasks)
<1> USE DEF Closed, KeysOf, Range, Template, Task
<1>1. KeysOf(RevenueInvestigation.tasks) # {} /\ Closed(RevenueInvestigation.tasks)
  BY DEF RevenueInvestigation
<1>2. KeysOf(StockoutResponse.tasks) # {} /\ Closed(StockoutResponse.tasks)
  BY DEF StockoutResponse, Replenishment
<1>3. KeysOf(CampaignReview.tasks) # {} /\ Closed(CampaignReview.tasks)
  BY DEF CampaignReview
<1>4. KeysOf(CompetitorResponse.tasks) # {} /\ Closed(CompetitorResponse.tasks)
  BY DEF CompetitorResponse
<1>5. KeysOf(ServiceRecovery.tasks) # {} /\ Closed(ServiceRecovery.tasks)
  BY DEF ServiceRecovery
<1>6. KeysOf(SupplyDisruption.tasks) # {} /\ Closed(SupplyDisruption.tasks)
  BY DEF SupplyDisruption, Replenishment
<1>7. KeysOf(FulfilmentRun.tasks) # {} /\ Closed(FulfilmentRun.tasks)
  BY DEF FulfilmentRun
<1>8. KeysOf(FullBusinessReview.tasks) # {} /\ Closed(FullBusinessReview.tasks)
  BY DEF FullBusinessReview
<1> HIDE DEF Closed, KeysOf, Template, Task
<1>9. TemplateSet = {RevenueInvestigation, StockoutResponse, CampaignReview,
                     CompetitorResponse, ServiceRecovery, SupplyDisruption,
                     FulfilmentRun, FullBusinessReview}
  BY DEF TemplateSet, PlanTemplates
<1> QED BY <1>1, <1>2, <1>3, <1>4, <1>5, <1>6, <1>7, <1>8, <1>9

\* A plan that passed the checks, or a template, is closed and not empty.
LEMMA AcceptedIsClosed ==
  ASSUME NEW p \in Proposals, Accepted(p)
  PROVE  KeysOf(p) # {} /\ Closed(p)
<1>1. Len(p) \in 1 .. MaxTasks /\ p \in Seq(Range(p))
  BY OrchestratorAssumption DEF SchemaValid
<1>2. 1 \in DOMAIN p
  BY <1>1
<1>3. KeysOf(p) # {}
  BY <1>2 DEF KeysOf, Range
<1> QED BY <1>3 DEF Accepted, Closed

LEMMA TaskOfKey ==
  ASSUME NEW plan, NEW k \in KeysOf(plan)
  PROVE  TaskOf(plan, k) \in Range(plan) /\ TaskOf(plan, k).key = k
BY DEF KeysOf, TaskOf

LEMMA DependenciesOfClosed ==
  ASSUME NEW plan, Closed(plan), NEW k \in KeysOf(plan)
  PROVE  TaskOf(plan, k).dependsOn \subseteq KeysOf(plan) \ {k}
BY TaskOfKey DEF Closed

\* What a search of the templates returns is one of them.
LEMMA FirstIsOneOfThem ==
  ASSUME NEW I \in SUBSET (1 .. 8), I # {}
  PROVE  Min(I) \in I
<1>1. \E x \in I : \A y \in I : x <= y
  <2>1. SUFFICES ASSUME \A x \in I : \E y \in I : y < x PROVE FALSE
    OBVIOUS
  <2>2. 1 \notin I /\ 2 \notin I
    BY <2>1
  <2>3. 3 \notin I /\ 4 \notin I
    BY <2>1, <2>2
  <2>4. 5 \notin I /\ 6 \notin I
    BY <2>1, <2>2, <2>3
  <2>5. 7 \notin I /\ 8 \notin I
    BY <2>1, <2>2, <2>3, <2>4
  <2>6. \A x \in 1 .. 8 : x \in {1, 2, 3, 4, 5, 6, 7, 8}
    OBVIOUS
  <2>7. PICK x \in I : x \in {1, 2, 3, 4, 5, 6, 7, 8}
    BY <2>6
  <2> QED BY <2>2, <2>3, <2>4, <2>5, <2>7
<1> QED BY <1>1 DEF Min

LEMMA SearchFindsATemplate ==
  /\ \A e \in Triggers : TemplateForEvent(e) \in TemplateSet
  /\ \A m \in Metrics : TemplateForGoal(m) \in TemplateSet
  /\ \A q \in Questions : TemplateForIntent(q) \in TemplateSet
<1>1. /\ Len(PlanTemplates) = 8
      /\ \A i \in 1 .. 8 : PlanTemplates[i] \in TemplateSet
      /\ FullBusinessReview \in TemplateSet
  BY DEF PlanTemplates, TemplateSet, Range
<1>2. ASSUME NEW e PROVE TemplateForEvent(e) \in TemplateSet
  <2> DEFINE I == {i \in 1 .. 8 : e \in PlanTemplates[i].triggers}
  <2>1. I # {} => Min(I) \in 1 .. 8
    BY FirstIsOneOfThem
  <2> QED BY <1>1, <2>1 DEF TemplateForEvent, FirstOrDefault, FirstWith, SelectInSeq
<1>3. ASSUME NEW m PROVE TemplateForGoal(m) \in TemplateSet
  <2> DEFINE I == {i \in 1 .. 8 : m \in PlanTemplates[i].metrics}
  <2>1. I # {} => Min(I) \in 1 .. 8
    BY FirstIsOneOfThem
  <2> QED BY <1>1, <2>1 DEF TemplateForGoal, FirstOrDefault, FirstWith, SelectInSeq
<1>4. ASSUME NEW q PROVE TemplateForIntent(q) \in TemplateSet
  <2> DEFINE Hit(t) == Max({Len(i) : i \in t.intents \cap q} \cup {0})
             I == {i \in 1 .. 8 : /\ Hit(PlanTemplates[i]) > 0
                                  /\ \A u \in TemplateSet : Hit(u) <= Hit(PlanTemplates[i])}
  <2>1. I # {} => Min(I) \in 1 .. 8
    BY FirstIsOneOfThem
  <2> QED BY <1>1, <2>1 DEF TemplateForIntent, FirstOrDefault, FirstWith, SelectInSeq
<1> QED BY <1>2, <1>3, <1>4

LEMMA NoTasksNoKeys == KeysOf(<<>>) = {}
BY DEF KeysOf, Range

-----------------------------------------------------------------------------
(* The invariant.                                                          *)

Active == {"gathering", "reasoning", "backoff"}
Started == Active \cup {"ok", "failed", "threw"}

\* Where a task stands, against its row, its attempts and what it depends on.
TaskInv(k) ==
  /\ at[k] = "waiting" => attempts[k] = 0
  /\ at[k] \in Active \cup {"ok"} => attempts[k] >= 1
  /\ at[k] = "backoff" => attempts[k] < MaxAttempts
  /\ at[k] = "ok" => row[k] = "COMPLETED"
  /\ at[k] = "failed" => attempts[k] = MaxAttempts /\ row[k] = "FAILED"
  /\ at[k] \in Started \/ attempts[k] > 0 => DependsOn(k) \subseteq completed

\* What an end is.
EndInv(k) ==
  k \in finished =>
    /\ at[k] \in {"ok", "failed", "waiting"}
    /\ at[k] = "ok" <=> k \in completed
    /\ at[k] = "waiting" => /\ row[k] = "BLOCKED"
                            /\ finished = Keys
                            /\ ~(DependsOn(k) \subseteq completed)

WalkTypes ==
  /\ pc \in Pc
  /\ fallback \in {t.tasks : t \in TemplateSet}
  /\ tasks \in Proposals \cup {fallback, <<>>}
  /\ row \in [Keys -> TaskStatus]
  /\ attempts \in [Keys -> 0 .. MaxAttempts]
  /\ at \in [Keys -> At]
  /\ advice = [k \in Keys |-> advice[k]]
  /\ completed \subseteq finished /\ finished \subseteq Keys
  /\ planRow \in {"ABSENT", "RUNNING", "COMPLETED", "FAILED"}

\* What is known where runPlan stands.
StageInv ==
  /\ pc \in {"asking", "planning"} => tasks = <<>>
  /\ pc \in {"asking", "planning", "persisting"} =>
       /\ finished = {}
       /\ planRow = "ABSENT"
       /\ \A k \in Keys : at[k] = "waiting"
  /\ pc \in {"persisting", "walking", "waiting", "attempting", "closed"} => Keys # {}
  /\ pc \in {"walking", "waiting"} \/ (\E k \in Keys : at[k] \in Started) => Walked
  /\ pc = "walking" => \A k \in Keys \ finished : at[k] = "waiting"
  /\ pc \in {"attempting", "closed"} => finished = Keys
  /\ planRow \in {"COMPLETED", "FAILED"} => finished = Keys /\ planRow = Verdict
  /\ tasks # <<>> => Closed(tasks)

WalkInv ==
  /\ WalkTypes
  /\ \A k \in Keys : TaskInv(k) /\ EndInv(k)
  /\ StageInv
  /\ PlannedByIsHonest

LEMMA PlanStarts ==
  ASSUME PlanInit
  PROVE  GatewayIInv /\ WalkInv
<1>1. GatewayIInv
  BY GatewayStarts DEF PlanInit
<1>2. Keys = {}
  BY NoTasksNoKeys DEF PlanInit, Keys
<1>3. fallback \in {t.tasks : t \in TemplateSet}
  BY SearchFindsATemplate DEF PlanInit
<1>4. WalkTypes
  BY <1>2, <1>3 DEF PlanInit, WalkTypes, Pc
<1> QED BY <1>1, <1>2, <1>4 DEF PlanInit, WalkInv, StageInv, PlannedByIsHonest

-----------------------------------------------------------------------------
(* Every step of the run is a step of the gateway, or none.                *)

LEMMA WalkedKeysAreRequests ==
  ASSUME WalkInv, Walked
  PROVE  Keys \subseteq Requests \ {"planner"}
<1>1. CASE tasks = <<>>
  BY <1>1, NoTasksNoKeys DEF Keys
<1>2. CASE tasks # <<>>
  BY <1>2, OrchestratorAssumption DEF WalkInv, WalkTypes, Walked, Keys
<1> QED BY <1>1, <1>2

LEMMA StartedIsARequest ==
  ASSUME WalkInv, NEW k \in Keys, at[k] \in Started
  PROVE  k \in Requests
BY WalkedKeysAreRequests DEF WalkInv, StageInv

LEMMA StepsOfTheGateway ==
  ASSUME WalkInv, [PlanNext]_orchestratorVars
  PROVE  [GatewayNext]_gatewayVars
<1> USE DEF GatewayNext
<1>1. CASE UNCHANGED orchestratorVars
  BY <1>1 DEF orchestratorVars
<1>2. CASE GatewayStep(Serve)
  BY <1>2 DEF GatewayStep
<1>3. CASE Walk
  <2>1. "planner" \in Requests
    BY OrchestratorAssumption
  <2>2. AskPlanner => Ask("planner")
    BY DEF AskPlanner
  <2>3. ReadPlan => Take("planner")
    BY DEF ReadPlan
  <2> QED BY <1>3, <2>1, <2>2, <2>3 DEF Walk, Persist, StartWave, SettleWave, RejectWave,
             BlockRest, RankRecommendations, Attempt, Close
<1>4. CASE WalkCut
  BY <1>4 DEF WalkCut, PersistCut, StartWaveCut, BlockRestCut, AttemptCut, CloseCut
<1>5. ASSUME NEW k \in Keys, Execute(k) \/ ExecuteBadly(k)
      PROVE  [GatewayNext]_gatewayVars
  <2>1. CASE UNCHANGED gatewayVars
    BY <2>1
  <2>2. CASE at[k] \in {"gathering", "reasoning"} /\ (Ask(k) \/ Take(k))
    BY <2>2, StartedIsARequest DEF Started, Active
  <2>3. Execute(k) => UNCHANGED gatewayVars \/ (at[k] \in {"gathering", "reasoning"} /\ (Ask(k) \/ Take(k)))
    BY DEF Execute, Consult, Conclude, Retry
  <2>4. ExecuteBadly(k) => UNCHANGED gatewayVars \/ (at[k] \in {"gathering", "reasoning"} /\ Take(k))
    BY DEF ExecuteBadly, GatherFails, VerifyFails, ConcludeCut, FailCut, RetryCut
  <2> QED BY <1>5, <2>1, <2>2, <2>3, <2>4
<1>6. CASE Crash
  BY <1>6 DEF Crash
<1> QED BY <1>1, <1>2, <1>3, <1>4, <1>5, <1>6 DEF PlanNext

LEMMA GatewayKeepsTheModel ==
  ASSUME [GatewayNext]_gatewayVars
  PROVE  hosted' = hosted
BY DEF gatewayVars, GatewayNext, Serve, Ask, Reply, AskFallback, AskModel, ReplyFits,
       ReplyMismatch, ReplyBusy, SendAgain, ReplyFails, CoolDown, Take, Forget

-----------------------------------------------------------------------------
(* A turn of executeTask moves one task that has no end yet.               *)

LEMMA ActiveIsOpen ==
  ASSUME WalkInv, NEW k \in Keys, at[k] \in Active
  PROVE  /\ k \notin finished
         /\ pc \notin {"asking", "planning", "persisting", "walking", "attempting", "closed"}
         /\ planRow \notin {"COMPLETED", "FAILED"}
         /\ Walked
BY DEF WalkInv, EndInv, StageInv, Active, Started

\* Task k moves to a, with row r and n attempts, and nothing else of the walk moves.
Moves(k, a, r, n) ==
  /\ UNCHANGED <<pc, planVars, planRow, ends>>
  /\ at' = [at EXCEPT ![k] = a]
  /\ row' = [row EXCEPT ![k] = r]
  /\ attempts' = [attempts EXCEPT ![k] = n]
  /\ advice' = [j \in Keys |-> advice'[j]]

\* Where a task may move to.
Proper(a, r, n) ==
  /\ a \in Started /\ r \in TaskStatus /\ n \in 0 .. MaxAttempts
  /\ a \in Active \cup {"ok"} => n >= 1
  /\ a = "backoff" => n < MaxAttempts
  /\ a = "ok" => r = "COMPLETED"
  /\ a = "failed" => n = MaxAttempts /\ r = "FAILED"

LEMMA TaskStepKeeps ==
  ASSUME WalkInv, hosted' = hosted, NEW k \in Keys, at[k] \in Active,
         NEW a, NEW r, NEW n, Moves(k, a, r, n), Proper(a, r, n)
  PROVE  WalkInv'
<1> USE DEF Keys, DependsOn, planVars, ends, Moves, Proper
<1>1. /\ k \notin finished
      /\ pc \notin {"asking", "planning", "persisting", "walking", "attempting", "closed"}
      /\ planRow \notin {"COMPLETED", "FAILED"}
      /\ Walked
  BY ActiveIsOpen
<1>2. WalkTypes'
  BY DEF WalkInv, WalkTypes, At, Started, Active
<1>3. ASSUME NEW j \in Keys PROVE TaskInv(j)' /\ EndInv(j)'
  <2>1. TaskInv(j) /\ EndInv(j) /\ TaskInv(k)
    BY DEF WalkInv
  <2>2. CASE j = k
    <3>1. at'[k] = a /\ row'[k] = r /\ attempts'[k] = n
      BY DEF WalkInv, WalkTypes
    <3>2. DependsOn(k) \subseteq completed
      BY <2>1 DEF TaskInv, Started
    <3> QED BY <1>1, <2>2, <3>1, <3>2 DEF TaskInv, EndInv, Started, Active
  <2>3. CASE j # k
    <3>1. at'[j] = at[j] /\ row'[j] = row[j] /\ attempts'[j] = attempts[j]
      BY <2>3 DEF WalkInv, WalkTypes
    <3> QED BY <2>1, <3>1 DEF TaskInv, EndInv
  <2> QED BY <2>2, <2>3
<1>4. StageInv'
  BY <1>1 DEF WalkInv, StageInv, Walked
<1>5. PlannedByIsHonest'
  BY DEF WalkInv, PlannedByIsHonest
<1> QED BY <1>2, <1>3, <1>4, <1>5 DEF WalkInv

\* What is known of a task that is about to move.
LEMMA ActiveFacts ==
  ASSUME WalkInv, NEW k \in Keys, at[k] \in Active
  PROVE  /\ attempts[k] \in 1 .. MaxAttempts
         /\ row[k] \in TaskStatus
         /\ attempts = [attempts EXCEPT ![k] = attempts[k]]
         /\ row = [row EXCEPT ![k] = row[k]]
         /\ advice = [j \in Keys |-> advice[j]]
BY DEF WalkInv, WalkTypes, TaskInv

LEMMA FailKeeps ==
  ASSUME WalkInv, hosted' = hosted, NEW k \in Keys, at[k] \in Active,
         NEW left \in TaskStatus, Fail(k, left),
         UNCHANGED <<pc, planVars, planRow, attempts, advice, ends>>
  PROVE  WalkInv'
<1>0. attempts[k] \in 1 .. MaxAttempts /\ MaxAttempts \in Nat
  BY ActiveFacts, OrchestratorAssumption
<1>1. CASE attempts[k] < MaxAttempts
  <2>1. Moves(k, "backoff", left, attempts[k])
    BY <1>0, <1>1, ActiveFacts DEF Fail, Moves, Keys, planVars
  <2>2. Proper("backoff", left, attempts[k])
    BY <1>0, <1>1 DEF Proper, Started, Active
  <2> QED BY <2>1, <2>2, TaskStepKeeps
<1>2. CASE attempts[k] >= MaxAttempts
  <2>1. Moves(k, "failed", "FAILED", attempts[k])
    BY <1>0, <1>2, ActiveFacts DEF Fail, Moves, Keys, planVars
  <2>2. Proper("failed", "FAILED", attempts[k])
    BY <1>0, <1>2 DEF Proper, Started, Active, TaskStatus, Settled
  <2> QED BY <2>1, <2>2, TaskStepKeeps
<1> QED BY <1>0, <1>1, <1>2

LEMMA ExecuteKeeps ==
  ASSUME WalkInv, hosted' = hosted, NEW k \in Keys, Execute(k)
  PROVE  WalkInv'
<1>0. at[k] \in Active
  BY DEF Execute, Consult, Conclude, Retry, Active
<1>1. CASE Consult(k)
  <2>1. Moves(k, "reasoning", row[k], attempts[k])
    BY <1>0, <1>1, ActiveFacts DEF Consult, Moves, rows, Keys, planVars
  <2>2. Proper("reasoning", row[k], attempts[k])
    BY <1>0, ActiveFacts DEF Proper, Started, Active
  <2> QED BY <1>0, <2>1, <2>2, TaskStepKeeps
<1>2. CASE Conclude(k)
  <2>1. PICK recommended \in Recommends(k) : advice' = [advice EXCEPT ![k] = recommended]
    BY <1>2 DEF Conclude
  <2>2. advice' = [j \in Keys |-> advice'[j]]
    BY <1>0, <2>1, ActiveFacts
  <2>3. Moves(k, "ok", "COMPLETED", attempts[k])
    BY <1>0, <1>2, <2>2, ActiveFacts DEF Conclude, Moves
  <2>4. Proper("ok", "COMPLETED", attempts[k])
    BY <1>0, ActiveFacts DEF Proper, Started, Active, TaskStatus, Settled
  <2> QED BY <1>0, <2>3, <2>4, TaskStepKeeps
<1>3. CASE Retry(k)
  <2>1. attempts[k] + 1 \in 1 .. MaxAttempts
    <3>1. attempts[k] < MaxAttempts
      BY <1>3 DEF Retry, WalkInv, TaskInv
    <3> QED BY <1>0, <3>1, ActiveFacts, OrchestratorAssumption
  <2>2. Moves(k, "gathering", "RUNNING", attempts[k] + 1)
    <3>1. at' = [at EXCEPT ![k] = "gathering"]
      BY <1>3 DEF Retry, Begin, WalkInv, WalkTypes
    <3>2. row' = [row EXCEPT ![k] = "RUNNING"]
      BY <1>3 DEF Retry, Begin, WalkInv, WalkTypes
    <3>3. attempts' = [attempts EXCEPT ![k] = attempts[k] + 1]
      BY <1>3 DEF Retry, Begin, WalkInv, WalkTypes
    <3> QED BY <1>0, <1>3, <3>1, <3>2, <3>3, ActiveFacts DEF Retry, Moves, Keys, planVars
  <2>3. Proper("gathering", "RUNNING", attempts[k] + 1)
    BY <2>1 DEF Proper, Started, Active, TaskStatus
  <2> QED BY <1>0, <2>2, <2>3, TaskStepKeeps
<1> QED BY <1>1, <1>2, <1>3 DEF Execute

LEMMA ExecuteBadlyKeeps ==
  ASSUME WalkInv, hosted' = hosted, NEW k \in Keys, ExecuteBadly(k)
  PROVE  WalkInv'
<1>0. at[k] \in Active
  BY DEF ExecuteBadly, GatherFails, VerifyFails, ConcludeCut, FailCut, RetryCut, Active
<1>1. CASE GatherFails(k)
  BY <1>0, <1>1, ActiveFacts, FailKeeps DEF GatherFails
<1>2. CASE VerifyFails(k)
  <2>1. "VERIFYING" \in TaskStatus
    BY DEF TaskStatus
  <2> QED BY <1>0, <1>2, <2>1, FailKeeps DEF VerifyFails
<1>3. CASE ConcludeCut(k)
  <2>1. PICK left \in {row[k], "VERIFYING", "COMPLETED"} : Fail(k, left)
    BY <1>3 DEF ConcludeCut
  <2>2. left \in TaskStatus
    BY <1>0, <2>1, ActiveFacts DEF TaskStatus, Settled
  <2> QED BY <1>0, <1>3, <2>1, <2>2, FailKeeps DEF ConcludeCut
<1>4. CASE FailCut(k)
  <2>1. PICK left \in {row[k], "FAILED"} : row' = [row EXCEPT ![k] = left]
    BY <1>4 DEF FailCut
  <2>2. Moves(k, "threw", left, attempts[k])
    BY <1>0, <1>4, <2>1, ActiveFacts DEF FailCut, Moves, Keys, planVars
  <2>3. Proper("threw", left, attempts[k])
    BY <1>0, <2>1, ActiveFacts DEF Proper, Started, Active, TaskStatus, Settled
  <2> QED BY <1>0, <2>2, <2>3, TaskStepKeeps
<1>5. CASE RetryCut(k)
  <2>1. PICK left \in {row[k], "PLANNING", "RUNNING"} :
          row' = [j \in Keys |-> IF j = k THEN left ELSE IF j \in {k} THEN "RUNNING" ELSE row[j]]
    BY <1>5 DEF RetryCut, BeginCut
  <2>2. Moves(k, "threw", left, attempts[k])
    <3>1. at' = [at EXCEPT ![k] = "threw"]
      BY <1>5 DEF RetryCut, BeginCut, WalkInv, WalkTypes
    <3>2. row' = [row EXCEPT ![k] = left]
      BY <2>1 DEF WalkInv, WalkTypes
    <3>3. attempts' = [attempts EXCEPT ![k] = attempts[k]]
      BY <1>5 DEF RetryCut, BeginCut, WalkInv, WalkTypes
    <3> QED BY <1>0, <1>5, <3>1, <3>2, <3>3, ActiveFacts DEF RetryCut, Moves, Keys, planVars
  <2>3. Proper("threw", left, attempts[k])
    BY <1>0, <2>1, ActiveFacts DEF Proper, Started, Active, TaskStatus, Settled
  <2> QED BY <1>0, <2>2, <2>3, TaskStepKeeps
<1> QED BY <1>1, <1>2, <1>3, <1>4, <1>5 DEF ExecuteBadly

-----------------------------------------------------------------------------
(* A turn of runPlan.                                                      *)

\* A plan is adopted: nothing has started, and it is closed.
LEMMA AdoptKeeps ==
  ASSUME WalkInv, hosted' = hosted, pc = "planning", pc' = "persisting",
         NEW plan, NEW by, Adopt(plan, by), fallback' = fallback,
         UNCHANGED <<planRow, ends>>,
         KeysOf(plan) # {}, Closed(plan),
         \/ by = "template" /\ plan = fallback
         \/ by = "model" /\ plan \in Proposals /\ hosted
  PROVE  WalkInv'
<1> USE DEF Keys, DependsOn, ends
<1>1. finished = {} /\ completed = {} /\ planRow = "ABSENT"
  BY DEF WalkInv, StageInv, WalkTypes
<1>2. /\ tasks' = plan /\ plannedBy' = by
      /\ row' = [k \in KeysOf(plan) |-> "ABSENT"]
      /\ attempts' = [k \in KeysOf(plan) |-> 0]
      /\ at' = [k \in KeysOf(plan) |-> "waiting"]
      /\ advice' = [k \in KeysOf(plan) |-> <<>>]
  BY DEF Adopt
<1>3. 0 \in 0 .. MaxAttempts
  BY OrchestratorAssumption
<1>4. WalkTypes'
  BY <1>1, <1>2, <1>3 DEF WalkInv, WalkTypes, Pc, At, TaskStatus
<1>5. \A k \in Keys' : TaskInv(k)' /\ EndInv(k)'
  BY <1>1, <1>2 DEF TaskInv, EndInv, Started, Active
<1>6. StageInv'
  BY <1>1, <1>2 DEF StageInv, Started, Active
<1>7. PlannedByIsHonest'
  BY <1>2 DEF PlannedByIsHonest
<1> QED BY <1>4, <1>5, <1>6, <1>7 DEF WalkInv

LEMMA ReadPlanKeeps ==
  ASSUME WalkInv, GatewayIInv, hosted' = hosted, ReadPlan
  PROVE  WalkInv'
<1>1. /\ pc = "planning" /\ pc' = "persisting" /\ fallback' = fallback
      /\ UNCHANGED <<planRow, ends>>
      /\ Choose
  BY DEF ReadPlan, ends
<1>2. KeysOf(fallback) # {} /\ Closed(fallback)
  BY TemplatesAreClosed DEF WalkInv, WalkTypes
<1>3. engine["planner"] = "hosted" => hosted
  BY OrchestratorAssumption DEF GatewayIInv, GatewayInv, LabelIsHonest
<1>4. CASE Adopt(fallback, "template")
  BY <1>1, <1>2, <1>4, AdoptKeeps
<1>5. ASSUME NEW proposal \in Proposals, Accepted(proposal), Adopt(proposal, "model"),
             engine["planner"] = "hosted"
      PROVE  WalkInv'
  <2>1. KeysOf(proposal) # {} /\ Closed(proposal)
    BY <1>5, AcceptedIsClosed
  <2>2. hosted
    BY <1>3, <1>5
  <2> QED BY <1>1, <1>5, <2>1, <2>2, AdoptKeeps
<1> QED BY <1>1, <1>4, <1>5 DEF Choose

\* The plan's rows are written, or some of them.
LEMMA PersistKeeps ==
  ASSUME WalkInv, hosted' = hosted, Persist \/ PersistCut
  PROVE  WalkInv'
<1> USE DEF Keys, DependsOn, planVars, walkVars, ends, PersistCut, Persist
<1>1. /\ finished = {} /\ completed = {} /\ pc = "persisting" /\ Keys # {} /\ Walked
      /\ planRow = "ABSENT"
      /\ \A k \in Keys : at[k] = "waiting"
  BY DEF WalkInv, StageInv, WalkTypes
<1>2. /\ pc' \in {"walking", "rejected"}
      /\ planRow' \in {"ABSENT", "RUNNING"}
      /\ UNCHANGED <<fallback, tasks, plannedBy, attempts, at, advice, completed, finished>>
  BY <1>1
<1>3. row' \in [Keys -> TaskStatus]
  <2>1. \/ row' = row
        \/ row' = [k \in Keys |-> "PENDING"]
        \/ \E n \in 0 .. Len(tasks) :
             row' = [k \in Keys |-> IF \E i \in 1 .. n : tasks[i].key = k
                                   THEN "PENDING" ELSE "ABSENT"]
    OBVIOUS
  <2> HIDE DEF Keys
  <2> QED BY <2>1 DEF WalkInv, WalkTypes, TaskStatus
<1> HIDE DEF Persist, PersistCut
<1>4. WalkTypes'
  <2>1. WalkTypes
    BY DEF WalkInv
  <2> QED BY <1>2, <1>3, <2>1 DEF WalkTypes, Pc, Ended
<1>5. \A k \in Keys : TaskInv(k)' /\ EndInv(k)'
  BY <1>1, <1>2 DEF WalkInv, TaskInv, EndInv, Started, Active
<1>6. StageInv'
  BY <1>1, <1>2 DEF WalkInv, StageInv, Walked
<1>7. PlannedByIsHonest'
  BY <1>2 DEF WalkInv, PlannedByIsHonest
<1> QED BY <1>2, <1>4, <1>5, <1>6, <1>7 DEF WalkInv

\* A wave starts, perhaps with one task whose first statements throw.
LEMMA StartWaveKeeps ==
  ASSUME WalkInv, hosted' = hosted, StartWave \/ StartWaveCut
  PROVE  WalkInv'
<1> USE DEF Keys, DependsOn, planVars, ends
<1>1. /\ pc = "walking" /\ pc' = "waiting" /\ Walked /\ Keys # {}
      /\ UNCHANGED <<planVars, planRow, advice, ends>>
      /\ planRow \notin {"COMPLETED", "FAILED"}
  <2>1. /\ pc = "walking" /\ pc' = "waiting"
        /\ UNCHANGED <<planVars, planRow, advice, ends>>
        /\ Ready # {}
    BY DEF StartWave, StartWaveCut
  <2>2. finished # Keys
    BY <2>1 DEF Ready
  <2> QED BY <2>1, <2>2 DEF WalkInv, StageInv
<1>2. ASSUME NEW j \in Keys
      PROVE  /\ row'[j] \in TaskStatus /\ at'[j] \in At /\ attempts'[j] \in 0 .. MaxAttempts
             /\ \/ /\ j \in Ready
                   /\ at'[j] = "gathering" /\ attempts'[j] = 1
                \/ /\ j \in Ready
                   /\ at'[j] = "threw" /\ attempts'[j] = 0
                \/ at'[j] = at[j] /\ row'[j] = row[j] /\ attempts'[j] = attempts[j]
  <2>1. /\ row[j] \in TaskStatus /\ at[j] \in At /\ attempts[j] \in 0 .. MaxAttempts
        /\ {"PLANNING", "RUNNING"} \subseteq TaskStatus
        /\ {"gathering", "threw"} \subseteq At
        /\ 1 \in 0 .. MaxAttempts
    BY OrchestratorAssumption DEF WalkInv, WalkTypes, TaskStatus, At
  <2>2. j \in Ready => attempts[j] = 0
    BY <1>1 DEF Ready, WalkInv, StageInv, TaskInv
  <2>3. CASE StartWave
    BY <2>1, <2>2, <2>3 DEF StartWave, Begin
  <2>4. CASE StartWaveCut
    <3>1. PICK k \in Ready : BeginCut(Ready, k)
      BY <2>4 DEF StartWaveCut
    <3>2. PICK left \in {row[k], "PLANNING", "RUNNING"} :
            row' = [i \in Keys |-> IF i = k THEN left
                                   ELSE IF i \in Ready THEN "RUNNING" ELSE row[i]]
      BY <3>1 DEF BeginCut
    <3>3. row[k] \in TaskStatus
      BY <3>1 DEF Ready, WalkInv, WalkTypes
    <3> QED BY <2>1, <2>2, <3>1, <3>2, <3>3 DEF BeginCut
  <2> QED BY <2>3, <2>4
<1>3. /\ row' = [j \in Keys |-> row'[j]] /\ at' = [j \in Keys |-> at'[j]]
      /\ attempts' = [j \in Keys |-> attempts'[j]]
  BY DEF StartWave, StartWaveCut, Begin, BeginCut
<1>4. WalkTypes'
  <2>1. row' \in [Keys -> TaskStatus]
    BY <1>2, <1>3
  <2>2. at' \in [Keys -> At]
    BY <1>2, <1>3
  <2>3. attempts' \in [Keys -> 0 .. MaxAttempts]
    BY <1>2, <1>3
  <2> QED BY <1>1, <2>1, <2>2, <2>3 DEF WalkInv, WalkTypes, Pc
<1>5. ASSUME NEW j \in Keys PROVE TaskInv(j)' /\ EndInv(j)'
  <2>1. TaskInv(j) /\ EndInv(j)
    BY DEF WalkInv
  <2>2. CASE j \in Ready /\ \/ at'[j] = "gathering" /\ attempts'[j] = 1
                            \/ at'[j] = "threw" /\ attempts'[j] = 0
    BY <1>1, <2>2 DEF Ready, TaskInv, EndInv, Started, Active
  <2>3. CASE at'[j] = at[j] /\ row'[j] = row[j] /\ attempts'[j] = attempts[j]
    BY <1>1, <2>1, <2>3 DEF TaskInv, EndInv
  <2> QED BY <1>2, <2>2, <2>3
<1>6. StageInv'
  BY <1>1 DEF WalkInv, StageInv, Walked
<1>7. PlannedByIsHonest'
  BY <1>1 DEF WalkInv, PlannedByIsHonest
<1> QED BY <1>1, <1>4, <1>5, <1>6, <1>7 DEF WalkInv

\* Every task of the wave has an end.
LEMMA SettleWaveKeeps ==
  ASSUME WalkInv, hosted' = hosted, SettleWave
  PROVE  WalkInv'
<1> USE DEF Keys, DependsOn, planVars, rows
<1>1. /\ pc = "waiting" /\ pc' = "walking" /\ Walked /\ Keys # {}
      /\ UNCHANGED <<tasks, fallback, plannedBy, planRow, row, attempts, at, advice>>
      /\ \A k \in Wave : at[k] \in {"ok", "failed"}
      /\ finished' = finished \cup Wave
      /\ completed' = completed \cup {k \in Wave : at[k] = "ok"}
  BY DEF SettleWave, WalkInv, StageInv
<1>2. /\ Wave \subseteq Keys \ finished
      /\ \A k \in Keys \ finished : at[k] # "waiting" => k \in Wave
  BY DEF Wave
<1>3. completed' \subseteq finished' /\ finished' \subseteq Keys /\ completed \subseteq completed'
  BY <1>1, <1>2 DEF WalkInv, WalkTypes
<1>4. WalkTypes'
  <2>1. WalkTypes
    BY DEF WalkInv
  <2> QED BY <1>1, <1>3, <2>1 DEF WalkTypes, Pc, Ended
<1>5. ASSUME NEW k \in Keys PROVE TaskInv(k)' /\ EndInv(k)'
  <2>1. TaskInv(k) /\ EndInv(k) /\ completed \subseteq finished
    BY DEF WalkInv, WalkTypes
  <2>2. TaskInv(k)'
    BY <1>1, <1>3, <2>1 DEF TaskInv
  <2>3. CASE k \in Wave
    BY <1>1, <1>2, <2>1, <2>2, <2>3 DEF EndInv
  <2>4. CASE k \notin Wave
    <3>1. finished = Keys => Wave = {}
      BY <1>2
    <3>2. finished = Keys => completed' = completed /\ finished' = Keys
      BY <1>1, <3>1
    <3> QED BY <1>1, <2>1, <2>2, <2>4, <3>2 DEF EndInv
  <2> QED BY <2>2, <2>3, <2>4
<1>6. StageInv'
  <2>1. finished = Keys => finished' = Keys
    BY <1>1, <1>2
  <2>2. Verdict' = Verdict
    BY <1>1 DEF Verdict
  <2>3. StageInv
    BY DEF WalkInv
  <2> QED BY <1>1, <1>2, <2>1, <2>2, <2>3 DEF StageInv, Walked
<1>7. PlannedByIsHonest'
  BY <1>1 DEF WalkInv, PlannedByIsHonest
<1> QED BY <1>1, <1>4, <1>5, <1>6, <1>7 DEF WalkInv

\* What is left is blocked, each behind a dependency that did not complete.
LEMMA BlockRestKeeps ==
  ASSUME WalkInv, hosted' = hosted, BlockRest
  PROVE  WalkInv'
<1> USE DEF Keys, DependsOn, planVars
<1>1. /\ pc = "walking" /\ pc' = pc /\ Walked /\ Keys # {}
      /\ UNCHANGED <<tasks, fallback, plannedBy, planRow, attempts, at, advice, completed>>
      /\ finished # Keys /\ Ready = {}
      /\ row' = [k \in Keys |-> IF k \in finished THEN row[k] ELSE "BLOCKED"]
      /\ finished' = Keys
  BY DEF BlockRest, WalkInv, StageInv
<1>2. \A k \in Keys \ finished : at[k] = "waiting" /\ ~(DependsOn(k) \subseteq completed)
  BY <1>1 DEF Ready, WalkInv, StageInv
<1>3. WalkTypes'
  <2>1. WalkTypes
    BY DEF WalkInv
  <2>2. "BLOCKED" \in TaskStatus
    BY DEF TaskStatus, Settled
  <2>3. row' \in [Keys -> TaskStatus]
    BY <1>1, <2>1, <2>2 DEF WalkTypes
  <2> QED BY <1>1, <2>1, <2>3 DEF WalkTypes
<1>4. ASSUME NEW k \in Keys PROVE TaskInv(k)' /\ EndInv(k)'
  <2>1. TaskInv(k) /\ EndInv(k) /\ completed \subseteq finished
    BY DEF WalkInv, WalkTypes
  <2>2. CASE k \in finished
    BY <1>1, <2>1, <2>2 DEF TaskInv, EndInv
  <2>3. CASE k \notin finished
    BY <1>1, <1>2, <2>1, <2>3 DEF TaskInv, EndInv, Started, Active
  <2> QED BY <2>2, <2>3
<1>5. StageInv'
  <2>1. StageInv
    BY DEF WalkInv
  <2>2. Verdict' = Verdict
    BY <1>1 DEF Verdict
  <2> QED BY <1>1, <2>1, <2>2 DEF StageInv, Walked
<1>6. PlannedByIsHonest'
  BY <1>1 DEF WalkInv, PlannedByIsHonest
<1> QED BY <1>1, <1>3, <1>4, <1>5, <1>6 DEF WalkInv

\* A statement throws while the rest is blocked.
LEMMA BlockRestCutKeeps ==
  ASSUME WalkInv, hosted' = hosted, BlockRestCut
  PROVE  WalkInv'
<1> USE DEF Keys, DependsOn, planVars, walkVars, ends
<1>1. /\ pc = "walking" /\ pc' = "rejected" /\ Walked /\ finished # Keys
      /\ UNCHANGED <<tasks, fallback, plannedBy, planRow, attempts, at, advice, completed, finished>>
      /\ \A k \in Keys \ finished : at[k] = "waiting"
  BY DEF BlockRestCut, WalkInv, StageInv
<1>2. PICK n \in DOMAIN tasks :
        row' = [k \in Keys |-> IF k \notin finished /\ \E i \in 1 .. n - 1 : tasks[i].key = k
                              THEN "BLOCKED" ELSE row[k]]
  BY DEF BlockRestCut
<1>3. row' \in [Keys -> TaskStatus] /\ \A k \in finished : row'[k] = row[k]
  <2>1. "BLOCKED" \in TaskStatus
    BY DEF TaskStatus, Settled
  <2> QED BY <1>2, <2>1 DEF WalkInv, WalkTypes
<1>4. WalkTypes'
  <2>1. WalkTypes
    BY DEF WalkInv
  <2> QED BY <1>1, <1>3, <2>1 DEF WalkTypes, Pc, Ended
<1>5. ASSUME NEW k \in Keys PROVE TaskInv(k)' /\ EndInv(k)'
  <2>1. TaskInv(k) /\ EndInv(k)
    BY DEF WalkInv
  <2>2. CASE k \in finished
    BY <1>1, <1>3, <2>1, <2>2 DEF TaskInv, EndInv
  <2>3. CASE k \notin finished
    BY <1>1, <2>1, <2>3 DEF TaskInv, EndInv, Started, Active
  <2> QED BY <2>2, <2>3
<1>6. StageInv'
  <2>1. StageInv
    BY DEF WalkInv
  <2> QED BY <1>1, <2>1 DEF StageInv, Walked
<1>7. PlannedByIsHonest'
  BY <1>1 DEF WalkInv, PlannedByIsHonest
<1> QED BY <1>1, <1>4, <1>5, <1>6, <1>7 DEF WalkInv

\* The rest of the run touches no task; the plan's row gets the verdict.
LEMMA OutcomeKeeps ==
  ASSUME WalkInv, hosted' = hosted,
         \/ RejectWave \/ RankRecommendations \/ Attempt \/ AttemptCut \/ Close \/ CloseCut
         \/ AskPlanner
  PROVE  WalkInv'
<1> USE DEF Keys, DependsOn, planVars, rows, walkVars, ends
<1>1. /\ UNCHANGED <<tasks, fallback, plannedBy, row, attempts, at, advice, completed, finished>>
      /\ \/ pc = "asking" /\ pc' = "planning" /\ planRow' = planRow
         \/ pc = "waiting" /\ pc' = "rejected" /\ planRow' = planRow
         \/ pc = "walking" /\ finished = Keys /\ pc' = "attempting" /\ planRow' = planRow
         \/ pc = "attempting" /\ pc' \in {"attempting", "rejected"} /\ planRow' = planRow
         \/ pc = "attempting" /\ pc' \in {"closed", "rejected"} /\ planRow' \in {planRow, Verdict}
  BY DEF RejectWave, RankRecommendations, Attempt, AttemptCut, Close, CloseCut, AskPlanner
<1>2. Verdict' = Verdict /\ Verdict \in {"COMPLETED", "FAILED"}
  BY <1>1 DEF Verdict
<1>3. WalkTypes'
  <2>1. WalkTypes
    BY DEF WalkInv
  <2> QED BY <1>1, <1>2, <2>1 DEF WalkTypes, Pc, Ended
<1>4. ASSUME NEW k \in Keys PROVE TaskInv(k)' /\ EndInv(k)'
  BY <1>1 DEF WalkInv, TaskInv, EndInv
<1>5. StageInv'
  <2>1. StageInv
    BY DEF WalkInv
  <2>2. Walked' = Walked
    BY <1>1 DEF Walked
  <2> QED BY <1>1, <1>2, <2>1, <2>2 DEF StageInv
<1>6. PlannedByIsHonest'
  BY <1>1 DEF WalkInv, PlannedByIsHonest
<1> QED BY <1>1, <1>3, <1>4, <1>5, <1>6 DEF WalkInv

\* The process dies: what has an end keeps it.
LEMMA CrashKeeps ==
  ASSUME WalkInv, hosted' = hosted, Crash
  PROVE  WalkInv'
<1> USE DEF Keys, DependsOn, planVars, rows, ends
<1>1. /\ pc \notin {"closed", "gone"} /\ pc' = "gone"
      /\ UNCHANGED <<tasks, fallback, plannedBy, planRow, row, attempts, advice, completed, finished>>
      /\ at' = [k \in Keys |-> IF k \in finished THEN at[k] ELSE "gone"]
  BY DEF Crash
<1>2. WalkTypes'
  <2>1. WalkTypes
    BY DEF WalkInv
  <2>2. at' \in [Keys -> At]
    BY <1>1, <2>1 DEF WalkTypes, At
  <2> QED BY <1>1, <2>1, <2>2 DEF WalkTypes, Pc, Ended
<1>3. ASSUME NEW k \in Keys PROVE TaskInv(k)' /\ EndInv(k)'
  <2>1. TaskInv(k) /\ EndInv(k)
    BY DEF WalkInv
  <2> QED BY <1>1, <2>1 DEF TaskInv, EndInv, Started, Active
<1>4. StageInv'
  <2>1. StageInv
    BY DEF WalkInv
  <2>2. finished = Keys => \A k \in Keys : at'[k] = at[k]
    BY <1>1
  <2>3. finished = Keys => Verdict' = Verdict
    BY <1>1, <2>2 DEF Verdict
  <2>4. \A k \in Keys : at'[k] \in Started => at[k] \in Started
    BY <1>1 DEF Started, Active
  <2> QED BY <1>1, <2>1, <2>3, <2>4 DEF StageInv, Walked
<1>5. PlannedByIsHonest'
  BY <1>1 DEF WalkInv, PlannedByIsHonest
<1> QED BY <1>1, <1>2, <1>3, <1>4, <1>5 DEF WalkInv

-----------------------------------------------------------------------------
(* The run.                                                                *)

\* A step of the gateway on its own moves no task.
LEMMA StillKeeps ==
  ASSUME WalkInv, hosted' = hosted,
         UNCHANGED <<pc, planVars, rows, walkVars>>
  PROVE  WalkInv'
<1> USE DEF Keys, DependsOn, planVars, rows, walkVars, ends
<1>1. WalkTypes'
  BY DEF WalkInv, WalkTypes
<1>2. ASSUME NEW k \in Keys PROVE TaskInv(k)' /\ EndInv(k)'
  BY DEF WalkInv, TaskInv, EndInv
<1>3. StageInv'
  BY DEF WalkInv, StageInv, Walked, Verdict
<1>4. PlannedByIsHonest'
  BY DEF WalkInv, PlannedByIsHonest
<1> QED BY <1>1, <1>2, <1>3, <1>4 DEF WalkInv

PlanIInv == GatewayIInv /\ WalkInv

LEMMA PlanStepKeeps ==
  ASSUME PlanIInv, [PlanNext]_orchestratorVars
  PROVE  PlanIInv'
<1>1. [GatewayNext]_gatewayVars
  BY StepsOfTheGateway DEF PlanIInv
<1>2. GatewayIInv'
  BY <1>1, GatewayStepKeeps DEF PlanIInv
<1>3. hosted' = hosted
  BY <1>1, GatewayKeepsTheModel
<1>4. WalkInv'
  <2> USE <1>3 DEF PlanIInv
  <2>1. CASE GatewayStep(Serve)
    BY <2>1, StillKeeps DEF GatewayStep
  <2>2. CASE Walk
    BY <2>2, OutcomeKeeps, ReadPlanKeeps, PersistKeeps, StartWaveKeeps, SettleWaveKeeps,
       BlockRestKeeps DEF Walk
  <2>3. CASE WalkCut
    BY <2>3, OutcomeKeeps, PersistKeeps, StartWaveKeeps, BlockRestCutKeeps DEF WalkCut
  <2>4. ASSUME NEW k \in Keys, Execute(k) \/ ExecuteBadly(k) PROVE WalkInv'
    BY <2>4, ExecuteKeeps, ExecuteBadlyKeeps
  <2>5. CASE Crash
    BY <2>5, CrashKeeps
  <2>6. CASE UNCHANGED orchestratorVars
    BY <2>6, StillKeeps DEF orchestratorVars
  <2> QED BY <2>1, <2>2, <2>3, <2>4, <2>5, <2>6 DEF PlanNext
<1> QED BY <1>2, <1>4 DEF PlanIInv

\* The invariant, for any plans, agents, faults and crashes.
THEOREM PlanInvariant == PlanSafeSpec => []PlanIInv
<1>1. PlanInit => PlanIInv
  BY PlanStarts DEF PlanIInv
<1>2. PlanIInv /\ [PlanNext]_orchestratorVars => PlanIInv'
  BY PlanStepKeeps
<1> QED BY <1>1, <1>2, PTL DEF PlanSafeSpec

\* Whatever a plan does, fails or dies of, the slots of the gateway it shares stay
\* counted (gateway.ts:207-230).
THEOREM PlansLeakNoSlot == PlanSafeSpec => []SlotsAreCounted
<1>1. PlanIInv => SlotsAreCounted
  BY DEF PlanIInv, GatewayIInv, GatewayInv
<1> QED BY <1>1, PlanInvariant, PTL

\* Nor is a wake-up lost: none of its requests waits while a slot is free.
THEOREM PlansWakeTheirWaiters == PlanSafeSpec => []NobodyWaitsForNothing
<1>1. PlanIInv => NobodyWaitsForNothing
  BY DEF PlanIInv, GatewayIInv, GatewayInv
<1> QED BY <1>1, PlanInvariant, PTL

\* planned_by is honest, for any model (llm-planner.ts:100-128): it rests on the
\* gateway's honest label.
THEOREM PlannerIsHonest == PlanSafeSpec => []PlannedByIsHonest
<1>1. PlanIInv => PlannedByIsHonest
  BY DEF PlanIInv, WalkInv
<1> QED BY <1>1, PlanInvariant, PTL

\* Only the planner's answer changes the plan.
LEMMA PlanStays ==
  ASSUME [PlanNext]_orchestratorVars, ~ReadPlan
  PROVE  tasks' = tasks
<1>1. ASSUME NEW k \in Keys, Execute(k) \/ ExecuteBadly(k) PROVE tasks' = tasks
  BY <1>1 DEF Execute, ExecuteBadly, Consult, Conclude, Retry, GatherFails, VerifyFails,
              ConcludeCut, FailCut, RetryCut, Fail, Begin, BeginCut, planVars
<1>2. ASSUME GatewayStep(Serve) PROVE tasks' = tasks
  BY <1>2 DEF GatewayStep, planVars
<1>3. ASSUME Walk PROVE tasks' = tasks
  BY <1>3 DEF Walk, AskPlanner, Persist, StartWave, SettleWave, RejectWave, BlockRest,
              RankRecommendations, Attempt, Close, planVars
<1>4. ASSUME WalkCut \/ Crash PROVE tasks' = tasks
  BY <1>4 DEF WalkCut, Crash, PersistCut, StartWaveCut, BlockRestCut, AttemptCut, CloseCut,
              planVars
<1>. QED BY <1>1, <1>2, <1>3, <1>4 DEF PlanNext, orchestratorVars, planVars

\* Whatever a model answers, the plan that is run can be walked to its end and ends in
\* a synthesis (llm-planner.ts:100-128): it passed the checks, which only such plans
\* do, or it is a template.
THEOREM PlansCanBeRun == PlanSafeSpec => []PlansAreRunnable
<1>1. PlanInit => PlansAreRunnable
  BY DEF PlanInit, PlansAreRunnable
<1>2. Runnable(tasks') => Runnable(tasks)'
  BY DEF Runnable, KeysAreUnique, Acyclic, Terminal, KeysOf, TaskOf
<1>3. ASSUME PlanIInv, PlansAreRunnable, [PlanNext]_orchestratorVars
      PROVE  PlansAreRunnable'
  <2>1. CASE ReadPlan
    <3>1. Runnable(fallback)
      BY <1>3, TemplatesAreRunnable DEF PlanIInv, WalkInv, WalkTypes
    <3>2. \A p \in Proposals : Accepted(p) => Runnable(p)
      BY OrchestratorAssumption, AcceptedMeansRunnable
    <3>3. Runnable(tasks')
      BY <2>1, <3>1, <3>2 DEF ReadPlan, Choose, Adopt
    <3>. QED BY <1>2, <3>3 DEF PlansAreRunnable
  <2>2. CASE ~ReadPlan
    <3>1. tasks' = tasks
      BY <1>3, <2>2, PlanStays
    <3>2. tasks' # <<>> => Runnable(tasks')
      BY <1>3, <3>1 DEF PlansAreRunnable
    <3>. QED BY <1>2, <3>2 DEF PlansAreRunnable
  <2>. QED BY <2>1, <2>2
<1>. QED BY <1>1, <1>3, PlanInvariant, PTL DEF PlanSafeSpec

\* A task starts only after the rows of all it depends on say COMPLETED
\* (orchestrator.ts:172-195), for any plan and any faults.
THEOREM DependenciesComeFirst == PlanSafeSpec => []DependenciesFirst
<1>1. ASSUME PlanIInv PROVE DependenciesFirst
  <2>1. SUFFICES ASSUME NEW k \in Keys, attempts[k] > 0, NEW d \in DependsOn(k)
                 PROVE  row[d] = "COMPLETED"
    BY DEF DependenciesFirst
  <2>2. d \in completed
    BY <1>1, <2>1 DEF PlanIInv, WalkInv, TaskInv
  <2>3. d \in Keys /\ d \in finished
    BY <1>1, <2>2 DEF PlanIInv, WalkInv, WalkTypes
  <2>4. at[d] = "ok"
    BY <1>1, <2>2, <2>3 DEF PlanIInv, WalkInv, EndInv
  <2> QED BY <1>1, <2>3, <2>4 DEF PlanIInv, WalkInv, TaskInv
<1> QED BY <1>1, PlanInvariant, PTL

\* In a plan whose dependencies are its own tasks.
LEMMA DependenciesAreKeys ==
  ASSUME WalkInv, NEW k \in Keys
  PROVE  DependsOn(k) \subseteq Keys \ {k}
<1>1. tasks # <<>>
  BY NoTasksNoKeys DEF Keys
<1>2. Closed(tasks)
  BY <1>1 DEF WalkInv, StageInv
<1> QED BY <1>2, DependenciesOfClosed DEF Keys, DependsOn

\* When the plan says it is over every task has an end, and a blocked one is behind
\* a task that did not complete (orchestrator.ts:178-225).
THEOREM ClosedIsSettled == PlanSafeSpec => []ClosedPlansAreSettled
<1>1. ASSUME PlanIInv PROVE ClosedPlansAreSettled
  <2>0. WalkInv
    BY <1>1 DEF PlanIInv
  <2>1. SUFFICES ASSUME planRow \in {"COMPLETED", "FAILED"}, NEW k \in Keys
        PROVE
          \/ row[k] = "COMPLETED" /\ attempts[k] \in 1 .. MaxAttempts /\ planRow = "COMPLETED"
          \/ row[k] = "FAILED" /\ attempts[k] = MaxAttempts
          \/ /\ row[k] = "BLOCKED" /\ attempts[k] = 0
             /\ \E d \in DependsOn(k) : row[d] # "COMPLETED"
    BY DEF ClosedPlansAreSettled
  <2>2. finished = Keys /\ planRow = Verdict
    BY <2>0, <2>1 DEF WalkInv, StageInv
  <2>3. TaskInv(k) /\ EndInv(k) /\ attempts[k] \in 0 .. MaxAttempts
    BY <2>0 DEF WalkInv, WalkTypes
  <2>4. CASE at[k] = "ok"
    <3>1. planRow = "COMPLETED"
      BY <2>2, <2>4 DEF Verdict
    <3> QED BY <2>3, <2>4, <3>1, OrchestratorAssumption DEF TaskInv
  <2>5. CASE at[k] = "failed"
    BY <2>3, <2>5 DEF TaskInv
  <2>6. CASE at[k] = "waiting"
    <3>1. PICK d \in DependsOn(k) : d \notin completed
      BY <2>2, <2>3, <2>6 DEF EndInv
    <3>2. d \in Keys
      BY <2>0, DependenciesAreKeys
    <3>3. TaskInv(d) /\ EndInv(d)
      BY <2>0, <3>2 DEF WalkInv
    <3>4. row[d] # "COMPLETED"
      BY <2>2, <3>1, <3>2, <3>3 DEF TaskInv, EndInv
    <3> QED BY <2>2, <2>3, <2>6, <3>4 DEF TaskInv, EndInv
  <2> QED BY <2>2, <2>3, <2>4, <2>5, <2>6 DEF EndInv
<1> QED BY <1>1, PlanInvariant, PTL

-----------------------------------------------------------------------------
(* Ends are final, and the promise of TaskGraph.                           *)

\* What a task of its own can disturb.
LEMMA ExecuteTouchesItsTask ==
  ASSUME WalkInv, NEW k \in Keys, Execute(k) \/ ExecuteBadly(k)
  PROVE  /\ k \notin finished /\ pc # "closed"
         /\ UNCHANGED <<pc, tasks, completed, finished>>
         /\ \A j \in Keys \ {k} : /\ row'[j] = row[j] /\ at'[j] = at[j]
                                 /\ advice'[j] = advice[j]
<1> USE DEF planVars, ends, rows
<1>1. at[k] \in Active
  BY DEF Execute, Consult, Conclude, Retry, ExecuteBadly, GatherFails, VerifyFails,
         ConcludeCut, FailCut, RetryCut, Active
<1>2. k \notin finished /\ pc # "closed"
  BY <1>1, ActiveIsOpen
<1>3. UNCHANGED <<pc, tasks, completed, finished>>
  BY DEF Execute, Consult, Conclude, Retry, ExecuteBadly, GatherFails, VerifyFails,
         ConcludeCut, FailCut, RetryCut
<1>4. ASSUME NEW j \in Keys \ {k}
      PROVE  row'[j] = row[j] /\ at'[j] = at[j] /\ advice'[j] = advice[j]
  <2> USE DEF WalkInv, WalkTypes
  <2>1. CASE Consult(k)
    BY <2>1 DEF Consult
  <2>2. CASE Conclude(k)
    BY <2>2 DEF Conclude
  <2>3. CASE Retry(k)
    BY <2>3 DEF Retry, Begin
  <2>4. CASE GatherFails(k)
    BY <2>4 DEF GatherFails, Fail
  <2>5. CASE VerifyFails(k)
    BY <2>5 DEF VerifyFails, Fail
  <2>6. CASE ConcludeCut(k)
    BY <2>6 DEF ConcludeCut, Fail
  <2>7. CASE FailCut(k)
    BY <2>7 DEF FailCut
  <2>8. CASE RetryCut(k)
    BY <2>8 DEF RetryCut, BeginCut
  <2> QED BY <2>1, <2>2, <2>3, <2>4, <2>5, <2>6, <2>7, <2>8 DEF Execute, ExecuteBadly
<1> QED BY <1>2, <1>3, <1>4

LEMMA EndsStay ==
  ASSUME WalkInv, [PlanNext]_orchestratorVars, NEW k \in finished
  PROVE  row'[k] = row[k] /\ advice'[k] = advice[k]
<1> USE DEF planVars, rows, walkVars, ends
<1>0. k \in Keys /\ pc \notin {"asking", "planning", "persisting"}
  BY DEF WalkInv, WalkTypes, StageInv
<1>1. CASE UNCHANGED orchestratorVars \/ GatewayStep(Serve)
  BY <1>1 DEF orchestratorVars, GatewayStep
<1>2. CASE Walk
  <2>1. CASE StartWave
    BY <1>0, <2>1 DEF StartWave, Begin, Ready
  <2>2. CASE BlockRest
    BY <1>0, <2>2 DEF BlockRest
  <2> QED BY <1>0, <1>2, <2>1, <2>2 DEF Walk, AskPlanner, ReadPlan, Persist, SettleWave,
             RejectWave, RankRecommendations, Attempt, Close
<1>3. CASE WalkCut
  <2>1. CASE StartWaveCut
    <3>1. PICK j \in Ready : BeginCut(Ready, j)
      BY <2>1 DEF StartWaveCut
    <3>2. k \notin Ready
      BY DEF Ready
    <3> QED BY <1>0, <2>1, <3>1, <3>2 DEF StartWaveCut, BeginCut
  <2>2. CASE BlockRestCut
    BY <1>0, <2>2 DEF BlockRestCut
  <2> QED BY <1>0, <1>3, <2>1, <2>2 DEF WalkCut, PersistCut, AttemptCut, CloseCut
<1>4. ASSUME NEW j \in Keys, Execute(j) \/ ExecuteBadly(j)
      PROVE  row'[k] = row[k] /\ advice'[k] = advice[k]
  BY <1>0, <1>4, ExecuteTouchesItsTask
<1>5. CASE Crash
  BY <1>5 DEF Crash
<1> QED BY <1>1, <1>2, <1>3, <1>4, <1>5 DEF PlanNext

\* What a finished task ended as is never changed (orchestrator.ts:197-207).
THEOREM EndsAreFinal == PlanSafeSpec => OutcomesAreFinal
<1>1. PlanIInv /\ [PlanNext]_orchestratorVars
        => [\A k \in finished : row'[k] = row[k] /\ advice'[k] = advice[k]]_orchestratorVars
  BY EndsStay DEF PlanIInv
<1> QED BY <1>1, PlanInvariant, PTL DEF PlanSafeSpec, OutcomesAreFinal

\* A step that gives no task an end is a stutter of the promise.
LEMMA NoEndIsAStutter ==
  ASSUME WalkInv, UNCHANGED <<tasks, completed, finished>>,
         \A k \in finished : at'[k] = at[k],
         (pc' = "closed") <=> (pc = "closed")
  PROVE  UNCHANGED Promise!taskGraphVars
<1>1. Keys' = Keys /\ \A k \in Keys : DependsOn(k)' = DependsOn(k)
  BY DEF Keys, DependsOn
<1>2. [k \in Keys |-> DependsOn(k)]' = [k \in Keys |-> DependsOn(k)]
  BY DEF Keys, DependsOn
<1>3. \A k \in Keys : Fate(k)' = Fate(k)
  BY DEF Fate, WalkInv, WalkTypes
<1>4. [k \in Keys |-> Fate(k)]' = [k \in Keys |-> Fate(k)]
  BY <1>1, <1>3
<1> QED BY <1>2, <1>4 DEF Promise!taskGraphVars

LEMMA FateOf ==
  ASSUME WalkInv, NEW k \in Keys
  PROVE  /\ Fate(k) = "open" <=> k \notin finished
         /\ Fate(k) = "done" <=> k \in completed
         /\ k \in finished \ completed => Fate(k) = IF at[k] = "failed" THEN "failed" ELSE "blocked"
BY DEF Fate, WalkInv, WalkTypes

\* Whether a task can run, said of the promise and of the code.
LEMMA CanRunIsReady ==
  ASSUME WalkInv, NEW k \in Keys
  PROVE  /\ k \in Promise!Nodes
         /\ k \in Promise!Open <=> k \notin finished
         /\ Promise!CanRun(k) <=> k \notin finished /\ DependsOn(k) \subseteq completed
<1>1. DependsOn(k) \subseteq Keys
  BY DependenciesAreKeys
<1>2. Promise!Nodes = Keys
  BY DEF Promise!Nodes
<1>3. \A j \in Keys : j \in Promise!Open <=> j \notin finished
  BY <1>2, FateOf DEF Promise!Open
<1>4. (\A d \in DependsOn(k) : Fate(d) = "done") <=> DependsOn(k) \subseteq completed
  BY <1>1, FateOf
<1>5. Promise!CanRun(k) <=> k \in Promise!Open /\ \A d \in DependsOn(k) : Fate(d) = "done"
  BY <1>1 DEF Promise!CanRun
<1> QED BY <1>2, <1>3, <1>4, <1>5

LEMMA ReadPlanDraws ==
  ASSUME WalkInv, WalkInv', ReadPlan
  PROVE  Promise!Draw
<1>1. /\ tasks = <<>> /\ finished = {} /\ finished' = {} /\ tasks' # <<>> /\ Keys' # {}
      /\ Closed(tasks') /\ pc # "closed" /\ pc' # "closed"
  <2>1. pc = "planning" /\ pc' = "persisting" /\ finished' = finished
    BY DEF ReadPlan, ends
  <2>2. tasks = <<>> /\ finished = {} /\ Keys' # {}
    BY <2>1 DEF WalkInv, StageInv
  <2>3. tasks' # <<>>
    BY <2>2, NoTasksNoKeys DEF Keys
  <2> QED BY <2>1, <2>2, <2>3 DEF WalkInv, StageInv
<1>2. Keys = {}
  BY <1>1, NoTasksNoKeys DEF Keys
<1>3. \A k \in Keys' : DependsOn(k)' \subseteq Keys' \ {k}
  BY <1>1, DependenciesOfClosed DEF Keys, DependsOn
<1>4. \A k \in Keys' : Fate(k)' = "open"
  BY <1>1 DEF Fate, WalkInv, WalkTypes
<1> QED BY <1>1, <1>2, <1>3, <1>4 DEF Promise!Draw, Promise!Nodes

LEMMA SettleWaveEnds ==
  ASSUME WalkInv, WalkInv', SettleWave
  PROVE  Promise!End
<1>1. /\ pc = "waiting" /\ pc' = "walking"
      /\ UNCHANGED <<tasks, at>>
      /\ \A k \in Wave : at[k] \in {"ok", "failed"}
      /\ finished' = finished \cup Wave
      /\ completed' = completed \cup {k \in Wave : at[k] = "ok"}
      /\ Wave \subseteq Keys \ finished
  BY DEF SettleWave, planVars, Wave
<1>2. Keys' = Keys /\ [k \in Keys |-> DependsOn(k)]' = [k \in Keys |-> DependsOn(k)]
  BY <1>1 DEF Keys, DependsOn
<1>3. ASSUME NEW k \in Keys, Fate(k)' # Fate(k)
      PROVE  Promise!CanRun(k) /\ Fate(k)' \in {"done", "failed"}
  <2>1. k \in Wave
    BY <1>1, <1>3 DEF Fate
  <2>2. Fate(k)' \in {"done", "failed"}
    BY <1>1, <2>1 DEF Fate
  <2>3. DependsOn(k) \subseteq completed
    BY <1>1, <2>1 DEF WalkInv, TaskInv, Started
  <2> QED BY <1>1, <2>1, <2>2, <2>3, CanRunIsReady
<1> QED BY <1>1, <1>2, <1>3 DEF Promise!End, Promise!Nodes

LEMMA BlockRestBlocks ==
  ASSUME WalkInv, WalkInv', BlockRest
  PROVE  Promise!Block
<1>1. /\ pc = "walking" /\ pc' = "walking"
      /\ UNCHANGED <<tasks, at, completed>>
      /\ finished # Keys /\ Ready = {} /\ finished' = Keys
  BY DEF BlockRest, planVars
<1>2. Keys' = Keys /\ [k \in Keys |-> DependsOn(k)]' = [k \in Keys |-> DependsOn(k)]
  BY <1>1 DEF Keys, DependsOn
<1>3. \E k \in Keys : k \notin finished
  BY <1>1 DEF WalkInv, WalkTypes
<1>4. \A k \in Keys : k \in Promise!Open <=> k \notin finished
  BY CanRunIsReady
<1>5. \A k \in Promise!Open : k \in Keys /\ ~Promise!CanRun(k)
  <2>1. Promise!Open \subseteq Keys
    BY DEF Promise!Open, Promise!Nodes
  <2> QED BY <1>1, <2>1, CanRunIsReady DEF Ready
<1>6. ASSUME NEW k \in Keys
      PROVE  Fate(k)' = IF k \in Promise!Open THEN "blocked" ELSE Fate(k)
  <2>1. CASE k \notin finished
    <3>1. at[k] = "waiting" /\ k \notin completed
      BY <1>1, <2>1 DEF WalkInv, WalkTypes, StageInv
    <3> QED BY <1>1, <1>4, <2>1, <3>1 DEF Fate
  <2>2. CASE k \in finished
    BY <1>1, <1>4, <2>2 DEF Fate
  <2> QED BY <2>1, <2>2
<1> QED BY <1>1, <1>2, <1>3, <1>4, <1>5, <1>6 DEF Promise!Block, Promise!Nodes

LEMMA CloseCloses ==
  ASSUME WalkInv, WalkInv', Close
  PROVE  Promise!Close
<1>1. /\ pc = "attempting" /\ pc' = "closed"
      /\ UNCHANGED <<tasks, at, completed, finished>>
  BY DEF Close, planVars, walkVars, ends
<1>2. Keys # {} /\ finished = Keys
  BY <1>1 DEF WalkInv, StageInv
<1>3. Promise!Open = {}
  BY <1>2, CanRunIsReady DEF Promise!Open, Promise!Nodes
<1>4. [k \in Keys |-> DependsOn(k)]' = [k \in Keys |-> DependsOn(k)]
  BY <1>1 DEF Keys, DependsOn
<1>5. [k \in Keys |-> Fate(k)]' = [k \in Keys |-> Fate(k)]
  BY <1>1 DEF Keys, Fate
<1> QED BY <1>1, <1>2, <1>3, <1>4, <1>5 DEF Promise!Close, Promise!Nodes

LEMMA StepsOfThePromise ==
  ASSUME WalkInv, WalkInv', [PlanNext]_orchestratorVars
  PROVE  [Promise!TaskGraphNext]_(Promise!taskGraphVars)
<1>1. CASE ReadPlan
  BY <1>1, ReadPlanDraws DEF Promise!TaskGraphNext, ReadPlan
<1>2. CASE SettleWave
  BY <1>2, SettleWaveEnds DEF Promise!TaskGraphNext, SettleWave
<1>3. CASE BlockRest
  BY <1>3, BlockRestBlocks DEF Promise!TaskGraphNext, BlockRest
<1>4. CASE Close
  BY <1>4, CloseCloses DEF Promise!TaskGraphNext, Close
<1>5. CASE \/ UNCHANGED orchestratorVars \/ GatewayStep(Serve) \/ WalkCut \/ Crash
           \/ AskPlanner \/ Persist \/ StartWave \/ RejectWave \/ RankRecommendations
           \/ Attempt
           \/ \E k \in Keys : Execute(k) \/ ExecuteBadly(k)
  <2> USE DEF planVars, rows, walkVars, ends
  <2>1. UNCHANGED <<tasks, completed, finished>>
    BY <1>5, ExecuteTouchesItsTask
       DEF orchestratorVars, GatewayStep, WalkCut, PersistCut, StartWaveCut, BlockRestCut,
           AttemptCut, CloseCut, Crash, AskPlanner, Persist, StartWave, RejectWave,
           RankRecommendations, Attempt
  <2>2. (pc' = "closed") <=> (pc = "closed")
    BY <1>5, ExecuteTouchesItsTask
       DEF orchestratorVars, GatewayStep, WalkCut, PersistCut, StartWaveCut, BlockRestCut,
           AttemptCut, CloseCut, Crash, AskPlanner, Persist, StartWave, RejectWave,
           RankRecommendations, Attempt
  <2>3. ASSUME NEW k \in finished PROVE at'[k] = at[k]
    <3>1. k \in Keys /\ k \notin Ready
      BY DEF WalkInv, WalkTypes, Ready
    <3>2. CASE StartWave
      BY <3>1, <3>2 DEF StartWave, Begin
    <3>3. CASE StartWaveCut
      BY <3>1, <3>3 DEF StartWaveCut, BeginCut
    <3>4. CASE Crash
      BY <3>1, <3>4 DEF Crash
    <3>5. CASE \E j \in Keys : Execute(j) \/ ExecuteBadly(j)
      BY <3>1, <3>5, ExecuteTouchesItsTask
    <3> QED BY <1>5, <3>2, <3>3, <3>4, <3>5
       DEF orchestratorVars, GatewayStep, WalkCut, PersistCut, BlockRestCut, AttemptCut,
           CloseCut, AskPlanner, Persist, RejectWave, RankRecommendations, Attempt
  <2> QED BY <2>1, <2>2, <2>3, NoEndIsAStutter
<1> QED BY <1>1, <1>2, <1>3, <1>4, <1>5 DEF PlanNext, Walk

\* A run keeps the promise of TaskGraph: an end only after the ends it needs, blocked
\* only what can no longer run, final ends, closed when all have one.
THEOREM RunsKeepThePromise == PlanSafeSpec => KeepsThePromise
<1>1. PlanInit => Promise!TaskGraphInit
  <2>1. SUFFICES ASSUME PlanInit PROVE Promise!TaskGraphInit
    OBVIOUS
  <2>2. Keys = {} /\ pc # "closed"
    BY <2>1, NoTasksNoKeys DEF PlanInit, Keys
  <2> QED BY <2>2 DEF Promise!TaskGraphInit
<1>2. PlanIInv /\ PlanIInv' /\ [PlanNext]_orchestratorVars
        => [Promise!TaskGraphNext]_(Promise!taskGraphVars)
  BY StepsOfThePromise DEF PlanIInv
<1> QED BY <1>1, <1>2, PlanInvariant, PTL
        DEF PlanSafeSpec, KeepsThePromise, Promise!TaskGraphSpec

-----------------------------------------------------------------------------
(* What executeRecommendations makes of a list of recommendations.         *)

Rec == Recommendation(Entities)

\* What executeRecommendations makes of a list: the places of what `seen' lets
\* through, by worth, those of what it holds back, and how many are attempted.
Order(recs) == Listed(Firsts(recs), Dearer(recs))
Held(recs) == Listed(Repeats(recs), Ascending(Repeats(recs)))
Kept(recs) == Min({MaxExecutions, Cardinality(Firsts(recs))})
Told(recs) == Reported(Duplicates(recs), "duplicate") \o Reported(Beyond(recs), "limit")

\* Math.min of two numbers.
LEMMA LeastOfTwo ==
  ASSUME NEW a \in Nat, NEW b \in Nat
  PROVE  Min({a, b}) = IF a <= b THEN a ELSE b
<1>. DEFINE least == IF a <= b THEN a ELSE b
<1>1. least \in {a, b} /\ \A y \in {a, b} : least <= y
  OBVIOUS
<1>2. \A x \in {a, b} : (\A y \in {a, b} : x <= y) => x = least
  OBVIOUS
<1>. QED BY <1>1, <1>2 DEF Min

\* The first of each call and what repeats it divide the list, and both can be listed.
LEMMA PlacesAreOrdered ==
  ASSUME NEW recs \in Seq(Rec)
  PROVE  /\ IsFiniteSet(DOMAIN recs) /\ Cardinality(DOMAIN recs) = Len(recs)
         /\ Firsts(recs) \in SUBSET DOMAIN recs /\ Repeats(recs) \in SUBSET DOMAIN recs
         /\ IsFiniteSet(Firsts(recs)) /\ IsFiniteSet(Repeats(recs))
         /\ Cardinality(Firsts(recs)) + Cardinality(Repeats(recs)) = Len(recs)
         /\ StrictOrder(Firsts(recs), Dearer(recs))
         /\ StrictOrder(Repeats(recs), Ascending(Repeats(recs)))
<1>1. DOMAIN recs = 1 .. Len(recs) /\ Len(recs) \in Nat
  OBVIOUS
<1>2. IsFiniteSet(DOMAIN recs) /\ Cardinality(DOMAIN recs) = Len(recs)
  BY <1>1, FS_Interval
<1>3. Firsts(recs) \in SUBSET DOMAIN recs /\ Repeats(recs) \in SUBSET DOMAIN recs
  BY DEF Firsts, Repeats
<1>4. IsFiniteSet(Firsts(recs)) /\ IsFiniteSet(Repeats(recs))
  BY <1>2, <1>3, FS_Subset
<1>5. Cardinality(Firsts(recs)) + Cardinality(Repeats(recs)) = Len(recs)
  <2>1. Firsts(recs) = DOMAIN recs \ Repeats(recs) /\ DOMAIN recs \cap Repeats(recs) = Repeats(recs)
    BY <1>3 DEF Firsts
  <2>2. Cardinality(Firsts(recs)) = Cardinality(DOMAIN recs) - Cardinality(Repeats(recs))
    BY <1>2, <2>1, FS_Difference
  <2>3. Cardinality(Repeats(recs)) \in Nat /\ Cardinality(DOMAIN recs) \in Nat
    BY <1>2, <1>4, FS_CardinalityType
  <2>. QED BY <1>2, <2>2, <2>3
<1>6. \A i \in DOMAIN recs : recs[i].worth \in Nat
  <2>1. \A i \in DOMAIN recs : recs[i] \in Rec
    OBVIOUS
  <2>2. \A r \in Rec : r.worth \in Nat
    BY DEF Rec, Recommendation
  <2>. QED BY <2>1, <2>2
<1>7. \A i, j \in DOMAIN recs :
        <<i, j>> \in Dearer(recs) <=>
          \/ recs[i].worth > recs[j].worth
          \/ recs[i].worth = recs[j].worth /\ i < j
  BY DEF Dearer
<1>8. StrictOrder(Firsts(recs), Dearer(recs))
  <2>1. \A i, j \in DOMAIN recs : i # j => <<i, j>> \in Dearer(recs) \/ <<j, i>> \in Dearer(recs)
    BY <1>1, <1>6, <1>7
  <2>2. \A i \in DOMAIN recs : <<i, i>> \notin Dearer(recs)
    BY <1>1, <1>6, <1>7
  <2>3. \A i, j, k \in DOMAIN recs :
          <<i, j>> \in Dearer(recs) /\ <<j, k>> \in Dearer(recs) => <<i, k>> \in Dearer(recs)
    BY <1>1, <1>6, <1>7
  <2>. QED BY <1>3, <2>1, <2>2, <2>3 DEF StrictOrder
<1>9. StrictOrder(Repeats(recs), Ascending(Repeats(recs)))
  <2>1. \A i, j \in Repeats(recs) : <<i, j>> \in Ascending(Repeats(recs)) <=> i < j
    BY DEF Ascending
  <2>2. \A i \in Repeats(recs) : i \in Nat
    BY <1>1, <1>3
  <2>. QED BY <2>1, <2>2 DEF StrictOrder
<1>. QED BY <1>2, <1>3, <1>4, <1>5, <1>8, <1>9

\* What is held back is like something that was let through.
LEMMA RepeatsHaveAFirst ==
  ASSUME NEW recs \in Seq(Rec), NEW i \in Repeats(recs)
  PROVE  \E j \in Firsts(recs) : SameCall(recs[j], recs[i])
<1>. DEFINE Likes == {j \in 1 .. Len(recs) : SameCall(recs[j], recs[i])}
<1>1. Likes \subseteq Nat /\ Likes # {}
  BY DEF Repeats, SameCall
<1>2. PICK j \in Likes : \A k \in Likes : <<k, j>> \notin OpToRel(<, Nat)
  BY <1>1, NatLessThanWellFounded, WFMin
<1>3. \A k \in Likes : ~(k < j)
  <2>1. \A k \in Likes : k < j => <<k, j>> \in OpToRel(<, Nat)
    BY <1>1, <1>2 DEF OpToRel
  <2>. QED BY <1>2, <2>1
<1>4. j \notin Repeats(recs)
  <2>. SUFFICES ASSUME NEW k \in 1 .. j - 1, SameCall(recs[k], recs[j]) PROVE FALSE
    BY DEF Repeats
  <2>1. k \in Likes /\ k < j
    BY DEF SameCall
  <2>. QED BY <1>3, <2>1
<1>5. j \in DOMAIN recs /\ SameCall(recs[j], recs[i])
  OBVIOUS
<1>. QED BY <1>4, <1>5 DEF Firsts

\* The agenda and the report, place by place.
LEMMA OutcomeByPlaces ==
  ASSUME NEW recs \in Seq(Rec)
  PROVE  LET f == Cardinality(Firsts(recs))
             d == Cardinality(Repeats(recs))
             m == Kept(recs)
         IN  /\ f \in Nat /\ d \in Nat /\ m \in 0 .. f /\ f + d = Len(recs)
             /\ m <= MaxExecutions /\ (m = f \/ m = MaxExecutions)
             /\ Order(recs) \in Bijection(1 .. f, Firsts(recs))
             /\ \A i, j \in 1 .. f : i < j => <<Order(recs)[i], Order(recs)[j]>> \in Dearer(recs)
             /\ Held(recs) \in Bijection(1 .. d, Repeats(recs))
             /\ Chosen(recs) \in Seq(Rec) /\ Len(Chosen(recs)) = m
             /\ \A k \in 1 .. m : Chosen(recs)[k] = recs[Order(recs)[k]]
             /\ Told(recs) \in Seq([rec : Rec, why : {"duplicate", "limit"}])
             /\ Len(Told(recs)) = d + (f - m)
             /\ \A k \in 1 .. d + (f - m) :
                  Told(recs)[k] = IF k <= d THEN [rec |-> recs[Held(recs)[k]], why |-> "duplicate"]
                                  ELSE [rec |-> recs[Order(recs)[m + (k - d)]], why |-> "limit"]
<1>. DEFINE f == Cardinality(Firsts(recs))
            d == Cardinality(Repeats(recs))
            m == Kept(recs)
            Report == [rec : Rec, why : {"duplicate", "limit"}]
<1>1. /\ f \in Nat /\ d \in Nat /\ f + d = Len(recs)
      /\ Order(recs) \in Bijection(1 .. f, Firsts(recs))
      /\ \A i, j \in 1 .. f : i < j => <<Order(recs)[i], Order(recs)[j]>> \in Dearer(recs)
      /\ Held(recs) \in Bijection(1 .. d, Repeats(recs))
  BY PlacesAreOrdered, ListedInOrder DEF Order, Held
<1>2. m \in 0 .. f /\ m <= MaxExecutions /\ (m = f \/ m = MaxExecutions) /\ MaxExecutions \in Nat
  <2>1. MaxExecutions \in Nat
    BY OrchestratorAssumption
  <2>. QED BY <1>1, <2>1, LeastOfTwo DEF Kept
<1>3. /\ Order(recs) \in [1 .. f -> DOMAIN recs] /\ Held(recs) \in [1 .. d -> DOMAIN recs]
  BY <1>1, PlacesAreOrdered DEF Bijection, Injection
<1>4. \A i \in DOMAIN recs : recs[i] \in Rec
  OBVIOUS
<1>. HIDE DEF f, d, m
<1>5. /\ Ranked(recs) \in Seq(Rec) /\ Len(Ranked(recs)) = f
      /\ \A k \in 1 .. f : Ranked(recs)[k] = recs[Order(recs)[k]]
  <2>1. Ranked(recs) = [k \in 1 .. f |-> recs[Order(recs)[k]]]
    BY <1>3 DEF Ranked, Pick, Order
  <2>2. \A k \in 1 .. f : recs[Order(recs)[k]] \in Rec
    BY <1>3, <1>4
  <2>. QED BY <1>1, <2>1, <2>2
<1>6. /\ Duplicates(recs) \in Seq(Rec) /\ Len(Duplicates(recs)) = d
      /\ \A k \in 1 .. d : Duplicates(recs)[k] = recs[Held(recs)[k]]
  <2>1. Duplicates(recs) = [k \in 1 .. d |-> recs[Held(recs)[k]]]
    BY <1>3 DEF Duplicates, Pick, Held
  <2>2. \A k \in 1 .. d : recs[Held(recs)[k]] \in Rec
    BY <1>3, <1>4
  <2>. QED BY <1>1, <2>1, <2>2
<1>7. /\ Chosen(recs) \in Seq(Rec) /\ Len(Chosen(recs)) = m
      /\ \A k \in 1 .. m : Chosen(recs)[k] = recs[Order(recs)[k]]
  <2>1. Chosen(recs) = SubSeq(Ranked(recs), 1, m)
    BY <1>5 DEF Chosen, Kept, f, m
  <2>2. \A k \in 1 .. m : Ranked(recs)[k] \in Rec /\ Ranked(recs)[k] = recs[Order(recs)[k]]
    BY <1>1, <1>2, <1>5
  <2>3. /\ Chosen(recs) \in Seq(Rec)
        /\ Len(Chosen(recs)) = IF 1 <= m THEN m - 1 + 1 ELSE 0
        /\ \A k \in 1 .. m - 1 + 1 : Chosen(recs)[k] = Ranked(recs)[1 + k - 1]
    BY <1>1, <1>2, <2>1, <2>2, SubSeqProperties
  <2>. QED BY <1>1, <1>2, <2>2, <2>3
<1>8. /\ Beyond(recs) \in Seq(Rec) /\ Len(Beyond(recs)) = f - m
      /\ \A k \in 1 .. f - m : Beyond(recs)[k] = recs[Order(recs)[m + k]]
  <2>1. Beyond(recs) = SubSeq(Ranked(recs), MaxExecutions + 1, f)
    BY <1>5 DEF Beyond
  <2>2. \A k \in MaxExecutions + 1 .. f : Ranked(recs)[k] \in Rec
    BY <1>1, <1>2, <1>5
  <2>3. /\ Beyond(recs) \in Seq(Rec)
        /\ Len(Beyond(recs)) = IF MaxExecutions + 1 <= f THEN f - (MaxExecutions + 1) + 1 ELSE 0
        /\ \A k \in 1 .. f - (MaxExecutions + 1) + 1 :
             Beyond(recs)[k] = Ranked(recs)[MaxExecutions + 1 + k - 1]
    BY <1>1, <1>2, <2>1, <2>2, SubSeqProperties
  <2>4. CASE m = f
    BY <1>1, <1>2, <2>3, <2>4
  <2>5. CASE m = MaxExecutions
    <3>1. Len(Beyond(recs)) = f - m
      BY <1>1, <1>2, <2>3, <2>5
    <3>2. ASSUME NEW k \in 1 .. f - m PROVE Beyond(recs)[k] = recs[Order(recs)[m + k]]
      <4>1. k \in 1 .. f - (MaxExecutions + 1) + 1 /\ MaxExecutions + 1 + k - 1 = m + k /\ m + k \in 1 .. f
        BY <1>1, <1>2, <2>5
      <4>. QED BY <1>5, <2>3, <4>1
    <3>. QED BY <2>3, <3>1, <3>2
  <2>. QED BY <1>2, <2>4, <2>5
<1>9. /\ Told(recs) \in Seq(Report) /\ Len(Told(recs)) = d + (f - m)
      /\ \A k \in 1 .. d + (f - m) :
           Told(recs)[k] = IF k <= d THEN [rec |-> recs[Held(recs)[k]], why |-> "duplicate"]
                           ELSE [rec |-> recs[Order(recs)[m + (k - d)]], why |-> "limit"]
  <2>. DEFINE one == Reported(Duplicates(recs), "duplicate")
              two == Reported(Beyond(recs), "limit")
  <2>1. /\ one \in Seq(Report) /\ Len(one) = d
        /\ \A k \in 1 .. d : one[k] = [rec |-> recs[Held(recs)[k]], why |-> "duplicate"]
    <3>1. one = [k \in 1 .. d |-> [rec |-> Duplicates(recs)[k], why |-> "duplicate"]]
      BY <1>6 DEF Reported
    <3>2. \A k \in 1 .. d : [rec |-> Duplicates(recs)[k], why |-> "duplicate"] \in Report
      BY <1>6
    <3>3. \A k \in 1 .. d : one[k] = [rec |-> recs[Held(recs)[k]], why |-> "duplicate"]
      BY <1>6, <3>1
    <3>4. one = [k \in 1 .. d |-> one[k]] /\ \A k \in 1 .. d : one[k] \in Report
      BY <3>1, <3>2
    <3>. HIDE DEF one, Report
    <3>5. one \in Seq(Report) /\ Len(one) = d
      BY <1>1, <3>4, ListOf
    <3>. QED BY <3>3, <3>5
  <2>2. /\ two \in Seq(Report) /\ Len(two) = f - m
        /\ \A k \in 1 .. f - m : two[k] = [rec |-> recs[Order(recs)[m + k]], why |-> "limit"]
    <3>1. two = [k \in 1 .. f - m |-> [rec |-> Beyond(recs)[k], why |-> "limit"]]
      BY <1>8 DEF Reported
    <3>2. \A k \in 1 .. f - m : [rec |-> Beyond(recs)[k], why |-> "limit"] \in Report
      BY <1>8
    <3>3. f - m \in Nat
      BY <1>1, <1>2
    <3>4. \A k \in 1 .. f - m : two[k] = [rec |-> recs[Order(recs)[m + k]], why |-> "limit"]
      BY <1>8, <3>1
    <3>5. two = [k \in 1 .. f - m |-> two[k]] /\ \A k \in 1 .. f - m : two[k] \in Report
      BY <3>1, <3>2
    <3>. HIDE DEF two, Report
    <3>6. two \in Seq(Report) /\ Len(two) = f - m
      BY <3>3, <3>5, ListOf
    <3>. QED BY <3>4, <3>6
  <2>3. Told(recs) = one \o two
    BY DEF Told
  <2>. HIDE DEF one, two, Report
  <2>4. /\ Told(recs) \in Seq(Report) /\ Len(Told(recs)) = d + (f - m)
        /\ \A k \in 1 .. d + (f - m) : Told(recs)[k] = IF k <= d THEN one[k] ELSE two[k - d]
    <3>1. /\ one \o two \in Seq(Report) /\ Len(one \o two) = Len(one) + Len(two)
          /\ \A k \in 1 .. Len(one) + Len(two) :
               (one \o two)[k] = IF k <= Len(one) THEN one[k] ELSE two[k - Len(one)]
      BY <2>1, <2>2, ConcatProperties
    <3>. QED BY <2>1, <2>2, <2>3, <3>1
  <2>5. ASSUME NEW k \in 1 .. d + (f - m)
        PROVE  Told(recs)[k] = IF k <= d THEN [rec |-> recs[Held(recs)[k]], why |-> "duplicate"]
                               ELSE [rec |-> recs[Order(recs)[m + (k - d)]], why |-> "limit"]
    <3>1. k <= d => k \in 1 .. d
      BY <1>1
    <3>2. ~(k <= d) => k - d \in 1 .. f - m
      BY <1>1, <1>2
    <3>. QED BY <2>1, <2>2, <2>4, <3>1, <3>2
  <2>. QED BY <2>4, <2>5
<1>. QED BY <1>1, <1>2, <1>7, <1>9 DEF f, d, m

\* A list that picks places of another, each once, has an element as often as the
\* other has it at these places.
LEMMA TimesAtPlaces ==
  ASSUME NEW list, NEW picked, NEW via, IsFiniteSet(DOMAIN picked),
         via \in Injection(DOMAIN picked, DOMAIN list),
         \A k \in DOMAIN picked : picked[k] = list[via[k]], NEW r
  PROVE  LET places == {via[k] : k \in DOMAIN picked}
         IN  Times(picked, r) = Cardinality({i \in places : list[i] = r})
<1>. DEFINE A == {k \in DOMAIN picked : picked[k] = r}
            B == {i \in {via[k] : k \in DOMAIN picked} : list[i] = r}
            g == [k \in A |-> via[k]]
<1>1. IsFiniteSet(A)
  BY FS_Subset
<1>2. g \in Bijection(A, B)
  <2>1. g \in [A -> B]
    OBVIOUS
  <2>2. \A k, l \in A : g[k] = g[l] => k = l
    BY DEF Injection, IsInjective
  <2>3. \A i \in B : \E k \in A : g[k] = i
    OBVIOUS
  <2>. HIDE DEF A, B, g
  <2>. QED BY <2>1, <2>2, <2>3 DEF Bijection, Injection, Surjection, IsInjective
<1>3. Cardinality(B) = Cardinality(A)
  BY <1>1, <1>2, FS_Bijection DEF ExistsBijection
<1>. QED BY <1>3 DEF Times

\* Every recommendation is in the agenda or in the report, once; no call twice; what is
\* beyond the limit is worth no more; a duplicate is one of something in either.
LEMMA Accounted ==
  ASSUME NEW recs \in Seq(Rec)
  PROVE  LET chosen == Chosen(recs)
             told == Told(recs)
             toldRecs == [i \in DOMAIN told |-> told[i].rec]
             leftOut == {s.rec : s \in {t \in Range(told) : t.why = "limit"}}
         IN  /\ \A r : Times(recs, r) = Times(chosen, r) + Times(toldRecs, r)
             /\ Len(recs) = Len(chosen) + Len(told)
             /\ \A i, j \in DOMAIN chosen : SameCall(chosen[i], chosen[j]) => i = j
             /\ Len(chosen) <= MaxExecutions
             /\ \A s \in leftOut :
                  Len(chosen) = MaxExecutions /\ \A r \in Range(chosen) : r.worth >= s.worth
             /\ \A s \in Range(told) : s.why = "duplicate" =>
                  \E r \in Range(chosen) \cup leftOut : SameCall(r, s.rec)
<1>. DEFINE f == Cardinality(Firsts(recs))
            d == Cardinality(Repeats(recs))
            m == Kept(recs)
            o == Order(recs)
            h == Held(recs)
            chosen == Chosen(recs)
            told == Told(recs)
            toldRecs == [i \in DOMAIN told |-> told[i].rec]
            leftOut == {s.rec : s \in {t \in Range(told) : t.why = "limit"}}
<1>1. /\ f \in Nat /\ d \in Nat /\ m \in 0 .. f /\ f + d = Len(recs)
      /\ m <= MaxExecutions /\ (m = f \/ m = MaxExecutions)
      /\ o \in Bijection(1 .. f, Firsts(recs))
      /\ \A i, j \in 1 .. f : i < j => <<o[i], o[j]>> \in Dearer(recs)
      /\ h \in Bijection(1 .. d, Repeats(recs))
      /\ chosen \in Seq(Rec) /\ Len(chosen) = m
      /\ \A k \in 1 .. m : chosen[k] = recs[o[k]]
      /\ told \in Seq([rec : Rec, why : {"duplicate", "limit"}])
      /\ Len(told) = d + (f - m)
      /\ \A k \in 1 .. d + (f - m) :
           told[k] = IF k <= d THEN [rec |-> recs[h[k]], why |-> "duplicate"]
                     ELSE [rec |-> recs[o[m + (k - d)]], why |-> "limit"]
  BY OutcomeByPlaces
<1>2. /\ Firsts(recs) = DOMAIN recs \ Repeats(recs) /\ Repeats(recs) \subseteq DOMAIN recs
      /\ IsFiniteSet(DOMAIN recs) /\ \A i \in DOMAIN recs : recs[i] \in Rec
      /\ DOMAIN recs = 1 .. Len(recs)
  <2>1. DOMAIN recs = 1 .. Len(recs) /\ \A i \in DOMAIN recs : recs[i] \in Rec
    OBVIOUS
  <2>2. IsFiniteSet(DOMAIN recs) /\ Repeats(recs) \in SUBSET DOMAIN recs
    BY PlacesAreOrdered
  <2>. QED BY <2>1, <2>2 DEF Firsts
<1>. HIDE DEF f, d, m, o, h, chosen, told
<1>3. /\ o \in [1 .. f -> Firsts(recs)] /\ \A i, j \in 1 .. f : o[i] = o[j] => i = j
      /\ \A x \in Firsts(recs) : \E i \in 1 .. f : o[i] = x
  BY <1>1 DEF Bijection, Injection, Surjection, IsInjective
<1>4. /\ h \in [1 .. d -> Repeats(recs)] /\ \A i, j \in 1 .. d : h[i] = h[j] => i = j
      /\ \A x \in Repeats(recs) : \E i \in 1 .. d : h[i] = x
  BY <1>1 DEF Bijection, Injection, Surjection, IsInjective
<1>5. /\ DOMAIN chosen = 1 .. m /\ DOMAIN told = 1 .. d + (f - m)
      /\ DOMAIN toldRecs = 1 .. d + (f - m)
      /\ \A k \in 1 .. d + (f - m) : toldRecs[k] = told[k].rec
  BY <1>1
<1>. HIDE DEF toldRecs
<1>6. ASSUME NEW k \in 1 .. d + (f - m)
      PROVE  \/ /\ k \in 1 .. d
                /\ told[k].why = "duplicate" /\ told[k].rec = recs[h[k]]
             \/ /\ k \notin 1 .. d /\ m + (k - d) \in m + 1 .. f /\ m + (k - d) \in 1 .. f
                /\ told[k].why = "limit" /\ told[k].rec = recs[o[m + (k - d)]]
  <2>1. CASE k <= d
    <3>1. k \in 1 .. d
      BY <1>1, <2>1
    <3>2. told[k] = [rec |-> recs[h[k]], why |-> "duplicate"]
      BY <1>1, <2>1
    <3>. QED BY <3>1, <3>2
  <2>2. CASE ~(k <= d)
    <3>1. k \notin 1 .. d /\ m + (k - d) \in m + 1 .. f /\ m + (k - d) \in 1 .. f
      BY <1>1, <2>2
    <3>2. told[k] = [rec |-> recs[o[m + (k - d)]], why |-> "limit"]
      BY <1>1, <2>2
    <3>. QED BY <3>1, <3>2
  <2>. QED BY <2>1, <2>2
<1>7. ASSUME NEW r PROVE Times(recs, r) = Times(chosen, r) + Times(toldRecs, r)
  <2>. DEFINE via == [k \in 1 .. d + (f - m) |-> IF k <= d THEN h[k] ELSE o[m + (k - d)]]
              one == {o[k] : k \in 1 .. m}
              two == {via[k] : k \in 1 .. d + (f - m)}
              these(places) == {i \in places : recs[i] = r}
              first == [k \in 1 .. m |-> o[k]]
  <2>1. \A k \in 1 .. d + (f - m) :
          \/ k \in 1 .. d /\ via[k] = h[k]
          \/ k \notin 1 .. d /\ m + (k - d) \in m + 1 .. f /\ m + (k - d) \in 1 .. f /\ via[k] = o[m + (k - d)]
    <3>1. ASSUME NEW k \in 1 .. d + (f - m), k <= d PROVE k \in 1 .. d /\ via[k] = h[k]
      BY <1>1, <3>1
    <3>2. ASSUME NEW k \in 1 .. d + (f - m), ~(k <= d)
          PROVE k \notin 1 .. d /\ m + (k - d) \in m + 1 .. f /\ m + (k - d) \in 1 .. f /\ via[k] = o[m + (k - d)]
      BY <1>1, <3>2
    <3>. QED BY <3>1, <3>2
  <2>2. via \in [1 .. d + (f - m) -> DOMAIN recs]
    <3>1. \A k \in 1 .. d + (f - m) : via[k] \in DOMAIN recs
      BY <1>2, <1>3, <1>4, <2>1
    <3>2. via = [k \in 1 .. d + (f - m) |-> via[k]]
      OBVIOUS
    <3>. HIDE DEF via
    <3>. QED BY <3>1, <3>2
  <2>. HIDE DEF via
  <2>3. ASSUME NEW k \in 1 .. d + (f - m), NEW l \in 1 .. d + (f - m), via[k] = via[l] PROVE k = l
    <3>1. CASE k \in 1 .. d /\ l \in 1 .. d
      BY <1>4, <2>1, <2>3, <3>1
    <3>2. CASE k \notin 1 .. d /\ l \notin 1 .. d
      <4>1. m + (k - d) = m + (l - d)
        BY <1>3, <2>1, <2>3, <3>2
      <4>. QED BY <1>1, <4>1
    <3>3. CASE ~(k \in 1 .. d <=> l \in 1 .. d)
      BY <1>2, <1>3, <1>4, <2>1, <2>3, <3>3
    <3>. QED BY <3>1, <3>2, <3>3
  <2>4. \A k \in 1 .. d + (f - m) : toldRecs[k] = recs[via[k]]
    BY <1>5, <1>6, <2>1
  <2>5. Times(toldRecs, r) = Cardinality(these(two))
    <3>1. via \in Injection(DOMAIN toldRecs, DOMAIN recs)
      BY <1>5, <2>2, <2>3 DEF Injection, IsInjective
    <3>2. IsFiniteSet(DOMAIN toldRecs)
      BY <1>1, <1>5, FS_Interval
    <3>3. {via[k] : k \in DOMAIN toldRecs} = two
      BY <1>5
    <3>4. \A k \in DOMAIN toldRecs : toldRecs[k] = recs[via[k]]
      BY <1>5, <2>4
    <3>5. Times(toldRecs, r) = Cardinality({i \in {via[k] : k \in DOMAIN toldRecs} : recs[i] = r})
      BY <3>1, <3>2, <3>4, TimesAtPlaces
    <3>. QED BY <3>3, <3>5
  <2>6. Times(chosen, r) = Cardinality(these(one))
    <3>0. \A k \in 1 .. m : k \in 1 .. f
      BY <1>1
    <3>1. first \in Injection(DOMAIN chosen, DOMAIN recs)
      BY <1>2, <1>3, <1>5, <3>0 DEF Injection, IsInjective
    <3>2. IsFiniteSet(DOMAIN chosen)
      BY <1>1, <1>5, FS_Interval
    <3>3. {first[k] : k \in DOMAIN chosen} = one
      BY <1>5
    <3>4. \A k \in DOMAIN chosen : chosen[k] = recs[first[k]]
      BY <1>1, <1>5
    <3>. HIDE DEF first
    <3>5. Times(chosen, r) = Cardinality({i \in {first[k] : k \in DOMAIN chosen} : recs[i] = r})
      BY <3>1, <3>2, <3>4, TimesAtPlaces
    <3>. QED BY <3>3, <3>5
  <2>7. one \cup two = DOMAIN recs /\ one \cap two = {}
    <3>1. one \subseteq Firsts(recs) /\ two \subseteq DOMAIN recs
      <4>1. \A k \in 1 .. m : k \in 1 .. f
        BY <1>1
      <4>. QED BY <1>3, <2>2, <4>1
    <3>2. ASSUME NEW x \in Repeats(recs) PROVE x \in two
      <4>1. PICK i \in 1 .. d : h[i] = x
        BY <1>4
      <4>2. i \in 1 .. d + (f - m)
        BY <1>1
      <4>3. via[i] = x
        BY <2>1, <4>1, <4>2
      <4>. QED BY <4>2, <4>3
    <3>3. ASSUME NEW x \in Firsts(recs), x \notin one PROVE x \in two
      <4>1. PICK i \in 1 .. f : o[i] = x
        BY <1>3
      <4>2. i \notin 1 .. m
        BY <3>3, <4>1
      <4>3. PICK n \in 1 .. d + (f - m) : n \notin 1 .. d /\ m + (n - d) = i
        <5>. DEFINE n0 == d + (i - m)
        <5>1. n0 \in 1 .. d + (f - m) /\ n0 \notin 1 .. d /\ m + (n0 - d) = i
          BY <1>1, <4>2
        <5>. HIDE DEF n0
        <5>. QED BY <5>1
      <4>4. via[n] = x
        BY <2>1, <4>1, <4>3
      <4>. QED BY <4>4
    <3>4. ASSUME NEW x \in one, x \in two PROVE FALSE
      <4>1. PICK i \in 1 .. m : o[i] = x
        OBVIOUS
      <4>2. PICK k \in 1 .. d + (f - m) : via[k] = x
        BY <3>4
      <4>3. i \in 1 .. f /\ i \notin m + 1 .. f
        BY <1>1
      <4>4. x \in Firsts(recs) /\ x \notin Repeats(recs)
        BY <1>2, <3>1
      <4>5. via[k] = o[m + (k - d)] /\ m + (k - d) \in m + 1 .. f /\ m + (k - d) \in 1 .. f
        BY <1>4, <2>1, <4>2, <4>4
      <4>. QED BY <1>3, <4>1, <4>2, <4>3, <4>5
    <3>5. one \subseteq DOMAIN recs /\ two \subseteq DOMAIN recs
      BY <1>2, <3>1
    <3>. HIDE DEF one, two
    <3>6. ASSUME NEW x \in DOMAIN recs PROVE x \in one \cup two
      BY <1>2, <3>2, <3>3
    <3>. QED BY <3>4, <3>5, <3>6
  <2>. HIDE DEF one, two
  <2>8. Times(recs, r) = Cardinality(these(one)) + Cardinality(these(two))
    <3>1. /\ these(one) \cup these(two) = {i \in DOMAIN recs : recs[i] = r}
          /\ these(one) \cap these(two) = {}
      BY <2>7
    <3>2. IsFiniteSet(these(one)) /\ IsFiniteSet(these(two))
      <4>1. these(one) \in SUBSET DOMAIN recs /\ these(two) \in SUBSET DOMAIN recs
        BY <2>7
      <4>. QED BY <1>2, <4>1, FS_Subset
    <3>3. Cardinality(these(one)) \in Nat /\ Cardinality(these(two)) \in Nat
      BY <3>2, FS_CardinalityType
    <3>. HIDE DEF these
    <3>4. Cardinality(these(one) \cup these(two)) = Cardinality(these(one)) + Cardinality(these(two)) - Cardinality({})
      BY <3>1, <3>2, FS_Union
    <3>5. Cardinality(these(one) \cup these(two)) = Cardinality(these(one)) + Cardinality(these(two))
      BY <3>3, <3>4, FS_EmptySet
    <3>. QED BY <3>1, <3>5 DEF Times
  <2>. QED BY <2>5, <2>6, <2>8
<1>8. Len(recs) = Len(chosen) + Len(told)
  BY <1>1
<1>9. ASSUME NEW i \in DOMAIN chosen, NEW j \in DOMAIN chosen, SameCall(chosen[i], chosen[j])
      PROVE  i = j
  <2>1. i \in 1 .. f /\ j \in 1 .. f /\ i \in 1 .. m /\ j \in 1 .. m
    BY <1>1, <1>5
  <2>2. SameCall(recs[o[i]], recs[o[j]]) /\ SameCall(recs[o[j]], recs[o[i]])
    BY <1>1, <1>9, <2>1 DEF SameCall
  <2>3. /\ o[i] \in 1 .. Len(recs) /\ o[j] \in 1 .. Len(recs) /\ Len(recs) \in Nat
        /\ o[i] \notin Repeats(recs) /\ o[j] \notin Repeats(recs)
    BY <1>2, <1>3, <2>1
  <2>4. ~(o[i] < o[j]) /\ ~(o[j] < o[i])
    <3>1. \A x, y \in 1 .. Len(recs) : x < y => x \in 1 .. y - 1
      BY <2>3
    <3>. QED BY <1>2, <2>2, <2>3, <3>1 DEF Repeats
  <2>5. o[i] = o[j]
    BY <2>3, <2>4
  <2>. QED BY <1>3, <2>1, <2>5
<1>10. ASSUME NEW s \in leftOut
       PROVE  Len(chosen) = MaxExecutions /\ \A r \in Range(chosen) : r.worth >= s.worth
  <2>1. PICK k \in 1 .. d + (f - m) : told[k].why = "limit" /\ told[k].rec = s
    BY <1>5 DEF Range
  <2>2. /\ m + (k - d) \in m + 1 .. f /\ m + (k - d) \in 1 .. f
        /\ s = recs[o[m + (k - d)]]
    BY <1>6, <2>1
  <2>3. m = MaxExecutions
    BY <1>1, <2>2
  <2>4. ASSUME NEW r \in Range(chosen) PROVE r.worth >= s.worth
    <3>1. PICK i \in 1 .. m : r = recs[o[i]]
      <4>1. PICK i \in DOMAIN chosen : chosen[i] = r
        BY <2>4 DEF Range
      <4>. QED BY <1>1, <1>5, <4>1
    <3>2. i \in 1 .. f /\ i < m + (k - d)
      BY <1>1, <2>2
    <3>3. <<o[i], o[m + (k - d)]>> \in Dearer(recs)
      BY <1>1, <2>2, <3>2
    <3>4. r \in Rec /\ s \in Rec
      BY <1>2, <1>3, <2>2, <3>1, <3>2
    <3>5. r.worth \in Nat /\ s.worth \in Nat
      BY <3>4 DEF Rec, Recommendation
    <3>. QED BY <2>2, <3>1, <3>3, <3>5 DEF Dearer
  <2>. QED BY <1>1, <2>3, <2>4
<1>11. ASSUME NEW s \in Range(told), s.why = "duplicate"
       PROVE  \E r \in Range(chosen) \cup leftOut : SameCall(r, s.rec)
  <2>1. PICK k \in 1 .. d + (f - m) : told[k] = s
    BY <1>5 DEF Range
  <2>2. k \in 1 .. d /\ s.rec = recs[h[k]] /\ h[k] \in Repeats(recs)
    BY <1>4, <1>6, <1>11, <2>1
  <2>3. PICK j \in Firsts(recs) : SameCall(recs[j], s.rec)
    BY <2>2, RepeatsHaveAFirst
  <2>4. PICK i \in 1 .. f : o[i] = j
    BY <1>3
  <2>5. CASE i \in 1 .. m
    <3>1. chosen[i] = recs[j] /\ chosen[i] \in Range(chosen)
      BY <1>1, <1>5, <2>4, <2>5 DEF Range
    <3>. QED BY <2>3, <3>1
  <2>6. CASE i \notin 1 .. m
    <3>1. PICK n \in 1 .. d + (f - m) : n \notin 1 .. d /\ m + (n - d) = i
      <4>. DEFINE n0 == d + (i - m)
      <4>1. n0 \in 1 .. d + (f - m) /\ n0 \notin 1 .. d /\ m + (n0 - d) = i
        BY <1>1, <2>6
      <4>. HIDE DEF n0
      <4>. QED BY <4>1
    <3>2. told[n].why = "limit" /\ told[n].rec = recs[j]
      BY <1>6, <2>4, <3>1
    <3>3. told[n] \in Range(told)
      BY <1>5 DEF Range
    <3>4. recs[j] \in leftOut
      BY <3>2, <3>3
    <3>. QED BY <2>3, <3>4
  <2>. QED BY <2>5, <2>6
<1>12. Len(chosen) <= MaxExecutions
  BY <1>1
<1>. QED BY <1>7, <1>8, <1>9, <1>10, <1>11, <1>12 DEF chosen, told, toldRecs

-----------------------------------------------------------------------------
(* The results, the agenda and what becomes of it.                         *)

\* Every task is an agent's.
Staffed(plan) ==
  plan \in Seq(Range(plan)) /\ \A t \in Range(plan) : t.agentId \in AgentIds

\* Every task of a template is an agent's, and of an accepted plan as well.
LEMMA TemplatesAreStaffed ==
  \A t \in TemplateSet : Staffed(t.tasks)
<1> USE DEF Staffed, Range, Template, Task, AgentIds
<1>1. Staffed(RevenueInvestigation.tasks)
  BY DEF RevenueInvestigation
<1>2. Staffed(StockoutResponse.tasks)
  BY DEF StockoutResponse, Replenishment
<1>3. Staffed(CampaignReview.tasks)
  BY DEF CampaignReview
<1>4. Staffed(CompetitorResponse.tasks)
  BY DEF CompetitorResponse
<1>5. Staffed(ServiceRecovery.tasks)
  BY DEF ServiceRecovery
<1>6. Staffed(SupplyDisruption.tasks)
  BY DEF SupplyDisruption, Replenishment
<1>7. Staffed(FulfilmentRun.tasks)
  BY DEF FulfilmentRun
<1>8. Staffed(FullBusinessReview.tasks)
  <2>. DEFINE plan == FullBusinessReview.tasks
  <2>1. plan = <<plan[1], plan[2], plan[3], plan[4], plan[5], plan[6], plan[7]>>
    BY DEF FullBusinessReview
  <2>2. \A i \in 1 .. 7 : plan[i].agentId \in AgentIds
    BY DEF FullBusinessReview
  <2>. HIDE DEF plan
  <2>3. Range(plan) = {plan[i] : i \in 1 .. 7} /\ DOMAIN plan = 1 .. 7
    BY <2>1
  <2>4. plan = [i \in 1 .. 7 |-> plan[i]]
    BY <2>1
  <2>5. plan \in Seq(Range(plan))
    BY <2>3, <2>4
  <2>. QED BY <2>2, <2>3, <2>5 DEF plan
<1> HIDE DEF Staffed, Template, Task, AgentIds
<1>9. TemplateSet = {RevenueInvestigation, StockoutResponse, CampaignReview,
                     CompetitorResponse, ServiceRecovery, SupplyDisruption,
                     FulfilmentRun, FullBusinessReview}
  BY DEF TemplateSet, PlanTemplates
<1> QED BY <1>1, <1>2, <1>3, <1>4, <1>5, <1>6, <1>7, <1>8, <1>9

LEMMA AcceptedIsStaffed ==
  ASSUME NEW p \in Proposals, Accepted(p)
  PROVE  Staffed(p)
BY OrchestratorAssumption DEF SchemaValid, Accepted, Staffed

\* What the results hold, and what the agenda, the executions and the skipped are
\* made of once the walk is over.
ResultTypes ==
  /\ Staffed(tasks)
  /\ results \in Seq(Keys)
  /\ \A k \in Keys : advice[k] \in Seq(Rec)

AgendaInv ==
  /\ ResultTypes
  /\ pc \notin {"attempting", "closed", "rejected", "gone"} => attempted = <<>>
  /\ pc \in {"attempting", "closed"} =>
       /\ attempted \in Seq(Rec) /\ agenda \in Seq(Rec)
       /\ attempted \o agenda = Chosen(Actionable)
       /\ skipped = Told(Actionable)
  /\ pc = "closed" => agenda = <<>>

\* The recommendations of the results, line by line.
LEMMA LinesAreFinite ==
  ASSUME ResultTypes
  PROVE  /\ IsFiniteSet(Lines)
         /\ \A l \in Lines : /\ l = <<l[1], l[2]>> /\ l[1] \in Nat /\ l[2] \in Nat
                             /\ Said(l) \in Rec
<1>1. results \in Seq(Keys) /\ \A k \in Keys : advice[k] \in Seq(Rec)
  BY DEF ResultTypes
<1>2. \A i \in DOMAIN results : results[i] \in Keys /\ i \in Nat
  BY <1>1
<1>. DEFINE Part(i) == {<<i, j>> : j \in DOMAIN advice[results[i]]}
            parts == [i \in DOMAIN results |-> Part(i)]
            Parts == {Part(i) : i \in DOMAIN results}
<1>3. ASSUME NEW i \in DOMAIN results PROVE IsFiniteSet(Part(i))
  <2>. DEFINE list == advice[results[i]]
              f == [j \in DOMAIN list |-> <<i, j>>]
  <2>1. list \in Seq(Rec)
    BY <1>1, <1>2
  <2>. HIDE DEF list
  <2>2. DOMAIN list = 1 .. Len(list) /\ Len(list) \in Nat
    BY <2>1
  <2>3. IsFiniteSet(DOMAIN list)
    BY <2>2, FS_Interval
  <2>4. f \in Surjection(DOMAIN list, {<<i, j>> : j \in DOMAIN list})
    BY DEF Surjection
  <2>5. IsFiniteSet({<<i, j>> : j \in DOMAIN list})
    BY <2>3, <2>4, FS_Surjection
  <2>. QED BY <2>5 DEF list
<1>4. IsFiniteSet(Parts)
  <2>1. IsFiniteSet(DOMAIN results)
    <3>1. DOMAIN results = 1 .. Len(results) /\ Len(results) \in Nat
      BY <1>1
    <3>. QED BY <3>1, FS_Interval
  <2>2. parts \in Surjection(DOMAIN results, Parts)
    BY DEF Surjection
  <2>. QED BY <2>1, <2>2, FS_Surjection
<1>5. Lines = UNION Parts
  BY DEF Lines
<1>6. \A T \in Parts : IsFiniteSet(T)
  BY <1>3
<1>7. IsFiniteSet(Lines)
  BY <1>4, <1>5, <1>6, FS_UNION
<1>8. ASSUME NEW l \in Lines
      PROVE  l = <<l[1], l[2]>> /\ l[1] \in Nat /\ l[2] \in Nat /\ Said(l) \in Rec
  <2>1. PICK i \in DOMAIN results : l \in Part(i)
    BY <1>5
  <2>2. PICK j \in DOMAIN advice[results[i]] : l = <<i, j>>
    BY <2>1
  <2>3. results[i] \in Keys /\ i \in Nat /\ advice[results[i]] \in Seq(Rec)
    BY <1>1, <1>2
  <2>4. j \in Nat /\ advice[results[i]][j] \in Rec
    BY <2>3
  <2>. QED BY <2>2, <2>3, <2>4 DEF Said, By
<1>. QED BY <1>7, <1>8

\* Said one after the other they are a list of recommendations.
LEMMA AdvisedIsAList ==
  ASSUME ResultTypes, NEW lines \in SUBSET Lines
  PROVE  Advised(lines) \in Seq(Rec)
<1>1. IsFiniteSet(lines)
  BY LinesAreFinite, FS_Subset
<1>2. \A l \in lines : l[1] \in Nat /\ l[2] \in Nat /\ l = <<l[1], l[2]>> /\ Said(l) \in Rec
  BY LinesAreFinite
<1>3. ASSUME NEW k \in lines, NEW l \in lines
      PROVE  <<k, l>> \in Precedes <=> k[1] < l[1] \/ (k[1] = l[1] /\ k[2] < l[2])
  <2>. DEFINE e == <<k, l>>
  <2>1. e \in Lines \X Lines /\ e[1] = k /\ e[2] = l
    OBVIOUS
  <2>2. e \in Precedes <=> e[1][1] < e[2][1] \/ (e[1][1] = e[2][1] /\ e[1][2] < e[2][2])
    <3>. HIDE DEF e
    <3>. QED BY <2>1 DEF Precedes
  <2>. QED BY <2>1, <2>2, Zenon
<1>4. StrictOrder(lines, Precedes)
  <2>1. ASSUME NEW l \in lines PROVE <<l, l>> \notin Precedes
    <3>1. l[1] \in Nat /\ l[2] \in Nat
      BY <1>2
    <3>2. ~(l[1] < l[1]) /\ ~(l[2] < l[2])
      BY <3>1
    <3>. QED BY <1>3, <3>2
  <2>2. ASSUME NEW k \in lines, NEW l \in lines, k # l
        PROVE  <<k, l>> \in Precedes \/ <<l, k>> \in Precedes
    <3>1. k[1] \in Nat /\ k[2] \in Nat /\ l[1] \in Nat /\ l[2] \in Nat
      BY <1>2
    <3>2. k[1] # l[1] \/ k[2] # l[2]
      <4>1. k = <<k[1], k[2]>> /\ l = <<l[1], l[2]>>
        BY <1>2
      <4>. QED BY <2>2, <4>1, Zenon
    <3>3. k[1] < l[1] \/ (k[1] = l[1] /\ k[2] < l[2])
          \/ l[1] < k[1] \/ (l[1] = k[1] /\ l[2] < k[2])
      BY <3>1, <3>2
    <3>. QED BY <1>3, <3>3, Zenon
  <2>3. ASSUME NEW k \in lines, NEW l \in lines, NEW m \in lines,
               <<k, l>> \in Precedes, <<l, m>> \in Precedes
        PROVE  <<k, m>> \in Precedes
    <3>1. /\ k[1] \in Nat /\ k[2] \in Nat /\ l[1] \in Nat /\ l[2] \in Nat
          /\ m[1] \in Nat /\ m[2] \in Nat
      BY <1>2
    <3>2. /\ k[1] < l[1] \/ (k[1] = l[1] /\ k[2] < l[2])
          /\ l[1] < m[1] \/ (l[1] = m[1] /\ l[2] < m[2])
      BY <1>3, <2>3
    <3>3. k[1] < m[1] \/ (k[1] = m[1] /\ k[2] < m[2])
      BY <3>1, <3>2
    <3>. QED BY <1>3, <3>3, Zenon
  <2>. QED BY <2>1, <2>2, <2>3 DEF StrictOrder
<1>. DEFINE n == Cardinality(lines)
            order == Listed(lines, Precedes)
<1>5. n \in Nat /\ order \in [1 .. n -> lines]
  BY <1>1, <1>4, ListedInOrder DEF Bijection, Injection
<1>6. Advised(lines) = [k \in DOMAIN order |-> Said(order[k])]
  BY DEF Advised
<1>. HIDE DEF n, order
<1>7. Advised(lines) = [k \in 1 .. n |-> Advised(lines)[k]]
      /\ \A k \in 1 .. n : Advised(lines)[k] \in Rec
  <2>1. Advised(lines) = [k \in 1 .. n |-> Said(order[k])]
    BY <1>5, <1>6
  <2>2. \A k \in 1 .. n : Said(order[k]) \in Rec
    BY <1>2, <1>5
  <2>. QED BY <2>1, <2>2
<1>. QED BY <1>5, <1>7, ListOf

\* The results of a wave are a list of keys.
LEMMA InOrderIsAList ==
  ASSUME ResultTypes, NEW S
  PROVE  InOrder(S) \in Seq(Keys)
<1>. DEFINE places == {i \in DOMAIN tasks : tasks[i].key \in S}
            n == Cardinality(places)
            order == Listed(places, Ascending(places))
<1>1. tasks \in Seq(Range(tasks))
  BY DEF ResultTypes, Staffed
<1>2. DOMAIN tasks = 1 .. Len(tasks) /\ Len(tasks) \in Nat
  BY <1>1
<1>3. IsFiniteSet(places)
  <2>1. IsFiniteSet(DOMAIN tasks)
    BY <1>2, FS_Interval
  <2>. QED BY <2>1, FS_Subset
<1>4. StrictOrder(places, Ascending(places))
  <2>1. \A i, j \in places : <<i, j>> \in Ascending(places) <=> i < j
    BY DEF Ascending
  <2>2. \A i \in places : i \in Nat
    BY <1>2
  <2>. HIDE DEF places
  <2>. QED BY <2>1, <2>2 DEF StrictOrder
<1>5. n \in Nat /\ order \in [1 .. n -> places]
  <2>. HIDE DEF places
  <2>. QED BY <1>3, <1>4, ListedInOrder DEF Bijection, Injection
<1>6. InOrder(S) = [k \in DOMAIN order |-> [i \in DOMAIN tasks |-> tasks[i].key][order[k]]]
  BY DEF InOrder, Pick
<1>7. \A k \in 1 .. n : order[k] \in DOMAIN tasks
  BY <1>5
<1>8. \A i \in DOMAIN tasks : tasks[i].key \in Keys
  BY DEF Keys, KeysOf, Range
<1>. HIDE DEF n, order, places
<1>9. InOrder(S) = [k \in 1 .. n |-> tasks[order[k]].key]
  BY <1>5, <1>6, <1>7
<1>10. InOrder(S) = [k \in 1 .. n |-> InOrder(S)[k]] /\ \A k \in 1 .. n : InOrder(S)[k] \in Keys
  BY <1>7, <1>8, <1>9
<1>. QED BY <1>5, <1>10, ListOf

\* Where nothing is on the agenda yet.
Early == Pc \ {"attempting", "closed", "rejected", "gone"}

\* Nothing has been advised and nothing is on the agenda.
LEMMA AgendaStarts ==
  ASSUME PlanInit
  PROVE  AgendaInv
<1>1. tasks = <<>> /\ Keys = {} /\ results = <<>> /\ attempted = <<>> /\ pc = "asking"
  BY NoTasksNoKeys DEF PlanInit, Keys
<1>2. <<>> \in Seq(Range(<<>>)) /\ \A t \in Range(<<>>) : t.agentId \in AgentIds
  BY DEF Range
<1>. QED BY <1>1, <1>2 DEF AgendaInv, ResultTypes, Staffed

\* While the plan, the results and what they recommend stay, so does what is made of them.
LEMMA AdviceStays ==
  ASSUME ResultTypes, UNCHANGED <<tasks, advice, results>>
  PROVE  ResultTypes' /\ Actionable' = Actionable
<1>1. ResultTypes'
  BY DEF ResultTypes, Keys
<1>2. Actionable' = Actionable
  BY DEF Actionable, Advised, Lines, Precedes, Said, By
<1>. QED BY <1>1, <1>2

\* The agenda, the executions, the skipped and what they are made of stay.
LEMMA AgendaStays ==
  ASSUME AgendaInv, UNCHANGED <<tasks, advice, results, outcomeVars>>,
         pc' = pc \/ pc' \in {"rejected", "gone"} \/ (pc \in Early /\ pc' \in Early)
  PROVE  AgendaInv'
<1>1. UNCHANGED <<tasks, advice, results, agenda, attempted, skipped>>
  BY DEF outcomeVars
<1>2. ResultTypes' /\ Actionable' = Actionable
  BY <1>1, AdviceStays DEF AgendaInv
<1>. QED BY <1>1, <1>2 DEF AgendaInv, Early, Pc, Ended

\* A plan is adopted: it is staffed, and nobody has advised anything.
LEMMA AdoptionKeepsTheTypes ==
  ASSUME AgendaInv, WalkInv, ReadPlan
  PROVE  AgendaInv'
<1>1. /\ pc = "planning" /\ pc' = "persisting" /\ Choose
      /\ UNCHANGED <<results, agenda, attempted, skipped>>
  BY DEF ReadPlan, ends, outcomeVars
<1>2. results = <<>> /\ attempted = <<>>
  <2>1. Keys = {}
    BY <1>1, NoTasksNoKeys DEF WalkInv, StageInv, Keys
  <2>2. results \in Seq({})
    BY <2>1 DEF AgendaInv, ResultTypes
  <2>. QED BY <1>1, <2>2 DEF AgendaInv
<1>3. \E plan, by : Adopt(plan, by) /\ Staffed(plan)
  <2>1. Staffed(fallback)
    BY TemplatesAreStaffed DEF WalkInv, WalkTypes
  <2>. QED BY <1>1, <2>1, AcceptedIsStaffed DEF Choose
<1>4. PICK plan, by : Adopt(plan, by) /\ Staffed(plan)
  BY <1>3
<1>5. tasks' = plan /\ advice' = [k \in KeysOf(plan) |-> <<>>] /\ Keys' = KeysOf(plan)
  BY <1>4 DEF Adopt, Keys
<1>6. ResultTypes'
  <2>1. Staffed(tasks)'
    BY <1>4, <1>5 DEF Staffed
  <2>2. results' \in Seq(Keys')
    BY <1>1, <1>2
  <2>3. \A k \in Keys' : advice'[k] \in Seq(Rec)
    BY <1>5
  <2>. QED BY <2>1, <2>2, <2>3 DEF ResultTypes
<1>. QED BY <1>1, <1>2, <1>6 DEF AgendaInv

\* An agent returns a result.
LEMMA AdviceKeepsTheTypes ==
  ASSUME AgendaInv, WalkInv, NEW k \in Keys, Conclude(k)
  PROVE  AgendaInv'
<1>1. /\ UNCHANGED <<pc, tasks, results, agenda, attempted, skipped>>
      /\ \E recommended \in Recommends(k) : advice' = [advice EXCEPT ![k] = recommended]
      /\ at[k] = "reasoning"
  BY DEF Conclude, planVars, ends, outcomeVars
<1>2. pc \notin {"attempting", "closed"}
  BY <1>1, ActiveIsOpen DEF Active
<1>3. PICK recommended \in Recommends(k) : advice' = [advice EXCEPT ![k] = recommended]
  BY <1>1
<1>4. recommended \in Seq(Rec)
  <2>1. CASE AgentOf(k) = "ceo"
    <3>1. recommended = Findings(k)
      BY <2>1 DEF Recommends
    <3>2. Findings(k) \in Seq(Rec)
      BY AdvisedIsAList DEF Findings, AgendaInv
    <3>. QED BY <3>1, <3>2
  <2>2. CASE AgentOf(k) # "ceo"
    <3>1. recommended \in Advice[AgentOf(k)]
      BY <2>2 DEF Recommends
    <3>2. TaskOf(tasks, k) \in Range(tasks)
      BY TaskOfKey DEF Keys
    <3>3. AgentOf(k) \in AgentIds
      BY <3>2 DEF AgentOf, AgendaInv, ResultTypes, Staffed
    <3>. QED BY <3>1, <3>3, OrchestratorAssumption DEF Rec
  <2>. QED BY <2>1, <2>2
<1>5. Keys' = Keys
  BY <1>1 DEF Keys
<1>6. \A j \in Keys : advice'[j] \in Seq(Rec)
  BY <1>3, <1>4 DEF AgendaInv, ResultTypes, WalkInv, WalkTypes
<1>7. ResultTypes'
  BY <1>1, <1>5, <1>6 DEF AgendaInv, ResultTypes
<1>. QED BY <1>1, <1>2, <1>7 DEF AgendaInv

\* The results of a wave are collected.
LEMMA ResultsKeepTheTypes ==
  ASSUME AgendaInv, SettleWave
  PROVE  AgendaInv'
<1>. DEFINE more == InOrder({k \in Wave : at[k] = "ok"})
<1>1. /\ pc = "waiting" /\ pc' = "walking"
      /\ UNCHANGED <<tasks, advice, agenda, attempted, skipped>>
      /\ results' = results \o more
  BY DEF SettleWave, planVars, outcomeVars
<1>2. more \in Seq(Keys)
  BY InOrderIsAList DEF AgendaInv
<1>3. results \o more \in Seq(Keys)
  <2>. HIDE DEF more
  <2>. QED BY <1>2 DEF AgendaInv, ResultTypes
<1>4. Keys' = Keys
  BY <1>1 DEF Keys
<1>5. ResultTypes'
  BY <1>1, <1>3, <1>4 DEF AgendaInv, ResultTypes
<1>. QED BY <1>1, <1>5 DEF AgendaInv

\* executeRecommendations ranks what was advised.
LEMMA AgendaIsDrawn ==
  ASSUME AgendaInv, RankRecommendations
  PROVE  AgendaInv'
<1>1. /\ pc = "walking" /\ pc' = "attempting"
      /\ agenda' = Chosen(Actionable) /\ skipped' = Told(Actionable)
      /\ UNCHANGED <<tasks, advice, results, attempted>>
  BY DEF RankRecommendations, planVars, walkVars, ends, Told
<1>2. ResultTypes' /\ Actionable' = Actionable
  BY <1>1, AdviceStays DEF AgendaInv
<1>3. Chosen(Actionable) \in Seq(Rec)
  <2>1. Actionable \in Seq(Rec)
    BY AdvisedIsAList DEF Actionable, AgendaInv
  <2>. QED BY <2>1, OutcomeByPlaces
<1>4. attempted' = <<>> /\ attempted' \in Seq(Rec)
  BY <1>1 DEF AgendaInv
<1>5. attempted' \o agenda' = agenda'
  BY <1>1, <1>3, <1>4, ConcatEmptySeq
<1>. QED BY <1>1, <1>2, <1>3, <1>4, <1>5 DEF AgendaInv

\* The first of the agenda is attempted.
LEMMA AgendaIsWorkedOff ==
  ASSUME AgendaInv, Attempt
  PROVE  AgendaInv'
<1>1. /\ pc = "attempting" /\ pc' = pc /\ agenda # <<>>
      /\ attempted' = Append(attempted, Head(agenda)) /\ agenda' = Tail(agenda)
      /\ UNCHANGED <<tasks, advice, results, skipped>>
  BY DEF Attempt, planVars, walkVars, ends
<1>2. ResultTypes' /\ Actionable' = Actionable
  BY <1>1, AdviceStays DEF AgendaInv
<1>3. agenda \in Seq(Rec) /\ attempted \in Seq(Rec)
  BY <1>1 DEF AgendaInv
<1>4. ASSUME NEW s \in Seq(Rec), NEW t \in Seq(Rec), t # <<>>
      PROVE  /\ Append(s, Head(t)) \in Seq(Rec) /\ Tail(t) \in Seq(Rec)
             /\ Append(s, Head(t)) \o Tail(t) = s \o t
  <2>1. Head(t) \in Rec /\ Tail(t) \in Seq(Rec) /\ t = <<Head(t)>> \o Tail(t)
    BY <1>4
  <2>2. Append(s, Head(t)) = s \o <<Head(t)>> /\ <<Head(t)>> \in Seq(Rec)
    BY <2>1, AppendIsConcat
  <2>3. (s \o <<Head(t)>>) \o Tail(t) = s \o (<<Head(t)>> \o Tail(t))
    BY <2>1, <2>2, ConcatAssociative
  <2>. QED BY <2>1, <2>2, <2>3
<1>5. attempted' \o agenda' = attempted \o agenda /\ attempted' \in Seq(Rec) /\ agenda' \in Seq(Rec)
  BY <1>1, <1>3, <1>4
<1>. QED BY <1>1, <1>2, <1>5 DEF AgendaInv

\* Every step keeps the agenda's account.
LEMMA AgendaStepKeeps ==
  ASSUME AgendaInv, WalkInv, [PlanNext]_orchestratorVars
  PROVE  AgendaInv'
<1>1. CASE UNCHANGED orchestratorVars
  BY <1>1, AgendaStays DEF orchestratorVars, planVars, walkVars, ends
<1>2. CASE GatewayStep(Serve)
  BY <1>2, AgendaStays DEF GatewayStep, planVars, walkVars, ends
<1>3. CASE Walk
  <2>1. CASE AskPlanner \/ Persist \/ StartWave \/ RejectWave \/ BlockRest
    <3>1. /\ UNCHANGED <<tasks, advice, results, outcomeVars>>
          /\ pc' = pc \/ pc' \in {"rejected", "gone"} \/ (pc \in Early /\ pc' \in Early)
      BY <2>1 DEF AskPlanner, Persist, StartWave, RejectWave, BlockRest, planVars, walkVars, ends,
                  Early, Pc, Ended
    <3>. QED BY <3>1, AgendaStays
  <2>2. CASE Close
    <3>1. /\ pc = "attempting" /\ pc' = "closed" /\ agenda = <<>>
          /\ UNCHANGED <<tasks, advice, results, agenda, attempted, skipped>>
      BY <2>2 DEF Close, planVars, walkVars, ends, outcomeVars
    <3>2. ResultTypes' /\ Actionable' = Actionable
      BY <3>1, AdviceStays DEF AgendaInv
    <3>. QED BY <3>1, <3>2 DEF AgendaInv
  <2>. QED BY <1>3, <2>1, <2>2, AdoptionKeepsTheTypes, ResultsKeepTheTypes, AgendaIsDrawn,
              AgendaIsWorkedOff DEF Walk
<1>4. CASE WalkCut
  <2>1. /\ UNCHANGED <<tasks, advice, results, outcomeVars>>
        /\ pc' = pc \/ pc' \in {"rejected", "gone"} \/ (pc \in Early /\ pc' \in Early)
    BY <1>4 DEF WalkCut, PersistCut, StartWaveCut, BlockRestCut, AttemptCut, CloseCut,
                planVars, walkVars, ends, Early, Pc, Ended
  <2>. QED BY <2>1, AgendaStays
<1>5. ASSUME NEW k \in Keys, Execute(k) \/ ExecuteBadly(k) PROVE AgendaInv'
  <2>1. CASE Conclude(k)
    BY <2>1, AdviceKeepsTheTypes
  <2>2. CASE Consult(k) \/ Retry(k) \/ ExecuteBadly(k)
    <3>1. UNCHANGED <<pc, tasks, advice, results, outcomeVars>>
      BY <2>2 DEF Consult, Retry, ExecuteBadly, GatherFails, VerifyFails, ConcludeCut, FailCut,
                  RetryCut, planVars, ends
    <3>. QED BY <3>1, AgendaStays
  <2>. QED BY <1>5, <2>1, <2>2 DEF Execute
<1>6. CASE Crash
  <2>1. UNCHANGED <<tasks, advice, results, outcomeVars>> /\ pc' = "gone"
    BY <1>6 DEF Crash, planVars, ends
  <2>. QED BY <2>1, AgendaStays
<1>. QED BY <1>1, <1>2, <1>3, <1>4, <1>5, <1>6 DEF PlanNext

\* "Never silently dropped": when a plan is closed, every actionable recommendation
\* was attempted or is reported as skipped, once, whatever the agents recommended.
THEOREM RecommendationsAreAllAccountedFor ==
  PlanSafeSpec => []RecommendationsAreAccountedFor
<1>1. PlanInit => AgendaInv
  BY AgendaStarts
<1>2. PlanIInv /\ AgendaInv /\ [PlanNext]_orchestratorVars => AgendaInv'
  BY AgendaStepKeeps DEF PlanIInv
<1>3. AgendaInv => RecommendationsAreAccountedFor
  <2>. SUFFICES ASSUME AgendaInv, pc = "closed"
                PROVE  RecommendationsAreAccountedFor
    BY DEF RecommendationsAreAccountedFor
  <2>1. Actionable \in Seq(Rec)
    BY AdvisedIsAList DEF Actionable, AgendaInv
  <2>2. attempted = Chosen(Actionable) /\ skipped = Told(Actionable)
    <3>1. attempted \o <<>> = Chosen(Actionable) /\ attempted \in Seq(Rec) /\ skipped = Told(Actionable)
      BY DEF AgendaInv
    <3>. QED BY <3>1, ConcatEmptySeq
  <2>. DEFINE recs == Actionable
  <2>3. /\ \A r : Times(recs, r) = Times(attempted, r) + Times(SkippedRecs, r)
        /\ Len(recs) = Len(attempted) + Len(skipped)
        /\ \A i, j \in DOMAIN attempted : SameCall(attempted[i], attempted[j]) => i = j
        /\ Len(attempted) <= MaxExecutions
        /\ \A s \in LeftOut :
             Len(attempted) = MaxExecutions /\ \A r \in Range(attempted) : r.worth >= s.worth
        /\ \A s \in Range(skipped) : s.why = "duplicate" =>
             \E r \in Range(attempted) \cup LeftOut : SameCall(r, s.rec)
    <3>. HIDE DEF recs
    <3>1. recs \in Seq(Rec) /\ attempted = Chosen(recs) /\ skipped = Told(recs)
      BY <2>1, <2>2 DEF recs
    <3>. QED BY <3>1, Accounted DEF SkippedRecs, LeftOut
  <2>. QED BY <2>3 DEF RecommendationsAreAccountedFor
<1>. QED BY <1>1, <1>2, <1>3, PlanInvariant, PTL DEF PlanSafeSpec
=============================================================================
