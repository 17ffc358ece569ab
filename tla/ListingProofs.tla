---------------------------- MODULE ListingProofs ----------------------------
(***************************************************************************)
(* What a list by rank contains and in which order, for any finite set and *)
(* any strict total order.  That every place of the list is taken is a     *)
(* matter of counting: ranks differ, and there are as many as elements.    *)
(***************************************************************************)
EXTENDS Listing, FiniteSetTheorems, FunctionTheorems, SequenceTheorems,
        WellFoundedInduction, TLAPS

\* `before' orders S strictly and totally.
StrictOrder(S, before) ==
  /\ \A x \in S : <<x, x>> \notin before
  /\ \A x, y \in S : x # y => <<x, y>> \in before \/ <<y, x>> \in before
  /\ \A x, y, z \in S : <<x, y>> \in before /\ <<y, z>> \in before => <<x, z>> \in before

\* What comes before something has the smaller rank.
LEMMA RanksFollow ==
  ASSUME NEW S, IsFiniteSet(S), NEW before, StrictOrder(S, before)
  PROVE  /\ \A x \in S : Rank(x, S, before) \in 0 .. Cardinality(S) - 1
         /\ \A x, y \in S : <<x, y>> \in before => Rank(x, S, before) < Rank(y, S, before)
<1>. DEFINE Ahead(x) == {y \in S : <<y, x>> \in before}
<1>1. ASSUME NEW x \in S
      PROVE  /\ IsFiniteSet(Ahead(x)) /\ Rank(x, S, before) = Cardinality(Ahead(x))
             /\ Cardinality(Ahead(x)) \in Nat
  BY FS_Subset, FS_CardinalityType DEF Rank
<1>2. ASSUME NEW T, NEW U, IsFiniteSet(U), T \in SUBSET U, T # U
      PROVE  Cardinality(T) < Cardinality(U)
  <2>1. /\ Cardinality(T) <= Cardinality(U) /\ Cardinality(T) # Cardinality(U)
        /\ Cardinality(T) \in Nat /\ Cardinality(U) \in Nat
    BY <1>2, FS_Subset, FS_CardinalityType
  <2>. QED BY <2>1
<1>3. ASSUME NEW x \in S PROVE Rank(x, S, before) \in 0 .. Cardinality(S) - 1
  <2>1. Ahead(x) \in SUBSET S /\ Ahead(x) # S
    BY DEF StrictOrder
  <2>2. Cardinality(Ahead(x)) < Cardinality(S) /\ Cardinality(S) \in Nat
    BY <1>2, <2>1, FS_CardinalityType
  <2>. QED BY <1>1, <2>2
<1>4. ASSUME NEW x \in S, NEW y \in S, <<x, y>> \in before
      PROVE  Rank(x, S, before) < Rank(y, S, before)
  <2>1. Ahead(x) \in SUBSET Ahead(y)
    BY <1>4 DEF StrictOrder
  <2>2. x \in Ahead(y) /\ x \notin Ahead(x)
    BY <1>4 DEF StrictOrder
  <2>. QED BY <1>1, <1>2, <2>1, <2>2
<1>. QED BY <1>3, <1>4

\* The list has everything once, in order.
LEMMA ListedInOrder ==
  ASSUME NEW S, IsFiniteSet(S), NEW before, StrictOrder(S, before)
  PROVE  /\ Cardinality(S) \in Nat
         /\ Listed(S, before) \in Bijection(1 .. Cardinality(S), S)
         /\ \A i, j \in 1 .. Cardinality(S) :
              i < j => <<Listed(S, before)[i], Listed(S, before)[j]>> \in before
<1>. DEFINE n == Cardinality(S)
            list == Listed(S, before)
            place == [x \in S |-> Rank(x, S, before) + 1]
<1>1. n \in Nat
  BY FS_CardinalityType
<1>2. \A x \in S : Rank(x, S, before) \in 0 .. n - 1
  BY RanksFollow
<1>3. \A x, y \in S : <<x, y>> \in before => Rank(x, S, before) < Rank(y, S, before)
  BY RanksFollow
<1>. HIDE DEF n
<1>0. ASSUME NEW x \in S, NEW y \in S, Rank(x, S, before) = Rank(y, S, before) PROVE x = y
  <2>1. Rank(x, S, before) \in Int /\ Rank(y, S, before) \in Int
    BY <1>2
  <2>2. <<x, y>> \notin before /\ <<y, x>> \notin before
    BY <1>0, <1>3, <2>1
  <2>. QED BY <2>2 DEF StrictOrder
<1>4. place \in Injection(S, 1 .. n)
  <2>1. place \in [S -> 1 .. n]
    BY <1>1, <1>2
  <2>2. ASSUME NEW x \in S, NEW y \in S, place[x] = place[y] PROVE x = y
    <3>1. Rank(x, S, before) + 1 = Rank(y, S, before) + 1
      BY <2>2
    <3>2. Rank(x, S, before) \in Int /\ Rank(y, S, before) \in Int
      BY <1>2
    <3>. QED BY <1>0, <3>1, <3>2
  <2>. QED BY <2>1, <2>2 DEF Injection, IsInjective
<1>5. place \in Surjection(S, 1 .. n)
  <2>1. IsFiniteSet(1 .. n) /\ Cardinality(1 .. n) = n
    BY <1>1, FS_Interval
  <2>. QED BY <1>4, <2>1, FS_Injection DEF n
<1>6. ASSUME NEW i \in 1 .. n PROVE list[i] \in S /\ Rank(list[i], S, before) = i - 1
  <2>1. \E x \in S : place[x] = i
    BY <1>5 DEF Surjection
  <2>2. \E x \in S : Rank(x, S, before) = i - 1
    BY <1>1, <1>2, <2>1
  <2>3. list[i] = CHOOSE x \in S : Rank(x, S, before) = i - 1
    BY DEF Listed, n
  <2>. QED BY <2>2, <2>3
<1>7. list = [i \in 1 .. n |-> list[i]]
  BY DEF Listed, n
<1>. HIDE DEF list
<1>8. list \in Bijection(1 .. n, S)
  <2>1. list \in [1 .. n -> S]
    BY <1>6, <1>7
  <2>2. \A i, j \in 1 .. n : list[i] = list[j] => i = j
    BY <1>1, <1>6
  <2>3. ASSUME NEW x \in S PROVE \E i \in 1 .. n : list[i] = x
    <3>1. PICK i \in 1 .. n : Rank(x, S, before) = i - 1
      <4>1. Rank(x, S, before) \in 0 .. n - 1
        BY <1>2
      <4>2. \A k \in 0 .. n - 1 : k + 1 \in 1 .. n /\ k = k + 1 - 1
        BY <1>1
      <4>. DEFINE r == Rank(x, S, before)
      <4>3. r + 1 \in 1 .. n /\ r = (r + 1) - 1
        BY <4>1, <4>2
      <4>. HIDE DEF r
      <4>4. \E i \in 1 .. n : r = i - 1
        BY <4>3
      <4>. QED BY <4>4 DEF r
    <3>2. Rank(list[i], S, before) = Rank(x, S, before) /\ list[i] \in S
      BY <1>6, <3>1
    <3>. QED BY <1>0, <3>2
  <2>4. list \in Injection(1 .. n, S)
    BY <2>1, <2>2 DEF Injection, IsInjective
  <2>5. list \in Surjection(1 .. n, S)
    BY <2>1, <2>3 DEF Surjection
  <2>. QED BY <2>4, <2>5 DEF Bijection
<1>9. ASSUME NEW i \in 1 .. n, NEW j \in 1 .. n, i < j PROVE <<list[i], list[j]>> \in before
  <2>1. /\ list[i] \in S /\ list[j] \in S
        /\ Rank(list[i], S, before) = i - 1 /\ Rank(list[j], S, before) = j - 1
    BY <1>6
  <2>2. ~(Rank(list[j], S, before) < Rank(list[i], S, before)) /\ list[i] # list[j]
    BY <1>1, <1>9, <2>1
  <2>. QED BY <1>3, <2>1, <2>2 DEF StrictOrder
<1>. QED BY <1>1, <1>8, <1>9 DEF list, n

\* A function on 1 .. n is a list of n.
LEMMA ListOf ==
  ASSUME NEW S, NEW n \in Nat, NEW list, list = [k \in 1 .. n |-> list[k]],
         \A k \in 1 .. n : list[k] \in S
  PROVE  list \in Seq(S) /\ Len(list) = n
OBVIOUS

\* A list by rank as a sequence: what it has, once each, and how long it is.
LEMMA ListedHas ==
  ASSUME NEW S, IsFiniteSet(S), NEW before, StrictOrder(S, before)
  PROVE  /\ Listed(S, before) \in Seq(S) /\ Len(Listed(S, before)) = Cardinality(S)
         /\ \A x \in S : \E i \in DOMAIN Listed(S, before) : Listed(S, before)[i] = x
         /\ \A i, j \in DOMAIN Listed(S, before) :
              Listed(S, before)[i] = Listed(S, before)[j] => i = j
<1>. DEFINE list == Listed(S, before)
            n == Cardinality(S)
<1>1. n \in Nat /\ list \in Bijection(1 .. n, S)
  BY ListedInOrder
<1>2. list \in [1 .. n -> S] /\ \A i, j \in 1 .. n : list[i] = list[j] => i = j
  BY <1>1 DEF Bijection, Injection, IsInjective
<1>3. \A x \in S : \E i \in 1 .. n : list[i] = x
  BY <1>1 DEF Bijection, Surjection
<1>. HIDE DEF list, n
<1>4. list \in Seq(S) /\ Len(list) = n
  BY <1>1, <1>2, ListOf
<1>5. DOMAIN list = 1 .. n
  BY <1>2
<1>. QED BY <1>2, <1>3, <1>4, <1>5 DEF list, n

\* The places of a list, and any of them, are listed as numbers are.
LEMMA PlacesAreListed ==
  ASSUME NEW n \in Nat, NEW P \in SUBSET (1 .. n)
  PROVE  IsFiniteSet(P) /\ StrictOrder(P, Ascending(P))
<1>1. IsFiniteSet(P)
  <2>1. IsFiniteSet(1 .. n)
    BY FS_Interval
  <2>. QED BY <2>1, FS_Subset
<1>2. \A x, y \in P : <<x, y>> \in Ascending(P) <=> x < y
  BY DEF Ascending
<1>3. P \subseteq Nat
  OBVIOUS
<1>. QED BY <1>1, <1>2, <1>3 DEF StrictOrder

\* What of a list is in S, and nothing else.
LEMMA AmongHas ==
  ASSUME NEW T, NEW list \in Seq(T), NEW S
  PROVE  /\ Among(list, S) \in Seq(S \cap T)
         /\ \A n \in DOMAIN list :
              list[n] \in S => \E i \in DOMAIN Among(list, S) : Among(list, S)[i] = list[n]
<1>. DEFINE P == {n \in DOMAIN list : list[n] \in S}
            places == Listed(P, Ascending(P))
<1>1. Len(list) \in Nat /\ DOMAIN list = 1 .. Len(list) /\ P \in SUBSET (1 .. Len(list))
  OBVIOUS
<1>2. IsFiniteSet(P) /\ StrictOrder(P, Ascending(P))
  BY <1>1, PlacesAreListed
<1>3. /\ places \in Seq(P)
      /\ \A x \in P : \E i \in DOMAIN places : places[i] = x
  <2>. HIDE DEF P
  <2>. QED BY <1>2, ListedHas
<1>4. Among(list, S) = [n \in DOMAIN places |-> list[places[n]]]
  BY DEF Among, Pick
<1>5. \A n \in P : list[n] \in S \cap T
  BY <1>1
<1>6. P \subseteq DOMAIN list
  OBVIOUS
<1>7. \A n \in DOMAIN list : list[n] \in S => n \in P
  OBVIOUS
<1>. HIDE DEF places, P
<1>8. DOMAIN places = 1 .. Len(places) /\ Len(places) \in Nat
  BY <1>3
<1>9. \A i \in 1 .. Len(places) : places[i] \in P
  BY <1>3
<1>10. Among(list, S) \in Seq(S \cap T)
  <2>1. \A k \in 1 .. Len(places) : Among(list, S)[k] \in S \cap T
    BY <1>4, <1>5, <1>8, <1>9
  <2>2. Among(list, S) = [k \in 1 .. Len(places) |-> Among(list, S)[k]]
    BY <1>4, <1>8
  <2>. QED BY <1>8, <2>1, <2>2, ListOf
<1>11. ASSUME NEW n \in DOMAIN list, list[n] \in S
       PROVE  \E i \in DOMAIN Among(list, S) : Among(list, S)[i] = list[n]
  BY <1>3, <1>4, <1>7, <1>11
<1>. QED BY <1>10, <1>11

-----------------------------------------------------------------------------
\* A set of numbers has a least.
LEMMA HasALeast ==
  ASSUME NEW S \in SUBSET Nat, S # {}
  PROVE  \E n \in S : \A k \in S : n <= k
<1>1. PICK n \in S : \A k \in S : <<k, n>> \notin OpToRel(<, Nat)
  BY NatLessThanWellFounded, WFMin
<1>2. \A k \in S : ~(k < n)
  BY <1>1 DEF OpToRel
<1>3. \A k \in S : n <= k
  BY <1>2
<1>. QED BY <1>3

\* A finite set of numbers has a greatest: the last of its list.
LEMMA HasAGreatest ==
  ASSUME NEW S \in SUBSET Nat, IsFiniteSet(S), S # {}
  PROVE  \E n \in S : \A k \in S : k <= n
<1>. DEFINE list == Listed(S, Ascending(S))
            n == Cardinality(S)
<1>1. \A x, y \in S : <<x, y>> \in Ascending(S) <=> x < y
  BY DEF Ascending
<1>2. StrictOrder(S, Ascending(S))
  BY <1>1 DEF StrictOrder
<1>3. /\ n \in Nat /\ list \in Bijection(1 .. n, S)
      /\ \A i, j \in 1 .. n : i < j => <<list[i], list[j]>> \in Ascending(S)
  BY <1>2, ListedInOrder
<1>4. /\ \A i \in 1 .. n : list[i] \in S
      /\ \A x \in S : \E i \in 1 .. n : list[i] = x
  BY <1>3 DEF Bijection, Injection, Surjection
<1>. HIDE DEF list, n
<1>5. n \in 1 .. n
  <2>1. PICK i \in 1 .. n : TRUE
    BY <1>4
  <2>. QED BY <1>3, <2>1
<1>6. ASSUME NEW k \in S PROVE k <= list[n]
  <2>1. PICK i \in 1 .. n : list[i] = k
    BY <1>4
  <2>2. i = n \/ i < n
    BY <1>3
  <2>3. list[n] \in S
    BY <1>4, <1>5
  <2>4. k = list[n] \/ k < list[n]
    BY <1>1, <1>3, <1>5, <2>1, <2>2, <2>3
  <2>5. k \in Nat /\ list[n] \in Nat
    BY <2>3
  <2>. QED BY <2>4, <2>5
<1>. QED BY <1>4, <1>5, <1>6

\* Induction, said of a set.
LEMMA Counting ==
  ASSUME NEW S, 0 \in S, \A n \in Nat : n \in S => n + 1 \in S
  PROVE  Nat \subseteq S
<1>. SUFFICES ASSUME Nat \ S # {} PROVE FALSE
  OBVIOUS
<1>1. PICK n \in Nat \ S : \A k \in Nat \ S : n <= k
  BY HasALeast
<1>2. n - 1 \in Nat /\ n - 1 \notin Nat \ S
  BY <1>1
<1>. QED BY <1>1, <1>2

\* The sum of natural numbers is one.
LEMMA TotalIsANumber ==
  ASSUME NEW list \in Seq(Nat)
  PROVE  Total(list) \in Nat
<1>. DEFINE L == Len(list)
            Sums(g, m) == /\ g \in [0 .. m -> Nat] /\ g[0] = 0
                          /\ \A n \in 1 .. m : g[n] = g[n - 1] + list[n]
            upTo[n \in 0 .. L] == IF n = 0 THEN 0 ELSE upTo[n - 1] + list[n]
<1>1. L \in Nat /\ \A n \in 1 .. L : list[n] \in Nat
  OBVIOUS
<1>. HIDE DEF L
<1>2. \A m \in Nat : m <= L => \E g : Sums(g, m)
  <2>. DEFINE Some == {m \in Nat : m <= L => \E g : Sums(g, m)}
  <2>1. 0 \in Some
    <3>1. Sums([n \in 0 .. 0 |-> 0], 0)
      OBVIOUS
    <3>. QED BY <3>1
  <2>2. ASSUME NEW m \in Nat, m \in Some PROVE m + 1 \in Some
    <3>. SUFFICES ASSUME m + 1 <= L PROVE \E g : Sums(g, m + 1)
      <4>. HIDE DEF Sums
      <4>. QED OBVIOUS
    <3>1. PICK g : Sums(g, m)
      <4>. HIDE DEF Sums
      <4>. QED BY <1>1, <2>2
    <3>. DEFINE h == [n \in 0 .. m + 1 |-> IF n = m + 1 THEN g[m] + list[n] ELSE g[n]]
    <3>2. m + 1 \in 1 .. L /\ list[m + 1] \in Nat /\ g[m] \in Nat
      BY <1>1, <3>1
    <3>3. h \in [0 .. m + 1 -> Nat] /\ h[0] = 0
      BY <3>1, <3>2
    <3>4. ASSUME NEW n \in 1 .. m + 1 PROVE h[n] = h[n - 1] + list[n]
      <4>1. n \in 0 .. m + 1 /\ n - 1 \in 0 .. m /\ n - 1 # m + 1
        OBVIOUS
      <4>2. h[n - 1] = g[n - 1]
        BY <4>1
      <4>3. CASE n = m + 1
        BY <4>1, <4>2, <4>3
      <4>4. CASE n # m + 1
        <5>1. n \in 1 .. m
          BY <4>4
        <5>. QED BY <3>1, <4>1, <4>2, <4>4, <5>1
      <4>. QED BY <4>3, <4>4
    <3>5. Sums(h, m + 1)
      BY <3>3, <3>4
    <3>. QED BY <3>5
  <2>. HIDE DEF Some
  <2>3. Nat \subseteq Some
    BY <2>1, <2>2, Counting
  <2>. QED BY <2>3 DEF Some
<1>3. PICK g : Sums(g, L)
  <2>. HIDE DEF Sums
  <2>1. L <= L
    BY <1>1
  <2>. QED BY <1>1, <1>2, <2>1
<1>4. g = [n \in 0 .. L |-> IF n = 0 THEN 0 ELSE g[n - 1] + list[n]]
  BY <1>1, <1>3
<1>5. upTo = [n \in 0 .. L |-> IF n = 0 THEN 0 ELSE upTo[n - 1] + list[n]]
  BY <1>4
<1>6. \A n \in Nat : n <= L => upTo[n] \in Nat
  <2>. DEFINE Some == {n \in Nat : n <= L => upTo[n] \in Nat}
  <2>. HIDE DEF upTo
  <2>1. 0 \in Some
    BY <1>1, <1>5
  <2>2. ASSUME NEW n \in Nat, n \in Some PROVE n + 1 \in Some
    <3>. SUFFICES ASSUME n + 1 <= L PROVE upTo[n + 1] \in Nat
      OBVIOUS
    <3>1. n + 1 \in 0 .. L /\ n + 1 # 0 /\ (n + 1) - 1 = n /\ list[n + 1] \in Nat
      BY <1>1
    <3>2. upTo[n + 1] = upTo[n] + list[n + 1] /\ upTo[n] \in Nat
      BY <1>1, <1>5, <2>2, <3>1
    <3>. QED BY <3>1, <3>2
  <2>. HIDE DEF Some
  <2>3. Nat \subseteq Some
    BY <2>1, <2>2, Counting
  <2>. QED BY <2>3 DEF Some
<1>. QED BY <1>1, <1>6 DEF Total, L
=============================================================================
