------------------------------ MODULE Listing -------------------------------
(***************************************************************************)
(* Lists in the order of a relation.  SetToSortSeq, SelectSeq and FoldLeft *)
(* say the same; here the n-th element is the one that n - 1 others come   *)
(* before, which can be reasoned about without their recursion.            *)
(***************************************************************************)
EXTENDS Naturals, FiniteSets, Sequences

\* `before' holds the pairs of which the first stands in front of the second; it
\* orders S strictly and totally.
Rank(x, S, before) == Cardinality({y \in S : <<y, x>> \in before})

Listed(S, before) ==
  [n \in 1 .. Cardinality(S) |-> CHOOSE x \in S : Rank(x, S, before) = n - 1]

\* Numbers from the least to the greatest.
Ascending(S) == {e \in S \X S : e[1] < e[2]}

\* The elements of a list at these places.
Pick(list, places) == [n \in DOMAIN places |-> list[places[n]]]

\* The elements of a list that are in S, in the order of the list.
Among(list, S) ==
  LET places == {n \in DOMAIN list : list[n] \in S}
  IN Pick(list, Listed(places, Ascending(places)))

\* The sum of a list of numbers.
Total(list) ==
  LET upTo[n \in 0 .. Len(list)] == IF n = 0 THEN 0 ELSE upTo[n - 1] + list[n]
  IN upTo[Len(list)]
=============================================================================
