------------------------------ MODULE Ranking -------------------------------
(***************************************************************************)
(* Sorting by counting: the place of a member is how many are before it.   *)
(* The sorts of the code are stable and total (scoring.py, nms_per_class), *)
(* so each place has one member.                                           *)
(***************************************************************************)
EXTENDS Integers, FiniteSets

\* The members of S in the order R.
Ranked(S, R) ==
  [k \in 1 .. Cardinality(S) |->
     CHOOSE x \in S : Cardinality({y \in S : <<y, x>> \in R}) = k - 1]

\* Numbers, the smaller first.
Ascending(I) == Ranked(I, {p \in I \X I : p[1] < p[2]})

\* What s has at the places I, in its order: a filter.
Picked(s, I) == [k \in 1 .. Cardinality(I) |-> s[Ascending(I)[k]]]

=============================================================================
