------------------------------- MODULE Ranking -----------------------------
(* The elements of a finite set in the order of a strict total order R: the *)
(* k-th is the one with k - 1 elements below it. What sort_by, and the      *)
(* iteration of an ordered partition, give.                                 *)
EXTENDS Integers, FiniteSets

StrictTotalOrder(S, R) ==
    /\ R \subseteq S \X S
    /\ \A x \in S : <<x, x>> \notin R
    /\ \A x, y \in S : x # y => <<x, y>> \in R \/ <<y, x>> \in R
    /\ \A x, y, z \in S : <<x, y>> \in R /\ <<y, z>> \in R => <<x, z>> \in R

Below(S, R, x) == {y \in S : <<y, x>> \in R}

Rank(S, R, x) == Cardinality(Below(S, R, x)) + 1

Ranked(S, R) ==
    [k \in 1 .. Cardinality(S) |-> CHOOSE x \in S : Rank(S, R, x) = k]

(* Of numbers. *)
Smaller(S) == {pair \in S \X S : pair[1] < pair[2]}

(* What stands at the given places of a sequence, in the same order.        *)
Picked(s, places) ==
    [k \in 1 .. Cardinality(places) |-> s[Ranked(places, Smaller(places))[k]]]
============================================================================
