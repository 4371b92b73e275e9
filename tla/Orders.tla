------------------------------- MODULE Orders --------------------------------
(***************************************************************************)
(* Sequences in an order: what ORDER BY and a sort make of a set, and what  *)
(* a filter leaves of a list.  They are defined by what they return, so     *)
(* that OrdersProofs can say it for every set.                              *)
(***************************************************************************)
EXTENDS Naturals, FiniteSets

\* The elements of S, each before those it is paired with.
Sorted(S, before) ==
    CHOOSE q \in [1 .. Cardinality(S) -> S] : \A i, j \in DOMAIN q : i < j => <<q[i], q[j]>> \in before

\* Of numbers, the largest or the smallest first.
Descending(S) == Sorted(S, {p \in S \X S : p[1] > p[2]})

Ascending(S) == Sorted(S, {p \in S \X S : p[1] < p[2]})

\* What a filter that keeps the places I leaves of q.
Places(q, I) == [k \in 1 .. Cardinality(I) |-> q[Ascending(I)[k]]]

=============================================================================
