------------------------------- MODULE Ordered -------------------------------
(* A set of numbers as a sequence, and the elements of a sequence at a set  *)
(* of positions.                                                           *)
EXTENDS Integers, FiniteSets

\* The numbers of a finite set, sorted.
InOrder(ids) ==
  [i \in 1 .. Cardinality(ids) |->
     CHOOSE n \in ids : Cardinality({m \in ids : m < n}) = i - 1]

\* The elements of s at the positions of a set, in their order.
Picked(s, at) ==
  LET order == InOrder(at) IN [n \in DOMAIN order |-> s[order[n]]]
=============================================================================
