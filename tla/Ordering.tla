------------------------------ MODULE Ordering ------------------------------
(* Sorted sequences of sets, for the places where the code sorts.           *)
EXTENDS Integers, FiniteSets

(* The elements of S, each once, in the strict total order Before.          *)
InOrder(S, Before(_, _)) ==
  [i \in 1..Cardinality(S) |->
     CHOOSE x \in S : Cardinality({y \in S : Before(y, x)}) = i - 1]

Ascending(S) == InOrder(S, <)
=============================================================================
