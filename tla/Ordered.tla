------------------------------- MODULE Ordered ------------------------------
(* The members of the set S in the order of a map or a search of the code: *)
(* R has the pair <<x, y>> if x comes before y.  (SortSeq of the module    *)
(* TLC has no definition one could reason from.)                           *)
EXTENDS Integers, FiniteSets

InOrder(S, R) ==
  [i \in 1..Cardinality(S) |->
     CHOOSE x \in S : Cardinality({y \in S : <<y, x>> \in R}) = i - 1]
=============================================================================
