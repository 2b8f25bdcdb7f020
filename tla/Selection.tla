-------------------------------- MODULE Selection --------------------------------
(* What filter() returns of an array: its elements at some of its positions,  *)
(* in the order they have there.                                              *)
EXTENDS Integers, FiniteSets

\* The place among the positions K that position i gets.
Place(K, i) == Cardinality({j \in K : j <= i})
Only(s, K) == [n \in 1..Cardinality(K) |-> s[CHOOSE i \in K : Place(K, i) = n]]
===================================================================================
