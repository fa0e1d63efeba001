-------------------------------- MODULE Ordering --------------------------------
(* Finite sets of integers as sequences. *)
EXTENDS Integers, FiniteSets, Sequences

\* The sequence [1 .. n -> f], which TLC evaluates once and not at each use.
Listed(f) == <<>> \o f

\* The elements of a set in increasing order.
InOrder(S) == Listed([k \in 1 .. Cardinality(S) |->
                 CHOOSE x \in S : Cardinality({y \in S : y < x}) = k - 1])
=================================================================================
