------------------------------ MODULE Selection ------------------------------
(* What is left of a sequence when some of its elements are dropped, by their *)
(* places, as Go's loops over a slice do it.  Written with the ranks of the   *)
(* places, not with a recursion, for the proofs about it.                     *)
EXTENDS Naturals, FiniteSets

\* The k-th of a set of places.
Nth(places, k) == CHOOSE i \in places : Cardinality({j \in places : j <= i}) = k

\* The elements at the places, in their order.
Those(seq, places) == [k \in 1 .. Cardinality(places) |-> seq[Nth(places, k)]]
=============================================================================
