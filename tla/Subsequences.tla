---------------------------- MODULE Subsequences ----------------------------
(* What a filter keeps of a list: the elements at some positions, in their *)
(* order.                                                                  *)
EXTENDS Naturals, FiniteSets

\* How many of the positions there are up to i.
Place(i, positions) == Cardinality({j \in positions : j <= i})

Picked(seq, positions) ==
  [k \in 1 .. Cardinality(positions) |-> seq[CHOOSE i \in positions : Place(i, positions) = k]]
=============================================================================
