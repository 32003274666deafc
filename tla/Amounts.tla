-------------------------------- MODULE Amounts --------------------------------
(* What several accounts or positions hold together.                       *)
EXTENDS Naturals, FiniteSets

\* Counted unit by unit.
Total(amounts, holders) == Cardinality(UNION {{a} \X (1 .. amounts[a]) : a \in holders})
================================================================================
