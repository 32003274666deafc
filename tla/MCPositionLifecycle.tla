-------------------------- MODULE MCPositionLifecycle --------------------------
(* The instance of PositionLifecycle that TLC checks.  Rows and signatures  *)
(* are interchangeable: no operation compares two of them but for equality. *)
EXTENDS PositionLifecycle, TLC

Symmetry == Permutations(Proposals) \cup Permutations(Positions)
              \cup Permutations(Orders) \cup Permutations(Signatures)
================================================================================
