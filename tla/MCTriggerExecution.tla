-------------------------- MODULE MCTriggerExecution --------------------------
(* The instances of TriggerExecution that TLC checks.                       *)
EXTENDS TriggerExecution, TLC

Symmetry == Permutations(Servers) \cup Permutations(Tabs)
              \cup Permutations(Orders) \cup Permutations(Signatures)
================================================================================
