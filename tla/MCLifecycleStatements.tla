------------------------- MODULE MCLifecycleStatements -------------------------
(* The instances of LifecycleStatements that TLC checks.                    *)
EXTENDS LifecycleStatements, TLC

Atomic == {"cancelOpenOrder", "claimOrderExecution", "releaseOrderExecutionClaim",
           "confirmBuyFill", "confirmExitFill", "userCloseActive", "replaceProtectionOrders"}
All    == Atomic \cup {"placeProtectionOrder"}

Symmetry == Permutations(Sessions) \cup Permutations(Orders) \cup Permutations(Signatures)
================================================================================
