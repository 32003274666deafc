------------------------------ MODULE NoValue ------------------------------
(* What the code writes as null or undefined, in the modules that share it. *)

CONSTANT NOTHING
=============================================================================
