----------------------------- MODULE MCWalletSales -----------------------------
(***************************************************************************)
(* Two positions of one asset, of different sizes, and the pages that may  *)
(* close either of them.                                                   *)
(***************************************************************************)
EXTENDS WalletSales, TLC

CONSTANTS twin1, twin2

SizeOf == (twin1 :> 1) @@ (twin2 :> 2)
===============================================================================
