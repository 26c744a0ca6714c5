------------------------- MODULE MCUnretriedFailures -------------------------
(***************************************************************************)
(* Small instances of UnretriedFailures for TLC.                           *)
(***************************************************************************)
EXTENDS UnretriedFailures, MCUpdateServiceReconciler
=============================================================================
