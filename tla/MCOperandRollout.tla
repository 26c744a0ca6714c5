--------------------------- MODULE MCOperandRollout ---------------------------
(***************************************************************************)
(* Small instances of OperandRollout for TLC.                              *)
(***************************************************************************)
EXTENDS OperandRollout, MCUpdateServiceReconciler
=============================================================================
