----------------------------- MODULE MCExprCode -----------------------------
(* Small instances of ExprCode for TLC. *)
EXTENDS ExprCode
=============================================================================
