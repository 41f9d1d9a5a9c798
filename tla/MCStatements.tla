---------------------------- MODULE MCStatements ----------------------------
(* Small instances of Statements for TLC. *)
EXTENDS Statements
=============================================================================
