----------------------------- MODULE MCLogTurn -----------------------------
(* LogTurn for TLC; all its constants are bounds.                          *)
EXTENDS LogTurn
=============================================================================
