--------------------------- MODULE MCSessionSystem ---------------------------
(* SessionSystem for TLC.                                                  *)
EXTENDS SessionSystem
=============================================================================
