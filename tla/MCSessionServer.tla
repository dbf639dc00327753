--------------------------- MODULE MCSessionServer ---------------------------
(* Instances of SessionServer for TLC.                                     *)
EXTENDS SessionServer
=============================================================================
