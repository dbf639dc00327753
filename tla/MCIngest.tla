------------------------------ MODULE MCIngest ------------------------------
(* Ingest with model values for turns, sessions, categories and lemmas.     *)
EXTENDS Ingest
=============================================================================
