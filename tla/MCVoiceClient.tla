--------------------------- MODULE MCVoiceClient ---------------------------
(* VoiceClient for TLC; its constant is a bound.                           *)
EXTENDS VoiceClient
=============================================================================
