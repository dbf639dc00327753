-------------------------- MODULE MCSessionPrompt --------------------------
(* SessionPrompt for TLC: two bands and the first themes of each.          *)
EXTENDS SessionPrompt

MCBands == {"A2", "B1"}
MCPool == [level \in MCBands |-> ToSet(SubSeq(THEMES_BY_LEVEL[level], 1, COOLDOWN + 1))]

(* Nothing, a mode, an unknown mode with a theme of the pool as topic, a   *)
(* handoff that comes with a mode.                                         *)
MCRequests ==
    {NoRequest, [mode |-> "debate", topic |-> None, handoff |-> None],
     [mode |-> "charla", topic |-> THEMES_BY_LEVEL["A2"][1], handoff |-> None],
     [mode |-> "debate", topic |-> None, handoff |-> "la-libreta: 1"]}

(* A pool of the code outlasts its cooldown with room to spare.            *)
ASSUME PoolsOutlastCooldown ==
    \A level \in DOMAIN THEMES_BY_LEVEL : Cardinality(ToSet(THEMES_BY_LEVEL[level])) >= 8
=============================================================================
