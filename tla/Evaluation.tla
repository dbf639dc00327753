----------------------------- MODULE Evaluation -----------------------------
(***************************************************************************)
(* The two evaluations, FixtureEval and AgentEval, are commands of their   *)
(* own that share no state: a behaviour is one of them.                    *)
(***************************************************************************)
EXTENDS FixtureEval, AgentEval

VARIABLE command
vars == <<command, fixtureVars, agentVars>>

Init ==
    /\ command \in {"run_eval", "run_agent_eval"}
    /\ FixtureInit
    /\ AgentInit

Next ==
    \/ command = "run_eval" /\ FixtureNext /\ UNCHANGED <<command, agentVars>>
    \/ command = "run_agent_eval" /\ AgentNext /\ UNCHANGED <<command, fixtureVars>>

Spec == Init /\ [][Next]_vars
=============================================================================
