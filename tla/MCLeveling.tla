----------------------------- MODULE MCLeveling -----------------------------
(* Leveling and PolicyInputs for TLC: a behaviour is one of them, under     *)
(* the same settings.                                                       *)
EXTENDS Leveling, PolicyInputs
VARIABLE subject
MCInit ==
    /\ subject \in {"learner", "policy"}
    /\ Init /\ PolicyInit
    /\ subject = "learner" => current = A1 /\ stable = 0
MCNext ==
    \/ subject = "learner" /\ Next /\ UNCHANGED <<subject, policyVars>>
    \/ subject = "policy" /\ PolicyNext /\ UNCHANGED <<subject, vars>>
MCSpec == MCInit /\ [][MCNext]_<<subject, vars, policyVars>>
=============================================================================
