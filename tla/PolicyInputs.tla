---------------------------- MODULE PolicyInputs ----------------------------
(***************************************************************************)
(* The leveling policy over every window the learner can build up, turn by *)
(* turn, from every band and with every value of the hysteresis counter.   *)
(* The state is the policy's input; the policy is evaluated in the         *)
(* properties.                                                             *)
(***************************************************************************)
EXTENDS LevelingPolicy

CONSTANTS
    MaxWindow,      \* BOUND: turns in the window
    MaxStable       \* BOUND: the hysteresis counter

ASSUME PolicyAssumption == MaxWindow \in Nat /\ MaxStable \in Nat

VARIABLES window, current, stable
policyVars == <<window, current, stable>>

PolicyInit ==
    /\ window = EmptyWindow
    /\ current \in ALL_BANDS
    /\ stable \in 0 .. MaxStable

(* One more classified turn.                                               *)
AddTurn(b) ==
    /\ Turns(window) < MaxWindow
    /\ window' = [window EXCEPT ![b] = @ + 1]
    /\ UNCHANGED <<current, stable>>

(* The same turns, one of them judged a band higher.                       *)
RaiseTurn(b) ==
    /\ b < C1 /\ window[b] > 0
    /\ window' = [window EXCEPT ![b] = @ - 1, ![b + 1] = @ + 1]
    /\ UNCHANGED <<current, stable>>

PolicyNext == \E b \in ALL_BANDS : AddTurn(b) \/ RaiseTurn(b)

PolicySpec == PolicyInit /\ [][PolicyNext]_policyVars

-----------------------------------------------------------------------------
Decision == evaluate_leveling(current, window, stable, PromoteK, DemoteK)
Placed == place_band(window, Floor, MinValidTurns)

(* Judging a turn a band higher never lowers the band the mean falls in,   *)
(* nor the band the policy decides on, whatever the counter and the        *)
(* roundings (bands.py:42-47, policy.py:112-171).  One case is excepted,   *)
(* and there it can: a mean above the centre of the band it falls in holds *)
(* the current band as borderline, however far below it that is, and a     *)
(* higher mean, at the bottom of the next band, demotes (policy.py:199).   *)
RaisingATurnNeverLowersTarget ==
    [][(\E b \in ALL_BANDS : RaiseTurn(b)) =>
         /\ bucket_band(window') >= bucket_band(window)
         /\ \/ Decision'.new_band >= Decision.new_band
            \/ /\ Decision.toward = Borderline
               /\ bucket_band(window') # bucket_band(window)]_policyVars

(* Another turn at the band the diagnostic settles on never unsettles it:  *)
(* ties, the floor and the abstention threshold notwithstanding            *)
(* (policy.py:64-109).                                                     *)
PlacementIsStable ==
    [][\A b \in ALL_BANDS : AddTurn(b) /\ b = Placed => Placed' = Placed]_policyVars

=============================================================================
