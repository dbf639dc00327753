--------------------------- MODULE LevelingPolicy ---------------------------
(***************************************************************************)
(* The pure decisions of hable_ya/learner/leveling/policy.py: where a      *)
(* first, diagnostic session places the learner, and whether the rolling   *)
(* window of a calibrated learner's sessions moves the band.               *)
(***************************************************************************)
EXTENDS Bands

CONSTANTS
    Floor,          \* settings.default_learner_band
    MinValidTurns,  \* settings.placement_min_valid_turns
    PromoteK,       \* settings.leveling_promote_consecutive
    DemoteK         \* settings.leveling_demote_consecutive

ASSUME SettingsAssumption ==
    /\ Floor \in ALL_BANDS
    /\ MinValidTurns \in Nat \ {0}
    /\ PromoteK \in Nat \ {0}
    /\ DemoteK \in Nat \ {0}

(* Mutant: the rarest band, min for max.                                   *)
ModalBand_Rarest(w) ==
    CHOOSE b \in ALL_BANDS :
        /\ w[b] > 0
        /\ \A c \in ALL_BANDS : w[c] > 0 =>
             w[b] < w[c] \/ (w[b] = w[c] /\ b >= c)

(* The mode of a window, the higher band winning a tie on the count.       *)
ModalBand(w) ==
    CHOOSE b \in ALL_BANDS :
        \A c \in ALL_BANDS : w[b] > w[c] \/ (w[b] = w[c] /\ b >= c)

(* place_band: NoBand when it abstains.                                    *)
place_band(w, floor_band, min_valid_turns) ==
    IF Turns(w) < min_valid_turns THEN NoBand
    ELSE IF ModalBand(w) >= floor_band THEN ModalBand(w) ELSE floor_band

-----------------------------------------------------------------------------
(* What a stable decision leans toward, besides a band: nothing when the   *)
(* window is empty, and "borderline" for a mean below the band but not     *)
(* down to the centre of the band it falls in.                             *)
Borderline == -1
Reasons == {"auto_promote", "auto_demote", "stable"}
Decisions ==
    [new_band : ALL_BANDS, reason : Reasons,
     toward : ALL_BANDS \cup {NoBand, Borderline}]

Decide(band, why, leaning) ==
    [new_band |-> band, reason |-> why, toward |-> leaning]

(* evaluate_leveling                                                       *)
evaluate_leveling(current, w, stable, promote_consecutive, demote_consecutive) ==
    LET target == bucket_band(w)
        flip(why, consecutive) ==
            IF stable + 1 >= consecutive
              THEN Decide(target, why, target)
              ELSE Decide(current, "stable", target)
    IN  IF Turns(w) = 0 THEN Decide(current, "stable", NoBand)
        ELSE IF target = current THEN Decide(current, "stable", current)
        ELSE IF target > current THEN flip("auto_promote", promote_consecutive)
        ELSE IF MeanAbove(w, BAND_MIDPOINT[target])
               THEN Decide(current, "stable", Borderline)
        ELSE flip("auto_demote", demote_consecutive)
=============================================================================
