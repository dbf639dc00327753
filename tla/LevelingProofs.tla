--------------------------- MODULE LevelingProofs ---------------------------
(***************************************************************************)
(* Theorems about Leveling, for every number of sessions and every setting *)
(* of the policy.  Nothing about the teardown depends on what the rolling  *)
(* mean is: that the policy answers with a band and a reason that fit is   *)
(* all it relies on.  Then SessionSystem: the handlers and the learner     *)
(* they level are steps of their two modules.  What the policy answers is  *)
(* the last part, about PolicyInputs.                                      *)
(***************************************************************************)
EXTENDS SessionSystem, PolicyInputs, FiniteSetTheorems, TLAPS

-----------------------------------------------------------------------------
(* The bucket of a mean: under its boundary and under no lower one.        *)
LEMMA BucketIs ==
    ASSUME NEW w
    PROVE  /\ bucket_band(w) \in 1 .. 5
           /\ \A b \in 1 .. 4 : MeanBelow(w, Boundary(b)) => bucket_band(w) <= b
           /\ bucket_band(w) < 5 => MeanBelow(w, Boundary(bucket_band(w)))
<1> DEFINE P(b) == MeanBelow(w, Boundary(b))
           under == {b \in 1 .. 4 : P(b)}
<1> HIDE DEF P
<1>1. CASE under = {}
  <2>1. bucket_band(w) = 5 BY <1>1 DEF bucket_band, P, A1, B2, C1
  <2>2. \A b \in 1 .. 4 : ~ P(b) BY <1>1
  <2>. QED BY <2>1, <2>2 DEF P
<1>2. CASE under # {}
  <2>1. \E b \in under : \A c \in under : b <= c
    <3>1. under \subseteq {1, 2, 3, 4} OBVIOUS
    <3>2. CASE 1 \in under BY <3>1, <3>2
    <3>3. CASE 1 \notin under /\ 2 \in under BY <3>1, <3>3
    <3>4. CASE 1 \notin under /\ 2 \notin under /\ 3 \in under BY <3>1, <3>4
    <3>5. CASE 1 \notin under /\ 2 \notin under /\ 3 \notin under
      BY <1>2, <3>1, <3>5
    <3>. QED BY <3>2, <3>3, <3>4, <3>5
  <2>2. bucket_band(w) = CHOOSE b \in under : \A c \in under : b <= c
    BY <1>2 DEF bucket_band, P, A1, B2
  <2>3. bucket_band(w) \in under /\ \A c \in under : bucket_band(w) <= c
    BY <2>1, <2>2
  <2>. QED BY <2>3 DEF P
<1>. QED BY <1>1, <1>2

(* The policy answers with a band, whatever the window is.                 *)
LEMMA BucketBandType ==
    ASSUME NEW w PROVE bucket_band(w) \in ALL_BANDS
BY BucketIs DEF ALL_BANDS, A1, C1

Beats(w, b, c) == w[b] > w[c] \/ (w[b] = w[c] /\ b >= c)

LEMMA ModalBandWins ==
    ASSUME NEW w \in Window
    PROVE  ModalBand(w) \in ALL_BANDS /\ \A c \in ALL_BANDS : Beats(w, ModalBand(w), c)
<1> DEFINE over(b, c) == w[b] > w[c] \/ (w[b] = w[c] /\ b >= c)
<1>1. \A b \in 1 .. 5 : w[b] \in Nat BY DEF Window, ALL_BANDS, A1, C1
<1>2. \E b \in 1 .. 2 : \A c \in 1 .. 2 : over(b, c)
  <2>1. CASE w[1] > w[2]
    <3>. WITNESS 1 \in 1 .. 2
    <3>. QED BY <1>1, <2>1
  <2>2. CASE ~(w[1] > w[2])
    <3>. WITNESS 2 \in 1 .. 2
    <3>. QED BY <1>1, <2>2
  <2>. QED BY <2>1, <2>2
<1>3. ASSUME NEW n \in 2 .. 4, \E b \in 1 .. n : \A c \in 1 .. n : over(b, c)
      PROVE  \E b \in 1 .. (n + 1) : \A c \in 1 .. (n + 1) : over(b, c)
  <2>1. PICK b \in 1 .. n : \A c \in 1 .. n : over(b, c) BY <1>3
  <2>2. CASE w[b] > w[n + 1]
    <3>. WITNESS b \in 1 .. (n + 1)
    <3>. QED BY <1>1, <2>1, <2>2
  <2>3. CASE ~(w[b] > w[n + 1])
    <3>. WITNESS (n + 1) \in 1 .. (n + 1)
    <3>. QED BY <1>1, <2>1, <2>3
  <2>. QED BY <2>2, <2>3
<1>4. \E b \in 1 .. 3 : \A c \in 1 .. 3 : over(b, c) BY <1>2, <1>3
<1>5. \E b \in 1 .. 4 : \A c \in 1 .. 4 : over(b, c) BY <1>4, <1>3
<1>6. \E b \in 1 .. 5 : \A c \in 1 .. 5 : over(b, c) BY <1>5, <1>3
<1>. QED BY <1>6 DEF ModalBand, Beats, ALL_BANDS, A1, C1

LEMMA ModalBandType ==
    ASSUME NEW w \in Window PROVE ModalBand(w) \in ALL_BANDS
BY ModalBandWins

LEMMA PlaceBandType ==
    ASSUME NEW w \in Window
    PROVE  place_band(w, Floor, MinValidTurns) \in ALL_BANDS \cup {NoBand}
BY ModalBandType, SettingsAssumption DEF place_band

(* What evaluate_leveling decides: it has the shape of a decision, and a   *)
(* flip only comes with a counter one short of its threshold.              *)
LEMMA EvaluateType ==
    ASSUME NEW band \in ALL_BANDS, NEW w, NEW streak \in Nat
    PROVE  LET d == evaluate_leveling(band, w, streak, PromoteK, DemoteK)
           IN  /\ d \in Decisions
               /\ d.reason = "auto_promote" => streak + 1 >= PromoteK
               /\ d.reason = "auto_demote" => streak + 1 >= DemoteK
<1>1. bucket_band(w) \in ALL_BANDS BY BucketBandType
<1>. HIDE DEF bucket_band
<1>. QED BY <1>1, SettingsAssumption DEF evaluate_leveling, Decide, Decisions, Reasons

-----------------------------------------------------------------------------
(* What holds however the sessions overlap.                                *)

(* A teardown only writes a decision it has made: a stable one never       *)
(* reaches the transaction.                                                *)
PlanIsDecided ==
    /\ \A s \in Session :
         stage[s] \in {"inserting", "committing"} => plan[s].reason # "stable"
    /\ \A s \in Session :
         stage[s] = "bumping" => plan[s].toward \in ALL_BANDS \cup {NoBand, Borderline}

IInv ==
    /\ TypeOK
    /\ PlanIsDecided
    /\ StreakIsEarned
    /\ BandIsAudited
    /\ LevelingFollowsPlacement

LEMMA InitIInv == Init => IInv
<1>. SUFFICES ASSUME Init PROVE IInv
  OBVIOUS
<1>. USE DEF Init
<1>1. EmptyWindow \in Window BY DEF EmptyWindow, Window
<1>2. NoPlan \in Plans
  BY DEF NoPlan, Plans, Decide, Reasons, ALL_BANDS, A1, C1
<1>3. NothingSeen \in [band : ALL_BANDS, stable : Nat]
  BY DEF NothingSeen, ALL_BANDS, A1, C1
<1>4. TypeOK
  BY <1>1, <1>2, <1>3, LevelingAssumption, SettingsAssumption
  DEF TypeOK, Stages, ALL_BANDS, A1, A2, C1
<1>5. PlanIsDecided BY DEF PlanIsDecided
<1>6. StreakIsEarned BY DEF StreakIsEarned
<1>7. BandIsAudited BY DEF BandIsAudited
<1>8. LevelingFollowsPlacement
  BY DEF LevelingFollowsPlacement, NoPlan, Decide
<1>. QED BY <1>4, <1>5, <1>6, <1>7, <1>8 DEF IInv

(* Handlers that return hold nothing, the others are where they were.      *)
LEMMA FinishLeaves ==
    ASSUME TypeOK, NEW S, Finish(S)
    PROVE  /\ stage' \in [Session -> Stages]
           /\ seen' \in [Session -> [band : ALL_BANDS, stable : Nat]]
           /\ plan' \in [Session -> Plans]
           /\ \A s \in S \cap Session : stage'[s] = "done" /\ plan'[s] = NoPlan
           /\ \A s \in Session \ S :
                stage'[s] = stage[s] /\ seen'[s] = seen[s] /\ plan'[s] = plan[s]
<1>1. NoPlan \in Plans
  BY DEF NoPlan, Plans, Decide, Reasons, ALL_BANDS, A1, C1
<1>2. NothingSeen \in [band : ALL_BANDS, stable : Nat]
  BY DEF NothingSeen, ALL_BANDS, A1, C1
<1>3. "done" \in Stages BY DEF Stages
<1>. QED BY <1>1, <1>2, <1>3 DEF Finish, TypeOK

(* The audit trail only grows, so a learner once placed stays placed.      *)
LEMMA StaysCalibrated ==
    ASSUME history \in Seq(Rows), NEW row \in Rows, history' = Append(history, row)
    PROVE  /\ is_calibrated => is_calibrated'
           /\ row.reason = Placement => is_calibrated'
           /\ \E i \in DOMAIN history' : history'[i].to = row.to
           /\ \A b : (\E i \in DOMAIN history : history[i].to = b)
                  => \E i \in DOMAIN history' : history'[i].to = b
<1>1. /\ \A i \in DOMAIN history : i \in DOMAIN history' /\ history'[i] = history[i]
      /\ Len(history) + 1 \in DOMAIN history'
      /\ history'[Len(history) + 1] = row
  OBVIOUS
<1>. QED BY <1>1 DEF is_calibrated

LEMMA StepTypeOK ==
    ASSUME TypeOK, PlanIsDecided, [Next]_vars
    PROVE  TypeOK'
<1>. USE LevelingAssumption, SettingsAssumption DEF TypeOK
<1>1. ASSUME NEW s \in Session, StartSession(s) PROVE TypeOK'
  <2>0. started \in Seq(Session) OBVIOUS
  <2>1. started' \in Seq(Session)
    <3>. HIDE DEF TypeOK
    <3>. QED BY <1>1, <2>0 DEF StartSession
  <2>2. stage' \in [Session -> Stages] BY <1>1 DEF StartSession, Goto, Stages
  <2>. QED BY <1>1, <2>1, <2>2 DEF StartSession
<1>2. ASSUME NEW s \in Session, NEW b \in TurnBands, RecordTurn(s, b) PROVE TypeOK'
  <2>0. /\ started \in Seq(Session)
        /\ turns \in [Session -> [ALL_BANDS -> Nat]]
        /\ recorded \in [Session -> 0 .. MaxTurns]
        /\ MaxTurns \in Nat
        /\ b \in ALL_BANDS \cup {NoBand}
    BY DEF Window
  <2>. HIDE DEF TypeOK
  <2>. HIDE LevelingAssumption, SettingsAssumption
  <2>1. turns' \in [Session -> [ALL_BANDS -> Nat]]
    BY <1>2, <2>0 DEF RecordTurn
  <2>2. recorded' \in [Session -> 0 .. MaxTurns]
    BY <1>2, <2>0 DEF RecordTurn
  <2>3. started' \in Seq(Session)
    BY <1>2, <2>0 DEF RecordTurn
  <2>. USE DEF TypeOK, Window
  <2>. QED BY <1>2, <2>1, <2>2, <2>3 DEF RecordTurn
<1>3. ASSUME NEW s \in Session, EndSession(s) PROVE TypeOK'
  BY <1>3 DEF EndSession, Goto, Stages
<1>4. ASSUME NEW s \in Session, ReadBand(s) PROVE TypeOK'
  BY <1>4 DEF ReadBand, Goto, Stages
<1>5. ASSUME NEW s \in Session, ReadStable(s) PROVE TypeOK'
  BY <1>5 DEF ReadStable, Goto, Stages
<1>6. ASSUME NEW s \in Session, ReadWindow(s) PROVE TypeOK'
  <2>. DEFINE d == evaluate_leveling(seen[s].band, RollingWindow, seen[s].stable,
                                     PromoteK, DemoteK)
  <2>1. d \in Decisions BY EvaluateType
  <2>2. Decisions \subseteq Plans BY DEF Decisions, Plans
  <2>. HIDE DEF d
  <2>3. plan' = [plan EXCEPT ![s] = d] BY <1>6 DEF ReadWindow, d
  <2>. QED BY <1>6, <2>1, <2>2, <2>3 DEF ReadWindow, Goto, Stages
<1>7. ASSUME NEW s \in Session, UpdateStable(s) PROVE TypeOK'
  <2>0. profile \in [band : ALL_BANDS, stable : Nat] OBVIOUS
  <2>1. profile' \in [band : ALL_BANDS, stable : Nat]
    <3>. HIDE DEF TypeOK
    <3>. QED BY <1>7, <2>0 DEF UpdateStable
  <2>2. leanings' \in Seq(ALL_BANDS \cup {NoBand, Borderline})
    BY <1>7 DEF UpdateStable, PlanIsDecided
  <2>3. /\ stage' \in [Session -> Stages]
        /\ seen' \in [Session -> [band : ALL_BANDS, stable : Nat]]
        /\ plan' \in [Session -> Plans]
    BY <1>7, FinishLeaves DEF UpdateStable
  <2>. QED BY <1>7, <2>1, <2>2, <2>3 DEF UpdateStable
<1>8. ASSUME NEW s \in Session, ReadPlacement(s) PROVE TypeOK'
  <2>. DEFINE placed == place_band(turns[s], Floor, MinValidTurns)
  <2>1. placed \in ALL_BANDS \cup {NoBand} BY PlaceBandType
  <2>. HIDE DEF placed
  <2>2. placed # NoBand => Decide(placed, Placement, placed) \in Plans
    BY <2>1 DEF Decide, Plans
  <2>3. CASE placed = NoBand /\ Goto(s, "done") /\ UNCHANGED <<seen, plan>>
    BY <1>8, <2>3 DEF ReadPlacement, Goto, Stages
  <2>4. CASE /\ placed # NoBand /\ Goto(s, "inserting") /\ UNCHANGED seen
             /\ plan' = [plan EXCEPT ![s] = Decide(placed, Placement, placed)]
    BY <1>8, <2>2, <2>4 DEF ReadPlacement, Goto, Stages
  <2>. QED BY <1>8, <2>3, <2>4 DEF ReadPlacement, placed
<1>9. ASSUME NEW s \in Session, InsertHistory(s) PROVE TypeOK'
  BY <1>9 DEF InsertHistory, Goto, Stages
<1>10. ASSUME NEW s \in Session, CommitBand(s) PROVE TypeOK'
  <2>. DEFINE row == [from |-> IF plan[s].reason = Placement THEN NoBand
                               ELSE seen[s].band,
                      to |-> plan[s].new_band, reason |-> plan[s].reason]
  <2>1. row \in Rows
    BY <1>10 DEF CommitBand, PlanIsDecided, Rows, Plans, Reasons
  <2>2. history' \in Seq(Rows) BY <1>10, <2>1 DEF CommitBand
  <2>3. profile' \in [band : ALL_BANDS, stable : Nat]
    BY <1>10 DEF CommitBand, Plans
  <2>. QED BY <1>10, <2>2, <2>3, FinishLeaves DEF CommitBand
<1>11. ASSUME NEW s \in Session, FailTeardown(s) PROVE TypeOK'
  BY <1>11, FinishLeaves DEF FailTeardown
<1>12. ASSUME Crash PROVE TypeOK'
  BY <1>12, FinishLeaves DEF Crash
<1>13. ASSUME UNCHANGED vars PROVE TypeOK'
  BY <1>13 DEF vars
<1>. QED
  BY <1>1, <1>2, <1>3, <1>4, <1>5, <1>6, <1>7, <1>8, <1>9, <1>10, <1>11, <1>12,
     <1>13
  DEF Next, Step

(* Only ReadWindow, ReadPlacement and the returning handlers touch plan.   *)
LEMMA StepPlanIsDecided ==
    ASSUME TypeOK, TypeOK', PlanIsDecided, [Next]_vars
    PROVE  PlanIsDecided'
<1>. SUFFICES ASSUME NEW t \in Session
              PROVE  /\ stage'[t] \in {"inserting", "committing"} =>
                          plan'[t].reason # "stable"
                     /\ stage'[t] = "bumping" =>
                          plan'[t].toward \in ALL_BANDS \cup {NoBand, Borderline}
  BY DEF PlanIsDecided
<1>. DEFINE Goal == /\ stage'[t] \in {"inserting", "committing"} =>
                         plan'[t].reason # "stable"
                    /\ stage'[t] = "bumping" =>
                         plan'[t].toward \in ALL_BANDS \cup {NoBand, Borderline}
<1>1. /\ stage \in [Session -> Stages] /\ stage' \in [Session -> Stages]
      /\ plan \in [Session -> Plans]
      /\ plan'[t].toward \in ALL_BANDS \cup {NoBand, Borderline}
  BY DEF TypeOK, Plans
<1>2. /\ stage[t] \in {"inserting", "committing"} => plan[t].reason # "stable"
  BY DEF PlanIsDecided
<1>3. ASSUME NEW s \in Session, stage'[s] \notin {"inserting", "committing"},
             \A r \in Session \ {s} : stage'[r] = stage[r] /\ plan'[r] = plan[r]
      PROVE  Goal
  BY <1>1, <1>2, <1>3
<1>4. ASSUME NEW s \in Session, StartSession(s) PROVE Goal
  BY <1>1, <1>3, <1>4 DEF StartSession, Goto
<1>5. ASSUME NEW s \in Session, NEW b \in TurnBands, RecordTurn(s, b) PROVE Goal
  BY <1>1, <1>2, <1>5 DEF RecordTurn
<1>6. ASSUME NEW s \in Session, EndSession(s) \/ ReadBand(s) \/ ReadStable(s)
      PROVE  Goal
  BY <1>1, <1>3, <1>6 DEF EndSession, ReadBand, ReadStable, Goto
<1>7. ASSUME NEW s \in Session, ReadWindow(s) PROVE Goal
  <2>1. plan'[s].reason = "stable" => stage'[s] = "bumping"
    BY <1>1, <1>7 DEF ReadWindow, Goto
  <2>2. \A r \in Session \ {s} : stage'[r] = stage[r] /\ plan'[r] = plan[r]
    BY <1>1, <1>7 DEF ReadWindow, Goto
  <2>. QED BY <1>1, <1>2, <2>1, <2>2
<1>8. ASSUME NEW s \in Session, ReadPlacement(s) PROVE Goal
  <2>1. stage'[s] = "done" \/ plan'[s].reason = Placement
    BY <1>1, <1>8 DEF ReadPlacement, Goto, Decide
  <2>2. \A r \in Session \ {s} : stage'[r] = stage[r] /\ plan'[r] = plan[r]
    BY <1>1, <1>8 DEF ReadPlacement, Goto
  <2>. QED BY <1>1, <1>2, <2>1, <2>2 DEF Placement
<1>9. ASSUME NEW s \in Session, InsertHistory(s) PROVE Goal
  BY <1>1, <1>2, <1>9 DEF InsertHistory, Goto
<1>10. ASSUME NEW s \in Session, UpdateStable(s) \/ CommitBand(s) \/ FailTeardown(s)
       PROVE  Goal
  <2>1. Finish({s}) BY <1>10 DEF UpdateStable, CommitBand, FailTeardown
  <2>. QED BY <1>1, <1>3, <2>1, FinishLeaves
<1>11. ASSUME Crash PROVE Goal
  BY <1>1, <1>2, <1>11, FinishLeaves DEF Crash
<1>12. ASSUME UNCHANGED vars PROVE Goal
  BY <1>1, <1>2, <1>12 DEF vars
<1>. QED
  BY <1>4, <1>5, <1>6, <1>7, <1>8, <1>9, <1>10, <1>11, <1>12 DEF Next, Step

(* The counter and the band are written by two actions only.               *)
LEMMA ProfileWriters ==
    ASSUME [Next]_vars
    PROVE  \/ UNCHANGED <<profile, history, leanings>>
           \/ \E s \in Session : UpdateStable(s) \/ CommitBand(s)
BY DEF Next, Step, vars, StartSession, RecordTurn, EndSession, ReadBand, ReadStable,
       ReadWindow, ReadPlacement, InsertHistory, FailTeardown, Crash

LEMMA StepStreakIsEarned ==
    ASSUME TypeOK, StreakIsEarned, [Next]_vars
    PROVE  StreakIsEarned'
<1>1. /\ profile \in [band : ALL_BANDS, stable : Nat]
      /\ leanings \in Seq(ALL_BANDS \cup {NoBand, Borderline})
  BY DEF TypeOK
<1>2. ASSUME NEW s \in Session, UpdateStable(s) PROVE StreakIsEarned'
  <2>1. leanings' = Append(leanings, plan[s].toward) BY <1>2 DEF UpdateStable
  <2>2. Len(leanings') = Len(leanings) + 1 BY <1>1, <2>1
  <2>3. profile'.stable = 0 \/ profile'.stable = profile.stable + 1
    BY <1>1, <1>2 DEF UpdateStable
  <2>4. Len(leanings) \in Nat BY <1>1
  <2>. QED BY <1>1, <2>2, <2>3, <2>4 DEF StreakIsEarned
<1>3. ASSUME NEW s \in Session, CommitBand(s) PROVE StreakIsEarned'
  <2>1. profile'.stable = 0 /\ leanings' = <<>> BY <1>3 DEF CommitBand
  <2>. QED BY <2>1 DEF StreakIsEarned
<1>4. ASSUME UNCHANGED <<profile, history, leanings>> PROVE StreakIsEarned'
  BY <1>4 DEF StreakIsEarned
<1>. QED BY <1>2, <1>3, <1>4, ProfileWriters

(* The row a committing teardown adds, and what it does to the audit trail.*)
LEMMA CommitAdds ==
    ASSUME TypeOK, PlanIsDecided, NEW s \in Session, CommitBand(s)
    PROVE  \E row \in Rows :
             /\ row.to = plan[s].new_band /\ row.reason = plan[s].reason
             /\ row.from = IF plan[s].reason = Placement THEN NoBand ELSE seen[s].band
             /\ history' = Append(history, row)
             /\ profile' = [band |-> row.to, stable |-> 0]
<1>. DEFINE row == [from |-> IF plan[s].reason = Placement THEN NoBand
                             ELSE seen[s].band,
                    to |-> plan[s].new_band, reason |-> plan[s].reason]
<1>1. row \in Rows
  BY DEF CommitBand, PlanIsDecided, TypeOK, Rows, Plans, Reasons
<1>. QED BY <1>1 DEF CommitBand

LEMMA StepBandIsAudited ==
    ASSUME TypeOK, PlanIsDecided, BandIsAudited, [Next]_vars
    PROVE  BandIsAudited'
<1>1. history \in Seq(Rows) /\ profile \in [band : ALL_BANDS, stable : Nat]
  BY DEF TypeOK
<1>2. ASSUME NEW s \in Session, UpdateStable(s) PROVE BandIsAudited'
  BY <1>1, <1>2 DEF UpdateStable, BandIsAudited
<1>3. ASSUME NEW s \in Session, CommitBand(s) PROVE BandIsAudited'
  <2>1. PICK row \in Rows : /\ history' = Append(history, row)
                            /\ profile' = [band |-> row.to, stable |-> 0]
    BY <1>3, CommitAdds
  <2>. QED BY <1>1, <2>1, StaysCalibrated DEF BandIsAudited
<1>4. ASSUME UNCHANGED <<profile, history, leanings>> PROVE BandIsAudited'
  BY <1>4 DEF BandIsAudited
<1>. QED BY <1>2, <1>3, <1>4, ProfileWriters

(* Per session: a teardown past the calibration check, or with a decision  *)
(* to move the band, began after a placement was durable.                  *)
LEMMA StepLevelingFollowsPlacement ==
    ASSUME TypeOK, TypeOK', PlanIsDecided, LevelingFollowsPlacement, [Next]_vars
    PROVE  LevelingFollowsPlacement'
<1>. DEFINE rollingOn(st) == st \in {"banding", "counting", "rolling", "bumping"}
            flipping(pl) == pl.reason \in {"auto_promote", "auto_demote"}
<1>1. /\ stage \in [Session -> Stages] /\ stage' \in [Session -> Stages]
      /\ plan \in [Session -> Plans] /\ history \in Seq(Rows)
  BY DEF TypeOK
<1>2. ~flipping(NoPlan) BY DEF NoPlan, Decide
<1>3. ASSUME is_calibrated => is_calibrated',
             \A i \in DOMAIN history' : i \notin DOMAIN history =>
               (history'[i].reason # Placement => is_calibrated),
             \A i \in DOMAIN history' : i \in DOMAIN history =>
               history'[i] = history[i],
             \A t \in Session : rollingOn(stage'[t]) => rollingOn(stage[t]) \/ is_calibrated,
             \A t \in Session : flipping(plan'[t]) =>
               flipping(plan[t]) \/ rollingOn(stage[t])
      PROVE  LevelingFollowsPlacement'
  BY <1>3 DEF LevelingFollowsPlacement
<1>4. ASSUME UNCHANGED history,
             \A t \in Session : rollingOn(stage'[t]) => rollingOn(stage[t]) \/ is_calibrated,
             \A t \in Session : flipping(plan'[t]) =>
               flipping(plan[t]) \/ rollingOn(stage[t])
      PROVE  LevelingFollowsPlacement'
  <2>1. is_calibrated' <=> is_calibrated BY <1>4 DEF is_calibrated
  <2>. QED BY <1>3, <1>4, <2>1
<1>5. ASSUME NEW s \in Session, StartSession(s) PROVE LevelingFollowsPlacement'
  BY <1>1, <1>4, <1>5 DEF StartSession, Goto
<1>6. ASSUME NEW s \in Session, NEW b \in TurnBands, RecordTurn(s, b)
      PROVE  LevelingFollowsPlacement'
  BY <1>4, <1>6 DEF RecordTurn
<1>7. ASSUME NEW s \in Session, EndSession(s) PROVE LevelingFollowsPlacement'
  BY <1>1, <1>4, <1>7 DEF EndSession, Goto
<1>8. ASSUME NEW s \in Session, ReadBand(s) \/ ReadStable(s)
      PROVE  LevelingFollowsPlacement'
  BY <1>1, <1>4, <1>8 DEF ReadBand, ReadStable, Goto
<1>9. ASSUME NEW s \in Session, ReadWindow(s) PROVE LevelingFollowsPlacement'
  <2>1. rollingOn(stage[s]) BY <1>9 DEF ReadWindow
  <2>2. \A r \in Session \ {s} : stage'[r] = stage[r] /\ plan'[r] = plan[r]
    BY <1>1, <1>9 DEF ReadWindow, Goto
  <2>3. UNCHANGED history BY <1>9 DEF ReadWindow
  <2>. QED BY <1>4, <2>1, <2>2, <2>3
<1>10. ASSUME NEW s \in Session, ReadPlacement(s) PROVE LevelingFollowsPlacement'
  <2>1. ~rollingOn(stage'[s]) BY <1>1, <1>10 DEF ReadPlacement, Goto
  <2>2. plan'[s] = plan[s] \/ plan'[s].reason = Placement
    BY <1>1, <1>10 DEF ReadPlacement, Decide
  <2>3. \A r \in Session \ {s} : stage'[r] = stage[r] /\ plan'[r] = plan[r]
    BY <1>1, <1>10 DEF ReadPlacement, Goto
  <2>4. UNCHANGED history BY <1>10 DEF ReadPlacement
  <2>. QED BY <1>4, <2>1, <2>2, <2>3, <2>4 DEF Placement
<1>11. ASSUME NEW s \in Session, InsertHistory(s) PROVE LevelingFollowsPlacement'
  BY <1>1, <1>4, <1>11 DEF InsertHistory, Goto
<1>12. ASSUME NEW S, Finish(S)
       PROVE  /\ \A t \in Session : rollingOn(stage'[t]) => rollingOn(stage[t])
              /\ \A t \in Session : flipping(plan'[t]) => flipping(plan[t])
  BY <1>2, <1>12, FinishLeaves
<1>13. ASSUME NEW s \in Session, UpdateStable(s) \/ FailTeardown(s)
       PROVE  LevelingFollowsPlacement'
  BY <1>4, <1>12, <1>13 DEF UpdateStable, FailTeardown
<1>14. ASSUME Crash PROVE LevelingFollowsPlacement'
  BY <1>4, <1>12, <1>14 DEF Crash
<1>15. ASSUME NEW s \in Session, CommitBand(s) PROVE LevelingFollowsPlacement'
  <2>1. PICK row \in Rows : /\ row.reason = plan[s].reason
                            /\ history' = Append(history, row)
    BY <1>15, CommitAdds
  <2>2. is_calibrated => is_calibrated'
    BY <1>1, <2>1, StaysCalibrated
  <2>3. row.reason # Placement => flipping(plan[s])
    BY <2>1 DEF Rows
  <2>4. row.reason # Placement => is_calibrated
    BY <2>3 DEF LevelingFollowsPlacement
  <2>5. /\ DOMAIN history = 1 .. Len(history) /\ Len(history) \in Nat
        /\ DOMAIN history' = 1 .. (Len(history) + 1)
        /\ history'[Len(history) + 1] = row
        /\ \A i \in DOMAIN history : history'[i] = history[i]
    BY <1>1, <2>1
  <2>6. \A i \in DOMAIN history' : i \notin DOMAIN history =>
          (history'[i].reason # Placement => is_calibrated)
    BY <2>4, <2>5
  <2>. QED BY <1>3, <1>12, <1>15, <2>2, <2>5, <2>6 DEF CommitBand
<1>16. ASSUME UNCHANGED vars PROVE LevelingFollowsPlacement'
  BY <1>4, <1>16 DEF vars
<1>. QED
  BY <1>5, <1>6, <1>7, <1>8, <1>9, <1>10, <1>11, <1>13, <1>14, <1>15, <1>16
  DEF Next, Step

(* The conjunction of the above is an inductive invariant of every step of *)
(* the teardowns, overlapping or not.                                      *)
THEOREM Invariance == Spec => []IInv
<1>1. IInv /\ [Next]_vars => IInv'
  BY StepTypeOK, StepPlanIsDecided, StepStreakIsEarned, StepBandIsAudited,
     StepLevelingFollowsPlacement
  DEF IInv
<1>. QED BY InitIInv, <1>1, PTL DEF Spec

(* TypeOK of Leveling, for every constant.                                 *)
THEOREM TypeCorrect == Spec => []TypeOK
BY Invariance, PTL DEF IInv

(* The counter never claims more evaluations than there were               *)
(* (leveling/service.py:128-145), however teardowns overlap or die.        *)
THEOREM StreakEarned == Spec => []StreakIsEarned
BY Invariance, PTL DEF IInv

(* The transaction of _apply_band_change (leveling/service.py:187-219)     *)
(* keeps the profile's band audited, however teardowns overlap or die.     *)
THEOREM BandAudited == Spec => []BandIsAudited
BY Invariance, PTL DEF IInv

(* end_session's calibration check (ingest.py:149-159) holds back leveling *)
(* until a placement is durable, even though it is not repeated later.     *)
THEOREM LevelingAfterPlacement == Spec => []LevelingFollowsPlacement
BY Invariance, PTL DEF IInv

-----------------------------------------------------------------------------
(* What holds only when teardowns do not overlap: what a teardown read is  *)
(* still so when it writes.                                                *)

Alone ==
    \A s, t \in Session : stage[s] \in Teardown /\ stage[t] \in Teardown => s = t

Fresh(s) ==
    /\ stage[s] \in {"counting", "rolling", "bumping"} => seen[s].band = profile.band
    /\ stage[s] = "rolling" => seen[s].stable = profile.stable
    /\ stage[s] = "placing" => ~is_calibrated
    /\ stage[s] \in {"inserting", "committing"} =>
         \/ plan[s].reason = Placement /\ ~is_calibrated
         \/ /\ plan[s].reason # Placement /\ is_calibrated
            /\ seen[s].band = profile.band
            /\ plan[s].reason = "auto_promote" => Unbroken(PromoteK - 1)
            /\ plan[s].reason = "auto_demote" => Unbroken(DemoteK - 1)

SerialInv ==
    /\ IInv
    /\ Alone
    /\ \A s \in Session : Fresh(s)
    /\ BandHistoryIsAChain
    /\ Unbroken(profile.stable)

LEMMA InitSerialInv == Init => SerialInv
<1>. SUFFICES ASSUME Init PROVE SerialInv
  OBVIOUS
<1>1. IInv BY InitIInv
<1>2. Alone BY DEF Init, Alone, Teardown
<1>3. \A s \in Session : Fresh(s) BY DEF Init, Fresh
<1>4. BandHistoryIsAChain BY DEF Init, BandHistoryIsAChain
<1>5. Unbroken(profile.stable) BY DEF Init, Unbroken
<1>. QED BY <1>1, <1>2, <1>3, <1>4, <1>5 DEF SerialInv

(* The end of an unbroken streak is unbroken.                              *)
LEMMA UnbrokenEnds ==
    ASSUME leanings \in Seq(ALL_BANDS \cup {NoBand, Borderline}),
           NEW n \in Nat, Unbroken(n), NEW k \in Int, k <= n
    PROVE  Unbroken(k)
<1>1. Len(leanings) \in Nat /\ DOMAIN leanings = 1 .. Len(leanings)
  OBVIOUS
<1>2. \A i \in DOMAIN leanings : i > Len(leanings) - k => i > Len(leanings) - n
  BY <1>1
<1>. QED BY <1>1, <1>2 DEF Unbroken

(* A session only starts its teardown when nobody else is in one.          *)
LEMMA StepAlone ==
    ASSUME ~Overlap, TypeOK, TypeOK', Alone, [Next]_vars
    PROVE  Alone'
<1>1. stage \in [Session -> Stages] BY DEF TypeOK
<1>2. ASSUME \A t \in Session : stage'[t] \in Teardown => stage[t] \in Teardown
      PROVE  Alone'
  BY <1>2 DEF Alone
<1>3. ASSUME NEW s \in Session, StartSession(s) PROVE Alone'
  BY <1>1, <1>2, <1>3 DEF StartSession, Goto, Teardown
<1>4. ASSUME NEW s \in Session, NEW b \in TurnBands, RecordTurn(s, b) PROVE Alone'
  BY <1>2, <1>4 DEF RecordTurn
<1>5. ASSUME NEW s \in Session, EndSession(s) PROVE Alone'
  <2>1. \A t \in Session \ {s} : stage'[t] \notin Teardown
    BY <1>1, <1>5 DEF EndSession, Goto
  <2>. QED BY <2>1 DEF Alone
<1>6. ASSUME NEW s \in Session,
             ReadBand(s) \/ ReadStable(s) \/ ReadWindow(s) \/ ReadPlacement(s)
               \/ InsertHistory(s)
      PROVE  Alone'
  <2>1. stage[s] \in Teardown
    BY <1>6 DEF ReadBand, ReadStable, ReadWindow, ReadPlacement, InsertHistory,
                Teardown, Stages
  <2>2. \A t \in Session \ {s} : stage'[t] = stage[t]
    BY <1>1, <1>6 DEF ReadBand, ReadStable, ReadWindow, ReadPlacement,
                      InsertHistory, Goto
  <2>. QED BY <1>2, <2>1, <2>2
<1>7. ASSUME NEW S, Finish(S) PROVE Alone'
  <2>1. "done" \notin Teardown BY DEF Teardown
  <2>. QED BY <1>1, <1>2, <1>7, <2>1 DEF Finish
<1>8. ASSUME NEW s \in Session, UpdateStable(s) \/ CommitBand(s) \/ FailTeardown(s)
      PROVE  Alone'
  BY <1>7, <1>8 DEF UpdateStable, CommitBand, FailTeardown
<1>9. ASSUME Crash PROVE Alone'
  BY <1>7, <1>9 DEF Crash
<1>10. ASSUME UNCHANGED vars PROVE Alone'
  BY <1>2, <1>10 DEF vars
<1>. QED
  BY <1>3, <1>4, <1>5, <1>6, <1>8, <1>9, <1>10 DEF Next, Step

(* A session's reads stay fresh while nobody writes the profile.           *)
LEMMA StepFresh ==
    ASSUME SerialInv, TypeOK', Alone', [Next]_vars, NEW t \in Session
    PROVE  Fresh(t)'
<1>1. /\ stage \in [Session -> Stages] /\ stage' \in [Session -> Stages]
      /\ plan \in [Session -> Plans]
      /\ seen \in [Session -> [band : ALL_BANDS, stable : Nat]]
  BY DEF SerialInv, IInv, TypeOK
<1>2. Fresh(t) BY DEF SerialInv
<1>3. ASSUME UNCHANGED <<profile, history, leanings>>,
             stage'[t] = stage[t], seen'[t] = seen[t], plan'[t] = plan[t]
      PROVE  Fresh(t)'
  BY <1>2, <1>3 DEF Fresh, is_calibrated, Unbroken
<1>4. ASSUME stage'[t] \in {"none", "live", "banding", "done"} PROVE Fresh(t)'
  BY <1>4 DEF Fresh
<1>5. ASSUME NEW s \in Session, StartSession(s) PROVE Fresh(t)'
  <2>1. CASE s = t BY <1>1, <1>4, <1>5, <2>1 DEF StartSession, Goto
  <2>2. CASE s # t BY <1>1, <1>3, <1>5, <2>2 DEF StartSession, Goto
  <2>. QED BY <2>1, <2>2
<1>6. ASSUME NEW s \in Session, NEW b \in TurnBands, RecordTurn(s, b)
      PROVE  Fresh(t)'
  BY <1>3, <1>6 DEF RecordTurn
<1>7. ASSUME NEW s \in Session, EndSession(s) PROVE Fresh(t)'
  <2>1. CASE s = t
    BY <1>1, <1>7, <2>1 DEF EndSession, Goto, Fresh, is_calibrated
  <2>2. CASE s # t BY <1>1, <1>3, <1>7, <2>2 DEF EndSession, Goto
  <2>. QED BY <2>1, <2>2
<1>8. ASSUME NEW s \in Session, ReadBand(s) PROVE Fresh(t)'
  <2>1. CASE s = t
    BY <1>1, <1>8, <2>1 DEF ReadBand, Goto, Fresh
  <2>2. CASE s # t BY <1>1, <1>3, <1>8, <2>2 DEF ReadBand, Goto
  <2>. QED BY <2>1, <2>2
<1>9. ASSUME NEW s \in Session, ReadStable(s) PROVE Fresh(t)'
  <2>1. CASE s = t
    BY <1>1, <1>2, <1>9, <2>1 DEF ReadStable, Goto, Fresh
  <2>2. CASE s # t BY <1>1, <1>3, <1>9, <2>2 DEF ReadStable, Goto
  <2>. QED BY <2>1, <2>2
<1>10. ASSUME NEW s \in Session, ReadWindow(s) PROVE Fresh(t)'
  <2>1. CASE s = t
    <3>. DEFINE d == evaluate_leveling(seen[s].band, RollingWindow, seen[s].stable,
                                       PromoteK, DemoteK)
    <3>1. /\ d \in Decisions
          /\ d.reason = "auto_promote" => seen[s].stable + 1 >= PromoteK
          /\ d.reason = "auto_demote" => seen[s].stable + 1 >= DemoteK
      BY <1>1, EvaluateType
    <3>. HIDE DEF d
    <3>2. /\ seen[s].stable = profile.stable /\ seen[s].band = profile.band
          /\ stage[s] = "rolling"
      BY <1>2, <1>10, <2>1 DEF Fresh, ReadWindow
    <3>3. is_calibrated
      BY <3>2 DEF SerialInv, IInv, LevelingFollowsPlacement
    <3>4. /\ profile.stable \in Nat /\ Unbroken(profile.stable)
          /\ leanings \in Seq(ALL_BANDS \cup {NoBand, Borderline})
      BY DEF SerialInv, IInv, TypeOK
    <3>5. plan'[s] = d /\ UNCHANGED <<profile, history, leanings, seen>>
      BY <1>1, <1>10 DEF ReadWindow, d
    <3>6. d.reason # Placement BY <3>1 DEF Decisions, Reasons, Placement
    <3>7. stage'[s] \in {"bumping", "inserting"}
      BY <1>1, <1>10 DEF ReadWindow, Goto
    <3>8. is_calibrated' BY <3>3, <3>5 DEF is_calibrated
    <3>9. /\ d.reason = "auto_promote" => Unbroken(PromoteK - 1)
          /\ d.reason = "auto_demote" => Unbroken(DemoteK - 1)
      <4>1. CASE d.reason = "auto_promote"
        BY <3>1, <3>2, <3>4, <4>1, SettingsAssumption, UnbrokenEnds
      <4>2. CASE d.reason = "auto_demote"
        BY <3>1, <3>2, <3>4, <4>2, SettingsAssumption, UnbrokenEnds
      <4>. QED BY <4>1, <4>2
    <3>10. /\ d.reason = "auto_promote" => Unbroken(PromoteK - 1)'
           /\ d.reason = "auto_demote" => Unbroken(DemoteK - 1)'
      BY <3>5, <3>9 DEF Unbroken
    <3>. QED BY <2>1, <3>2, <3>5, <3>6, <3>7, <3>8, <3>10 DEF Fresh
  <2>2. CASE s # t BY <1>1, <1>3, <1>10, <2>2 DEF ReadWindow, Goto
  <2>. QED BY <2>1, <2>2
<1>11. ASSUME NEW s \in Session, ReadPlacement(s) PROVE Fresh(t)'
  <2>1. CASE s = t
    <3>1. ~is_calibrated' /\ UNCHANGED <<profile, history, leanings>>
      BY <1>2, <1>11, <2>1 DEF Fresh, ReadPlacement, is_calibrated
    <3>2. \/ stage'[s] = "done"
          \/ stage'[s] = "inserting" /\ plan'[s].reason = Placement
      BY <1>1, <1>11 DEF ReadPlacement, Goto, Decide
    <3>. QED BY <2>1, <3>1, <3>2 DEF Fresh
  <2>2. CASE s # t BY <1>1, <1>3, <1>11, <2>2 DEF ReadPlacement, Goto
  <2>. QED BY <2>1, <2>2
<1>12. ASSUME NEW s \in Session, InsertHistory(s) PROVE Fresh(t)'
  <2>1. CASE s = t
    BY <1>1, <1>2, <1>12, <2>1 DEF InsertHistory, Goto, Fresh, is_calibrated, Unbroken
  <2>2. CASE s # t BY <1>1, <1>3, <1>12, <2>2 DEF InsertHistory, Goto
  <2>. QED BY <2>1, <2>2
<1>13. ASSUME NEW s \in Session, UpdateStable(s) \/ CommitBand(s) PROVE Fresh(t)'
  <2>1. stage[s] \in Teardown
    BY <1>13 DEF UpdateStable, CommitBand, Teardown, Stages
  <2>2. s # t => stage[t] \in {"none", "live", "done"}
    BY <1>1, <2>1 DEF SerialInv, Alone, Teardown
  <2>3. Finish({s}) BY <1>13 DEF UpdateStable, CommitBand
  <2>4. stage'[t] \in {"none", "live", "done"} BY <2>2, <2>3 DEF Finish
  <2>. QED BY <1>4, <2>4
<1>14. ASSUME NEW S, Finish(S), UNCHANGED <<profile, history, leanings>>
       PROVE  Fresh(t)'
  <2>1. CASE t \in S BY <1>4, <1>14, <2>1 DEF Finish
  <2>2. CASE t \notin S BY <1>3, <1>14, <2>2 DEF Finish
  <2>. QED BY <2>1, <2>2
<1>15. ASSUME NEW s \in Session, FailTeardown(s) PROVE Fresh(t)'
  BY <1>14, <1>15 DEF FailTeardown
<1>16. ASSUME Crash PROVE Fresh(t)'
  BY <1>14, <1>16 DEF Crash
<1>17. ASSUME UNCHANGED vars PROVE Fresh(t)'
  BY <1>3, <1>17 DEF vars
<1>. QED
  BY <1>5, <1>6, <1>7, <1>8, <1>9, <1>10, <1>11, <1>12, <1>13, <1>15, <1>16, <1>17
  DEF Next, Step

LEMMA StepChain ==
    ASSUME SerialInv, [Next]_vars
    PROVE  BandHistoryIsAChain'
<1>1. /\ history \in Seq(Rows) /\ profile \in [band : ALL_BANDS, stable : Nat]
      /\ TypeOK /\ PlanIsDecided /\ BandHistoryIsAChain
  BY DEF SerialInv, IInv, TypeOK
<1>2. ASSUME NEW s \in Session, UpdateStable(s) PROVE BandHistoryIsAChain'
  BY <1>1, <1>2 DEF UpdateStable, BandHistoryIsAChain
<1>3. ASSUME NEW s \in Session, CommitBand(s) PROVE BandHistoryIsAChain'
  <2>1. PICK row \in Rows :
          /\ row.reason = plan[s].reason
          /\ row.from = IF plan[s].reason = Placement THEN NoBand ELSE seen[s].band
          /\ history' = Append(history, row)
          /\ profile' = [band |-> row.to, stable |-> 0]
    BY <1>1, <1>3, CommitAdds
  <2>2. /\ DOMAIN history = 1 .. Len(history) /\ Len(history) \in Nat
        /\ DOMAIN history' = 1 .. (Len(history) + 1)
        /\ Len(history') = Len(history) + 1
        /\ history'[Len(history) + 1] = row
        /\ \A i \in DOMAIN history : history'[i] = history[i]
        /\ history = <<>> <=> Len(history) = 0
    BY <1>1, <2>1
  <2>3. Fresh(s) /\ stage[s] = "committing"
    BY <1>3 DEF SerialInv, CommitBand
  <2>4. /\ row.reason = Placement => Len(history) = 0 /\ row.from = NoBand
        /\ row.reason # Placement =>
             Len(history) # 0 /\ row.from = history[Len(history)].to
    <3>1. is_calibrated <=> Len(history) # 0
      BY <1>1, <2>2 DEF BandHistoryIsAChain, is_calibrated
    <3>2. Len(history) # 0 => profile.band = history[Len(history)].to
      BY <1>1, <2>2 DEF BandHistoryIsAChain
    <3>. QED BY <2>1, <2>3, <3>1, <3>2 DEF Fresh
  <2>5. \A i \in DOMAIN history' :
          /\ history'[i].from = IF i = 1 THEN NoBand ELSE history'[i - 1].to
          /\ history'[i].reason = Placement <=> i = 1
    <3>. SUFFICES ASSUME NEW i \in DOMAIN history'
                  PROVE  /\ history'[i].from = IF i = 1 THEN NoBand
                                               ELSE history'[i - 1].to
                         /\ history'[i].reason = Placement <=> i = 1
      OBVIOUS
    <3>1. CASE i \in DOMAIN history
      BY <1>1, <2>2, <3>1 DEF BandHistoryIsAChain
    <3>2. CASE i = Len(history) + 1
      BY <2>2, <2>4, <3>2
    <3>. QED BY <2>2, <3>1, <3>2
  <2>6. profile'.band = IF history' = <<>> THEN A2 ELSE history'[Len(history')].to
    BY <2>1, <2>2
  <2>. QED BY <2>5, <2>6 DEF BandHistoryIsAChain
<1>4. ASSUME UNCHANGED <<profile, history, leanings>> PROVE BandHistoryIsAChain'
  BY <1>1, <1>4 DEF BandHistoryIsAChain
<1>. QED BY <1>2, <1>3, <1>4, ProfileWriters

(* The counter counts evaluations that leaned away from the profile's band:*)
(* a stable decision restarts it or lengthens the streak, a flip empties   *)
(* both.                                                                   *)
LEMMA StepUnbroken ==
    ASSUME SerialInv, TypeOK', [Next]_vars
    PROVE  Unbroken(profile.stable)'
<1>1. /\ profile \in [band : ALL_BANDS, stable : Nat]
      /\ profile' \in [band : ALL_BANDS, stable : Nat]
      /\ leanings \in Seq(ALL_BANDS \cup {NoBand, Borderline})
      /\ leanings' \in Seq(ALL_BANDS \cup {NoBand, Borderline})
      /\ Unbroken(profile.stable)
  BY DEF SerialInv, IInv, TypeOK
<1>2. ASSUME NEW s \in Session, UpdateStable(s) PROVE Unbroken(profile.stable)'
  <2> DEFINE n == profile.stable
             a == plan[s].toward
  <2>1. stage[s] = "bumping" /\ seen[s].band = profile.band
    BY <1>2 DEF UpdateStable, SerialInv, Fresh
  <2>2. leanings' = Append(leanings, a) /\ profile'.band = profile.band
    BY <1>1, <1>2 DEF UpdateStable
  <2>3. /\ Len(leanings) \in Nat /\ Len(leanings') = Len(leanings) + 1
        /\ DOMAIN leanings = 1 .. Len(leanings) /\ DOMAIN leanings' = 1 .. Len(leanings) + 1
        /\ \A i \in 1 .. Len(leanings) : leanings'[i] = leanings[i]
        /\ leanings'[Len(leanings) + 1] = a
    BY <1>1, <2>2
  <2>4. CASE a \in {profile.band, Borderline}
    <3>1. profile'.stable = 0
      BY <1>1, <1>2, <2>1, <2>4 DEF UpdateStable
    <3>. QED BY <2>3, <3>1 DEF Unbroken
  <2>5. CASE a \notin {profile.band, Borderline}
    <3>1. profile'.stable = n + 1 /\ n \in Nat
      BY <1>1, <1>2, <2>1, <2>5 DEF UpdateStable
    <3>2. n <= Len(leanings)
      BY <1>1 DEF Unbroken
    <3>3. ASSUME NEW i \in DOMAIN leanings', i > Len(leanings') - (n + 1)
          PROVE  leanings'[i] \notin {profile.band, Borderline}
      <4>1. CASE i = Len(leanings) + 1
        BY <2>3, <2>5, <4>1
      <4>2. CASE i # Len(leanings) + 1
        <5>1. i \in 1 .. Len(leanings) /\ i > Len(leanings) - n
          BY <2>3, <3>1, <3>3, <4>2
        <5>. QED BY <1>1, <2>3, <5>1 DEF Unbroken
      <4>. QED BY <4>1, <4>2
    <3>. QED BY <2>2, <2>3, <3>1, <3>2, <3>3 DEF Unbroken
  <2>. QED BY <2>4, <2>5
<1>3. ASSUME NEW s \in Session, CommitBand(s) PROVE Unbroken(profile.stable)'
  <2>1. profile'.stable = 0 /\ leanings' = <<>>
    BY <1>3 DEF CommitBand
  <2>. QED BY <2>1 DEF Unbroken
<1>4. ASSUME UNCHANGED <<profile, history, leanings>> PROVE Unbroken(profile.stable)'
  BY <1>1, <1>4 DEF Unbroken
<1>. QED BY <1>2, <1>3, <1>4, ProfileWriters

THEOREM SerialInvariance == ASSUME ~Overlap PROVE Spec => []SerialInv
<1>1. SerialInv /\ [Next]_vars => SerialInv'
  <2>. SUFFICES ASSUME SerialInv, [Next]_vars PROVE SerialInv'
    OBVIOUS
  <2>1. IInv'
    BY StepTypeOK, StepPlanIsDecided, StepStreakIsEarned, StepBandIsAudited,
       StepLevelingFollowsPlacement
    DEF SerialInv, IInv
  <2>2. Alone' BY <2>1, StepAlone DEF SerialInv, IInv
  <2>3. \A t \in Session : Fresh(t)' BY <2>1, <2>2, StepFresh DEF IInv
  <2>4. BandHistoryIsAChain' BY StepChain
  <2>5. Unbroken(profile.stable)' BY <2>1, StepUnbroken DEF IInv
  <2>. QED BY <2>1, <2>2, <2>3, <2>4, <2>5 DEF SerialInv
<1>. QED BY InitSerialInv, <1>1, PTL DEF Spec

(* Without overlapping teardowns the audit trail is a chain from the one   *)
(* placement to the profile's band (leveling/service.py:187-219).          *)
THEOREM HistoryIsAChain == ASSUME ~Overlap PROVE Spec => []BandHistoryIsAChain
BY SerialInvariance, PTL DEF SerialInv

(* Without overlapping teardowns a flip ends a streak of K evaluations that*)
(* all leaned away from the band, failures and crashes between them or not *)
(* (leveling/service.py:107-166, policy.py:172-216).                       *)
THEOREM FlipsEndUnbrokenStreaks ==
    ASSUME ~Overlap PROVE Spec => FlipEndsAnUnbrokenStreak
<1>1. SerialInv /\ [Next]_vars =>
        [\A s \in Session : CommitBand(s) =>
           /\ plan[s].reason = "auto_promote" => Unbroken(PromoteK - 1)
           /\ plan[s].reason = "auto_demote" => Unbroken(DemoteK - 1)]_vars
  BY DEF SerialInv, Fresh, CommitBand, Placement
<1>. QED BY <1>1, SerialInvariance, PTL DEF FlipEndsAnUnbrokenStreak, Spec

-----------------------------------------------------------------------------
(* The learner beside the handlers of /ws/session.                         *)

Unnumbered == {"new", "preparing", "evicting", "closing", "failing", "starting"}

SystemTyped ==
    /\ phase \in [Conn -> Server!Phases]
    /\ number \in [Conn -> 0 .. MaxSessions]

(* A handler has the session its start_session was given, which is live    *)
(* while its pipeline is, and done when it has returned.                   *)
SessionsAreLed ==
    \A c \in Conn :
        /\ phase[c] \in Unnumbered => number[c] = 0
        /\ phase[c] \in {"marking", "running"} => number[c] # 0 /\ stage[number[c]] = "live"
        /\ phase[c] = "ending" => number[c] # 0 /\ stage[number[c]] # "none"
        /\ phase[c] = "closed" /\ number[c] # 0 => stage[number[c]] = "done"

(* Each its own, numbered as they come.                                    *)
NumbersAreOwn ==
    /\ \A c, d \in Numbered : number[c] = number[d] => c = d
    /\ \A c \in Numbered : number[c] <= Cardinality(Numbered)

(* Whoever tears down no longer holds the slot.                            *)
SlotIsGivenUp == \A c \in Conn : phase[c] = "ending" => active # c

SystemInv ==
    /\ SystemTyped /\ stage \in [Session -> Stages]
    /\ SessionsAreLed /\ NumbersAreOwn /\ SlotIsGivenUp

(* There are no more sessions than connections.                            *)
LEMMA NumberedIsFinite ==
    /\ IsFiniteSet(Numbered) /\ Cardinality(Numbered) \in Nat
    /\ Cardinality(Numbered) <= MaxSessions
    /\ \A c \in Conn : number[c] = 0 => Cardinality(Numbered) < MaxSessions
<1>1. IsFiniteSet(Conn) /\ Cardinality(Conn) = MaxSessions
  <2>1. MaxSessions \in Nat /\ MaxSessions \in Int /\ 1 \in Int
    BY LevelingAssumption
  <2> QED
    BY <2>1, FS_Interval DEF Conn
<1>2. Numbered \subseteq Conn
  BY DEF Numbered
<1>3. IsFiniteSet(Numbered) /\ Cardinality(Numbered) \in Nat /\ Cardinality(Numbered) <= MaxSessions
  BY <1>1, <1>2, FS_Subset, FS_CardinalityType
<1>4. ASSUME NEW c \in Conn, number[c] = 0 PROVE Cardinality(Numbered) < MaxSessions
  <2>1. c \in Conn \ Numbered
    BY <1>4 DEF Numbered
  <2>2. Numbered # Conn
    BY <2>1
  <2>3. Cardinality(Numbered) # MaxSessions
    BY <1>1, <1>2, <2>2, FS_Subset
  <2> QED
    BY <1>3, <2>3, LevelingAssumption
<1> QED
  BY <1>3, <1>4

LEMMA InitSystem == SystemInit => SystemInv
<1> SUFFICES ASSUME SystemInit PROVE SystemInv
  OBVIOUS
<1>1. /\ phase = [c \in Conn |-> "new"] /\ number = [c \in Conn |-> 0]
      /\ stage = [s \in Session |-> "none"]
  BY DEF SystemInit, Server!Init, Init
<1>2. SystemTyped /\ stage \in [Session -> Stages]
  BY <1>1, LevelingAssumption DEF SystemTyped, Server!Phases, Stages
<1>3. SessionsAreLed /\ SlotIsGivenUp
  BY <1>1 DEF SessionsAreLed, SlotIsGivenUp
<1>4. NumbersAreOwn
  BY <1>1 DEF NumbersAreOwn, Numbered
<1> QED
  BY <1>2, <1>3, <1>4 DEF SystemInv

(* A handler that goes on without its session's row changing.              *)
LEMMA HandlerGoesOn ==
    ASSUME SystemInv, NEW c \in Conn, NEW to, phase' = [phase EXCEPT ![c] = to],
           stage' = stage, number' = number, to \in Server!Phases,
           \/ phase[c] \in Unnumbered /\ to \in Unnumbered \cup {"closed"}
           \/ phase[c] = "marking" /\ to = "running"
           \/ phase[c] = "running" /\ to = "ending"
           \/ phase[c] = "ending" /\ to = "closed" /\ stage[number[c]] = "done",
           \A d \in Conn : active' = d => active = d \/ (d = c /\ to \in Unnumbered),
           to = "ending" => active' # c
    PROVE  SystemInv'
<1>1. SystemTyped' /\ stage' \in [Session -> Stages]
  BY DEF SystemInv, SystemTyped
<1>2. NumbersAreOwn'
  BY DEF SystemInv, NumbersAreOwn, Numbered
<1>3. SessionsAreLed'
  BY DEF SystemInv, SessionsAreLed, SystemTyped, Unnumbered
<1>4. SlotIsGivenUp'
  BY DEF SystemInv, SlotIsGivenUp, SystemTyped, Unnumbered
<1> QED
  BY <1>1, <1>2, <1>3, <1>4 DEF SystemInv

LEMMA HandleSystem ==
    ASSUME SystemInv, NEW c \in Conn, Handle(c)
    PROVE  SystemInv'
<1>1. stage' = stage /\ number' = number
  BY DEF Handle, learner
<1>2. phase[c] \in Server!Phases
  BY DEF SystemInv, SystemTyped
<1>3. CASE Server!Refuse(c) \/ Server!Accept(c) \/ Server!PrepareFails(c)
           \/ Server!CancelIncumbent(c) \/ Server!CloseIncumbent(c) \/ Server!MarkStarted(c)
  <2>1. active' = active
    BY <1>3 DEF Server!Refuse, Server!Accept, Server!PrepareFails, Server!CancelIncumbent,
       Server!CloseIncumbent, Server!MarkStarted
  <2>2. PICK to \in {"closed", "preparing", "closing", "failing", "starting", "running"} :
          /\ phase' = [phase EXCEPT ![c] = to]
          /\ \/ phase[c] \in Unnumbered /\ to # "running"
             \/ phase[c] = "marking" /\ to = "running"
    BY <1>3 DEF Server!Refuse, Server!Accept, Server!PrepareFails, Server!CancelIncumbent,
       Server!CloseIncumbent, Server!MarkStarted, Server!Goto, Server!Leave, Unnumbered
  <2>3. to \in Server!Phases /\ (to # "running" => to \in Unnumbered \cup {"closed"})
    BY <2>2 DEF Server!Phases, Unnumbered
  <2> QED
    BY <1>1, <2>1, <2>2, <2>3, HandlerGoesOn
<1>4. CASE Server!Install(c)
  <2>1. active' = c /\ phase[c] \in Unnumbered
    BY <1>4 DEF Server!Install, Unnumbered
  <2>2. PICK to \in {"starting", "evicting"} : phase' = [phase EXCEPT ![c] = to]
    BY <1>4 DEF Server!Install, Server!Goto
  <2>3. to \in Server!Phases /\ to \in Unnumbered /\ to # "ending"
    BY <2>2 DEF Server!Phases, Unnumbered
  <2> QED
    BY <1>1, <2>1, <2>2, <2>3, HandlerGoesOn
<1>5. CASE Server!RunEnds(c)
  <2>1. /\ phase[c] = "running" /\ phase' = [phase EXCEPT ![c] = "ending"]
        /\ active' = IF active = c THEN None ELSE active
    BY <1>5 DEF Server!RunEnds, Server!Goto
  <2>2. active' # c /\ \A d \in Conn : active' = d => active = d \/ (d = c /\ "ending" \in Unnumbered)
    <3>1. \A d \in Conn : d # None
      BY DEF None, Conn
    <3> QED
      BY <2>1, <3>1
  <2>3. "ending" \in Server!Phases
    BY DEF Server!Phases
  <2> QED
    BY <1>1, <2>1, <2>2, <2>3, HandlerGoesOn
<1>6. CASE Server!ClientGone(c)
  <2>1. phase' = phase /\ active' = active
    BY <1>6 DEF Server!ClientGone
  <2> QED
    BY <1>1, <2>1 DEF SystemInv, SystemTyped, SessionsAreLed, NumbersAreOwn, Numbered, SlotIsGivenUp
<1> QED
  BY <1>3, <1>4, <1>5, <1>6 DEF Handle

(* The next number is a session, and nobody's yet.                         *)
LEMMA StartRowSystem ==
    ASSUME SystemInv, NEW c \in Conn, StartRow(c)
    PROVE  SystemInv' /\ NextNumber \in Session
<1> DEFINE n == Cardinality(Numbered)
<1>1. /\ phase[c] = "starting" /\ number[c] = 0
      /\ number' = [number EXCEPT ![c] = n + 1] /\ NextNumber = n + 1
  <2>1. phase[c] = "starting"
    BY DEF StartRow, Server!StartRow
  <2>2. number[c] = 0
    BY <2>1 DEF SystemInv, SessionsAreLed, Unnumbered
  <2>3. NextNumber = n + 1
    BY NumberedIsFinite DEF NextNumber
  <2> QED
    BY <2>1, <2>2, <2>3 DEF StartRow
<1>2. PICK to \in {"marking", "running"} : phase' = [phase EXCEPT ![c] = to]
  BY DEF StartRow, Server!StartRow, Server!Goto
<1>3. active' = active /\ stage' = [stage EXCEPT ![n + 1] = "live"] /\ stage[n + 1] = "none"
  BY <1>1 DEF StartRow, Server!StartRow, StartSession, Goto
<1>4. /\ n \in Nat /\ n < MaxSessions /\ MaxSessions \in Nat /\ IsFiniteSet(Numbered)
      /\ n + 1 \in 1 .. MaxSessions
  BY <1>1, NumberedIsFinite, LevelingAssumption
<1>5. n + 1 \in Session
  BY <1>4 DEF Session
<1>6. Numbered' = Numbered \cup {c} /\ c \notin Numbered
  BY <1>1, <1>4 DEF Numbered, SystemInv, SystemTyped
<1>7. Cardinality(Numbered') = n + 1
  BY <1>4, <1>6, FS_AddElement
<1> HIDE DEF n
<1>8. SystemTyped' /\ stage' \in [Session -> Stages]
  <2>1. phase' \in [Conn -> Server!Phases]
    BY <1>2 DEF SystemInv, SystemTyped, Server!Phases
  <2>2. number' \in [Conn -> 0 .. MaxSessions]
    BY <1>1, <1>4 DEF SystemInv, SystemTyped
  <2>3. stage' \in [Session -> Stages]
    BY <1>3 DEF SystemInv, Stages
  <2> QED
    BY <2>1, <2>2, <2>3 DEF SystemTyped
<1>9. \A d \in Numbered : number[d] \in Nat /\ number[d] <= n /\ number[d] # 0
  <2>1. \A d \in Numbered : d \in Conn /\ number[d] # 0 /\ number[d] <= n
    BY DEF SystemInv, NumbersAreOwn, Numbered, n
  <2>2. \A d \in Conn : number[d] \in Nat
    BY <1>4 DEF SystemInv, SystemTyped
  <2> QED
    BY <2>1, <2>2
<1>10. \A d \in Numbered : number'[d] = number[d] /\ number'[c] = n + 1
  <2>1. \A d \in Numbered : d # c /\ d \in Conn
    BY <1>6 DEF Numbered
  <2> QED
    BY <1>1, <2>1 DEF SystemInv, SystemTyped
<1>11. number'[c] = n + 1
  BY <1>1 DEF SystemInv, SystemTyped
<1>12. NumbersAreOwn'
  <2>1. ASSUME NEW d \in Numbered', NEW e \in Numbered', number'[d] = number'[e]
        PROVE  d = e
    <3>1. CASE d = c /\ e = c
      BY <3>1
    <3>2. CASE d # c /\ e # c
      <4>1. d \in Numbered /\ e \in Numbered /\ number[d] = number[e]
        BY <1>6, <1>10, <2>1, <3>2
      <4> QED
        BY <4>1 DEF SystemInv, NumbersAreOwn
    <3>3. CASE d # c /\ e = c
      <4>1. number[d] = n + 1 /\ d \in Numbered
        BY <1>6, <1>10, <1>11, <2>1, <3>3
      <4> QED
        BY <1>4, <1>9, <4>1
    <3>4. CASE d = c /\ e # c
      <4>1. number[e] = n + 1 /\ e \in Numbered
        BY <1>6, <1>10, <1>11, <2>1, <3>4
      <4> QED
        BY <1>4, <1>9, <4>1
    <3> QED
      BY <3>1, <3>2, <3>3, <3>4
  <2>2. ASSUME NEW d \in Numbered' PROVE number'[d] <= n + 1
    <3>1. CASE d = c
      BY <1>4, <1>11, <3>1
    <3>2. CASE d # c
      <4>1. d \in Numbered /\ number'[d] = number[d]
        BY <1>6, <1>10, <3>2
      <4> QED
        BY <1>4, <1>9, <4>1
    <3> QED
      BY <3>1, <3>2
  <2> QED
    BY <1>7, <2>1, <2>2 DEF NumbersAreOwn
<1>13. SessionsAreLed'
  <2> SUFFICES ASSUME NEW d \in Conn
               PROVE  /\ phase'[d] \in Unnumbered => number'[d] = 0
                      /\ phase'[d] \in {"marking", "running"} => number'[d] # 0 /\ stage'[number'[d]] = "live"
                      /\ phase'[d] = "ending" => number'[d] # 0 /\ stage'[number'[d]] # "none"
                      /\ phase'[d] = "closed" /\ number'[d] # 0 => stage'[number'[d]] = "done"
    BY DEF SessionsAreLed
  <2>1. CASE d = c
    <3>1. phase'[c] \in {"marking", "running"}
      BY <1>2 DEF SystemInv, SystemTyped
    <3>2. stage'[n + 1] = "live" /\ n + 1 # 0
      BY <1>3, <1>4, <1>5 DEF SystemInv
    <3> QED
      BY <1>11, <2>1, <3>1, <3>2 DEF Unnumbered
  <2>2. CASE d # c
    <3>1. phase'[d] = phase[d] /\ number'[d] = number[d]
      BY <1>1, <1>2, <2>2 DEF SystemInv, SystemTyped
    <3>2. number[d] # 0 => stage'[number[d]] = stage[number[d]]
      <4>1. number[d] # 0 => number[d] # n + 1
        <5>1. number[d] # 0 => d \in Numbered
          BY DEF Numbered
        <5> QED
          BY <1>4, <1>9, <5>1
      <4> QED
        BY <1>3, <4>1 DEF SystemInv
    <3> QED
      BY <3>1, <3>2 DEF SystemInv, SessionsAreLed
  <2> QED
    BY <2>1, <2>2
<1>14. SlotIsGivenUp'
  BY <1>2, <1>3 DEF SystemInv, SystemTyped, SlotIsGivenUp
<1> QED
  BY <1>1, <1>5, <1>8, <1>12, <1>13, <1>14 DEF SystemInv

(* Statements of a session whose handler awaits them.                      *)
LEMMA SessionGoesOn ==
    ASSUME SystemInv, NEW c \in Conn, phase[c] \in {"running", "ending"},
           UNCHANGED <<phase, active, number>>, stage' \in [Session -> Stages],
           \A s \in Session : s # number[c] => stage'[s] = stage[s],
           phase[c] = "running" => stage'[number[c]] = "live",
           phase[c] = "ending" => stage'[number[c]] # "none"
    PROVE  SystemInv'
<1>1. SystemTyped' /\ NumbersAreOwn' /\ SlotIsGivenUp'
  BY DEF SystemInv, SystemTyped, NumbersAreOwn, Numbered, SlotIsGivenUp
<1>2. SessionsAreLed'
  <2> SUFFICES ASSUME NEW d \in Conn
               PROVE  /\ phase[d] \in Unnumbered => number[d] = 0
                      /\ phase[d] \in {"marking", "running"} => number[d] # 0 /\ stage'[number[d]] = "live"
                      /\ phase[d] = "ending" => number[d] # 0 /\ stage'[number[d]] # "none"
                      /\ phase[d] = "closed" /\ number[d] # 0 => stage'[number[d]] = "done"
    BY DEF SessionsAreLed
  <2>1. CASE d = c
    BY <2>1 DEF SystemInv, SessionsAreLed, Unnumbered
  <2>2. CASE d # c
    <3>1. number[d] # 0 => number[d] # number[c] /\ number[d] \in Session
      <4>1. number[d] \in 0 .. MaxSessions
        BY DEF SystemInv, SystemTyped
      <4>2. number[d] # 0 => number[d] \in Session
        BY <4>1, LevelingAssumption DEF Session
      <4>3. number[c] # 0
        BY DEF SystemInv, SessionsAreLed
      <4>4. number[d] # 0 => number[d] # number[c]
        BY <2>2, <4>3 DEF SystemInv, NumbersAreOwn, Numbered
      <4> QED
        BY <4>2, <4>4
    <3> QED
      BY <3>1 DEF SystemInv, SessionsAreLed
  <2> QED
    BY <2>1, <2>2
<1> QED
  BY <1>1, <1>2 DEF SystemInv

LEMMA LogTurnSystem ==
    ASSUME SystemInv, NEW c \in Conn, LogTurn(c)
    PROVE  SystemInv' /\ number[c] \in Session
<1>1. phase[c] = "running" /\ stage' = stage /\ UNCHANGED <<phase, active, number>>
  BY DEF LogTurn, RecordTurn, server
<1>2. number[c] # 0 /\ stage[number[c]] = "live" /\ number[c] \in 0 .. MaxSessions
  BY <1>1 DEF SystemInv, SessionsAreLed, SystemTyped
<1>3. number[c] \in Session
  BY <1>2, LevelingAssumption DEF Session
<1>4. SystemInv'
  BY <1>1, <1>2, SessionGoesOn DEF SystemInv
<1> QED
  BY <1>3, <1>4

LEMMA AwaitEndSessionSystem ==
    ASSUME SystemInv, NEW c \in Conn, AwaitEndSession(c)
    PROVE  SystemInv' /\ number[c] \in Session
<1>1. phase[c] = "ending" /\ UNCHANGED <<phase, active, number>>
  BY DEF AwaitEndSession, server
<1>2. number[c] # 0 /\ number[c] \in 0 .. MaxSessions
  BY <1>1 DEF SystemInv, SessionsAreLed, SystemTyped
<1>3. number[c] \in Session
  BY <1>2, LevelingAssumption DEF Session
<1> DEFINE s == number[c]
<1>4. stage \in [Session -> Stages]
  BY DEF SystemInv
<1> HIDE DEF s
<1>5. PICK to \in Stages \ {"none"} : stage' = [t \in Session |-> IF t = s THEN to ELSE stage[t]]
  <2>1. ASSUME NEW to \in Stages \ {"none"}, stage' = [stage EXCEPT ![s] = to]
        PROVE  stage' = [t \in Session |-> IF t = s THEN to ELSE stage[t]]
    BY <1>4, <2>1
  <2>2. CASE \/ EndSession(s) \/ ReadBand(s) \/ ReadStable(s) \/ ReadWindow(s) \/ InsertHistory(s)
    <3>1. \E to \in {"banding", "placing", "counting", "rolling", "bumping", "inserting",
                     "committing"} : stage' = [stage EXCEPT ![s] = to]
      BY <2>2 DEF EndSession, ReadBand, ReadStable, ReadWindow, InsertHistory, Goto
    <3>2. \E to \in Stages \ {"none"} : stage' = [stage EXCEPT ![s] = to]
      BY <3>1 DEF Stages
    <3> QED
      BY <2>1, <3>2
  <2>3. CASE ReadPlacement(s)
    <3>1. \E to \in {"done", "inserting"} : stage' = [stage EXCEPT ![s] = to]
      BY <2>3 DEF ReadPlacement, Goto
    <3>2. \E to \in Stages \ {"none"} : stage' = [stage EXCEPT ![s] = to]
      BY <3>1 DEF Stages
    <3> QED
      BY <2>1, <3>2
  <2>4. CASE UpdateStable(s) \/ CommitBand(s) \/ FailTeardown(s)
    <3>1. Finish({s})
      BY <2>4 DEF UpdateStable, CommitBand, FailTeardown
    <3>2. stage' = [t \in Session |-> IF t = s THEN "done" ELSE stage[t]]
      BY <3>1 DEF Finish
    <3> QED
      BY <3>2 DEF Stages
  <2>5. Step(s) \/ FailTeardown(s)
    BY DEF AwaitEndSession, s
  <2> QED
    BY <2>2, <2>3, <2>4, <2>5 DEF Step
<1>6. stage' \in [Session -> Stages] /\ stage'[s] # "none" /\ \A t \in Session : t # s => stage'[t] = stage[t]
  BY <1>3, <1>4, <1>5 DEF s
<1>7. SystemInv'
  BY <1>1, <1>6, SessionGoesOn DEF s
<1> QED
  BY <1>3, <1>7

LEMMA RestartSystem ==
    ASSUME SystemInv, Restart
    PROVE  SystemInv'
<1>1. /\ phase' = [c \in Conn |-> IF phase[c] = "new" THEN "new" ELSE "closed"]
      /\ number' = number
  BY DEF Restart, Server!Restart
<1>2. stage' = [s \in Session |-> IF s \in Open THEN "done" ELSE stage[s]]
  <2>1. stage \in [Session -> Stages]
    BY DEF SystemInv
  <2>2. CASE Open = {}
    BY <2>1, <2>2 DEF Restart, learner
  <2>3. CASE Open # {}
    BY <2>3 DEF Restart, Crash, Finish
  <2> QED
    BY <2>2, <2>3
<1>3. \A s \in Session : stage'[s] = IF stage[s] = "none" THEN "none" ELSE "done"
  BY <1>2 DEF Open
<1>4. SystemTyped' /\ stage' \in [Session -> Stages]
  BY <1>1, <1>2 DEF SystemInv, SystemTyped, Server!Phases, Stages
<1>5. NumbersAreOwn' /\ SlotIsGivenUp'
  BY <1>1 DEF SystemInv, NumbersAreOwn, Numbered, SlotIsGivenUp
<1>6. SessionsAreLed'
  <2> SUFFICES ASSUME NEW d \in Conn
               PROVE  /\ phase'[d] = "new" => number[d] = 0
                      /\ phase'[d] = "closed" /\ number[d] # 0 => stage'[number[d]] = "done"
    BY <1>1 DEF SessionsAreLed, Unnumbered
  <2>1. phase'[d] = "new" => phase[d] = "new"
    BY <1>1
  <2>2. number[d] # 0 => stage[number[d]] # "none" /\ number[d] \in Session
    <3>1. number[d] \in 0 .. MaxSessions /\ phase[d] \in Server!Phases
      BY DEF SystemInv, SystemTyped
    <3>2. number[d] # 0 => number[d] \in Session
      BY <3>1, LevelingAssumption DEF Session
    <3>3. number[d] # 0 => stage[number[d]] # "none"
      BY <3>1 DEF SystemInv, SessionsAreLed, Unnumbered, Server!Phases
    <3> QED
      BY <3>2, <3>3
  <2> QED
    BY <1>3, <2>1, <2>2 DEF SystemInv, SessionsAreLed, Unnumbered
<1> QED
  BY <1>4, <1>5, <1>6 DEF SystemInv

LEMMA StepSystem == SystemInv /\ [SystemNext]_systemVars => SystemInv'
<1> SUFFICES ASSUME SystemInv, [SystemNext]_systemVars PROVE SystemInv'
  OBVIOUS
<1>1. ASSUME UNCHANGED <<phase, active, stage, number>> PROVE SystemInv'
  BY <1>1 DEF SystemInv, SystemTyped, SessionsAreLed, NumbersAreOwn, Numbered, SlotIsGivenUp
<1>2. CASE UNCHANGED systemVars
  BY <1>1, <1>2 DEF systemVars, server, learner
<1>3. CASE Ready
  BY <1>1, <1>3 DEF Ready, Server!Ready, learner
<1>4. ASSUME NEW c \in Conn, Return(c) PROVE SystemInv'
  <2>1. /\ phase[c] = "ending" /\ phase' = [phase EXCEPT ![c] = "closed"] /\ active' = active
        /\ stage[number[c]] = "done" /\ stage' = stage /\ number' = number
    BY <1>4 DEF Return, Server!EndSession, Server!Leave, Server!Goto, learner
  <2>2. "closed" \in Server!Phases
    BY DEF Server!Phases
  <2> QED
    BY <2>1, <2>2, HandlerGoesOn
<1> QED
  BY <1>2, <1>3, <1>4, HandleSystem, StartRowSystem, LogTurnSystem, AwaitEndSessionSystem,
     RestartSystem DEF SystemNext

LEMMA SystemInvariance == SystemSpec => []SystemInv
BY InitSystem, StepSystem, PTL DEF SystemSpec

(* What the handlers make of the learner is what Leveling says, whoever    *)
(* evicts whom (session.py:280-320 over ingest.py:110-163): a session is   *)
(* numbered once, its turns and its teardown are its own, and a restart is *)
(* a crash of whatever is under way.                                       *)
THEOREM SystemLevels == SystemSpec => Spec
<1>1. SystemInit => Init
  BY DEF SystemInit
<1>2. SystemInv /\ [SystemNext]_systemVars => [Next]_vars
  <2> SUFFICES ASSUME SystemInv, [SystemNext]_systemVars PROVE [Next]_vars
    OBVIOUS
  <2>1. UNCHANGED learner => [Next]_vars
    BY DEF learner, vars
  <2>2. CASE UNCHANGED systemVars
    BY <2>1, <2>2 DEF systemVars
  <2>3. ASSUME NEW c \in Conn, Handle(c) \/ Return(c) PROVE [Next]_vars
    BY <2>1, <2>3 DEF Handle, Return
  <2>4. ASSUME NEW c \in Conn, StartRow(c) PROVE [Next]_vars
    BY <2>4, StartRowSystem DEF StartRow, Next
  <2>5. ASSUME NEW c \in Conn, LogTurn(c) PROVE [Next]_vars
    BY <2>5, LogTurnSystem DEF LogTurn, Next
  <2>6. ASSUME NEW c \in Conn, AwaitEndSession(c) PROVE [Next]_vars
    BY <2>6, AwaitEndSessionSystem DEF AwaitEndSession, Next
  <2>7. CASE Ready
    BY <2>1, <2>7 DEF Ready
  <2>8. CASE Restart
    BY <2>1, <2>8 DEF Restart, Next
  <2> QED
    BY <2>2, <2>3, <2>4, <2>5, <2>6, <2>7, <2>8 DEF SystemNext
<1> QED
  BY <1>1, <1>2, SystemInvariance, PTL DEF SystemSpec, Spec

(* The learner's statements and their failures are no steps of the         *)
(* handlers: the policy of the slot does not depend on them                *)
(* (session.py:145-175).                                                   *)
THEOREM SystemServes == SystemSpec => Server!Init /\ [][Server!Next]_server
<1>1. SystemInit => Server!Init
  BY DEF SystemInit
<1>2. [SystemNext]_systemVars => [Server!Next]_server
  <2> SUFFICES ASSUME [SystemNext]_systemVars PROVE [Server!Next]_server
    OBVIOUS
  <2>1. CASE UNCHANGED systemVars
    BY <2>1 DEF systemVars
  <2>2. ASSUME NEW c \in Conn, Handle(c) PROVE Server!Next
    BY <2>2 DEF Handle, Server!Next, Server!Handler
  <2>3. ASSUME NEW c \in Conn, StartRow(c) \/ Return(c) PROVE Server!Next
    BY <2>3 DEF StartRow, Return, Server!Next, Server!Handler
  <2>4. ASSUME NEW c \in Conn, LogTurn(c) \/ AwaitEndSession(c) PROVE UNCHANGED server
    BY <2>4 DEF LogTurn, AwaitEndSession
  <2>5. CASE Ready \/ Restart
    BY <2>5 DEF Ready, Restart, Server!Next
  <2> QED
    BY <2>1, <2>2, <2>3, <2>4, <2>5 DEF SystemNext
<1> QED
  BY <1>1, <1>2, PTL DEF SystemSpec

(* What a teardown may promise with sessions that evict each other: the    *)
(* band has an audit row, the counter is earned, and nobody is levelled    *)
(* before a placement (ingest.py:141-163, leveling/service.py:128-219).    *)
THEOREM SystemAudited ==
    SystemSpec => [](BandIsAudited /\ StreakIsEarned /\ LevelingFollowsPlacement)
BY SystemLevels, BandAudited, StreakEarned, LevelingAfterPlacement, PTL

(* A session is levelled by a handler that has given the slot up           *)
(* (session.py:308-320), so never while its own pipeline could still log a *)
(* turn, and never from within the session that holds the slot.            *)
TeardownAfterSlot ==
    \A c \in Conn : number[c] # 0 /\ stage[number[c]] \in Teardown
                        => phase[c] = "ending" /\ active # c

(* So it is, whatever fails, is evicted or is restarted.                   *)
THEOREM SlotBeforeTeardown == SystemSpec => []TeardownAfterSlot
<1>1. SystemInv => TeardownAfterSlot
  <2> SUFFICES ASSUME SystemInv, NEW c \in Conn, number[c] # 0, stage[number[c]] \in Teardown
               PROVE  phase[c] = "ending" /\ active # c
    BY DEF TeardownAfterSlot
  <2>1. phase[c] \in Server!Phases
    BY DEF SystemInv, SystemTyped
  <2>2. phase[c] = "ending"
    BY <2>1 DEF SystemInv, SessionsAreLed, Unnumbered, Server!Phases, Teardown
  <2> QED
    BY <2>2 DEF SystemInv, SlotIsGivenUp
<1> QED
  BY <1>1, SystemInvariance, PTL

-----------------------------------------------------------------------------
(* What the policy decides.                                                *)

(* The windows are windows.                                                *)
WindowInv == window \in Window /\ current \in ALL_BANDS /\ stable \in Nat

LEMMA EmptyIsWindow == PolicyInit => WindowInv
BY PolicyAssumption DEF PolicyInit, WindowInv, EmptyWindow, Window

(* What either step makes of the number of turns and of their total.       *)
LEMMA TurnsOfAdded ==
    ASSUME NEW w \in Window, NEW b \in ALL_BANDS
    PROVE  /\ [w EXCEPT ![b] = @ + 1] \in Window
           /\ Turns([w EXCEPT ![b] = @ + 1]) = Turns(w) + 1
<1>1. \A c \in 1 .. 5 : w[c] \in Nat
  BY DEF Window, ALL_BANDS, A1, C1
<1>2. DOMAIN w = 1 .. 5
  BY DEF Window, ALL_BANDS, A1, C1
<1>3. b \in {1, 2, 3, 4, 5}
  BY DEF ALL_BANDS, A1, C1
<1>4. [w EXCEPT ![b] = @ + 1] \in Window
  BY DEF Window
<1>5. Turns([w EXCEPT ![b] = @ + 1]) = Turns(w) + 1
  <2>1. CASE b = 1 BY <1>1, <1>2, <2>1 DEF Turns
  <2>2. CASE b = 2 BY <1>1, <1>2, <2>2 DEF Turns
  <2>3. CASE b = 3 BY <1>1, <1>2, <2>3 DEF Turns
  <2>4. CASE b = 4 BY <1>1, <1>2, <2>4 DEF Turns
  <2>5. CASE b = 5 BY <1>1, <1>2, <2>5 DEF Turns
  <2>. QED BY <1>3, <2>1, <2>2, <2>3, <2>4, <2>5
<1>. QED BY <1>4, <1>5

LEMMA TotalIs ==
    ASSUME NEW w
    PROVE  Total(w) = w[1] * 1 + w[2] * 3 + w[3] * 5 + w[4] * 7 + w[5] * 9
BY DEF Total, Weighted, BAND_MIDPOINT, ALL_BANDS, A1, C1

LEMMA TotalOfRaised ==
    ASSUME NEW w \in Window, NEW b \in ALL_BANDS, b < C1, w[b] > 0
    PROVE  LET v == [w EXCEPT ![b] = @ - 1, ![b + 1] = @ + 1]
           IN  v \in Window /\ Turns(v) = Turns(w) /\ Total(v) = Total(w) + 2
<1> DEFINE v == [w EXCEPT ![b] = @ - 1, ![b + 1] = @ + 1]
<1>1. /\ w[1] \in Nat /\ w[2] \in Nat /\ w[3] \in Nat /\ w[4] \in Nat /\ w[5] \in Nat
      /\ DOMAIN w = 1 .. 5
  BY DEF Window, ALL_BANDS, A1, C1
<1>2. b \in {1, 2, 3, 4}
  BY DEF ALL_BANDS, A1, C1
<1>3. v \in Window
  <2>1. w[b] - 1 \in Nat /\ w[b + 1] + 1 \in Nat
    BY <1>1, <1>2
  <2>. QED BY <1>1, <1>2, <2>1 DEF Window, ALL_BANDS, A1, C1
<1>4. \/ b = 1 /\ v[1] = w[1] - 1 /\ v[2] = w[2] + 1 /\ v[3] = w[3] /\ v[4] = w[4] /\ v[5] = w[5]
      \/ b = 2 /\ v[1] = w[1] /\ v[2] = w[2] - 1 /\ v[3] = w[3] + 1 /\ v[4] = w[4] /\ v[5] = w[5]
      \/ b = 3 /\ v[1] = w[1] /\ v[2] = w[2] /\ v[3] = w[3] - 1 /\ v[4] = w[4] + 1 /\ v[5] = w[5]
      \/ b = 4 /\ v[1] = w[1] /\ v[2] = w[2] /\ v[3] = w[3] /\ v[4] = w[4] - 1 /\ v[5] = w[5] + 1
  BY <1>1, <1>2
<1> HIDE DEF v
<1>5. Turns(v) = Turns(w)
  BY <1>1, <1>4 DEF Turns
<1>6. Total(v) = Total(w) + 2
  <2>1. /\ Total(w) = w[1] + 3 * w[2] + 5 * w[3] + 7 * w[4] + 9 * w[5]
        /\ Total(v) = v[1] + 3 * v[2] + 5 * v[3] + 7 * v[4] + 9 * v[5]
    <3>1. \A c \in 1 .. 5 : v[c] \in Int
      BY <1>3 DEF Window, ALL_BANDS, A1, C1
    <3>. QED BY <1>1, <3>1, TotalIs
  <2>. QED BY <1>1, <1>4, <2>1
<1>. QED BY <1>3, <1>5, <1>6 DEF v

LEMMA StepWindow == WindowInv /\ [PolicyNext]_policyVars => WindowInv'
<1> SUFFICES ASSUME WindowInv, [PolicyNext]_policyVars PROVE WindowInv'
  OBVIOUS
<1>1. CASE UNCHANGED policyVars
  BY <1>1 DEF policyVars, WindowInv
<1>2. ASSUME NEW b \in ALL_BANDS, AddTurn(b) PROVE WindowInv'
  BY <1>2, TurnsOfAdded DEF AddTurn, WindowInv
<1>3. ASSUME NEW b \in ALL_BANDS, RaiseTurn(b) PROVE WindowInv'
  BY <1>3, TotalOfRaised DEF RaiseTurn, WindowInv
<1>. QED BY <1>1, <1>2, <1>3 DEF PolicyNext

(* A higher total in as many turns: what it puts below a literal was below *)
(* it already, and what was above stays above, whatever the roundings.     *)
LEMMA RaisedMean ==
    ASSUME NEW w, NEW v, NEW m \in Nat,
           Turns(w) \in Nat, Total(w) \in Nat,
           Turns(v) = Turns(w), Total(v) = Total(w) + 2
    PROVE  /\ MeanBelow(v, m) => MeanBelow(w, m)
           /\ MeanAbove(w, m) => MeanAbove(v, m)
<1> DEFINE n == m * Turns(w)
<1>1. n \in Nat
  OBVIOUS
<1>2. m * Turns(v) = n
  OBVIOUS
<1> HIDE DEF n
<1>3. ASSUME MeanBelow(v, m) PROVE MeanBelow(w, m)
  <2>1. Total(v) <= n
    BY <1>1, <1>2, <1>3 DEF MeanBelow
  <2>2. Total(w) < n
    BY <1>1, <2>1
  <2>3. Total(w) # n
    BY <1>1, <2>2
  <2>. QED BY <2>2, <2>3 DEF MeanBelow, n
<1>4. ASSUME MeanAbove(w, m) PROVE MeanAbove(v, m)
  <2>1. Total(w) >= n
    BY <1>1, <1>4 DEF MeanAbove, n
  <2>2. Total(v) > n
    BY <1>1, <2>1
  <2>3. Total(v) # n
    BY <1>1, <2>2
  <2>. QED BY <1>2, <2>2, <2>3 DEF MeanAbove
<1>. QED BY <1>3, <1>4

(* Judging a turn a band higher never lowers the band the mean falls in,   *)
(* nor the band the policy decides on (bands.py:42-47, policy.py:112-171), *)
(* in a window of any length, under any setting of the thresholds.  The    *)
(* case excepted is that of a mean which was borderline in a lower band.   *)
THEOREM RaisingNeverLowers == PolicySpec => RaisingATurnNeverLowersTarget
<1>1. WindowInv /\ [PolicyNext]_policyVars =>
        [(\E b \in ALL_BANDS : RaiseTurn(b)) =>
           /\ bucket_band(window') >= bucket_band(window)
           /\ \/ Decision'.new_band >= Decision.new_band
              \/ /\ Decision.toward = Borderline
                 /\ bucket_band(window') # bucket_band(window)]_policyVars
  <2> SUFFICES ASSUME WindowInv, NEW b \in ALL_BANDS, RaiseTurn(b)
               PROVE  /\ bucket_band(window') >= bucket_band(window)
                      /\ \/ Decision'.new_band >= Decision.new_band
                         \/ /\ Decision.toward = Borderline
                            /\ bucket_band(window') # bucket_band(window)
    OBVIOUS
  <2> DEFINE v == window'
  <2>1. /\ window \in Window /\ current \in 1 .. 5 /\ stable \in Nat
        /\ current' = current /\ stable' = stable
    BY DEF WindowInv, RaiseTurn, ALL_BANDS, A1, C1
  <2>2. v \in Window /\ Turns(v) = Turns(window) /\ Total(v) = Total(window) + 2
    BY <2>1, TotalOfRaised DEF RaiseTurn
  <2>3. Turns(window) \in Nat /\ Total(window) \in Nat
    <3>1. \A c \in 1 .. 5 : window[c] \in Nat
      BY <2>1 DEF Window, ALL_BANDS, A1, C1
    <3>. QED BY <3>1, TotalIs DEF Turns
  <2>4. bucket_band(window) \in 1 .. 5 /\ bucket_band(v) \in 1 .. 5
    BY BucketIs
  <2> HIDE DEF v
  <2>5. bucket_band(v) >= bucket_band(window)
    <3>1. CASE bucket_band(v) = 5
      BY <2>4, <3>1
    <3>2. CASE bucket_band(v) # 5
      <4>1. bucket_band(v) \in 1 .. 4 /\ bucket_band(v) < 5
        BY <2>4, <3>2
      <4>2. Boundary(bucket_band(v)) \in Nat
        BY <4>1 DEF Boundary
      <4>3. MeanBelow(window, Boundary(bucket_band(v)))
        BY <2>2, <2>3, <4>1, <4>2, RaisedMean, BucketIs
      <4>. QED BY <2>4, <4>1, <4>3, BucketIs
    <3>. QED BY <3>1, <3>2
  <2>6. ASSUME MeanAbove(window, BAND_MIDPOINT[bucket_band(window)])
        PROVE  MeanAbove(v, BAND_MIDPOINT[bucket_band(window)])
    <3>1. BAND_MIDPOINT[bucket_band(window)] \in Nat
      BY <2>4 DEF BAND_MIDPOINT, ALL_BANDS, A1, C1
    <3>. QED BY <2>2, <2>3, <2>6, <3>1, RaisedMean
  <2>7. Decision' = evaluate_leveling(current, v, stable, PromoteK, DemoteK)
    BY <2>1 DEF Decision, v
  <2>8. PromoteK \in Nat /\ DemoteK \in Nat
    BY SettingsAssumption
  <2> DEFINE t == bucket_band(window)
             u == bucket_band(v)
             above == MeanAbove(window, BAND_MIDPOINT[t])
             above_v == MeanAbove(v, BAND_MIDPOINT[u])
             size == Turns(window)
  <2>9. Decision.new_band =
          IF size = 0 \/ t = current THEN current
          ELSE IF t > current THEN IF stable + 1 >= PromoteK THEN t ELSE current
          ELSE IF above THEN current
          ELSE IF stable + 1 >= DemoteK THEN t ELSE current
    BY DEF Decision, evaluate_leveling, Decide
  <2>10. Decision'.new_band =
          IF size = 0 \/ u = current THEN current
          ELSE IF u > current THEN IF stable + 1 >= PromoteK THEN u ELSE current
          ELSE IF above_v THEN current
          ELSE IF stable + 1 >= DemoteK THEN u ELSE current
    BY <2>2, <2>7 DEF evaluate_leveling, Decide
  <2>11. size # 0 /\ t < current /\ above => Decision.toward = Borderline
    BY <2>1, <2>4 DEF Decision, evaluate_leveling, Decide
  <2>12. u = t /\ above => above_v
    BY <2>6
  <2>13. t \in 1 .. 5 /\ u \in 1 .. 5 /\ u >= t
    BY <2>4, <2>5
  <2> HIDE DEF t, u, above, above_v, size
  <2>14. \/ Decision'.new_band >= Decision.new_band
         \/ Decision.toward = Borderline /\ u # t
    <3>1. CASE size # 0 /\ t < current /\ above
      BY <2>1, <2>9, <2>10, <2>11, <2>12, <2>13, <3>1
    <3>2. CASE ~ (size # 0 /\ t < current /\ above)
      BY <2>1, <2>8, <2>9, <2>10, <2>13, <3>2
    <3>. QED BY <3>1, <3>2
  <2>. QED BY <2>5, <2>14 DEF t, u, v
<1>. QED BY <1>1, EmptyIsWindow, StepWindow, PTL DEF PolicySpec, RaisingATurnNeverLowersTarget

LEMMA TurnsAndTotal ==
    ASSUME NEW w \in Window
    PROVE  /\ Turns(w) \in Nat /\ Total(w) \in Nat
           /\ Total(w) >= Turns(w) /\ Total(w) <= 9 * Turns(w)
<1>1. /\ w[1] \in Nat /\ w[2] \in Nat /\ w[3] \in Nat /\ w[4] \in Nat /\ w[5] \in Nat
  BY DEF Window, ALL_BANDS, A1, C1
<1>. QED BY <1>1, TotalIs DEF Turns

(* Another turn at the band the diagnostic settles on never unsettles it:  *)
(* ties, the floor and the abstention threshold notwithstanding            *)
(* (policy.py:64-109), after a session of any length.                      *)
THEOREM PlacementStays == PolicySpec => PlacementIsStable
<1>1. WindowInv => [\A b \in ALL_BANDS : AddTurn(b) /\ b = Placed => Placed' = Placed]_policyVars
  <2> SUFFICES ASSUME window \in Window, NEW b \in ALL_BANDS, AddTurn(b), b = Placed
               PROVE  Placed' = b
    BY DEF WindowInv
  <2> DEFINE v == window'
             old == ModalBand(window)
             new == ModalBand(v)
  <2>1. v \in Window /\ Turns(v) = Turns(window) + 1 /\ v = [window EXCEPT ![b] = @ + 1]
    BY TurnsOfAdded DEF AddTurn
  <2>2. \A c \in 1 .. 5 : window[c] \in Nat /\ v[c] = IF c = b THEN window[c] + 1 ELSE window[c]
    BY <2>1 DEF Window, ALL_BANDS, A1, C1
  <2>3. /\ old \in 1 .. 5 /\ \A c \in 1 .. 5 : Beats(window, old, c)
        /\ new \in 1 .. 5 /\ \A c \in 1 .. 5 : Beats(v, new, c)
    BY <2>1, ModalBandWins DEF ALL_BANDS, A1, C1
  <2>4. b \in 1 .. 5 /\ Floor \in 1 .. 5 /\ MinValidTurns \in Nat
    BY SettingsAssumption DEF ALL_BANDS, A1, C1
  <2>5. /\ Turns(window) >= MinValidTurns
        /\ b = IF old >= Floor THEN old ELSE Floor
    <3>1. b # NoBand
      BY <2>4 DEF NoBand
    <3>2. ~ (Turns(window) < MinValidTurns)
      BY <3>1 DEF Placed, place_band
    <3>3. Turns(window) \in Nat
      BY TurnsAndTotal
    <3>. QED BY <2>4, <3>2, <3>3 DEF Placed, place_band
  <2>6. Placed' = IF new >= Floor THEN new ELSE Floor
    <3>1. Turns(window) \in Nat
      BY TurnsAndTotal
    <3>2. ~ (Turns(v) < MinValidTurns)
      BY <2>1, <2>4, <2>5, <3>1
    <3>. QED BY <3>2 DEF Placed, place_band
  <2> HIDE DEF v, old, new
  <2>7. new = old \/ new = b
    <3> SUFFICES ASSUME new # old, new # b PROVE FALSE
      OBVIOUS
    <3>1. Beats(window, old, new) /\ Beats(v, new, old)
      BY <2>3
    <3>2. v[new] = window[new] /\ v[old] >= window[old]
      BY <2>2, <2>3
    <3>3. window[old] \in Nat /\ window[new] \in Nat /\ v[old] \in Nat
      BY <2>2, <2>3
    <3>. QED BY <2>3, <3>1, <3>2, <3>3 DEF Beats
  <2>8. CASE old >= Floor
    BY <2>4, <2>5, <2>6, <2>7, <2>8
  <2>9. CASE ~ (old >= Floor)
    BY <2>3, <2>4, <2>5, <2>6, <2>7, <2>9
  <2>. QED BY <2>8, <2>9
<1>. QED BY <1>1, EmptyIsWindow, StepWindow, PTL DEF PolicySpec, PlacementIsStable
=============================================================================
