------------------------------ MODULE Leveling ------------------------------
(***************************************************************************)
(* The learner's band, moved at the end of a session:                      *)
(* TurnIngestService.start_session / _insert_turn / end_session            *)
(* (hable_ya/learner/ingest.py) and LevelingService                        *)
(* (hable_ya/learner/leveling/service.py), one database statement a step.  *)
(*                                                                         *)
(* Sessions are websocket connections.  A new one evicts the one that is   *)
(* live, but neither waits for the other: lifetimes overlap while the      *)
(* eviction is under way, and the teardown of the evicted session runs     *)
(* beside its successor.  Each teardown awaits the database between its    *)
(* reads and its write, and nothing orders two of them.  With              *)
(* Overlap = FALSE a session only begins its teardown when no other is in  *)
(* progress, which is what happens unless a database call outlives the     *)
(* successor session.                                                      *)
(***************************************************************************)
EXTENDS LevelingPolicy, Sequences, FiniteSets

CONSTANTS
    MaxSessions,    \* BOUND: connections in the database's lifetime
    TurnBands,      \* the bands log_turn reports (NoBand: none it could parse)
    MaxTurns,       \* BOUND: turns a session records
    MaxOpen,        \* BOUND: sessions open at the same time
    WindowSessions, \* settings.leveling_window_sessions
    Overlap         \* may two sessions be torn down at the same time?

(* Sessions are numbered in the order of their start_session calls.        *)
Session == 1 .. MaxSessions

ASSUME LevelingAssumption ==
    /\ MaxSessions \in Nat
    /\ TurnBands \subseteq ALL_BANDS \cup {NoBand}
    /\ MaxTurns \in Nat
    /\ MaxOpen \in Nat
    /\ WindowSessions \in Nat \ {0}
    /\ Overlap \in BOOLEAN

VARIABLES
    stage,    \* how far each session's handler has got
    started,  \* the session rows, by started_at
    turns,    \* the classified turns of each session, as a window
    recorded, \* how many turns each session has recorded, classified or not
    profile,  \* learner_profile: band and stable_sessions_at_band
    history,  \* band_history: the committed rows, in commit order
    seen,     \* what a teardown has read and not used yet
    plan,     \* the decision a teardown is about to write
    leanings  \* history variable: what each evaluation since the last
              \* committed band change leaned toward

vars == <<stage, started, turns, recorded, profile, history, seen, plan, leanings>>

Stages == {"none", "live", "banding", "counting", "rolling",
           "bumping", "placing", "inserting", "committing", "done"}
Teardown == Stages \ {"none", "live", "done"}

Placement == "placement"
NoPlan == Decide(A1, "stable", NoBand)
Plans == [new_band : ALL_BANDS, reason : Reasons \cup {Placement},
          toward : ALL_BANDS \cup {NoBand, Borderline}]
Rows == [from : ALL_BANDS \cup {NoBand}, to : ALL_BANDS,
         reason : {"auto_promote", "auto_demote", Placement}]

(* Mutant: the last row is the placement.                                  *)
is_calibrated_LastRow ==
    history # <<>> /\ history[Len(history)].reason = Placement

(* is_calibrated: a placement row exists.                                  *)
is_calibrated == \E i \in DOMAIN history : history[i].reason = Placement

(* The rolling window: the turns of the sessions that started last.        *)
RecentSessions == SubSeq(started,
                         IF Len(started) > WindowSessions
                           THEN Len(started) - WindowSessions + 1 ELSE 1,
                         Len(started))
RollingWindow ==
    LET sum[i \in 0 .. Len(RecentSessions)] ==
            IF i = 0 THEN EmptyWindow
            ELSE Merge(sum[i - 1], turns[RecentSessions[i]])
    IN  sum[Len(RecentSessions)]

NothingSeen == [band |-> A1, stable |-> 0]

Goto(s, next) == stage' = [stage EXCEPT ![s] = next]

(* The handlers of the sessions in S return: what they held is gone.       *)
Finish(S) ==
    /\ stage' = [s \in Session |-> IF s \in S THEN "done" ELSE stage[s]]
    /\ seen' = [s \in Session |-> IF s \in S THEN NothingSeen ELSE seen[s]]
    /\ plan' = [s \in Session |-> IF s \in S THEN NoPlan ELSE plan[s]]

Init ==
    /\ stage = [s \in Session |-> "none"]
    /\ started = <<>>
    /\ turns = [s \in Session |-> EmptyWindow]
    /\ recorded = [s \in Session |-> 0]
    /\ profile = [band |-> A2, stable |-> 0]
    /\ history = <<>>
    /\ seen = [s \in Session |-> NothingSeen]
    /\ plan = [s \in Session |-> NoPlan]
    /\ leanings = <<>>

-----------------------------------------------------------------------------
Open == {s \in Session : stage[s] \notin {"none", "done"}}

(* start_session inserts the row, or fails, which costs the learner        *)
(* nothing but the row: the session goes on.                               *)
StartSession(s) ==
    /\ stage[s] = "none"
    /\ \A t \in Session : t < s => stage[t] # "none"
    /\ Cardinality(Open) < MaxOpen
    /\ Goto(s, "live")
    /\ \/ started' = Append(started, s)
       \/ UNCHANGED started
    /\ UNCHANGED <<turns, recorded, profile, history, seen, plan, leanings>>

(* A log_turn observation is stored; the session row is stitched in first  *)
(* if start_session did not leave one.                                     *)
RecordTurn(s, b) ==
    /\ stage[s] = "live"
    /\ recorded[s] < MaxTurns
    /\ recorded' = [recorded EXCEPT ![s] = @ + 1]
    /\ started' = IF \E i \in DOMAIN started : started[i] = s
                    THEN started ELSE Append(started, s)
    /\ turns' = IF b = NoBand THEN turns
                ELSE [turns EXCEPT ![s][b] = @ + 1]
    /\ UNCHANGED <<stage, profile, history, seen, plan, leanings>>

(* end_session: the row is stamped and calibration is read, on one         *)
(* connection.                                                             *)
EndSession(s) ==
    /\ stage[s] = "live"
    /\ Overlap \/ \A t \in Session : stage[t] \notin Teardown
    /\ Goto(s, IF is_calibrated THEN "banding" ELSE "placing")
    /\ UNCHANGED <<started, turns, recorded, profile, history, seen, plan, leanings>>

(* current_band, on the same connection, which is then released.           *)
ReadBand(s) ==
    /\ stage[s] = "banding"
    /\ seen' = [seen EXCEPT ![s].band = profile.band]
    /\ Goto(s, "counting")
    /\ UNCHANGED <<started, turns, recorded, profile, history, plan, leanings>>

(* run_leveling, first read: the hysteresis counter.                       *)
ReadStable(s) ==
    /\ stage[s] = "counting"
    /\ seen' = [seen EXCEPT ![s].stable = profile.stable]
    /\ Goto(s, "rolling")
    /\ UNCHANGED <<started, turns, recorded, profile, history, plan, leanings>>

(* run_leveling, second read, and the decision over both.                  *)
ReadWindow(s) ==
    /\ stage[s] = "rolling"
    /\ plan' = [plan EXCEPT ![s] =
                  evaluate_leveling(seen[s].band, RollingWindow, seen[s].stable,
                                    PromoteK, DemoteK)]
    /\ Goto(s, IF plan'[s].reason = "stable" THEN "bumping" ELSE "inserting")
    /\ UNCHANGED <<started, turns, recorded, profile, history, seen, leanings>>

(* Mutant: the counter never restarts.                                     *)
UpdateStable_NoReset(s) ==
    /\ stage[s] = "bumping"
    /\ profile' = [profile EXCEPT !.stable = @ + 1]
    /\ leanings' = Append(leanings, plan[s].toward)
    /\ Finish({s})
    /\ UNCHANGED <<started, turns, recorded, history>>

(* run_leveling, a stable decision: the counter restarts on a session that *)
(* confirms the band or is borderline, and grows on any other.             *)
UpdateStable(s) ==
    /\ stage[s] = "bumping"
    /\ profile' = [profile EXCEPT !.stable =
                     IF plan[s].toward \in {seen[s].band, Borderline}
                       THEN 0 ELSE @ + 1]
    /\ leanings' = Append(leanings, plan[s].toward)
    /\ Finish({s})
    /\ UNCHANGED <<started, turns, recorded, history>>

(* run_placement: the session's own turns, and the decision.               *)
ReadPlacement(s) ==
    LET placed == place_band(turns[s], Floor, MinValidTurns) IN
    /\ stage[s] = "placing"
    /\ \/ /\ placed = NoBand
          /\ Goto(s, "done")
          /\ UNCHANGED <<seen, plan>>
       \/ /\ placed # NoBand
          /\ plan' = [plan EXCEPT ![s] = Decide(placed, Placement, placed)]
          /\ Goto(s, "inserting")
          /\ UNCHANGED seen
    /\ UNCHANGED <<started, turns, recorded, profile, history, leanings>>

(* _apply_band_change, in one transaction: the audit row, then the profile *)
(* row with the counter at zero.  The INSERT is visible to nobody before   *)
(* the commit, and never if the transaction fails in between.              *)
InsertHistory(s) ==
    /\ stage[s] = "inserting"
    /\ Goto(s, "committing")
    /\ UNCHANGED <<started, turns, recorded, profile, history, seen, plan, leanings>>

CommitBand(s) ==
    /\ stage[s] = "committing"
    /\ history' = Append(history,
                    [from |-> IF plan[s].reason = Placement THEN NoBand
                              ELSE seen[s].band,
                     to |-> plan[s].new_band, reason |-> plan[s].reason])
    /\ profile' = [band |-> plan[s].new_band, stable |-> 0]
    /\ leanings' = <<>>
    /\ Finish({s})
    /\ UNCHANGED <<started, turns, recorded>>

(* A statement of the teardown, the first one included, raises: it is      *)
(* logged, an open transaction is rolled back, and the session ends        *)
(* without a decision.                                                     *)
FailTeardown(s) ==
    /\ stage[s] \notin {"none", "done"}
    /\ Finish({s})
    /\ UNCHANGED <<started, turns, recorded, profile, history, leanings>>

(* The process dies: every handler is gone, the database rolls back.       *)
Crash ==
    /\ Open # {}
    /\ Finish(Open)
    /\ UNCHANGED <<started, turns, recorded, profile, history, leanings>>

Step(s) ==
    \/ EndSession(s) \/ ReadBand(s) \/ ReadStable(s) \/ ReadWindow(s)
    \/ UpdateStable(s) \/ ReadPlacement(s) \/ InsertHistory(s) \/ CommitBand(s)

Next ==
    \/ \E s \in Session :
         \/ StartSession(s)
         \/ \E b \in TurnBands : RecordTurn(s, b)
         \/ Step(s)
         \/ FailTeardown(s)
    \/ Crash

Spec == Init /\ [][Next]_vars

-----------------------------------------------------------------------------
(* Every variable keeps the shape the schema and the handlers give it.     *)
TypeOK ==
    /\ stage \in [Session -> Stages]
    /\ started \in Seq(Session)
    /\ turns \in [Session -> Window]
    /\ recorded \in [Session -> 0 .. MaxTurns]
    /\ profile \in [band : ALL_BANDS, stable : Nat]
    /\ history \in Seq(Rows)
    /\ seen \in [Session -> [band : ALL_BANDS, stable : Nat]]
    /\ plan \in [Session -> Plans]
    /\ leanings \in Seq(ALL_BANDS \cup {NoBand, Borderline})

(* The audit trail explains the profile: the first row is the placement,   *)
(* the only one, every later row leaves the band the row before it reached,*)
(* and the profile stands at the last row's band.  band_history is the     *)
(* only record of why a band changed (leveling/service.py:188-219).        *)
BandHistoryIsAChain ==
    /\ \A i \in DOMAIN history :
         /\ history[i].from = IF i = 1 THEN NoBand ELSE history[i - 1].to
         /\ history[i].reason = Placement <=> i = 1
    /\ profile.band = IF history = <<>> THEN A2 ELSE history[Len(history)].to

(* The hysteresis counter never claims more sessions than have been        *)
(* evaluated since the band last changed (leveling/policy.py:126-131).     *)
StreakIsEarned == profile.stable <= Len(leanings)

(* The last k evaluations all leaned away from the band, or had no turn to *)
(* go by.                                                                  *)
Unbroken(k) ==
    /\ k <= Len(leanings)
    /\ \A i \in DOMAIN leanings :
         i > Len(leanings) - k => leanings[i] \notin {profile.band, Borderline}

(* A flip is the last of K evaluations in a row of which none confirmed    *)
(* the band or was borderline, whatever fails or crashes in between: one   *)
(* that did makes the count begin again (service.py:128-136, which wants   *)
(* that a confirming session among promoting ones stops the promotion).    *)
FlipEndsAnUnbrokenStreak ==
    [][\A s \in Session : CommitBand(s) =>
         /\ plan[s].reason = "auto_promote" => Unbroken(PromoteK - 1)
         /\ plan[s].reason = "auto_demote" => Unbroken(DemoteK - 1)]_vars

(* What the docstring of evaluate_leveling and the settings say, and the   *)
(* one counter does not keep: the sessions that earn a flip did not lean   *)
(* to the other side, a switch of the target starts them over              *)
(* (policy.py:126-131, config.py:141-142).                                 *)
FlipFollowsOneDirection ==
    \A s \in Session : stage[s] = "committing" =>
        LET lately(k) == {leanings[i] : i \in {j \in DOMAIN leanings : j > Len(leanings) - k}}
        IN  /\ plan[s].reason = "auto_promote" =>
                 lately(PromoteK - 1) \cap A1 .. profile.band - 1 = {}
            /\ plan[s].reason = "auto_demote" =>
                 lately(DemoteK - 1) \cap profile.band + 1 .. C1 = {}

(* The profile never stands at a band no committed audit row led to, even  *)
(* when teardowns overlap, fail inside the transaction or die with the     *)
(* process.                                                                *)
BandIsAudited ==
    profile.band = A2 \/ \E i \in DOMAIN history : history[i].to = profile.band

(* Nothing levels a learner who was not placed: a promotion or a demotion  *)
(* is only ever under way once a placement is durable.                     *)
LevelingFollowsPlacement ==
    (\/ \E s \in Session : stage[s] \in {"banding", "counting", "rolling", "bumping"}
     \/ \E s \in Session : plan[s].reason \in {"auto_promote", "auto_demote"}
     \/ \E i \in DOMAIN history : history[i].reason # Placement)
    => is_calibrated

=============================================================================
