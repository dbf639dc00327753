--------------------------- MODULE SessionPrompt ---------------------------
(***************************************************************************)
(* What a voice session is told to practise: the theme, the band and the   *)
(* first-session block of its system prompt (api/routes/session.py,        *)
(* pipeline/prompts/builder.py), from the rows of the sessions before it,  *)
(* and the row it leaves to the ones after it.  Each read is a connection  *)
(* of its own; sessions overlap while one evicts the other.  Placement and *)
(* leveling (module Leveling) happen at the end of any session.            *)
(***************************************************************************)
EXTENDS Themes

CONSTANTS
    MAX_SESSIONS, MAX_OPEN,  \* bounds: sessions, and sessions at a time
    MAX_LOST,                \* bound: sessions that fail before their row
    BANDS,                   \* the bands of the instance, one of them "A2"
    POOL,                    \* its themes of each band
    REQUESTS,                \* bound: ?mode= and ?topic= as they arrive, and the
                             \* label of the handoff ?handoff= resolves to, if any
    COOLDOWN,                \* settings.theme_cooldown
    LIMIT                    \* the default of _query_recent_theme_domains

VALID_MODES == {"open", "debate", "role_play", "interview"}
None == ""

ASSUME SessionPromptAssumption ==
    /\ {MAX_SESSIONS, MAX_OPEN, MAX_LOST, LIMIT, COOLDOWN} \subseteq Nat
    /\ POOL \in [BANDS -> SUBSET (STRING \ {NEUTRAL_THEME})]
    /\ \A band \in BANDS : IsFiniteSet(POOL[band]) /\ Cardinality(POOL[band]) > COOLDOWN

ASSUME LabelAssumption ==
    /\ "A2" \in BANDS
    /\ REQUESTS \subseteq [mode : STRING, topic : STRING, handoff : STRING]

Session == 1 .. MAX_SESSIONS

VARIABLES
    rows,         \* the sessions table, oldest first
    band, placed, \* learner_profile, and whether band_history has a placement
    step,         \* how far each handler has got
    request,      \* what it asks for, and the handoff it starts from
    recent,       \* recent_domains, newest first
    snapshot,     \* the band it read
    prompt,       \* its prompt, as a sequence of at most one
    lost,         \* how many failed before their row
    since         \* history: the rows it read, and whether placed when connected

mine == <<step, request, recent, snapshot, prompt, since>>
vars == <<rows, band, placed, lost, mine>>

NoRequest == [mode |-> None, topic |-> None, handoff |-> None]
Unseen == [rows |-> 0, placed |-> FALSE]

Init ==
    /\ rows = <<>> /\ band = "A2" /\ placed = FALSE /\ lost = 0
    /\ step = [s \in Session |-> "none"]
    /\ request = [s \in Session |-> NoRequest]
    /\ recent = [s \in Session |-> <<>>]
    /\ snapshot = [s \in Session |-> "A2"]
    /\ prompt = [s \in Session |-> <<>>]
    /\ since = [s \in Session |-> Unseen]

-----------------------------------------------------------------------------
(* The reads of a new session                                              *)

Busy == {s \in Session : step[s] \notin {"none", "ended"}}

(* An unknown handoff, or a lookup that fails, gives an ordinary session.  *)
Connect(s, r) ==
    /\ step[s] = "none" /\ \A t \in 1 .. (s - 1) : step[t] # "none"
    /\ Cardinality(Busy) < MAX_OPEN
    /\ step' = [step EXCEPT ![s] = "resolved"]
    /\ request' = [request EXCEPT ![s] = r]
    /\ since' = [since EXCEPT ![s].placed = placed]
    /\ UNCHANGED <<rows, band, placed, lost, recent, snapshot, prompt>>

Themed(row) == row.theme # None

ThemedRows == {i \in DOMAIN rows : Themed(rows[i])}
Newer(i) == {j \in ThemedRows : j > i}

(* theme_domain IS NOT NULL ORDER BY started_at DESC LIMIT: the k-th is    *)
(* the theme of the row with k - 1 newer ones.                             *)
RecentDomains ==
    LET total == Cardinality(ThemedRows)
        n == IF total < LIMIT THEN total ELSE LIMIT
    IN  [k \in 1 .. n |->
            rows[CHOOSE i \in ThemedRows : Cardinality(Newer(i)) = k - 1].theme]

QueryRecent(s) ==
    /\ step[s] = "resolved"
    /\ step' = [step EXCEPT ![s] = "rested"]
    /\ recent' = [recent EXCEPT ![s] = RecentDomains]
    /\ since' = [since EXCEPT ![s].rows = Len(rows)]
    /\ UNCHANGED <<rows, band, placed, lost, request, snapshot, prompt>>

ReadProfile(s) ==
    /\ step[s] = "rested"
    /\ step' = [step EXCEPT ![s] = "profiled"]
    /\ snapshot' = [snapshot EXCEPT ![s] = band]
    /\ UNCHANGED <<rows, band, placed, lost, request, recent, prompt, since>>

(* Any of them raises, and with it the handler: nothing was registered.    *)
ReadFails(s) ==
    /\ step[s] \in {"resolved", "rested", "profiled"} /\ lost < MAX_LOST
    /\ lost' = lost + 1
    /\ step' = [step EXCEPT ![s] = "ended"]
    /\ request' = [request EXCEPT ![s] = NoRequest]
    /\ recent' = [recent EXCEPT ![s] = <<>>]
    /\ snapshot' = [snapshot EXCEPT ![s] = "A2"]
    /\ since' = [since EXCEPT ![s] = Unseen]
    /\ UNCHANGED <<rows, band, placed, prompt>>

-----------------------------------------------------------------------------
(* The prompt                                                              *)

parse_conversation_config(r) ==
    [mode |-> IF r.mode \in VALID_MODES THEN r.mode ELSE "open", topic |-> r.topic]

(* Mutant: one session is enough.                                          *)
is_calibrated_BySessions == rows # <<>>

is_calibrated == placed

FirstBlock(calibrated, ref) ==
    IF calibrated THEN "none" ELSE IF ref = None THEN "ladder" ELSE "estimate"

render(level, theme, mode, first, ref) ==
    [band |-> level, theme |-> theme, mode |-> mode, first |-> first, material |-> ref]

(* The themes build_session_prompt may choose, with the mode it records.   *)
ThemesFor(s, calibrated) ==
    LET cfg == parse_conversation_config(request[s])
    IN  IF request[s].handoff # None THEN {<<request[s].handoff, "open">>}
        ELSE IF ~calibrated THEN {<<NEUTRAL_THEME, "open">>}
        ELSE IF cfg.mode # "open" \/ cfg.topic # None
             THEN {<<ModeTheme(cfg.mode, cfg.topic), cfg.mode>>}
        ELSE {<<t, "open">> : t \in get_session_theme(POOL[snapshot[s]], recent[s], COOLDOWN)}

build_session_prompt(s) ==
    /\ step[s] = "profiled"
    /\ step' = [step EXCEPT ![s] = "prompted"]
    /\ \E choice \in ThemesFor(s, is_calibrated) :
         prompt' = [prompt EXCEPT ![s] =
             <<render(snapshot[s], choice[1], choice[2],
                      FirstBlock(is_calibrated, request[s].handoff), request[s].handoff)>>]
    /\ UNCHANGED <<rows, band, placed, lost, request, recent, snapshot, since>>

-----------------------------------------------------------------------------
(* The row of the session                                                  *)

(* Its band and its mode, which no later session reads, are left out.      *)
Row(s, theme) == [session |-> s, theme |-> theme]

HasRow(s) == \E i \in DOMAIN rows : rows[i].session = s

StartSession(s) ==
    /\ step[s] = "prompted"
    /\ step' = [step EXCEPT ![s] = "running"]
    /\ rows' = Append(rows, Row(s, prompt[s][1].theme))
    /\ UNCHANGED <<band, placed, lost, request, recent, snapshot, prompt, since>>

(* Logged: the session goes on without its row.                            *)
StartFails(s) ==
    /\ step[s] = "prompted" /\ lost < MAX_LOST
    /\ lost' = lost + 1
    /\ step' = [step EXCEPT ![s] = "running"]
    /\ UNCHANGED <<rows, band, placed, request, recent, snapshot, prompt, since>>

(* The first turn of a session without a row inserts one, with no theme.   *)
InsertTurn(s) ==
    /\ step[s] = "running" /\ ~HasRow(s)
    /\ rows' = Append(rows, Row(s, None))
    /\ UNCHANGED <<band, placed, lost, mine>>

(* The teardown: a learner with turns may be placed, a placed one flipped. *)
EndSession(s) ==
    /\ step[s] = "running"
    /\ \/ UNCHANGED <<band, placed>>
       \/ HasRow(s) /\ placed' = TRUE /\ band' \in BANDS
    /\ step' = [step EXCEPT ![s] = "ended"]
    /\ request' = [request EXCEPT ![s] = NoRequest]
    /\ recent' = [recent EXCEPT ![s] = <<>>]
    /\ snapshot' = [snapshot EXCEPT ![s] = "A2"]
    /\ prompt' = [prompt EXCEPT ![s] = <<>>]
    /\ since' = [since EXCEPT ![s] = Unseen]
    /\ UNCHANGED <<rows, lost>>

Handler(s) ==
    \/ QueryRecent(s) \/ ReadProfile(s) \/ ReadFails(s)
    \/ build_session_prompt(s) \/ StartSession(s) \/ StartFails(s)
    \/ InsertTurn(s) \/ EndSession(s)

Next ==
    \E s \in Session :
        \/ \E r \in REQUESTS : Connect(s, r)
        \/ Handler(s)

Spec == Init /\ [][Next]_vars

-----------------------------------------------------------------------------
Steps == {"none", "resolved", "rested", "profiled", "prompted", "running", "ended"}

Prompted(s) == step[s] \in {"prompted", "running"}

Steered(s) ==
    \/ request[s].handoff # None
    \/ request[s].topic # None \/ request[s].mode \in VALID_MODES \ {"open"}

(* Whether the i-th row is one of the last COOLDOWN themed ones of n.      *)
InCooldown(i, n) ==
    /\ Themed(rows[i])
    /\ Cardinality({j \in (i + 1) .. n : Themed(rows[j])}) < COOLDOWN

(* A theme the tutor picks is none of the COOLDOWN last themes recorded    *)
(* when the session read them, whatever failed, overlapped, was steered or *)
(* lost its theme in between.                                              *)
ThemeIsRested ==
    \A s \in Session : Prompted(s) =>
        LET p == prompt[s][1]
            n == since[s].rows
        IN  p.first = "none" /\ ~Steered(s)
            => \A i \in 1 .. n : InCooldown(i, n) => rows[i].theme # p.theme

(* The first-session block, and the neutral theme with it, are for a       *)
(* learner who was not placed when the session connected; a prompt without *)
(* the block is for one who is, so that an unplaced learner's sessions all *)
(* ask for the estimates placement needs.                                  *)
FirstSessionsAreDiagnosed ==
    \A s \in Session : Prompted(s) =>
        LET p == prompt[s][1]
        IN  /\ since[s].placed => p.first = "none" /\ (p.theme = NEUTRAL_THEME => Steered(s))
            /\ p.first = "none" => placed
=============================================================================
