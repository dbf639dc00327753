# Formal models of Habla

Habla is a voice tutor for Spanish: a web client opens a WebSocket, a FastAPI
server runs one Pipecat voice pipeline for it, the language model reports every
learner turn through a `log_turn` tool call, and a Postgres learner model
decides, at the end of each session, whether the learner's CEFR band moves.
La Libreta, a second application, hands speaking exercises over to Habla and
hears by callback when one is completed.

This directory holds TLA+ modules translated from that code, TLC configurations
that check them on small instances, and proofs, checked by TLAPS, of the
properties that matter most for every instance. Paths below are relative to the
repository root; `policy.py` and `service.py` are those of
`hable_ya/learner/leveling/`.

## Inventory

| component | state it keeps | operations | hard behaviours |
|---|---|---|---|
| bands and leveling policy (`bands.py`, `policy.py`) | none | `bucket_band`, `place_band`, `evaluate_leveling` | comparisons of float means with decimal literals; ties, floors, thresholds |
| leveling (`ingest.py`, `service.py`, `profile.py`) | `sessions`, `turns`, `learner_profile`, `band_history` | `start_session`, `ingest`, `end_session`, `run_placement`, `run_leveling` | awaits between reads and writes, failures and crashes at any statement, two teardowns at once |
| session server (`api/routes/session.py`, `api/main.py`) | `app.state.active_session`, a pipeline per connection | the `/ws/session` handler: admit, prepare, install, evict, run, clear, tear down | interleaved handlers, evictions of evictors, raising cancellations, half-open sockets, restarts |
| handoffs (`external_sessions.py`, `hable_ya/handoff/`) | `external_session_handoffs` | create / replay, start, complete, callback with one retry, record | racing creates, double clicks, lost answers, crash after commit |
| turn ingest (`ingest.py`, `errors.py`, `vocabulary.py`, `graph.py`) | error and vocabulary counters, the AGE graph | one transaction a turn, best-effort graph upserts | partial failure, drift between the two stores |
| pipeline observers (`log_turn_handler.py`, `processors/`, `observations.py`) | latency anchor and pending latency, emission flag, ring of frame ids, counters, a JSONL file | one handler or frame at a time | frames that are pushed by every processor and overtake each other, barge-in, cancelled handlers |
| themes and prompt (`themes.py`, `prompts/`, `modes.py`, `conversation.py`) | the theme of each `sessions` row | read the recent themes and the profile, pick a theme outside the cooldown, build the prompt | reads on connections of their own while other sessions end; sessions that never get a row |
| learner read API, identity | display name | the snapshot, paged reads, one write | paging while rows arrive |
| startup, health, database (`main.py`, `health.py`, `db/`) | `ready`, provider errors, pool | lifespan, migrations with retries, probes | order of startup, degraded window |
| web client (`web/src`) | microphone, audio context, socket, the mounted screen, token, pages | connect / disconnect, leave, finish, fetch hooks | disconnect during connect, answers and closes of a screen that is gone, a 401 for an old token |
| analiza (`analiza/`) | a directory of notes, artifacts and a CSV | `sesion`, `backfill`, `progreso` | a failure between any two files, several sessions a day, old vocabularies in an old corpus |
| evaluation (`eval/`) | fixtures, result files, caches of answers | the fixture run, its judge, the agent evaluation | concurrent calls that fail, caches shared by runs, files left half done |
| operator scripts (`scripts/`) | files, seed rows | one-shot commands | none of the running system |

Components call each other in one process: the session handler calls
`TurnIngestService` at the start and end of a session and from the `log_turn`
handler; that service calls `LevelingService`; the handler also stamps a
handoff's first start. Everything else they share is the database.

What makes each modelled component correct:

* policy: more evidence, and rounding, never invert a decision;
* leveling: the audit trail explains the profile, a flip ends a streak of its own
  direction, nothing unplaced is levelled, whatever fails, dies or overlaps;
* session server: the newest connection holds the slot, displaced pipelines end,
  nobody is kept out;
* turn ingest: the counters are the numbers of stored turns, the graph has nothing
  the store has not, no connection is lost and nobody waits for one for ever;
* handoffs: one id per key, one completion, a bounded number of requests to La
  Libreta, records that are true;
* pipeline observers: a latency measures the answer to a prompt and is recorded
  once, a turn without a call is counted once, drift of the store is counted;
* prompt: themes rest unless the client steers, an unplaced learner is diagnosed;
* web client: leaving releases the microphone and the socket, "Terminar" ends, a
  screen has its own connection;
* analiza: a session is never reported with another's patterns, the report claims
  no absence it cannot prove and compares no unlike sessions, nothing is lost;
* evaluation: every fixture is reported once, a replayed run says what the first
  one said, the judge's arithmetic only raises, the simulated learner profile is
  what the database would say.

## The modules

| module | models | checked by |
|---|---|---|
| `Bands` | `bands.py`, and the mean of a window as a double | through the two below |
| `LevelingPolicy` | the settings, `place_band`, `evaluate_leveling` | `PolicyInputs`, `Leveling` |
| `PolicyInputs` | the inputs of the policy, turn by turn | run `leveling_serial`, `LevelingProofs` |
| `Leveling` | the stored sessions, turns, profile and history, and the steps of `end_session` | runs `leveling_serial`, `leveling_direction`, `LevelingProofs`; in `SessionSystem` |
| `SessionSlot` | what the single-session policy promises | refined by `SessionServer` |
| `SessionServer` | the `/ws/session` handlers | run `session_server`, `SessionProofs` |
| `SessionSystem` | `SessionServer` composed with `Leveling` | run `leveling_overlap_chain`, `LevelingProofs` |
| `Handoff` | handoffs and their callback | run `handoff`, `HandoffProofs` |
| `Ingest` | a turn's transaction and its graph upserts, a session's start and end, the pool | run `ingest`, `IngestProofs` |
| `LogTurn` | what is observed of a turn: latency, emission, the handler, the sink | run `log_turn`, `LogTurnProofs` |
| `Themes`, `SessionPrompt` | the catalogue and the cooldown; the reads, the prompt and the row of each session | run `prompt`, `SessionPromptProofs` |
| `VoiceClient` | `client.ts`, `Session.tsx`, `App.tsx`: the screens and what they hold | run `voice_client`, `SessionProofs` |
| `Progreso` | the aggregation of `analiza progreso` | through `Corpus` |
| `Corpus` | the files of `analiza sesion` and `analiza backfill`, and their reading | run `corpus`, `CorpusProofs` |
| `LogTurnArgs` | what the handler, the store and the agent evaluation's own reader make of the same arguments | through the two below, run `log_turn_forms` |
| `TurnScoring` | the scoring of a fixture's reply | through `FixtureEval` |
| `Profile` | the learner's snapshot from rows, and the accumulator's from turns | through `AgentEval` |
| `FixtureEval`, `AgentEval` | the two evaluations | through `Evaluation` |
| `Evaluation` | both, one per behaviour | runs `evaluation`, `log_turn_forms`, `EvaluationProofs` |
| `MC...` | instances for TLC | |

**Bands, LevelingPolicy.** A band is a number 1..5 (`A1`..`C1`), 0 is NULL, and
a window of turns is a bag, because `fmean` sums exactly and rounds once. Away
from a literal the comparison of the double mean with a boundary or a centre is
exact arithmetic over integers. At a literal, rounding decides: `SumError` and
`MeanAbove`/`MeanBelow` compute the rounding of the sum and of the division in
units of 2^-56/5. Against Python's `fmean` these operators give the same answers
for every window of up to 14 turns.

**Leveling.** A step is one database statement. `stage[s]` is how far the handler
of session *s* has got; `seen[s]` and `plan[s]` are the locals it carries over an
await, which is what goes stale. `InsertHistory` and `CommitBand` are the two
statements of one transaction, whose effect is visible at its commit.
`FailTeardown` is any statement raising, `Crash` the process dying. `leanings` is
a history variable: what every evaluation since the last band change leaned to.
`Overlap` says whether two teardowns may be under way at once: the server does
not exclude it, so it is TRUE where the code is to be shown as it is and FALSE
where the question is what an undisturbed sequence of sessions does.

**SessionServer.** `phase[c]` is how far the handler of connection *c* has got.
The swap of `active_session` awaits nothing while it holds the lock, so it is one
step. `CancelIncumbent` and `CloseIncumbent` are the two awaits of `_evict`; the
`finally` between them is the phase `failing`. Pipecat is external: a cancelled
pipeline stops some day, a pipeline that hears nothing for
`session_idle_timeout_secs` stops some day, and cancelling one that has not run
yet may be forgotten. `SessionSlot` is the policy in four places per connection;
`placeBar` is the refinement mapping.

**SessionSystem.** `Leveling` with the handlers of `SessionServer` (INSTANCE) deciding when its
steps are taken: where a handler awaits
`start_session` and `end_session`, the learner's statements are steps of the same
connection, and a turn is recorded by a pipeline that runs, displaced or not.
`number` gives each connection its place in the order of the `start_session` calls,
which need not be that of the connections. Overlap is not assumed here: the slot
is given up before the teardown begins (`session.py:314-318`), so an eviction, or a
client that reconnects, leads to it.

**Handoff.** A step is one statement or one HTTP exchange. A row is keyed by its
unique triple; what its `INSERT` wrote, the two timestamps that are set once, and the
record of the callback are four variables. `status` is what Habla hears; whether La
Libreta processed the request is open whatever it answers, and nothing in Habla
depends on it.

**Ingest.** A step is one statement of one ingest, or of the start or end of a
session. `stage[t]` is how far the ingest of turn *t* has got, `todo[t]` the rows
its loop has left, `dirty[t]` the counters its transaction has written and not
committed; a row that is dirty in one transaction is locked for the others, as in
Postgres under READ COMMITTED, and so is the missing session row that a turn is
stitching in. The order within a loop is open: that of the errors is the order of
a Python set, that of the lemmas the order of the utterance. `half[t]` is the node
whose edge is still missing. `node` and `edge` count the upserts that succeeded.
A task holds at most one connection, in `holding`. `Leveling` has what the
teardown writes; here it is a task that needs a connection twice.

**LogTurn.** Four actors: the learner with the VAD, the bot, the LLM, and the
handlers. `flying` are the speech frames that have a processor to go through: a
frame is pushed when its event happens and once more later, and the latency
observer sees both (`response_latency.py:71-74`). `stream` is the queue of the
emission observer. `Interrupt` is a barge-in: the bot has stopped, the queue
keeps its uninterruptible frames, handlers are cancelled where they await. The
clock moves when a stop of the bot is observed, so that an onset
before and after an anchor are told apart and nothing else. The ring of ids is
shared by every frame that is pushed, audio included: `PushOtherFrames` makes it
forget its oldest id at any time. `Timely` says whether a frame of speech is through the
pipeline before the ring has gone round; the code does not ensure it, so what rests on
it says so. `fresh`,
`quiet`, `malformed`, `cut` and `dropped` are history. Assumed of Pipecat: the frame of a
function call goes before its handler and before the reply's end frame, and an
interruption is over before the VAD hears a pause.

**Themes, SessionPrompt.** A session is a row of reads, each on a connection of
its own: the handoff, the recent themes, the profile, then the prompt, and the row
that later sessions read. `since` remembers what was there when it read. A
session may fail at any read, lose its row, or get one without a theme from its
first turn. What ends a session may place or move the learner (`Leveling` has the
details). Left out of the rows: the band and the mode, which no session reads.

**VoiceClient.** `connect[s]` is the await at which `connect()` of screen *s* is;
`stream`, `context` and `socket` are what it has acquired. `disconnect` is one
step: it awaits only closings. A screen is left by Back, by its socket, by the
learner's "Terminar" and its answer, or by an error, and every one of these may
come when another screen is mounted. `early` is history: the screens left before
their socket was open. The model shows the defect of
`web/src/voice/client.ts:117` and bounds it: what leaks was left early.

**Corpus, Progreso.** A step of a run of `analiza sesion` is one file: the
reservation of a name, the note, the widening of an old CSV through a temporary
file, the row, the directory, the artifacts. The corpus begins with older sessions,
with a CSV of fewer columns and reports of an older vocabulary. A backfill writes the
marker before the ids. `load_sesiones` and `progreso_cmd` are the reading side, at
any time. The examiner is external: what a run finds is chosen at Init. `OVERLAP`
says whether two runs may be under way; runs of one operator come one after the
other, and overlapping ones do break `NobodyElsesPatterns` (two runs that reserve
an ordinal and append in opposite order) and can lose a row that is appended while
another run widens the file. `Widen` reads the CSV and writes the temporary file in
one step, which only runs one after the other justify, so `RowsStay` is a claim about
those. `TORN` says whether the write of a row may break off, which leaves a line that the
next row continues; it breaks off within its date, so neither can be read as a row. That,
too, breaks `NobodyElsesPatterns`, and the run has it FALSE.

**FixtureEval, TurnScoring, AgentEval, Profile, LogTurnArgs, Evaluation.** A
fixture run is a call per fixture under a semaphore, its scoring and its report;
the judge then reads that report and revises scores. The agent evaluation is, per
persona, a conversation with an agent and a synthetic learner, whose answers are
cached on disk, a judge with a cache of its own, and an accumulator that mimics
the learner model. `Profile` computes the same snapshot twice, from turns as
`accumulator.py` does and from rows as `aggregations.py` does; `LogTurnArgs` reads
the same arguments as the handler normalises them, as the store records what the
handler passes on, and as the agent evaluation reads them, which raises over some. Its scoring of
tool calls is in `TurnScoring`. A trace of `log_turn_forms` makes its calls in
the agent evaluation; what it shows of them is what a voice session's calls go through.
What the models say is chosen from small sets.

## The runs

| run | question | bounds |
|---|---|---|
| `leveling_direction` | do sessions that lean to one side earn a flip to the other | 3 sessions of one turn, one at a time, bands A1, B1 and C1, window 1, PromoteK 2, DemoteK 3 |
| `leveling_serial` | the chain and unbroken streaks, without overlap; is the policy monotone, roundings included, and a placement stable | 4 sessions of up to two turns, 2 open at once, two bands, PromoteK 2, DemoteK 3, MinValidTurns 2, window 2; the policy over windows of 7 turns, all bands, counters 0..2 |
| `leveling_overlap_chain` | do the server's handlers lead to overlapping teardowns, which break the chain | 2 connections of one turn |
| `session_server` | orphans, service, refinement of the slot | 3 connections |
| `handoff` | ids, bounded posts, true records, termination | 2 creates, 2 clicks, 2 keys, 2 payloads, 2 attempts |
| `ingest` | counters, graph, session rows, and does every wait for a lock or a connection end | 2 turns of 1 session, 2 lemmas, one of them refused by the graph, 2 connections |
| `log_turn` | latencies, emission, drift | 2 turns, 3 onsets, 1 part of a reply, 2 calls, of one reply or of two, a ring of 2, timely frames |
| `log_turn_forms` | the forms of an error are lost between handler and store | the instance of `evaluation` |
| `prompt` | rested themes, diagnosed learners | 4 sessions, 2 at a time, 1 failure, bands A2 and B1, pools of 3 themes, cooldown 2, 4 requests |
| `voice_client` | leaks, endings, whose connection it is | 2 screens |
| `corpus` | what the report may say, and what is never lost | 2 older and 2 new sessions, one day, 2 exercises, 2 patterns |
| `evaluation` | reports, caches, profiles | 3 fixtures (2 with targets), 2 at a time, 1 judged; 2 personas, 1 at a time, 2 runs, 3 turns in all, windows and tops of 1 |

The bounds suffice for the interesting cases: three connections are the least
with an evictor evicted during its eviction; four sessions are one placement and
a promotion with a failed teardown in between, or a placement and a demotion's
streak of three, and two turns with a minimum of two are the least with which a session is or
is not placed; seven turns contain all rounding cases of the centre 0.1 and of
the boundaries up to the first repetition of the pattern; two clicks and two
creates are the least that race; two turns with two common rows are the least that
close a cycle of locks, and three tasks with two connections compete for them and
hold locks at the same time. The errors of a turn go through the same upsert as its lemmas
(`Upsert`), so the run has lemmas only; that a category is counted once is in the
theorem. Two onsets are a pause within a turn, a barge-in, or
two turns, a third follows either, and a ring of two is the least in which a frame can be forgotten. Two calls
are the least that can be refused beside another or in consecutive replies. Four sessions are
a theme, its rest over the cooldown and the return, beside an overlapping
session. A corpus of two older sessions has two vocabularies, and two new ones
share a day. Two screens are the least that one can report to the other, and two runs the
least that replay a cache. Deadlock checking is off: every model is of a
finite number of sessions, connections, turns or runs, after which it stops.

### Fairness

Liveness is stated where the code's scheduling justifies it. In `SessionServer` a
handler that can go on goes on (the event loop is fair, and every database command
has `command_timeout`), and a pipeline that is cancelled or has lost its client ends
(`runner.py:149-151`). Nothing makes a talking client stop, a preparing one
connect, or a restart come. A newcomer is served also when the cancellation of the
incumbent raises and its own connection is closed for it: what is promised is an
answer. In `Handoff` the background task runs on: an exchange has timeouts, although those of
`httpx` are for each read, so that an answer that trickles is assumed to end, and so is the
wait for a connection of the pool, which has no timeout. In `Ingest` every statement ends (`command_timeout`,
`hable_ya/db/connection.py:37`; Postgres aborts one transaction of a cycle of
locks), and the pool serves its waiters in their order, which is strong fairness
of `Acquire`. Nothing makes a session hang up or a turn arrive. In `VoiceClient` a
permission prompt, the loading of the worklet, a handshake, a closing and the
completion's request end, one way or the other; a learner need not press anything
and an open socket need not close. `Leveling`, `PolicyInputs`, `LogTurn`,
`SessionPrompt`, `Corpus` and `Evaluation` state no liveness: a process may stop
at any statement there.

### Disagreements between code and documents

Three have a run, and are under `findings` in PROJECT.json:

* `leveling_overlap_chain`: teardowns overlap, against the "by construction" of
  `docs/specs/016-session-auth/spec.md`;
* `leveling_direction`: one counter serves both directions, and a switch of the target
  does not reset it (`service.py:132` against `policy.py:126-131`, `config.py:141-142`);
* `log_turn_forms`: the handler normalises the forms of an error to `produced` and
  `target`, the store reads `produced_form` and `target_form`.

Met while modelling, without a run:

* leveling: `place_band` clamps to the floor even when "every turn really is A1"
  (`policy.py:81-83`); three uniform A1 turns are borderline, since `fmean` gives
  0.10000000000000002, although the demotion clock asks for a "mean ≤ the lower band's
  bucket center" (`policy.py:143-145`); a mean more than a band below the current one is
  borderline, too, when it is above the centre of the bucket it is in (`policy.py:199`): at
  B1 a mean of 0.15 holds the band and a mean of 0.25 demotes, which
  `RaisingATurnNeverLowersTarget` has to except; a session without a classified turn counts
  toward the next flip, although `config.py:141` counts "promote-target sessions";
  the mean of the window weighs turns, although `config.py:138-140` keys it by
  session; `last_seen_at` of an error can move back (`errors.py:67`);
  `ErrorRepo.record` returns every category it stored, not the distinct ones its
  docstring promises, which its caller makes up for with `set()`;
* handoffs: after a lost answer the retry is a second delivery
  (`callback.py:200`); a crash after the commit loses the callback
  (`external_sessions.py:319`);
* graph: names that `graph._safe` refuses are passed over and not counted;
* observers: refused calls are counted one by one, so that a turn whose reply makes two
  counts twice, and one with a refused and a good call counts although it has its
  observation, against "no double count" (`log_turn_observer.py:14-18`); `MissingCountsTurns`
  bounds the count from above only for replies of one call. A frame that is on its way
  while the ring goes round counts as two events, against "each event counts once"
  (`response_latency.py:73-81`): with `Timely` FALSE, 2 turns, 3 onsets, no calls and a ring of
  8, TLC finds `MeasuresOnlyResponses` violated. `response_latency.py:17-20` holds that a latency cannot leak to a
  later turn, but one that no call takes stays for the next;
* themes: `get_session_theme` takes the end of a list that comes newest first, so a
  cooldown below 3 would rest the oldest ones and one above 3 rests three
  (`themes.py:8-11`, 692); overlapping sessions can pick one theme, a session without
  its row does not rest its own, and handoffs use up the cooldown;
* web client: Back while connecting does not "run a clean disconnect"
  (`router.ts:11-12`); a close or an error of a screen that is gone closes the one
  that is mounted (`Session.tsx:94-95`); "the learner never waits on it"
  (`Session.tsx:120-122`), but `handleClose` runs in the `finally` after the answer;
  a server that closes with 1000 leaves a screen with a dead connection;
* analiza: a row whose write breaks off takes the next one with it, the ordinals of the day
  shift, and a session is read with another's patterns (`note.py:508`), "the one thing this
  feature must never do" (`historial.py:168-172`): with `TORN` TRUE and 3 new sessions alone TLC
  finds `NobodyElsesPatterns` violated; after a failed first append the CSV stays without its header
  (`note.py:477`, 505); sessions of one day are ordered by the name of their exercise;
  a null pattern id counts as "without id" but not as needing a backfill; a crash
  can leave a truncated `examiner.json`, which is read as none;
* evaluation: `judge_recasts.py:9-11` says the aggregates are recomputed, the file
  keeps the old ones; judging a reply without its tool calls lowers its fidelity
  while its flags stay (`judge_recasts.py:208`); an answer cached half written
  fails its persona in every later run; a learner API that fails at once
  gives an empty transcript that is judged and averaged (`run_agent_eval.py:205`);
  the accumulator counts an error category as often as a turn has it, the store
  once; a call whose errors are null fails its whole session (`run_agent_eval.py:163`), and
  the handler only refuses it.

## The proofs

`LevelingProofs` proves about `Leveling`, for every number of sessions, turns and
settings:

* `IInv` — types, "a teardown past the decision holds a decision that applies"
  (`PlanIsDecided`), `StreakIsEarned`, `BandIsAudited`,
  `LevelingFollowsPlacement` — is inductive with teardowns overlapping or not;
  `TypeCorrect`, `StreakEarned`, `BandAudited` and `LevelingAfterPlacement`
  follow.
* Without overlap, `SerialInv` adds that at most one teardown is under way
  (`Alone`) and that what it has read is still what the database holds (`Fresh`):
  that is exactly what an overlapping teardown breaks. `HistoryIsAChain` follows, and
  `FlipsEndUnbrokenStreaks`, since the counter is the length of a streak that nothing
  broke.

`SessionSystem` implements both of its parts: every step of the composition is a step of
`Leveling` or leaves the learner alone (`SystemLevels`), and the same of
`SessionServer` (`SystemServes`). So what is proved of overlapping teardowns holds with
the handlers, evictions and restarts as they are (`SystemAudited`). The invariant
behind it (`SystemInv`) is what ties the two: a session number is given once, to one
handler; its row is live while the pipeline runs, and done when the handler has
returned. `SlotBeforeTeardown` is what makes overlap possible at all: a teardown runs
only in a handler that no longer holds the slot.

What the policy answers is proved about `PolicyInputs`, for windows of any length up to
its bound and any settings: `RaisingNeverLowers` because a band more adds two
half-bands to the sum of the window, so that a comparison with a literal can only be decided
by rounding on one side of it (`RaisedMean`);
`PlacementStays` because one more turn of the modal band leaves it modal.

`SessionProofs` proves about `SessionServer`, for every set of connections:
`TypeCorrect`, `NewestHoldsSlot`, `NobodyForgotten`, and `RefinesSlot`, that every
step is a step of `SessionSlot` or a stutter. The invariant adds that the holder
of the slot is installed. About `VoiceClient`, for every number of screens:
`ClientTypeCorrect`, `LeakersLeftEarly` and `ConnectionOfScreen`. `Released` says
that a screen that is not shown holds nothing unless it was left early,
`SocketIsLast` and `Untouched` what a screen has before its socket and before it
is opened.

`HandoffProofs` proves about `Handoff`, for every set of requests, clicks, keys and
payloads, `AnswersAgree`, `PostsAreBounded`, `HeardSuccessIsFinal` and
`RecordIsTrue`. `Owned` says whom each row belongs to: the request that inserted
it, already answered, while every request past the `INSERT` found a row there.
`Delivery` says that at most one completion request per key ever runs a callback
and that everything that happened to the key (requests, acknowledgements, record)
is what that run did; without it nothing relates the counters of a key to the
locals of a run.

`IngestProofs` proves about `Ingest`, for every number of turns, sessions, rows and
connections, `CountsExplainTurns`, `GraphLagsBehindStore`, `NoConnectionIsLost` and
`SessionsAreOnRecord`. `Locks` says that an uncommitted counter belongs to one
transaction and is one above the committed one, which is why a commit cannot
overwrite another's; `Accounts` that a transaction has counted every row of its
turn that its loops have left behind; `Lags` strengthens the order of the two stores
by the turns between commit, node and edge; `Records` the count of sessions by
those between row and counter.

`LogTurnProofs` proves about `LogTurn`, for every number of turns, onsets and calls
and every size of the ring, all its invariants. `DriftAccountedFor`:
`RepliesAdvance` says that a turn is answered once, after the turns before it,
which is why a call is new when it is made; `Recorded` that a call that ingests is
on disk, not in the store and not cut off. The two cardinalities then change
together, one call at a time, except at an interruption, which moves all calls that
ingest to `cut`. `OnlyResponsesMeasured`, `AnchorClean` and `TakenOnce` have `Timely` as a
hypothesis, without which the first is false: a frame in
flight is in the ring (`RingInv`); the anchor is that of the last
stop the voice detector announced (`AnchorInv`); a pending measurement
was of an onset that no call has (`TakenInv`). `MissingCounts`: the stream of a reply
is a start, its calls and an end, the flag tells whether a call was among them, and a
turn whose calls were all refused has been counted at least once (`CountInv`).

`SessionPromptProofs` proves `FirstSessionsDiagnosed` about `SessionPrompt`, for
every number of sessions, overlapping or not, every set of requests and all pools
larger than the cooldown. Placement is never taken back, so what a session read
at its start still holds (`DiagnosisStays`); a pool is never exhausted, because
the window of themes at rest is no longer than the cooldown
(`WindowIsBounded`, `PoolIsNeverExhausted`), so the fallback never gives a placed
learner the neutral theme. `PickedThemesAreRested` says that a theme the tutor picks is
not one of a row in the cooldown; `Remembers` says that what a session read are the
newest rows of that moment, `RowsGrow` that rows only come on top. Its hypothesis
`COOLDOWN = LIMIT` is what the code has by default (`hable_ya/config.py`
`theme_cooldown` 3, the `limit` of the query 3) and the pass needs it: the window
takes the *end* of a list that is newest first, so a configured cooldown of 1 or 2 rests
the older themes and may repeat the last one, and a cooldown above 3 rests no more
than three.

`CorpusProofs` proves about `Corpus`, for any corpus, reports and failures, all its
properties. With runs that overlap or not (`BaseInv`: stages, slots, notes and the
density of ordinals): `BackfilledIdsAreMarked`, `TrendsAreFair`. With runs one after
the other (`SerialInv`): `RecordedSessionsStay`, and, if a row is written whole or not at
all (`~ TORN`), `StoredReportsStay`, `PatternsAreOnesOwn` and `AbsenceIsKnown`. `RowsAreOrdered` says that the rows of a day are in the order of their
ordinals, `DirectoriesHaveRows` that a directory has its row, which is what lets
the reader join a row and a directory by counting. Two overlapping runs that append
in opposite order break the first, an append that another run's widening loses the
second.

`EvaluationProofs` proves about `Evaluation`, for any personas, answers, fixtures and
replies: `ReplaysAreAlike` (`CacheInv`: an entry is written once, for its own
conversation), `OutputComplete` (`OutInv`: a permit per persona at work, a session per
one that is done), `ReportComplete` (`ReportInv`: results and errors are the
answered fixtures), `JudgeRaises` (`JudgeInv`), and `FormsAreAlike`, that a reply is
scored alike in whatever form its calls are written. The last needs an induction
over the text, which the library states with an operator as a parameter; the
module derives what it needs from the well-foundedness of the naturals, whose
statement has none: a non-empty set of naturals has a least element, so a set
closed under steps from 0 has them all, and so the recursive function of one
concrete fold exists. The folds over the items of a call and over the calls of a
session are under the same lemmas (`Loops`, `LoopStates`), and `SnapshotsAreAlike`
rests on them: the accumulator holds the last signals, the counts and the dates of
the turns it was given (`AccountInv`), a call as its schema asks, with every category
once, is stored as the turn it was counted as (`StoredAsCounted`), and the two windows are the mirror of each
other, which no mean sees.

What survives overlapping teardowns (`BandAudited`, `LevelingAfterPlacement`,
`StreakEarned`), and that no connection of the pool is lost (`PoolIsWhole`), is shown
by proof alone: the proofs cover every instance, overlap included.

The assumptions are those on the constants, in the modules that declare them.

Only model-checked: liveness (`NewClientIsServed`, `DisplacedSessionEnds`,
`CallbackEnds`, `NobodyWaitsForEver`, `FinishEnds`, `LeavingReleases`, the fairness half of
`ImplementsSlot`), which is beyond the prover. Three hypotheses of theorems are not given by
the code: no overlap of teardowns (`leveling_overlap_chain` shows what happens without it),
timely frames and whole rows (above, under the disagreements).

## Not modelled

* Wording: the prompts' texts, notes and reports as Markdown, logging. The control
  that selects a block of text is modelled.
* Functions of one recording or one text: audio and text metrics, transcription,
  recast, register and language heuristics. They have no state; in `FixtureEval` and
  `Corpus` their results are inputs.
* Pipecat, Postgres, AGE, the browser and the model providers: external, as the code
  uses them. `pipeline/services.py` and `runner.py` construct them.
* Lifespan, migrations, health and authentication: sequential code and
  stateless checks. Readiness and restarts are in `SessionServer`, the pool in `Ingest`.
* Token, health polling and paging of the web client: each holds one value that the
  next request replaces. A late 401 can clear a newer token (`api.ts:41`) and polls can
  land out of order (`health.ts:40`); neither loses anything a reload does not restore.
* The display name and the paged reads: one write, and reads without effect.
* Scripts: data generation and benchmarks that an operator runs alone.

## Plan

1. *Done*: the policy, leveling, the session server, handoffs, ingest; the
   observers, the prompt, the web client's session, the corpus, the evaluations; `SessionServer` composed
   with `Leveling`.
2. Proofs: *done* for every safety property of the runs that pass.
3. `WebData`: the token and its 401, late pages. `Startup`: lifespan, retries, health.
