------------------------------- MODULE LogTurn -------------------------------
(***************************************************************************)
(* What a voice session observes of its turns: the latency observer        *)
(* (processors/response_latency.py), the log_turn handler                  *)
(* (log_turn_handler.py), the emission observer                            *)
(* (processors/log_turn_observer.py) and the sink (runtime/observations.py)*)
(*                                                                         *)
(* Pipecat, the learner and the tutor are external.  A frame of speech is  *)
(* pushed when the event happens, which the latency observer sees at once, *)
(* and once more when it goes through the next processor.  The LLM's       *)
(* frames queue up before the emission observer.  A learner who starts to  *)
(* speak interrupts the reply: the bot clock, the queue keeps only the     *)
(* uninterruptible frames, and running function calls are cancelled.       *)
(***************************************************************************)
EXTENDS Integers, Sequences, FiniteSets, SequencesExt

CONSTANTS
    MAX_TURNS,       \* bound: turns of the learner
    MAX_ONSETS,      \* bound: times the learner starts to speak, pauses included
    MAX_PARTS,       \* bound: times the bot starts to speak within a reply
    MAX_CALLS,       \* bound: log_turn calls in a reply
    MAX_LOG_TURNS,   \* bound: log_turn calls in all
    SEEN_RING_SIZE,  \* _SEEN_RING_SIZE
    Timely           \* does a frame of speech pass its processors before the
                     \* ring has gone round?

ASSUME LogTurnAssumption ==
    /\ MAX_TURNS \in Nat /\ MAX_ONSETS \in Nat /\ MAX_PARTS \in Nat
    /\ MAX_CALLS \in Nat /\ MAX_LOG_TURNS \in Nat /\ SEEN_RING_SIZE \in Nat \ {0}
    /\ Timely \in BOOLEAN

Turn == 1 .. MAX_TURNS
Call == Turn \X (1 .. MAX_CALLS)

VARIABLES
    voice,       \* the learner: silent, speaking, or heard by the VAD to speak
    onset,       \* how often they have started
    turn, open,  \* their last turn, and whether it goes on
    bot,         \* whether the bot speaks
    parts,       \* how often it may still start to within this reply
    clock,       \* the wall clock: how often a stop of the bot was observed
    started,     \* the clock when the learner last started to speak
    fresh,       \* history: the onsets of a turn that did not talk over the bot
    flying,      \* the speech frames that have a processor to go through
    frames,      \* the last frame id
    interrupting \* an interruption is on its way

VARIABLES
    seen,            \* the latency observer: ids of speech frames, oldest first
    bot_stopped_at,  \* 0 is None
    user_speaking,
    pending_ms,      \* the onset it was measured at, 0 is None
    records          \* the onsets measured, in order

VARIABLES
    due,           \* the turn the LLM has to answer, 0 for none
    replying,      \* the one it answers
    made,          \* its calls so far
    stream,        \* the frames between the LLM and the emission observer
    log_turn_seen,
    quiet          \* history: the turns whose reply ended without a call

VARIABLES
    stage,         \* how far the handler of each call has got
    attached,      \* the measurement in its observation
    file, db,      \* the observations on disk, and in the learner's store
    missing, ingest_failed,  \* counters of the sink
    malformed,     \* history: the calls refused
    cut,           \* history: the calls cancelled while they ingested
    dropped        \* history: an interruption ended a reply or dropped its frames

speech == <<voice, onset, turn, open, bot, parts, clock, started, fresh, frames>>
latency == <<seen, bot_stopped_at, user_speaking, records>>
llm == <<due, replying, made, stream, quiet>>
counters == <<missing, ingest_failed>>
sink == <<attached, file, db, ingest_failed>>
history == <<malformed, cut, dropped>>
vars == <<speech, flying, interrupting, latency, pending_ms, llm, log_turn_seen,
          stage, sink, missing, history>>

Init ==
    /\ voice = "silent" /\ onset = 0 /\ turn = 0 /\ open = FALSE
    /\ bot = "quiet" /\ parts = 0  \* the learner speaks first
    /\ clock = 0 /\ started = 0 /\ fresh = {} /\ flying = {} /\ frames = 0
    /\ interrupting = FALSE
    /\ seen = <<>> /\ bot_stopped_at = 0 /\ user_speaking = FALSE
    /\ pending_ms = 0 /\ records = <<>>
    /\ due = 0 /\ replying = 0 /\ made = 0 /\ stream = <<>>
    /\ log_turn_seen = FALSE /\ quiet = {}
    /\ stage = [c \in Call |-> "none"] /\ attached = [c \in Call |-> 0]
    /\ file = {} /\ db = {} /\ missing = 0 /\ ingest_failed = 0
    /\ malformed = {} /\ cut = {} /\ dropped = FALSE

-----------------------------------------------------------------------------
(* The latency observer.                                                   *)

(* Mutant: the ring is one id too short.                                   *)
Remember_OneTooFew(id) ==
    seen' = IF SEEN_RING_SIZE = 1 THEN <<>> ELSE
              Append(IF Len(seen) = SEEN_RING_SIZE - 1 THEN Tail(seen) ELSE seen, id)

(* A ring of ids: a full one forgets the oldest.                           *)
Remember(id) ==
    seen' = Append(IF Len(seen) = SEEN_RING_SIZE THEN Tail(seen) ELSE seen, id)

(* Mutant: a measurement below zero is one, too.                           *)
Measure_Negative(f) ==
    /\ bot_stopped_at' = 0
    /\ IF bot_stopped_at # 0
         THEN pending_ms' = f.onset /\ records' = Append(records, f.onset)
         ELSE UNCHANGED <<pending_ms, records>>

(* VADUserStartedSpeakingFrame: a one-shot anchor, and the onset the VAD   *)
(* confirms late; one before the anchor is not a response to it.           *)
Measure(f) ==
    /\ bot_stopped_at' = 0
    /\ IF bot_stopped_at # 0 /\ f.at >= bot_stopped_at
         THEN pending_ms' = f.onset /\ records' = Append(records, f.onset)
         ELSE UNCHANGED <<pending_ms, records>>

Arm == bot_stopped_at' = IF user_speaking THEN bot_stopped_at ELSE clock'

(* on_push_frame, for every push of a frame through a processor.           *)
OnPushFrame(f) ==
    IF f.id \in Range(seen)
      THEN UNCHANGED <<latency, pending_ms>>
      ELSE /\ Remember(f.id)
           /\ \/ f.kind = "user_started" /\ user_speaking' = TRUE /\ Measure(f)
              \/ /\ f.kind = "user_stopped" /\ user_speaking' = FALSE
                 /\ UNCHANGED <<bot_stopped_at, pending_ms, records>>
              \/ /\ f.kind = "bot_started" /\ bot_stopped_at' = 0
                 /\ UNCHANGED <<user_speaking, pending_ms, records>>
              \/ /\ f.kind = "bot_stopped" /\ Arm
                 /\ UNCHANGED <<user_speaking, pending_ms, records>>

-----------------------------------------------------------------------------
(* The learner, the bot and the pipeline they speak through.               *)

(* The oldest id leaves the ring: not yet, if its frame is on its way and  *)
(* the frames are timely.                                                  *)
OldestMayGo == Timely => \A f \in flying : f.id # Head(seen)

(* Frames of every other kind go through the observer, too, and their ids  *)
(* through the ring.                                                       *)
PushOtherFrames ==
    /\ seen # <<>> /\ OldestMayGo
    /\ seen' = Tail(seen)
    /\ UNCHANGED <<speech, flying, interrupting, bot_stopped_at, user_speaking,
                   pending_ms, records, llm, log_turn_seen, stage, sink, missing,
                   history>>

Push(kind) ==
    LET f == [id |-> frames + 1, kind |-> kind, onset |-> onset, at |-> started]
    IN  /\ Len(seen) = SEEN_RING_SIZE => OldestMayGo
        /\ frames' = f.id
        /\ flying' = flying \cup {f}
        /\ OnPushFrame(f)

(* The next processor; a frame does not overtake its source's.             *)
PushOn(f) ==
    /\ \A g \in flying : {f.kind, g.kind} \subseteq {"user_started", "user_stopped"}
                         \/ {f.kind, g.kind} \subseteq {"bot_started", "bot_stopped"}
                         => f.id <= g.id
    /\ UNCHANGED <<voice, onset, turn, open, bot, parts, started, fresh, frames,
                   interrupting, llm, log_turn_seen, stage, sink, missing, history>>
    /\ flying' = flying \ {f}
    /\ clock' = IF f.kind = "bot_stopped" /\ f.id \notin Range(seen)
                  THEN clock + 1 ELSE clock
    /\ OnPushFrame(f)

Speak ==
    /\ voice = "silent" /\ ~interrupting /\ onset < MAX_ONSETS
    /\ open \/ turn < MAX_TURNS
    /\ voice' = "speaking" /\ onset' = onset + 1 /\ started' = clock
    /\ turn' = IF open THEN turn ELSE turn + 1
    /\ open' = TRUE
    /\ fresh' = IF open \/ bot = "speaks" THEN fresh ELSE fresh \cup {onset + 1}
    /\ UNCHANGED <<bot, parts, clock, frames, flying, interrupting, latency,
                   pending_ms, llm, log_turn_seen, stage, sink, missing, history>>

(* The VAD confirms it, and interrupts.                                    *)
VADStart ==
    /\ voice = "speaking"
    /\ voice' = "heard" /\ interrupting' = TRUE
    /\ Push("user_started")
    /\ UNCHANGED <<onset, turn, open, bot, parts, clock, started, fresh, llm,
                   log_turn_seen, stage, sink, missing, history>>

(* The pause the VAD waits for is longer than an interruption takes.       *)
VADStop ==
    /\ voice = "heard" /\ ~interrupting
    /\ voice' = "silent"
    /\ Push("user_stopped")
    /\ UNCHANGED <<onset, turn, open, bot, parts, clock, started, fresh, interrupting,
                   llm, log_turn_seen, stage, sink, missing, history>>

(* SmartTurn decides that the turn is over.                                *)
EndTurn ==
    /\ open /\ voice = "silent"
    /\ open' = FALSE /\ due' = turn
    /\ UNCHANGED <<voice, onset, turn, bot, parts, clock, started, fresh, frames,
                   flying, interrupting, latency, pending_ms, replying, made, stream,
                   quiet, log_turn_seen, stage, sink, missing, history>>

BotStart ==
    /\ bot = "quiet" /\ parts > 0 /\ ~interrupting
    /\ bot' = "speaks" /\ parts' = parts - 1
    /\ Push("bot_started")
    /\ UNCHANGED <<voice, onset, turn, open, clock, started, fresh, interrupting, llm,
                   log_turn_seen, stage, sink, missing, history>>

BotStop ==
    /\ bot = "speaks"
    /\ bot' = "quiet" /\ clock' = clock + 1
    /\ Push("bot_stopped")
    /\ UNCHANGED <<voice, onset, turn, open, parts, started, fresh, interrupting, llm,
                   log_turn_seen, stage, sink, missing, history>>

-----------------------------------------------------------------------------
(* The LLM and the emission observer.                                      *)

StartReply ==
    /\ due # 0 /\ replying = 0 /\ ~interrupting
    /\ replying' = due /\ due' = 0 /\ made' = 0 /\ parts' = MAX_PARTS
    /\ stream' = Append(stream, "start")
    /\ UNCHANGED <<voice, onset, turn, open, bot, clock, started, fresh, frames,
                   flying, interrupting, latency, pending_ms, quiet, log_turn_seen,
                   stage, sink, missing, history>>

(* The function call's frame goes before its handler.                      *)
CallLogTurn ==
    /\ replying # 0 /\ made < MAX_CALLS
    /\ Cardinality({c \in Call : stage[c] # "none"}) < MAX_LOG_TURNS
    /\ made' = made + 1
    /\ stage' = [stage EXCEPT ![<<replying, made + 1>>] = "called"]
    /\ stream' = Append(stream, "call")
    /\ UNCHANGED <<speech, flying, interrupting, latency, pending_ms, due, replying,
                   quiet, log_turn_seen, sink, missing, history>>

EndReply ==
    /\ replying # 0
    /\ replying' = 0
    /\ stream' = Append(stream, "end")
    /\ quiet' = IF made = 0 THEN quiet \cup {replying} ELSE quiet
    /\ UNCHANGED <<speech, flying, interrupting, latency, pending_ms, due, made,
                   log_turn_seen, stage, sink, missing, history>>

(* Mutant: the flag is not reset for the next reply.                       *)
ProcessFrame_NoReset ==
    /\ stream # <<>> /\ stream' = Tail(stream)
    /\ log_turn_seen' = (log_turn_seen \/ Head(stream) = "call")
    /\ missing' = IF Head(stream) = "end" /\ ~log_turn_seen THEN missing + 1 ELSE missing
    /\ UNCHANGED <<speech, flying, interrupting, latency, pending_ms, due, replying,
                   made, quiet, stage, sink, history>>

(* LogTurnEmissionObserver.process_frame.                                  *)
ProcessFrame ==
    /\ stream # <<>> /\ stream' = Tail(stream)
    /\ log_turn_seen' = CASE Head(stream) = "start" -> FALSE
                          [] Head(stream) = "call"  -> TRUE
                          [] OTHER -> log_turn_seen
    /\ missing' = IF Head(stream) = "end" /\ ~log_turn_seen THEN missing + 1 ELSE missing
    /\ UNCHANGED <<speech, flying, interrupting, latency, pending_ms, due, replying,
                   made, quiet, stage, sink, history>>

-----------------------------------------------------------------------------
(* The handler.                                                            *)

(* Arguments that do not normalise: no observation, no measurement taken.  *)
Refuse(c) ==
    /\ stage[c] = "called"
    /\ missing' = missing + 1 /\ malformed' = malformed \cup {c}
    /\ stage' = [stage EXCEPT ![c] = "answering"]
    /\ UNCHANGED <<speech, flying, interrupting, latency, pending_ms, llm,
                   log_turn_seen, sink, cut, dropped>>

(* Mutant: the measurement is read and stays.                              *)
Record_Peeks(c) ==
    /\ stage[c] = "called"
    /\ attached' = [attached EXCEPT ![c] = pending_ms]
    /\ \/ file' = file \cup {c} /\ stage' = [stage EXCEPT ![c] = "ingesting"]
       \/ UNCHANGED file /\ stage' = [stage EXCEPT ![c] = "answering"]
    /\ UNCHANGED <<speech, flying, interrupting, latency, pending_ms, llm,
                   log_turn_seen, db, missing, ingest_failed, history>>

(* pop, then append, which awaits nothing: the observation is written, or  *)
(* the write raises and the handler goes to its finally.                   *)
Record(c) ==
    /\ stage[c] = "called"
    /\ attached' = [attached EXCEPT ![c] = pending_ms] /\ pending_ms' = 0
    /\ \/ file' = file \cup {c} /\ stage' = [stage EXCEPT ![c] = "ingesting"]
       \/ UNCHANGED file /\ stage' = [stage EXCEPT ![c] = "answering"]
    /\ UNCHANGED <<speech, flying, interrupting, latency, llm, log_turn_seen, db,
                   missing, ingest_failed, history>>

Ingest(c) ==
    /\ stage[c] = "ingesting"
    /\ db' = db \cup {c}
    /\ stage' = [stage EXCEPT ![c] = "answering"]
    /\ UNCHANGED <<speech, flying, interrupting, latency, pending_ms, llm,
                   log_turn_seen, attached, file, missing, ingest_failed, history>>

(* Mutant: the failure is logged and not counted.                          *)
IngestFails_Silently(c) ==
    /\ stage[c] = "ingesting"
    /\ stage' = [stage EXCEPT ![c] = "answering"]
    /\ UNCHANGED <<speech, flying, interrupting, latency, pending_ms, llm,
                   log_turn_seen, sink, missing, history>>

(* ingest raises, before its transaction commits or after.                 *)
IngestFails(c) ==
    /\ stage[c] = "ingesting"
    /\ ingest_failed' = ingest_failed + 1
    /\ db' \in {db, db \cup {c}}
    /\ stage' = [stage EXCEPT ![c] = "answering"]
    /\ UNCHANGED <<speech, flying, interrupting, latency, pending_ms, llm,
                   log_turn_seen, attached, file, missing, history>>

(* The finally: the result, with run_llm=False.                            *)
Answer(c) ==
    /\ stage[c] = "answering"
    /\ stage' = [stage EXCEPT ![c] = "answered"]
    /\ UNCHANGED <<speech, flying, interrupting, latency, pending_ms, llm,
                   log_turn_seen, sink, missing, history>>

-----------------------------------------------------------------------------
(* An interruption: the LLM is cancelled and pushes its end frame, which   *)
(* the observer's queue may still drop; a handler that has not begun never *)
(* does, one that ingests goes to its finally, whether or not Postgres has *)
(* committed.                                                              *)
Interrupt ==
    /\ interrupting /\ bot = "quiet"
    /\ interrupting' = FALSE
    /\ parts' = 0 /\ due' = 0 /\ replying' = 0
    /\ LET calls == {i \in DOMAIN stream : stream[i] = "call"}
           kept == [i \in 1 .. Cardinality(calls) |-> "call"]
       IN  /\ stream' \in {kept} \cup IF replying # 0 THEN {Append(kept, "end")} ELSE {}
           /\ dropped' = (dropped \/ replying # 0 \/ kept # stream)
    /\ quiet' = IF replying # 0 /\ made = 0 THEN quiet \cup {replying} ELSE quiet
    /\ LET ingesting == {c \in Call : stage[c] = "ingesting"}
       IN  /\ cut' = cut \cup ingesting
           /\ \E committed \in SUBSET ingesting : db' = db \cup committed
    /\ stage' = [c \in Call |-> CASE stage[c] = "called" -> "cancelled"
                                  [] stage[c] = "ingesting" -> "answering"
                                  [] stage[c] = "answering" -> "cancelled"
                                  [] OTHER -> stage[c]]
    /\ UNCHANGED <<voice, onset, turn, open, bot, clock, started, fresh, frames,
                   flying, latency, pending_ms, made, log_turn_seen, attached, file,
                   missing, ingest_failed, malformed>>

Handler(c) == Refuse(c) \/ Record(c) \/ Ingest(c) \/ IngestFails(c) \/ Answer(c)

Next ==
    \/ Speak \/ VADStart \/ VADStop \/ EndTurn
    \/ BotStart \/ BotStop \/ Interrupt
    \/ \E f \in flying : PushOn(f)
    \/ PushOtherFrames
    \/ StartReply \/ CallLogTurn \/ EndReply \/ ProcessFrame
    \/ \E c \in Call : Handler(c)

Spec == Init /\ [][Next]_vars

-----------------------------------------------------------------------------
TypeOK ==
    /\ voice \in {"silent", "speaking", "heard"}
    /\ onset \in 0 .. MAX_ONSETS /\ turn \in 0 .. MAX_TURNS /\ open \in BOOLEAN
    /\ bot \in {"quiet", "speaks"} /\ parts \in 0 .. MAX_PARTS
    /\ clock \in Nat /\ started \in Nat /\ frames \in Nat
    /\ fresh \subseteq 1 .. MAX_ONSETS
    /\ interrupting \in BOOLEAN
    /\ Len(seen) <= SEEN_RING_SIZE
    /\ bot_stopped_at \in 0 .. clock /\ user_speaking \in BOOLEAN
    /\ pending_ms \in 0 .. MAX_ONSETS
    /\ due \in 0 .. MAX_TURNS /\ replying \in 0 .. MAX_TURNS /\ made \in 0 .. MAX_CALLS
    /\ Range(stream) \subseteq {"start", "call", "end"}
    /\ log_turn_seen \in BOOLEAN
    /\ stage \in [Call -> {"none", "called", "ingesting", "answering", "answered",
                           "cancelled"}]
    /\ attached \in [Call -> 0 .. MAX_ONSETS]
    /\ file \subseteq Call /\ db \subseteq file /\ cut \subseteq file
    /\ missing \in Nat /\ ingest_failed \in Nat
    /\ malformed \subseteq Call /\ quiet \subseteq Turn
    /\ dropped \in BOOLEAN

(* What is measured is a response: never an onset that talks over the bot, *)
(* nor one that resumes a turn after a pause, however late the VAD         *)
(* confirms it and in which order the frames pass (response_latency.py:    *)
(* 12-15, 76-102).                                                         *)
MeasuresOnlyResponses == Range(records) \subseteq fresh

(* An anchor is the end of what the bot said last, and nobody has been     *)
(* heard since, although each frame is pushed by every processor and later *)
(* ones overtake it (response_latency.py:69-77, 92-102).                   *)
AnchorIsClean ==
    bot_stopped_at # 0 =>
        /\ bot = "quiet" /\ bot_stopped_at = clock
        /\ voice # "heard" /\ (voice = "silent" => ~open)

(* A measurement goes to one observation at most, however many calls a     *)
(* reply makes (response_latency.py:62-66, log_turn_handler.py:86-90).     *)
MeasurementIsTakenOnce ==
    \A c, d \in Call : c # d /\ attached[c] # 0 => attached[c] # attached[d]

(* A turn without a usable observation: its reply made no call, or only    *)
(* calls that were refused.                                                *)
Made(t) == {c \in Call : c[1] = t /\ stage[c] # "none"}
Unobserved ==
    quiet \cup {t \in Turn : Made(t) # {} /\ Made(t) \subseteq malformed}

(* missing leaves out no turn without a usable observation unless an       *)
(* interruption drops its frames, and counts each once, and no other turn, *)
(* as long as a reply makes one call (log_turn_observer.py:11-19, 48-59,   *)
(* log_turn_handler.py:58-76).                                             *)
MissingCountsTurns ==
    /\ ~dropped /\ stream = <<>> => Cardinality(Unobserved) <= missing
    /\ (\A c \in Call : stage[c] # "none" => c[2] = 1)
         => missing <= Cardinality(Unobserved)

(* An observation on disk that the store has not is under way, was cut off *)
(* by the learner, or is counted (log_turn_handler.py:102-112).            *)
DriftIsAccountedFor ==
    Cardinality(file \ (db \cup cut)) <=
        ingest_failed + Cardinality({c \in Call : stage[c] = "ingesting"})
=============================================================================
