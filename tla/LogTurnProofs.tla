--------------------------- MODULE LogTurnProofs ---------------------------
(***************************************************************************)
(* Theorems about LogTurn, for any number of turns, onsets and calls and   *)
(* any size of the ring: its types, that every observation on disk that    *)
(* the store has not is accounted for, what is measured and to which call  *)
(* it is attached, and what is counted as missing.                         *)
(***************************************************************************)
EXTENDS LogTurn, FiniteSetTheorems, FunctionTheorems, TLAPS

-----------------------------------------------------------------------------
(* Types.                                                                  *)

Kind == {"user_started", "user_stopped", "bot_started", "bot_stopped"}
Frame == [id : Nat, kind : Kind, onset : 0 .. MAX_ONSETS, at : Nat]
Stream == {"start", "call", "end"}

SpeechTyped ==
    /\ voice \in {"silent", "speaking", "heard"}
    /\ onset \in 0 .. MAX_ONSETS /\ turn \in 0 .. MAX_TURNS
    /\ bot \in {"quiet", "speaks"} /\ parts \in 0 .. MAX_PARTS
    /\ clock \in Nat /\ started \in Nat /\ frames \in Nat
    /\ fresh \subseteq 1 .. MAX_ONSETS
    /\ flying \subseteq Frame

LatencyTyped ==
    /\ seen \in Seq(Nat) /\ Len(seen) <= SEEN_RING_SIZE
    /\ bot_stopped_at \in 0 .. clock /\ pending_ms \in 0 .. MAX_ONSETS

ReplyTyped ==
    /\ due \in 0 .. MAX_TURNS /\ replying \in 0 .. MAX_TURNS /\ made \in 0 .. MAX_CALLS
    /\ stream \in Seq(Stream)
    /\ quiet \subseteq Turn /\ missing \in Nat /\ malformed \subseteq Call

Flags ==
    /\ open \in BOOLEAN /\ interrupting \in BOOLEAN /\ user_speaking \in BOOLEAN
    /\ log_turn_seen \in BOOLEAN /\ dropped \in BOOLEAN

HandlerTyped ==
    /\ stage \in [Call -> {"none", "called", "ingesting", "answering", "answered",
                           "cancelled"}]
    /\ attached \in [Call -> 0 .. MAX_ONSETS]
    /\ file \subseteq Call /\ db \subseteq file /\ cut \subseteq file
    /\ ingest_failed \in Nat

Ingesting == {c \in Call : stage[c] = "ingesting"}
Behind == file \ (db \cup cut)

(* A call is on disk once it ingests, and not before it was recorded.      *)
Recorded ==
    \A c \in Call :
        /\ stage[c] \in {"none", "called"} => c \notin file
        /\ stage[c] = "ingesting" => c \in file /\ c \notin db /\ c \notin cut

(* A turn is replied to once, after the turns before it, so that no call   *)
(* is made twice.                                                          *)
RepliesAdvance ==
    /\ due <= turn /\ replying <= turn
    /\ due # 0 => replying < due
    /\ open => due < turn /\ replying < turn
    /\ \A t \in Turn, k \in 1 .. MAX_CALLS : stage[<<t, k>>] # "none" =>
          /\ t <= turn
          /\ due # 0 => t < due
          /\ open => t < turn
          /\ replying # 0 => t < replying \/ (t = replying /\ k <= made)

IInv ==
    /\ SpeechTyped /\ LatencyTyped /\ ReplyTyped /\ HandlerTyped /\ Flags
    /\ Recorded /\ RepliesAdvance /\ DriftIsAccountedFor

Typed == SpeechTyped /\ LatencyTyped /\ ReplyTyped /\ HandlerTyped /\ Flags

LEMMA TypedIsTypeOK == Typed => TypeOK
  BY DEF Typed, SpeechTyped, LatencyTyped, ReplyTyped, HandlerTyped, Flags, TypeOK, Range,
         Stream

LEMMA CallsAreFinite == IsFiniteSet(Call) /\ \A S \in SUBSET Call : IsFiniteSet(S)
<1>1. IsFiniteSet(Turn) /\ IsFiniteSet(1 .. MAX_CALLS)
  BY LogTurnAssumption, FS_Interval DEF Turn
<1>2. IsFiniteSet(Call)
  BY <1>1, FS_Product DEF Call
<1> QED
  BY <1>2, FS_Subset

LEMMA InitIInv == Init => IInv
<1> SUFFICES ASSUME Init PROVE IInv
  OBVIOUS
<1> USE LogTurnAssumption
<1>1. SpeechTyped /\ LatencyTyped /\ ReplyTyped /\ HandlerTyped /\ Flags
  <2>1. SpeechTyped
    BY DEF Init, SpeechTyped
  <2>2. LatencyTyped
    BY DEF Init, LatencyTyped
  <2>3. ReplyTyped
    BY DEF Init, ReplyTyped
  <2>4. HandlerTyped
    BY DEF Init, HandlerTyped
  <2>5. Flags
    BY DEF Init, Flags
  <2> QED
    BY <2>1, <2>2, <2>3, <2>4, <2>5
<1>2. Recorded
  BY DEF Init, Recorded
<1>3. RepliesAdvance
  <2>1. /\ due = 0 /\ replying = 0 /\ turn = 0 /\ open = FALSE
        /\ \A t \in Turn, k \in 1 .. MAX_CALLS : stage[<<t, k>>] = "none"
    BY DEF Init, Call
  <2> QED
    BY <2>1 DEF RepliesAdvance
<1>4. DriftIsAccountedFor
  <2>1. Behind = {} /\ Ingesting = {} /\ ingest_failed = 0
    BY DEF Init, Behind, Ingesting
  <2>2. Cardinality(Behind) <= ingest_failed + Cardinality(Ingesting)
    BY <2>1, FS_EmptySet
  <2> QED
    BY <2>2 DEF DriftIsAccountedFor, Behind, Ingesting
<1> QED
  BY <1>1, <1>2, <1>3, <1>4 DEF IInv

-----------------------------------------------------------------------------
(* What each part of a step preserves.                                     *)

(* The latency observer keeps its types, whatever frame it sees.           *)
LEMMA ObserverTyped ==
    ASSUME SpeechTyped, LatencyTyped, NEW f \in Frame, OnPushFrame(f),
           clock' \in Nat, clock <= clock'
    PROVE  LatencyTyped'
<1> USE LogTurnAssumption DEF LatencyTyped, SpeechTyped
<1>1. CASE UNCHANGED <<latency, pending_ms>>
  BY <1>1 DEF latency
<1>2. CASE Remember(f.id) /\ ~UNCHANGED <<latency, pending_ms>>
  <2>1. f.id \in Nat /\ f.onset \in 0 .. MAX_ONSETS
    BY DEF Frame
  <2>2. seen' \in Seq(Nat) /\ Len(seen') <= SEEN_RING_SIZE
    BY <1>2, <2>1 DEF Remember
  <2>3. /\ bot_stopped_at' \in 0 .. clock' /\ pending_ms' \in 0 .. MAX_ONSETS
    <3>1. /\ bot_stopped_at' \in {0, bot_stopped_at, clock'}
          /\ pending_ms' \in {pending_ms, f.onset}
      BY <1>2 DEF OnPushFrame, Measure, Arm
    <3> QED
      BY <2>1, <3>1
  <2> QED
    BY <2>2, <2>3
<1> QED
  BY <1>1, <1>2 DEF OnPushFrame

(* A frame of the user sets or clears the flag, the others leave it.       *)
LEMMA ObserverFlag ==
    ASSUME NEW f, OnPushFrame(f), user_speaking \in BOOLEAN
    PROVE  user_speaking' \in BOOLEAN
BY DEF OnPushFrame, latency

(* A push keeps the types of the frames and of the observer.               *)
LEMMA PushTyped ==
    ASSUME SpeechTyped, LatencyTyped, NEW kind \in Kind, Push(kind),
           clock' \in Nat, clock <= clock'
    PROVE  LatencyTyped' /\ frames' \in Nat /\ flying' \subseteq Frame
           /\ (user_speaking \in BOOLEAN => user_speaking' \in BOOLEAN)
<1> DEFINE f == [id |-> frames + 1, kind |-> kind, onset |-> onset, at |-> started]
<1>1. f \in Frame
  BY DEF SpeechTyped, Frame
<1>2. OnPushFrame(f) /\ frames' = f.id /\ flying' = flying \cup {f}
  BY DEF Push
<1> QED
  BY <1>1, <1>2, ObserverTyped, ObserverFlag DEF SpeechTyped

(* A step that does not touch the handlers keeps what is said of them.     *)
LEMMA HandlersStay ==
    ASSUME IInv, UNCHANGED <<stage, sink, cut>>
    PROVE  HandlerTyped' /\ Recorded' /\ DriftIsAccountedFor'
BY DEF IInv, HandlerTyped, Recorded, DriftIsAccountedFor, sink

(* A step of one handler, after its call was made.                         *)
LEMMA RepliesStay ==
    ASSUME IInv, NEW c \in Call, stage[c] # "none",
           UNCHANGED <<due, turn, open, replying, made>>,
           \E to : stage' = [stage EXCEPT ![c] = to]
    PROVE  RepliesAdvance'
<1>1. \A d \in Call : stage'[d] # "none" => stage[d] # "none"
  BY DEF IInv, HandlerTyped
<1>2. \A t \in Turn, k \in 1 .. MAX_CALLS : <<t, k>> \in Call
  BY DEF Call
<1> QED
  BY <1>1, <1>2 DEF IInv, RepliesAdvance

-----------------------------------------------------------------------------
(* The steps.                                                              *)

LEMMA SpeechStep ==
    ASSUME IInv,
           \/ Speak \/ VADStart \/ VADStop \/ EndTurn \/ BotStart \/ BotStop
           \/ (\E f \in flying : PushOn(f)) \/ PushOtherFrames
    PROVE  IInv'
<1> USE LogTurnAssumption
<1>1. HandlerTyped' /\ Recorded' /\ DriftIsAccountedFor'
  BY HandlersStay DEF Speak, VADStart, VADStop, EndTurn, BotStart, BotStop, PushOn,
                      PushOtherFrames, history
<1>2. CASE Speak
  <2>1. SpeechTyped' /\ LatencyTyped' /\ ReplyTyped'
    BY <1>2 DEF IInv, Speak, SpeechTyped, LatencyTyped, ReplyTyped, latency, llm, history
  <2>2. /\ UNCHANGED <<due, replying, made, stage>> /\ open' = TRUE
        /\ turn' = IF open THEN turn ELSE turn + 1
        /\ turn \in Nat /\ due \in Nat /\ replying \in Nat
    BY <1>2 DEF IInv, Speak, SpeechTyped, ReplyTyped, llm
  <2>3. RepliesAdvance'
    BY <2>2 DEF IInv, RepliesAdvance, Turn
  <2>4. Flags'
    BY <1>2 DEF IInv, Flags, Speak, latency, history
  <2> QED
    BY <1>1, <2>1, <2>3, <2>4 DEF IInv
<1>3. CASE EndTurn
  <2>1. SpeechTyped' /\ LatencyTyped' /\ ReplyTyped'
    BY <1>3 DEF IInv, EndTurn, SpeechTyped, LatencyTyped, ReplyTyped, latency, history
  <2>2. RepliesAdvance'
    BY <1>3 DEF IInv, EndTurn, RepliesAdvance, SpeechTyped, ReplyTyped, Turn
  <2>3. Flags'
    BY <1>3 DEF IInv, Flags, EndTurn, latency, history
  <2> QED
    BY <1>1, <2>1, <2>2, <2>3 DEF IInv
<1>4. CASE VADStart \/ VADStop \/ BotStart \/ BotStop
  <2>1. /\ UNCHANGED <<onset, turn, open, started, fresh, llm, log_turn_seen, missing, history, stage>>
        /\ clock' \in Nat /\ clock <= clock'
    BY <1>4 DEF IInv, SpeechTyped, VADStart, VADStop, BotStart, BotStop
  <2>2. PICK kind \in Kind : Push(kind)
    <3>1. VADStart => Push("user_started")
      BY DEF VADStart
    <3>2. VADStop => Push("user_stopped")
      BY DEF VADStop
    <3>3. BotStart => Push("bot_started")
      BY DEF BotStart
    <3>4. BotStop => Push("bot_stopped")
      BY DEF BotStop
    <3> QED
      BY <1>4, <3>1, <3>2, <3>3, <3>4 DEF Kind
  <2>3. LatencyTyped' /\ frames' \in Nat /\ flying' \subseteq Frame
        /\ (user_speaking \in BOOLEAN => user_speaking' \in BOOLEAN)
    BY <2>1, <2>2, PushTyped DEF IInv
  <2>4. /\ voice' \in {"silent", "speaking", "heard"} /\ bot' \in {"quiet", "speaks"}
        /\ parts' \in 0 .. MAX_PARTS
    <3>1. CASE VADStart \/ VADStop
      BY <3>1 DEF IInv, SpeechTyped, VADStart, VADStop
    <3>2. CASE BotStart
      BY <3>2 DEF IInv, SpeechTyped, BotStart
    <3>3. CASE BotStop
      BY <3>3 DEF IInv, SpeechTyped, BotStop
    <3> QED
      BY <1>4, <3>1, <3>2, <3>3
  <2>5. SpeechTyped'
    BY <2>1, <2>3, <2>4 DEF IInv, SpeechTyped
  <2>6. ReplyTyped' /\ RepliesAdvance'
    BY <2>1 DEF IInv, ReplyTyped, RepliesAdvance, llm, history
  <2>7. interrupting' \in BOOLEAN
    BY <1>4 DEF IInv, Flags, VADStart, VADStop, BotStart, BotStop
  <2>8. Flags'
    BY <2>1, <2>3, <2>7 DEF IInv, Flags, history
  <2> QED
    BY <1>1, <2>3, <2>5, <2>6, <2>8 DEF IInv
<1>5. ASSUME NEW f \in flying, PushOn(f) PROVE IInv'
  <2>1. /\ UNCHANGED <<voice, onset, turn, open, bot, parts, started, fresh, frames,
                        interrupting, llm, log_turn_seen, missing, history, stage>>
        /\ flying' = flying \ {f} /\ OnPushFrame(f) /\ clock' \in {clock, clock + 1}
    BY <1>5 DEF PushOn
  <2>2. f \in Frame /\ clock \in Nat /\ clock' \in Nat /\ clock <= clock'
    BY <2>1 DEF IInv, SpeechTyped
  <2>3. LatencyTyped'
    BY <2>1, <2>2, ObserverTyped DEF IInv
  <2>4. SpeechTyped' /\ ReplyTyped' /\ RepliesAdvance'
    BY <2>1, <2>2 DEF IInv, SpeechTyped, ReplyTyped, RepliesAdvance, llm, history
  <2>5. user_speaking' \in BOOLEAN
    BY <2>1, ObserverFlag DEF IInv, Flags
  <2>6. Flags'
    BY <2>1, <2>5 DEF IInv, Flags, history
  <2> QED
    BY <1>1, <2>3, <2>4, <2>6 DEF IInv
<1>6. CASE PushOtherFrames
  <2>1. /\ UNCHANGED <<speech, flying, interrupting, bot_stopped_at, user_speaking, pending_ms,
                        llm, log_turn_seen, missing, history, stage>>
        /\ seen # <<>> /\ seen' = Tail(seen)
    BY <1>6 DEF PushOtherFrames
  <2>2. LatencyTyped'
    BY <2>1 DEF IInv, LatencyTyped, speech
  <2>3. SpeechTyped' /\ ReplyTyped' /\ RepliesAdvance' /\ Flags'
    BY <2>1 DEF IInv, SpeechTyped, ReplyTyped, RepliesAdvance, Flags, speech, llm, history
  <2> QED
    BY <1>1, <2>2, <2>3 DEF IInv
<1> QED
  BY <1>2, <1>3, <1>4, <1>5, <1>6

LEMMA ReplyStep ==
    ASSUME IInv, StartReply \/ EndReply \/ ProcessFrame
    PROVE  IInv'
<1> USE LogTurnAssumption
<1>1. HandlerTyped' /\ Recorded' /\ DriftIsAccountedFor'
  BY HandlersStay DEF StartReply, EndReply, ProcessFrame, history
<1>2. /\ UNCHANGED <<voice, onset, turn, open, bot, clock, started, fresh, frames, flying,
                      interrupting, latency, pending_ms, stage, malformed, dropped>>
      /\ parts' \in {parts, MAX_PARTS} /\ missing' \in {missing, missing + 1}
      /\ quiet' \in {quiet, IF replying # 0 THEN quiet \cup {replying} ELSE quiet}
  BY DEF StartReply, EndReply, ProcessFrame, speech, history
<1>3. SpeechTyped' /\ LatencyTyped'
  BY <1>2 DEF IInv, SpeechTyped, LatencyTyped, latency
<1>4. Flags'
  <2>1. log_turn_seen' \in BOOLEAN
    BY DEF IInv, Flags, StartReply, EndReply, ProcessFrame
  <2> QED
    BY <1>2, <2>1 DEF IInv, Flags, latency
<1>5. /\ due' \in {0, due} /\ replying' \in {0, due, replying} /\ made' \in {0, made}
      /\ replying' = due => due' = 0 \/ due = replying
      /\ due' # 0 => replying' \in {0, replying}
      /\ replying' # 0 => \/ replying' = replying /\ made' = made /\ due' = due
                          \/ replying' = due /\ due' = 0
  BY DEF StartReply, EndReply, ProcessFrame
<1>6. stream' \in Seq(Stream)
  <2>1. \/ stream' \in {Append(stream, "start"), Append(stream, "end")}
        \/ stream # <<>> /\ stream' = Tail(stream)
    BY DEF StartReply, EndReply, ProcessFrame
  <2>2. stream \in Seq(Stream)
    BY DEF IInv, ReplyTyped
  <2> QED
    BY <2>1, <2>2 DEF Stream
<1>7. ReplyTyped'
  BY <1>2, <1>5, <1>6 DEF IInv, ReplyTyped, Turn
<1>8. RepliesAdvance'
  <2>1. due \in Nat /\ replying \in Nat /\ turn \in Nat
    BY DEF IInv, SpeechTyped, ReplyTyped
  <2> QED
    BY <1>2, <1>5, <2>1 DEF IInv, RepliesAdvance, Turn
<1> QED
  BY <1>1, <1>3, <1>4, <1>7, <1>8 DEF IInv

LEMMA CallStep ==
    ASSUME IInv, CallLogTurn
    PROVE  IInv'
<1> USE LogTurnAssumption
<1> DEFINE new == <<replying, made + 1>>
<1>1. new \in Call /\ stage[new] = "none"
  BY DEF IInv, CallLogTurn, ReplyTyped, HandlerTyped, RepliesAdvance, Call, Turn
<1>2. SpeechTyped' /\ LatencyTyped'
  BY DEF IInv, SpeechTyped, LatencyTyped, CallLogTurn, speech, latency
<1>3. ReplyTyped'
  BY DEF IInv, ReplyTyped, Stream, CallLogTurn, history
<1>4. HandlerTyped'
  BY <1>1 DEF IInv, HandlerTyped, CallLogTurn, sink, history
<1>5. Recorded' /\ {c \in Call : stage'[c] = "ingesting"} = Ingesting
  BY <1>1 DEF IInv, HandlerTyped, Recorded, Ingesting, CallLogTurn, sink, history
<1>6. DriftIsAccountedFor'
  BY <1>5 DEF IInv, DriftIsAccountedFor, Ingesting, CallLogTurn, sink, history
<1>7. RepliesAdvance'
  <2>1. /\ made' = made + 1 /\ UNCHANGED <<due, turn, open, replying>> /\ replying # 0
        /\ stage' = [stage EXCEPT ![new] = "called"]
    BY DEF CallLogTurn, speech
  <2>2. \A t \in Turn, k \in 1 .. MAX_CALLS :
            <<t, k>> # new => stage'[<<t, k>>] = stage[<<t, k>>]
    BY <1>1, <2>1 DEF IInv, HandlerTyped, Call
  <2>3. \A t \in Turn, k \in 1 .. MAX_CALLS : <<t, k>> = new => t = replying /\ k = made + 1
    OBVIOUS
  <2> QED
    BY <2>1, <2>2, <2>3 DEF IInv, RepliesAdvance, ReplyTyped, SpeechTyped, Turn
<1>8. Flags'
  BY DEF IInv, Flags, CallLogTurn, speech, latency, history
<1> QED
  BY <1>2, <1>3, <1>4, <1>5, <1>6, <1>7, <1>8 DEF IInv

LEMMA HandlerStep ==
    ASSUME IInv, NEW c \in Call, Handler(c)
    PROVE  IInv'
<1> USE LogTurnAssumption
<1>0. /\ Behind \subseteq Call /\ Ingesting \subseteq Behind
      /\ IsFiniteSet(Behind) /\ IsFiniteSet(Ingesting)
      /\ Cardinality(Behind) \in Nat /\ Cardinality(Ingesting) \in Nat
      /\ Cardinality(Behind) <= ingest_failed + Cardinality(Ingesting)
      /\ ingest_failed \in Nat
  <2>1. Behind \subseteq Call /\ Ingesting \subseteq Behind
    BY DEF IInv, HandlerTyped, Recorded, Ingesting, Behind
  <2>2. IsFiniteSet(Behind) /\ IsFiniteSet(Ingesting)
    BY <2>1, CallsAreFinite
  <2> QED
    BY <2>1, <2>2, FS_CardinalityType DEF IInv, HandlerTyped, DriftIsAccountedFor, Ingesting, Behind
<1>1. stage[c] # "none" /\ \E to : stage' = [stage EXCEPT ![c] = to]
  BY DEF Handler, Refuse, Record, Ingest, IngestFails, Answer
<1>2. UNCHANGED <<speech, flying, interrupting, latency, llm, log_turn_seen, dropped, cut>>
  BY DEF Handler, Refuse, Record, Ingest, IngestFails, Answer, history
<1>3. SpeechTyped' /\ RepliesAdvance'
  BY <1>1, <1>2, RepliesStay DEF IInv, SpeechTyped, speech, llm
<1>4. LatencyTyped'
  BY <1>2 DEF IInv, LatencyTyped, latency, speech, Handler, Refuse, Record, Ingest, IngestFails,
              Answer
<1>5. ReplyTyped'
  BY <1>2 DEF IInv, ReplyTyped, llm, Handler, Refuse, Record, Ingest, IngestFails, Answer, history
<1>6. HandlerTyped' /\ Recorded'
  <2>1. HandlerTyped'
    <3>1. stage' \in [Call -> {"none", "called", "ingesting", "answering", "answered",
                               "cancelled"}]
      BY DEF IInv, HandlerTyped, Handler, Refuse, Record, Ingest, IngestFails, Answer
    <3>2. attached' = attached \/ attached' = [attached EXCEPT ![c] = pending_ms]
      BY DEF Handler, Refuse, Record, Ingest, IngestFails, Answer, sink
    <3>3. attached' \in [Call -> 0 .. MAX_ONSETS]
      BY <3>2 DEF IInv, HandlerTyped, LatencyTyped
    <3>4. file' \subseteq Call /\ db' \subseteq file' /\ cut' \subseteq file'
      BY <1>2 DEF IInv, HandlerTyped, Recorded, Handler, Refuse, Record, Ingest, IngestFails,
                  Answer, sink
    <3>5. ingest_failed' \in {ingest_failed, ingest_failed + 1}
      BY DEF Handler, Refuse, Record, Ingest, IngestFails, Answer, sink
    <3> QED
      BY <3>1, <3>3, <3>4, <3>5 DEF IInv, HandlerTyped
  <2>2. Recorded'
    BY <1>2 DEF IInv, HandlerTyped, Recorded, Handler, Refuse, Record, Ingest, IngestFails,
                Answer, sink
  <2> QED
    BY <2>1, <2>2
<1>7. DriftIsAccountedFor'
  <2> SUFFICES Cardinality(Behind') <= ingest_failed' + Cardinality(Ingesting')
    BY DEF DriftIsAccountedFor, Ingesting, Behind
  <2>1. CASE Refuse(c) \/ Answer(c)
    <3>1. Behind' = Behind /\ Ingesting' = Ingesting /\ ingest_failed' = ingest_failed
      BY <1>2, <2>1 DEF Refuse, Answer, sink, IInv, HandlerTyped, Ingesting, Behind
    <3> QED
      BY <1>0, <3>1
  <2>2. CASE Record(c) /\ stage'[c] = "answering"
    <3>1. Behind' = Behind /\ Ingesting' = Ingesting /\ ingest_failed' = ingest_failed
      BY <1>2, <2>2 DEF Record, IInv, HandlerTyped, Ingesting, Behind
    <3> QED
      BY <1>0, <3>1
  <2>3. CASE Record(c) /\ stage'[c] # "answering"
    <3>1. /\ file' = file \cup {c} /\ db' = db /\ stage' = [stage EXCEPT ![c] = "ingesting"]
          /\ ingest_failed' = ingest_failed /\ stage[c] = "called"
      BY <2>3 DEF Record, IInv, HandlerTyped
    <3>2. c \notin file /\ c \notin db /\ c \notin cut
      BY <3>1 DEF IInv, HandlerTyped, Recorded
    <3>3. Behind' = Behind \cup {c} /\ c \notin Behind
      BY <1>2, <3>1, <3>2 DEF Behind
    <3>4. Ingesting' = Ingesting \cup {c} /\ c \notin Ingesting
      BY <3>1 DEF IInv, HandlerTyped, Ingesting
    <3>5. /\ Cardinality(Behind \cup {c}) = Cardinality(Behind) + 1
          /\ Cardinality(Ingesting \cup {c}) = Cardinality(Ingesting) + 1
      BY <1>0, <3>3, <3>4, FS_AddElement
    <3> QED
      BY <1>0, <3>1, <3>3, <3>4, <3>5
  <2>4. CASE Ingest(c)
    <3>1. /\ Behind' = Behind \ {c} /\ c \in Behind /\ Ingesting' = Ingesting \ {c} /\ c \in Ingesting
          /\ ingest_failed' = ingest_failed
      BY <1>2, <2>4 DEF Ingest, IInv, HandlerTyped, Recorded, Ingesting,
                          Behind
    <3>2. /\ Cardinality(Behind \ {c}) = Cardinality(Behind) - 1
          /\ Cardinality(Ingesting \ {c}) = Cardinality(Ingesting) - 1
      BY <1>0, <3>1, FS_RemoveElement
    <3> QED
      BY <1>0, <3>1, <3>2
  <2>5. CASE IngestFails(c)
    <3>1. /\ Behind' \subseteq Behind /\ Ingesting' = Ingesting \ {c} /\ c \in Ingesting
          /\ ingest_failed' = ingest_failed + 1
      BY <1>2, <2>5 DEF IngestFails, IInv, HandlerTyped, Recorded, Ingesting,
                          Behind
    <3>2. Cardinality(Ingesting \ {c}) = Cardinality(Ingesting) - 1
      BY <1>0, <3>1, FS_RemoveElement
    <3>3. IsFiniteSet(Behind') /\ Cardinality(Behind') <= Cardinality(Behind)
      BY <1>0, <3>1, FS_Subset
    <3>4. Cardinality(Behind') \in Nat
      BY <3>3, FS_CardinalityType
    <3> QED
      BY <1>0, <3>1, <3>2, <3>3, <3>4
  <2> QED
    BY <2>1, <2>2, <2>3, <2>4, <2>5 DEF Handler
<1>8. Flags'
  BY <1>2 DEF IInv, Flags, speech, latency
<1> QED
  BY <1>3, <1>4, <1>5, <1>6, <1>7, <1>8 DEF IInv

LEMMA InterruptStep ==
    ASSUME IInv, Interrupt
    PROVE  IInv'
<1> USE LogTurnAssumption
<1>1. SpeechTyped' /\ LatencyTyped'
  <2>1. /\ UNCHANGED <<voice, onset, turn, open, bot, clock, started, fresh, frames, flying,
                        latency, pending_ms>>
        /\ parts' = 0
    BY DEF Interrupt
  <2> QED
    BY <2>1 DEF IInv, SpeechTyped, LatencyTyped, latency
<1>2. ReplyTyped'
  <2>1. stream' \in Seq(Stream)
    <3> DEFINE calls == {i \in DOMAIN stream : stream[i] = "call"}
               kept == [i \in 1 .. Cardinality(calls) |-> "call"]
    <3>1. IsFiniteSet(calls)
      <4>1. IsFiniteSet(1 .. Len(stream)) /\ calls \subseteq 1 .. Len(stream)
        BY FS_Interval DEF IInv, ReplyTyped
      <4> QED
        BY <4>1, FS_Subset
    <3>2. kept \in Seq(Stream)
      BY <3>1, FS_CardinalityType DEF Stream
    <3>3. Append(kept, "end") \in Seq(Stream)
      BY <3>2 DEF Stream
    <3> HIDE DEF kept
    <3>4. stream' \in {kept, Append(kept, "end")}
      BY DEF Interrupt, kept
    <3> QED
      BY <3>2, <3>3, <3>4
  <2> QED
    BY <2>1 DEF IInv, ReplyTyped, Interrupt, Turn
<1>3. /\ cut' = cut \cup Ingesting /\ UNCHANGED <<attached, file, ingest_failed>>
      /\ \E committed \in SUBSET Ingesting : db' = db \cup committed
  BY DEF Interrupt, Ingesting
<1>4. /\ stage' \in [Call -> {"none", "called", "ingesting", "answering", "answered",
                              "cancelled"}]
      /\ \A c \in Call : /\ stage'[c] = "none" <=> stage[c] = "none"
                         /\ stage'[c] \notin {"called", "ingesting"}
  BY DEF IInv, HandlerTyped, Interrupt
<1>5. Ingesting \subseteq Behind /\ Behind \subseteq Call
  BY DEF IInv, HandlerTyped, Recorded, Ingesting, Behind
<1>6. HandlerTyped'
  BY <1>3, <1>4, <1>5 DEF IInv, HandlerTyped, Behind
<1>7. Recorded'
  BY <1>3, <1>4 DEF IInv, Recorded
<1>8. RepliesAdvance'
  <2>1. due' = 0 /\ replying' = 0 /\ UNCHANGED <<turn, open>> /\ turn \in Nat
    BY DEF IInv, SpeechTyped, Interrupt
  <2>2. \A t \in Turn, k \in 1 .. MAX_CALLS :
            stage'[<<t, k>>] # "none" => stage[<<t, k>>] # "none"
    BY <1>4 DEF Call
  <2> QED
    BY <2>1, <2>2 DEF IInv, RepliesAdvance, ReplyTyped, Turn
<1>9. DriftIsAccountedFor'
  <2>1. Behind' = Behind \ Ingesting /\ Ingesting' = {}
    BY <1>3, <1>4 DEF Behind, Ingesting
  <2>2. IsFiniteSet(Behind) /\ IsFiniteSet(Ingesting)
    BY <1>5, CallsAreFinite
  <2>3. /\ Cardinality(Behind) \in Nat /\ Cardinality(Ingesting) \in Nat
        /\ ingest_failed \in Nat
    BY <2>2, FS_CardinalityType DEF IInv, HandlerTyped
  <2>4. Behind \cap Ingesting = Ingesting
    BY <1>5
  <2>5. Cardinality(Behind \ Ingesting) =
            Cardinality(Behind) - Cardinality(Behind \cap Ingesting)
    BY <2>2, FS_Difference
  <2>6. Cardinality(Behind) <= ingest_failed + Cardinality(Ingesting)
    BY DEF IInv, DriftIsAccountedFor, Ingesting, Behind
  <2>7. Cardinality(Behind') <= ingest_failed'
    <3>1. Cardinality(Behind') = Cardinality(Behind \ Ingesting)
      BY <2>1, Zenon
    <3>2. Cardinality(Behind \cap Ingesting) = Cardinality(Ingesting)
      BY <2>4, Zenon
    <3> QED
      BY <1>3, <2>3, <2>5, <2>6, <3>1, <3>2
  <2>8. Cardinality(Behind') <= ingest_failed' + Cardinality(Ingesting')
    BY <1>3, <2>1, <2>3, <2>7, FS_EmptySet
  <2> QED
    BY <2>8 DEF DriftIsAccountedFor, Ingesting, Behind
<1>10. Flags'
  <2>1. dropped' \in BOOLEAN
    BY DEF Interrupt
  <2>2. interrupting' = FALSE /\ UNCHANGED <<open, latency, log_turn_seen>>
    BY DEF Interrupt
  <2> QED
    BY <2>1, <2>2 DEF IInv, Flags, latency
<1> QED
  BY <1>1, <1>2, <1>6, <1>7, <1>8, <1>9, <1>10 DEF IInv

LEMMA StepIInv == IInv /\ [Next]_vars => IInv'
<1> SUFFICES ASSUME IInv, [Next]_vars PROVE IInv'
  OBVIOUS
<1>1. CASE UNCHANGED vars
  <2>1. HandlerTyped' /\ Recorded' /\ DriftIsAccountedFor'
    BY <1>1, HandlersStay DEF vars, history
  <2> QED
    BY <1>1, <2>1 DEF vars, speech, latency, llm, history, IInv, SpeechTyped, LatencyTyped,
                      ReplyTyped, Flags, RepliesAdvance
<1> QED
  BY <1>1, SpeechStep, ReplyStep, CallStep, HandlerStep, InterruptStep DEF Next

-----------------------------------------------------------------------------
(* Every variable keeps its type, whatever frames overtake each other and  *)
(* whoever interrupts.                                                     *)
THEOREM TypeCorrect == Spec => []TypeOK
<1>1. IInv => TypeOK
  BY TypedIsTypeOK DEF IInv, Typed
<1> QED
  BY <1>1, InitIInv, StepIInv, PTL DEF Spec

(* Every observation on disk that the store has not is under way, was cut  *)
(* off, or is counted, for any number of calls that fail or are cancelled. *)
THEOREM DriftAccountedFor == Spec => []DriftIsAccountedFor
<1>1. IInv => DriftIsAccountedFor
  BY DEF IInv
<1> QED
  BY <1>1, InitIInv, StepIInv, PTL DEF Spec

-----------------------------------------------------------------------------
(* What the latency observer measures, if no frame of speech is still on   *)
(* its way when its id leaves the ring: one that is pushed again is known, *)
(* so that only the event itself moves the observer.                       *)

RingInv ==
    /\ \A i \in 1 .. Len(seen) : seen[i] <= frames
    /\ \A f \in flying : f.id \in Range(seen)

watch == <<bot_stopped_at, user_speaking, records>>

LEMMA NewIdIsUnknown ==
    ASSUME IInv, RingInv
    PROVE  frames + 1 \notin Range(seen)
<1>1. /\ seen \in Seq(Nat) /\ frames \in Nat
  BY DEF IInv, LatencyTyped, SpeechTyped
<1>2. \A i \in DOMAIN seen : seen[i] # frames + 1
  BY <1>1 DEF RingInv
<1> QED
  BY <1>2 DEF Range

(* A frame that goes through one more processor leaves the observer alone. *)
LEMMA PushOnIsIgnored ==
    ASSUME IInv, RingInv, NEW f \in flying, PushOn(f)
    PROVE  UNCHANGED <<latency, pending_ms, clock>>
<1>1. f.id \in Range(seen)
  BY DEF RingInv
<1> QED
  BY <1>1 DEF PushOn, OnPushFrame

(* A new frame moves it.                                                   *)
LEMMA PushMoves ==
    ASSUME IInv, RingInv, NEW kind \in Kind, Push(kind)
    PROVE  LET f == [id |-> frames + 1, kind |-> kind, onset |-> onset, at |-> started]
           IN  /\ frames' = frames + 1 /\ flying' = flying \cup {f}
               /\ Len(seen) = SEEN_RING_SIZE => OldestMayGo
               /\ Remember(frames + 1)
               /\ kind = "user_started" => user_speaking' = TRUE /\ Measure(f)
               /\ kind = "user_stopped" => /\ user_speaking' = FALSE
                                           /\ UNCHANGED <<bot_stopped_at, pending_ms, records>>
               /\ kind = "bot_started" => /\ bot_stopped_at' = 0
                                          /\ UNCHANGED <<user_speaking, pending_ms, records>>
               /\ kind = "bot_stopped" => /\ Arm
                                          /\ UNCHANGED <<user_speaking, pending_ms, records>>
<1> DEFINE new == [id |-> frames + 1, kind |-> kind, onset |-> onset, at |-> started]
<1>1. new.id \notin Range(seen) /\ new.kind = kind /\ new.id = frames + 1
  BY NewIdIsUnknown
<1>2. /\ OnPushFrame(new) /\ frames' = new.id /\ flying' = flying \cup {new}
      /\ Len(seen) = SEEN_RING_SIZE => OldestMayGo
  BY DEF Push
<1> HIDE DEF new
<1>3. /\ Remember(new.id)
      /\ \/ kind = "user_started" /\ user_speaking' = TRUE /\ Measure(new)
         \/ /\ kind = "user_stopped" /\ user_speaking' = FALSE
            /\ UNCHANGED <<bot_stopped_at, pending_ms, records>>
         \/ /\ kind = "bot_started" /\ bot_stopped_at' = 0
            /\ UNCHANGED <<user_speaking, pending_ms, records>>
         \/ /\ kind = "bot_stopped" /\ Arm
            /\ UNCHANGED <<user_speaking, pending_ms, records>>
  BY <1>1, <1>2 DEF OnPushFrame
<1>5. Remember(frames + 1)
  BY <1>1, <1>3
<1>6. /\ kind = "user_started" => user_speaking' = TRUE /\ Measure(new)
      /\ kind = "user_stopped" => /\ user_speaking' = FALSE
                                  /\ UNCHANGED <<bot_stopped_at, pending_ms, records>>
      /\ kind = "bot_started" => /\ bot_stopped_at' = 0
                                 /\ UNCHANGED <<user_speaking, pending_ms, records>>
      /\ kind = "bot_stopped" => Arm /\ UNCHANGED <<user_speaking, pending_ms, records>>
  BY <1>3
<1> QED
  BY <1>1, <1>2, <1>5, <1>6 DEF new

(* The oldest id goes only when its frame has arrived.                     *)
LEMMA TailKeeps ==
    ASSUME Timely, RingInv, OldestMayGo, seen \in Seq(Nat), seen # <<>>,
           NEW kept, kept = Tail(seen)
    PROVE  kept \in Seq(Nat) /\ \A g \in flying : g.id \in Range(kept)
<1>1. /\ kept \in Seq(Nat) /\ Len(seen) \in Nat \ {0} /\ Head(seen) = seen[1]
      /\ DOMAIN seen = 1 .. Len(seen) /\ DOMAIN kept = 1 .. Len(seen) - 1
      /\ \A i \in 1 .. Len(seen) - 1 : kept[i] = seen[i + 1]
  OBVIOUS
<1>2. ASSUME NEW g \in flying PROVE g.id \in Range(kept)
  <2>1. PICK i \in DOMAIN seen : seen[i] = g.id
    BY DEF RingInv, Range
  <2>2. i # 1
    BY <1>1, <2>1 DEF OldestMayGo
  <2>3. i - 1 \in DOMAIN kept /\ kept[i - 1] = g.id
    <3>1. i - 1 \in 1 .. Len(seen) - 1 /\ (i - 1) + 1 = i
      BY <1>1, <2>1, <2>2
    <3> QED
      BY <1>1, <2>1, <3>1
  <2> QED
    BY <2>3 DEF Range
<1> QED
  BY <1>1, <1>2

LEMMA PushKeepsRing ==
    ASSUME Timely, IInv, RingInv, NEW kind \in Kind, Push(kind)
    PROVE  RingInv'
<1> USE LogTurnAssumption
<1> DEFINE f == [id |-> frames + 1, kind |-> kind, onset |-> onset, at |-> started]
           kept == IF Len(seen) = SEEN_RING_SIZE THEN Tail(seen) ELSE seen
<1>0. seen \in Seq(Nat) /\ frames \in Nat /\ Len(seen) \in Nat
  BY DEF IInv, LatencyTyped, SpeechTyped
<1>1. /\ frames' = frames + 1 /\ flying' = flying \cup {f} /\ f.id = frames + 1
      /\ Len(seen) = SEEN_RING_SIZE => OldestMayGo
      /\ seen' = Append(kept, frames + 1)
  BY PushMoves DEF Remember
<1>2. kept \in Seq(Nat) /\ \A g \in flying : g.id \in Range(kept)
  <2>1. CASE Len(seen) = SEEN_RING_SIZE
    <3>1. kept = Tail(seen) /\ seen # <<>> /\ OldestMayGo
      BY <1>0, <1>1, <2>1
    <3> HIDE DEF kept
    <3> QED
      BY <1>0, <3>1, TailKeeps
  <2>2. CASE Len(seen) # SEEN_RING_SIZE
    BY <1>0, <2>2 DEF RingInv
  <2> QED
    BY <2>1, <2>2
<1>3. \A i \in 1 .. Len(kept) : kept[i] <= frames
  <2>1. CASE Len(seen) = SEEN_RING_SIZE
    BY <1>0, <2>1 DEF RingInv
  <2>2. CASE Len(seen) # SEEN_RING_SIZE
    BY <1>0, <2>2 DEF RingInv
  <2> QED
    BY <2>1, <2>2
<1> HIDE DEF kept, f
<1>4. /\ Len(seen') = Len(kept) + 1 /\ Len(kept) \in Nat /\ seen'[Len(kept) + 1] = frames + 1
      /\ \A i \in 1 .. Len(kept) : seen'[i] = kept[i] /\ kept[i] \in Nat
      /\ DOMAIN seen' = 1 .. Len(kept) + 1 /\ DOMAIN kept = 1 .. Len(kept)
  BY <1>0, <1>1, <1>2
<1>5. \A i \in 1 .. Len(seen') : seen'[i] <= frames'
  <2> SUFFICES ASSUME NEW i \in 1 .. Len(seen') PROVE seen'[i] <= frames'
    OBVIOUS
  <2>1. CASE i = Len(kept) + 1
    BY <1>0, <1>1, <1>4, <2>1
  <2>2. CASE i # Len(kept) + 1
    <3>1. i \in 1 .. Len(kept)
      BY <1>4, <2>2
    <3> QED
      BY <1>0, <1>1, <1>3, <1>4, <3>1
  <2> QED
    BY <2>1, <2>2
<1>6. \A g \in flying' : g.id \in Range(seen')
  <2> SUFFICES ASSUME NEW g \in flying' PROVE g.id \in Range(seen')
    OBVIOUS
  <2>1. CASE g \in flying
    <3>1. PICK i \in DOMAIN kept : kept[i] = g.id
      BY <1>2, <2>1 DEF Range
    <3>2. i \in DOMAIN seen' /\ seen'[i] = g.id
      BY <1>4, <3>1
    <3> QED
      BY <3>2 DEF Range
  <2>2. CASE g = f
    <3>1. Len(kept) + 1 \in DOMAIN seen' /\ seen'[Len(kept) + 1] = g.id
      BY <1>1, <1>4, <2>2
    <3> QED
      BY <3>1 DEF Range
  <2> QED
    BY <1>1, <2>1, <2>2
<1> QED
  BY <1>5, <1>6 DEF RingInv

(* The events that push a frame, and the rest, which leave the observer    *)
(* but for the ids it forgets.                                             *)
LEMMA StepKinds ==
    ASSUME IInv, RingInv, [Next]_vars
    PROVE  \/ VADStart \/ VADStop \/ BotStart \/ BotStop
           \/ /\ UNCHANGED <<frames, watch>> /\ flying' \subseteq flying
              /\ seen' = seen \/ PushOtherFrames
              /\ pending_ms' # pending_ms => \E c \in Call : Record(c)
<1> USE DEF watch, latency
<1>1. CASE UNCHANGED vars
  BY <1>1 DEF vars, speech
<1>2. CASE \E f \in flying : PushOn(f)
  BY <1>2, PushOnIsIgnored DEF PushOn
<1>3. CASE Speak \/ EndTurn \/ Interrupt \/ StartReply \/ CallLogTurn \/ EndReply \/ ProcessFrame
  BY <1>3 DEF Speak, EndTurn, Interrupt, StartReply, CallLogTurn, EndReply, ProcessFrame, speech
<1>4. ASSUME NEW c \in Call, Handler(c)
      PROVE  /\ UNCHANGED <<frames, latency>> /\ flying' \subseteq flying
             /\ pending_ms' # pending_ms => Record(c)
  BY <1>4 DEF Handler, Refuse, Record, Ingest, IngestFails, Answer, speech
<1>5. CASE PushOtherFrames
  BY <1>5 DEF PushOtherFrames, speech
<1> QED
  BY <1>1, <1>2, <1>3, <1>4, <1>5 DEF Next

LEMMA StepRing == ASSUME Timely PROVE IInv /\ RingInv /\ [Next]_vars => RingInv'
<1> SUFFICES ASSUME IInv, RingInv, [Next]_vars PROVE RingInv'
  OBVIOUS
<1>1. CASE VADStart \/ VADStop \/ BotStart \/ BotStop
  BY <1>1, PushKeepsRing DEF VADStart, VADStop, BotStart, BotStop, Kind
<1>2. CASE UNCHANGED <<frames, seen>> /\ flying' \subseteq flying
  BY <1>2 DEF RingInv
<1>3. CASE PushOtherFrames
  <2>1. UNCHANGED <<frames, flying>> /\ seen # <<>> /\ seen' = Tail(seen) /\ OldestMayGo
    BY <1>3 DEF PushOtherFrames, speech
  <2>2. seen \in Seq(Nat)
    BY DEF IInv, LatencyTyped
  <2>3. \A i \in 1 .. Len(seen') : seen'[i] <= frames
    BY <2>1, <2>2 DEF RingInv
  <2>4. \A g \in flying : g.id \in Range(seen')
    BY <2>1, <2>2, TailKeeps
  <2> QED
    BY <2>1, <2>3, <2>4 DEF RingInv
<1> QED
  BY <1>1, <1>2, <1>3, StepKinds

LEMMA InitRing == Init => RingInv
  BY DEF Init, RingInv

-----------------------------------------------------------------------------
(* Anchors.                                                                *)

(* Once the learner has interrupted, the bot stays silent until their turn *)
(* is over: there is no reply it could take up.                            *)
Hushed ==
    (voice = "silent" /\ open) \/ (voice = "heard" /\ ~interrupting)
        => bot = "quiet" /\ parts = 0 /\ due = 0

(* The observer hears the learner when the VAD does.                       *)
HearsTheVAD == user_speaking = (voice = "heard")

(* An onset that the VAD has yet to confirm, and that began no earlier     *)
(* than the anchor, opened a turn while the bot was silent.                *)
OnsetIsFresh ==
    /\ started <= clock
    /\ voice = "speaking" /\ bot_stopped_at # 0 /\ bot_stopped_at <= started
           => onset \in fresh

AnchorInv == Hushed /\ HearsTheVAD /\ OnsetIsFresh /\ AnchorIsClean /\ MeasuresOnlyResponses

LEMMA InitAnchor == Init => AnchorInv
<1> SUFFICES ASSUME Init PROVE AnchorInv
  OBVIOUS
<1>1. Hushed /\ OnsetIsFresh /\ AnchorIsClean
  BY DEF Init, Hushed, OnsetIsFresh, AnchorIsClean
<1>2. HearsTheVAD
  <2>1. user_speaking = FALSE /\ voice # "heard"
    BY DEF Init
  <2> QED
    BY <2>1 DEF HearsTheVAD
<1>3. MeasuresOnlyResponses
  BY DEF Init, MeasuresOnlyResponses, Range
<1> QED
  BY <1>1, <1>2, <1>3 DEF AnchorInv

(* The confirmed onset: the anchor is consumed, and measured if it counts. *)
LEMMA VADStartAnchor ==
    ASSUME IInv, RingInv, AnchorInv, VADStart
    PROVE  AnchorInv'
<1> DEFINE new == [id |-> frames + 1, kind |-> "user_started", onset |-> onset, at |-> started]
<1>1. /\ voice = "speaking" /\ voice' = "heard" /\ interrupting' = TRUE
      /\ UNCHANGED <<onset, open, bot, parts, clock, started, fresh, due>>
  BY DEF VADStart, llm
<1>2. user_speaking' = TRUE /\ Measure(new)
  BY PushMoves DEF VADStart, Kind
<1>3. /\ bot_stopped_at' = 0
      /\ IF bot_stopped_at # 0 /\ started >= bot_stopped_at
           THEN records' = Append(records, onset) ELSE records' = records
  BY <1>2 DEF Measure
<1>4. Hushed' /\ HearsTheVAD' /\ OnsetIsFresh' /\ AnchorIsClean'
  BY <1>1, <1>2, <1>3 DEF AnchorInv, Hushed, HearsTheVAD, OnsetIsFresh, AnchorIsClean
<1>5. MeasuresOnlyResponses'
  <2>1. CASE records' = records
    BY <1>1, <2>1 DEF AnchorInv, MeasuresOnlyResponses, Range
  <2>2. CASE records' # records
    <3>1. onset \in fresh /\ records' = Append(records, onset)
      <4>1. bot_stopped_at # 0 /\ started >= bot_stopped_at /\ records' = Append(records, onset)
        BY <1>3, <2>2
      <4>2. bot_stopped_at <= started
        BY <4>1 DEF IInv, SpeechTyped, LatencyTyped
      <4> QED
        BY <1>1, <4>1, <4>2 DEF AnchorInv, OnsetIsFresh
    <3>2. Range(records') \subseteq Range(records) \cup {onset}
      BY <3>1 DEF Range
    <3> QED
      BY <1>1, <3>1, <3>2 DEF AnchorInv, MeasuresOnlyResponses
  <2> QED
    BY <2>1, <2>2
<1> QED
  BY <1>4, <1>5 DEF AnchorInv

(* The end of speech: the anchor is set, unless the learner speaks.        *)
LEMMA BotStopAnchor ==
    ASSUME IInv, RingInv, AnchorInv, BotStop
    PROVE  AnchorInv'
<1>1. /\ bot = "speaks" /\ bot' = "quiet" /\ clock' = clock + 1 /\ clock \in Nat /\ started \in Nat
      /\ UNCHANGED <<voice, onset, open, interrupting, parts, started, fresh, due>>
  BY DEF IInv, SpeechTyped, BotStop, llm
<1>2. Arm /\ UNCHANGED <<user_speaking, records>>
  BY PushMoves DEF BotStop, Kind
<1>3. bot_stopped_at = 0 /\ ~((voice = "silent" /\ open) \/ (voice = "heard" /\ ~interrupting))
  BY <1>1 DEF AnchorInv, AnchorIsClean, Hushed
<1>4. bot_stopped_at' = IF voice = "heard" THEN 0 ELSE clock + 1
  BY <1>1, <1>2, <1>3 DEF Arm, AnchorInv, HearsTheVAD
<1>5. Hushed' /\ HearsTheVAD'
  BY <1>1, <1>2, <1>3 DEF AnchorInv, Hushed, HearsTheVAD
<1>6. OnsetIsFresh'
  BY <1>1, <1>4 DEF AnchorInv, OnsetIsFresh
<1>7. AnchorIsClean'
  BY <1>1, <1>3, <1>4 DEF AnchorIsClean
<1>8. MeasuresOnlyResponses'
  BY <1>1, <1>2 DEF AnchorInv, MeasuresOnlyResponses
<1> QED
  BY <1>5, <1>6, <1>7, <1>8 DEF AnchorInv

LEMMA StepAnchor == IInv /\ RingInv /\ AnchorInv /\ [Next]_vars => AnchorInv'
<1> SUFFICES ASSUME IInv, RingInv, AnchorInv, [Next]_vars PROVE AnchorInv'
  OBVIOUS
<1> USE DEF AnchorInv, Hushed, HearsTheVAD, OnsetIsFresh, AnchorIsClean, MeasuresOnlyResponses
<1>1. CASE VADStop
  <2>1. user_speaking' = FALSE /\ UNCHANGED <<bot_stopped_at, records>>
    BY <1>1, PushMoves DEF VADStop, Kind
  <2>2. /\ voice = "heard" /\ ~interrupting /\ voice' = "silent"
        /\ UNCHANGED <<onset, open, bot, parts, clock, started, fresh, due>>
    BY <1>1 DEF VADStop, llm
  <2> QED
    BY <2>1, <2>2
<1>2. CASE BotStart
  <2>1. bot_stopped_at' = 0 /\ UNCHANGED <<user_speaking, records>>
    BY <1>2, PushMoves DEF BotStart, Kind
  <2>2. /\ parts > 0 /\ UNCHANGED <<voice, onset, open, interrupting, clock, started, fresh, due>>
        /\ parts \in Nat
    BY <1>2 DEF BotStart, llm, IInv, SpeechTyped
  <2> QED
    BY <2>1, <2>2
<1>3. CASE UNCHANGED <<frames, watch>>
  <2> USE <1>3 DEF watch
  <2>1. CASE Speak
    <3>1. /\ voice = "silent" /\ voice' = "speaking" /\ onset' = onset + 1 /\ started' = clock
          /\ open' = TRUE /\ UNCHANGED <<bot, clock>> /\ clock \in Nat /\ bot \in {"quiet", "speaks"}
          /\ fresh' = IF open \/ bot = "speaks" THEN fresh ELSE fresh \cup {onset + 1}
      BY <2>1 DEF Speak, IInv, SpeechTyped
    <3> QED
      BY <3>1
  <2>2. CASE EndTurn
    BY <2>2 DEF EndTurn
  <2>3. CASE Interrupt
    BY <2>3 DEF Interrupt
  <2>4. CASE StartReply
    BY <2>4 DEF StartReply
  <2>5. CASE CallLogTurn \/ EndReply \/ ProcessFrame
    <3>1. UNCHANGED <<voice, onset, open, bot, parts, clock, started, fresh, interrupting, due>>
      BY <2>5 DEF CallLogTurn, EndReply, ProcessFrame, speech
    <3> QED
      BY <3>1
  <2>6. CASE (\E f \in flying : PushOn(f)) \/ PushOtherFrames
    <3>1. UNCHANGED <<voice, onset, open, bot, parts, clock, started, fresh, interrupting, due>>
      BY <2>6, PushOnIsIgnored DEF PushOn, PushOtherFrames, speech, llm
    <3> QED
      BY <3>1
  <2>7. CASE \E c \in Call : Handler(c)
    BY <2>7 DEF Handler, Refuse, Record, Ingest, IngestFails, Answer, speech, llm
  <2>8. CASE UNCHANGED vars
    BY <2>8 DEF vars, speech, llm
  <2>9. CASE VADStart \/ VADStop \/ BotStart \/ BotStop
    BY <2>9, VADStartAnchor, BotStopAnchor, <1>1, <1>2
  <2> QED
    BY <2>1, <2>2, <2>3, <2>4, <2>5, <2>6, <2>7, <2>8, <2>9 DEF Next
<1> QED
  BY <1>1, <1>2, <1>3, VADStartAnchor, BotStopAnchor, StepKinds

-----------------------------------------------------------------------------
(* Measurements.                                                           *)

(* An onset is measured when it is confirmed, once: what is pending or     *)
(* attached is of an earlier one, and nothing attached is still pending.   *)
MeasuredBefore ==
    /\ pending_ms <= onset /\ (voice = "speaking" => pending_ms < onset)
    /\ \A c \in Call : attached[c] <= onset /\ (voice = "speaking" => attached[c] < onset)
    /\ \A c \in Call : attached[c] # 0 => attached[c] # pending_ms

TakenInv == MeasuredBefore /\ MeasurementIsTakenOnce

LEMMA InitTaken == Init => TakenInv
  BY DEF Init, TakenInv, MeasuredBefore, MeasurementIsTakenOnce

LEMMA StepTaken == IInv /\ RingInv /\ TakenInv /\ [Next]_vars => TakenInv'
<1> SUFFICES ASSUME IInv, RingInv, TakenInv, [Next]_vars PROVE TakenInv'
  OBVIOUS
<1> USE DEF TakenInv, MeasuredBefore, MeasurementIsTakenOnce
<1>0. /\ onset \in Nat /\ pending_ms \in Nat /\ \A c \in Call : attached[c] \in Nat
      /\ voice \in {"silent", "speaking", "heard"} /\ DOMAIN attached = Call
  BY LogTurnAssumption DEF IInv, SpeechTyped, LatencyTyped, HandlerTyped
<1>1. CASE VADStart
  <2>1. /\ voice = "speaking" /\ voice' = "heard" /\ UNCHANGED <<onset, attached>>
    BY <1>1 DEF VADStart, sink
  <2>2. pending_ms' \in {pending_ms, onset}
    BY <1>1, PushMoves DEF VADStart, Kind, Measure
  <2> QED
    BY <1>0, <2>1, <2>2
<1>2. CASE VADStop \/ BotStart \/ BotStop
  <2>1. pending_ms' = pending_ms
    <3>1. CASE VADStop
      BY <3>1, PushMoves DEF VADStop, Kind
    <3>2. CASE BotStart
      BY <3>2, PushMoves DEF BotStart, Kind
    <3>3. CASE BotStop
      BY <3>3, PushMoves DEF BotStop, Kind
    <3> QED
      BY <1>2, <3>1, <3>2, <3>3
  <2>2. UNCHANGED <<onset, attached>> /\ voice' \in {voice, "silent"}
    BY <1>2 DEF VADStop, BotStart, BotStop, sink
  <2> QED
    BY <1>0, <2>1, <2>2
<1>3. ASSUME NEW c \in Call, Record(c) PROVE TakenInv'
  <2>1. UNCHANGED <<onset, voice>> /\ attached' = [attached EXCEPT ![c] = pending_ms] /\ pending_ms' = 0
    BY <1>3 DEF Record, speech
  <2>2. \A d \in Call : attached'[d] = IF d = c THEN pending_ms ELSE attached[d]
    BY <1>0, <2>1
  <2> QED
    BY <1>0, <2>1, <2>2
<1>4. CASE /\ pending_ms' = pending_ms /\ ~(VADStart \/ VADStop \/ BotStart \/ BotStop)
           /\ ~\E c \in Call : Record(c)
  <2>1. attached' = attached
    BY <1>4 DEF Next, Speak, EndTurn, PushOn, PushOtherFrames, StartReply, CallLogTurn, EndReply, ProcessFrame,
                Interrupt, Handler, Refuse, Ingest, IngestFails, Answer, vars, sink
  <2>2. \/ UNCHANGED <<voice, onset>>
        \/ voice' = "speaking" /\ onset' = onset + 1
    BY <1>4 DEF Next, Speak, EndTurn, PushOn, PushOtherFrames, StartReply, CallLogTurn, EndReply, ProcessFrame,
                Interrupt, Handler, Refuse, Ingest, IngestFails, Answer, vars, speech
  <2> QED
    BY <1>0, <1>4, <2>1, <2>2
<1> QED
  BY <1>1, <1>2, <1>3, <1>4, StepKinds

-----------------------------------------------------------------------------
(* The replies without a call.                                             *)

(* The ends under way that will be counted: a start is the frame before.   *)
Unheard ==
    {i \in 1 .. Len(stream) :
        stream[i] = "end" /\ IF i = 1 THEN ~log_turn_seen ELSE stream[i - 1] = "start"}

(* An end is followed by the next start, and the last frame of a reply     *)
(* under way, or the flag once all of them have passed, tells whether it   *)
(* has made a call.                                                        *)
StreamShape ==
    /\ \A i \in 1 .. Len(stream) - 1 : stream[i] = "end" => stream[i + 1] = "start"
    /\ replying # 0 /\ stream # <<>> =>
          stream[Len(stream)] = IF made = 0 THEN "start" ELSE "call"

FlagTells == replying # 0 /\ stream = <<>> => (log_turn_seen <=> made # 0)

(* How many turns had no call, and how many calls were refused.            *)
Quiets == Cardinality(quiet)
Refusals == Cardinality(malformed)

Counted ==
    /\ missing + Cardinality(Unheard) <= Quiets + Refusals
    /\ ~dropped => missing + Cardinality(Unheard) = Quiets + Refusals

(* A turn without a call stays one, and is not replied to again; a call is *)
(* refused after it was made.                                              *)
HistoryInv ==
    /\ \A t \in quiet : /\ t <= turn
                        /\ due # 0 => t < due
                        /\ open => t < turn
                        /\ replying # 0 => t < replying
                        /\ \A k \in 1 .. MAX_CALLS : stage[<<t, k>>] = "none"
    /\ \A c \in malformed : stage[c] \notin {"none", "called"}

(* What is counted is finite, and one more is one more.                    *)
LEMMA CountsAreNumbers ==
    ASSUME IInv
    PROVE  /\ IsFiniteSet(quiet) /\ Quiets \in Nat
           /\ IsFiniteSet(malformed) /\ Refusals \in Nat
<1>1. IsFiniteSet(Turn)
  BY LogTurnAssumption, FS_Interval DEF Turn
<1>2. IsFiniteSet(quiet) /\ IsFiniteSet(malformed)
  BY <1>1, CallsAreFinite, FS_Subset DEF IInv, ReplyTyped
<1> QED
  BY <1>2, FS_CardinalityType DEF Quiets, Refusals

LEMMA AnotherQuiet ==
    ASSUME IInv, HistoryInv, replying # 0, quiet' = quiet \cup {replying}
    PROVE  Quiets' = Quiets + 1
<1>1. replying \notin quiet
  BY DEF IInv, ReplyTyped, HistoryInv
<1>2. Cardinality(quiet \cup {replying}) = Cardinality(quiet) + 1
  BY <1>1, CountsAreNumbers, FS_AddElement
<1> QED
  BY <1>2 DEF Quiets

LEMMA AnotherRefusal ==
    ASSUME IInv, HistoryInv, NEW c \in Call, Refuse(c)
    PROVE  Refusals' = Refusals + 1
<1>1. c \notin malformed /\ malformed' = malformed \cup {c}
  BY DEF HistoryInv, Refuse
<1>2. Cardinality(malformed \cup {c}) = Cardinality(malformed) + 1
  BY <1>1, CountsAreNumbers, FS_AddElement
<1> QED
  BY <1>1, <1>2 DEF Refusals

LEMMA NoMoreQuiet == ASSUME quiet' = quiet PROVE Quiets' = Quiets
BY DEF Quiets

LEMMA NoMoreRefusals == ASSUME malformed' = malformed PROVE Refusals' = Refusals
BY DEF Refusals

LEMMA InitHistory == Init => HistoryInv
BY DEF Init, HistoryInv

(* The reply under way is to a turn that is over, and has made no call yet *)
(* beyond the last one.                                                    *)
LEMMA ReplyUnderWay ==
    ASSUME IInv, replying # 0
    PROVE  /\ replying \in Turn /\ replying <= turn
           /\ due # 0 => replying < due
           /\ open => replying < turn
           /\ \A k \in 1 .. MAX_CALLS : k > made => stage[<<replying, k>>] = "none"
<1>1. replying \in 1 .. MAX_TURNS /\ made \in Nat /\ MAX_CALLS \in Nat
  BY LogTurnAssumption DEF IInv, ReplyTyped
<1>2. /\ replying <= turn
      /\ due # 0 => replying < due
      /\ open => replying < turn
  BY DEF IInv, RepliesAdvance
<1>3. ASSUME NEW k \in 1 .. MAX_CALLS, k > made PROVE stage[<<replying, k>>] = "none"
  <2> SUFFICES ASSUME stage[<<replying, k>>] # "none" PROVE FALSE
    OBVIOUS
  <2>1. replying < replying \/ (replying = replying /\ k <= made)
    BY <1>1 DEF IInv, RepliesAdvance, Turn
  <2> QED
    BY <1>1, <1>3, <2>1
<1> QED
  BY <1>1, <1>2, <1>3 DEF Turn

LEMMA StepHistory == IInv /\ HistoryInv /\ [Next]_vars => HistoryInv'
<1> SUFFICES ASSUME IInv, HistoryInv, [Next]_vars PROVE HistoryInv'
  OBVIOUS
<1> USE LogTurnAssumption
<1>0. /\ due \in Nat /\ replying \in Nat /\ turn \in Nat /\ made \in Nat
      /\ quiet \subseteq Turn /\ malformed \subseteq Call /\ Turn \subseteq Nat
      /\ \A t \in Turn, k \in 1 .. MAX_CALLS : <<t, k>> \in Call
      /\ DOMAIN stage = Call
  BY DEF IInv, SpeechTyped, ReplyTyped, HandlerTyped, Turn, Call
<1>1. ASSUME UNCHANGED <<due, replying, quiet, malformed, stage, turn, open>>
      PROVE  HistoryInv'
  BY <1>1 DEF HistoryInv
<1>2. CASE Speak
  <2>1. /\ turn' = (IF open THEN turn ELSE turn + 1)
        /\ UNCHANGED <<due, replying, quiet, malformed, stage>>
    BY <1>2 DEF Speak, llm, history
  <2>2. \A t \in quiet : t <= turn' /\ t < turn'
    BY <1>0, <2>1 DEF HistoryInv
  <2> QED
    BY <2>1, <2>2 DEF HistoryInv
<1>3. CASE EndTurn
  <2>1. open /\ open' = FALSE /\ due' = turn /\ UNCHANGED <<turn, replying, quiet, malformed, stage>>
    BY <1>3 DEF EndTurn, history
  <2> QED
    BY <1>0, <2>1 DEF HistoryInv
<1>4. CASE VADStart \/ VADStop \/ BotStart \/ BotStop \/ PushOtherFrames \/ UNCHANGED vars
  <2>1. UNCHANGED <<due, replying, quiet, malformed, stage, turn, open>>
    BY <1>4 DEF VADStart, VADStop, BotStart, BotStop, PushOtherFrames, vars, speech, llm, history
  <2> QED
    BY <1>1, <2>1
<1>5. CASE \E f \in flying : PushOn(f)
  <2>1. UNCHANGED <<due, replying, quiet, malformed, stage, turn, open>>
    BY <1>5 DEF PushOn, llm, history
  <2> QED
    BY <1>1, <2>1
<1>6. CASE StartReply
  <2>1. /\ due # 0 /\ replying' = due /\ due' = 0
        /\ UNCHANGED <<turn, open, quiet, malformed, stage>>
    BY <1>6 DEF StartReply, history
  <2> QED
    BY <1>0, <2>1 DEF HistoryInv
<1>7. CASE CallLogTurn
  <2>1. /\ replying # 0 /\ stage' = [stage EXCEPT ![<<replying, made + 1>>] = "called"]
        /\ UNCHANGED <<due, turn, open, replying, quiet, malformed>> /\ made < MAX_CALLS
    BY <1>7 DEF CallLogTurn, speech, history
  <2>2. stage[<<replying, made + 1>>] = "none"
    <3>1. made + 1 \in 1 .. MAX_CALLS /\ made + 1 > made
      BY <1>0, <2>1
    <3> QED
      BY <2>1, <3>1, ReplyUnderWay
  <2>3. \A t \in quiet : t # replying
    BY <1>0, <2>1 DEF HistoryInv
  <2>4. \A t \in quiet, k \in 1 .. MAX_CALLS : stage'[<<t, k>>] = stage[<<t, k>>]
    BY <1>0, <2>1, <2>3
  <2>5. \A c \in malformed : stage'[c] = stage[c]
    BY <1>0, <2>1, <2>2 DEF HistoryInv
  <2> QED
    BY <2>1, <2>4, <2>5 DEF HistoryInv
<1>8. CASE EndReply
  <2>1. /\ replying # 0 /\ replying' = 0
        /\ quiet' = IF made = 0 THEN quiet \cup {replying} ELSE quiet
        /\ UNCHANGED <<due, turn, open, malformed, stage>>
    BY <1>8 DEF EndReply, speech, history
  <2>2. /\ replying <= turn /\ (due # 0 => replying < due)
        /\ open => replying < turn
        /\ made = 0 => \A k \in 1 .. MAX_CALLS : stage[<<replying, k>>] = "none"
    <3>1. made = 0 => \A k \in 1 .. MAX_CALLS : k > made
      OBVIOUS
    <3> QED
      BY <2>1, <3>1, ReplyUnderWay
  <2> QED
    BY <1>0, <2>1, <2>2 DEF HistoryInv
<1>9. CASE ProcessFrame
  <2>1. UNCHANGED <<due, replying, quiet, malformed, stage, turn, open>>
    BY <1>9 DEF ProcessFrame, speech, history
  <2> QED
    BY <1>1, <2>1
<1>10. ASSUME NEW c \in Call, Handler(c) PROVE HistoryInv'
  <2>1. UNCHANGED <<due, turn, open, replying, quiet>> /\ stage[c] # "none"
        /\ \E to \in {"ingesting", "answering", "answered"} : stage' = [stage EXCEPT ![c] = to]
    BY <1>10 DEF Handler, Refuse, Record, Ingest, IngestFails, Answer, speech, llm
  <2>2. malformed' \in {malformed, malformed \cup {c}}
    BY <1>10 DEF Handler, Refuse, Record, Ingest, IngestFails, Answer, history
  <2>3. \A t \in quiet, k \in 1 .. MAX_CALLS : stage'[<<t, k>>] = "none"
    BY <1>0, <2>1 DEF HistoryInv
  <2>4. \A d \in malformed \cup {c} : stage'[d] \notin {"none", "called"}
    BY <1>0, <2>1 DEF HistoryInv
  <2> QED
    BY <2>1, <2>2, <2>3, <2>4 DEF HistoryInv
<1>11. CASE Interrupt
  <2>1. /\ due' = 0 /\ replying' = 0 /\ UNCHANGED <<turn, open, malformed>>
        /\ quiet' = IF replying # 0 /\ made = 0 THEN quiet \cup {replying} ELSE quiet
    BY <1>11 DEF Interrupt
  <2>2. replying # 0 => /\ replying <= turn /\ (open => replying < turn)
                        /\ made = 0 => \A k \in 1 .. MAX_CALLS : stage[<<replying, k>>] = "none"
    <3>1. made = 0 => \A k \in 1 .. MAX_CALLS : k > made
      OBVIOUS
    <3> QED
      BY <3>1, ReplyUnderWay
  <2>3. \A c \in Call : /\ stage[c] = "none" => stage'[c] = "none"
                        /\ stage[c] \notin {"none", "called"} => stage'[c] \notin {"none", "called"}
    BY <1>11 DEF Interrupt
  <2>4. \A t \in quiet' : t \in Turn
    BY <1>0, <2>1 DEF IInv, ReplyTyped, Turn
  <2>5. \A t \in quiet', k \in 1 .. MAX_CALLS : stage'[<<t, k>>] = "none"
    BY <1>0, <2>1, <2>2, <2>3, <2>4 DEF HistoryInv
  <2>6. \A c \in malformed : stage'[c] \notin {"none", "called"}
    BY <1>0, <2>3 DEF HistoryInv
  <2>7. \A t \in quiet' : t <= turn /\ (open => t < turn)
    <3>1. \A t \in quiet : t <= turn /\ (open => t < turn)
      BY DEF HistoryInv
    <3> QED
      BY <2>1, <2>2, <3>1
  <2>8. \A c \in malformed' : stage'[c] \notin {"none", "called"}
    BY <2>1, <2>6
  <2> QED
    BY <2>1, <2>5, <2>7, <2>8 DEF HistoryInv
<1> QED
  BY <1>2, <1>3, <1>4, <1>5, <1>6, <1>7, <1>8, <1>9, <1>10, <1>11 DEF Next

CountInv == StreamShape /\ FlagTells /\ Counted

LEMMA InitCount == Init => CountInv
<1> SUFFICES ASSUME Init PROVE CountInv
  OBVIOUS
<1>1. StreamShape /\ FlagTells
  BY DEF Init, StreamShape, FlagTells
<1>2. Unheard = {} /\ missing = 0 /\ quiet = {} /\ malformed = {}
  BY DEF Init, Unheard
<1>3. Cardinality(Unheard) = 0 /\ Quiets = 0 /\ Refusals = 0
  BY <1>2, FS_EmptySet DEF Quiets, Refusals
<1> QED
  BY <1>1, <1>2, <1>3 DEF CountInv, Counted

LEMMA UnheardIsFinite ==
    ASSUME IInv
    PROVE  IsFiniteSet(Unheard) /\ Cardinality(Unheard) \in Nat /\ Unheard \subseteq 1 .. Len(stream)
<1>1. IsFiniteSet(1 .. Len(stream)) /\ Unheard \subseteq 1 .. Len(stream)
  BY FS_Interval DEF IInv, ReplyTyped, Unheard
<1> QED
  BY <1>1, FS_Subset, FS_CardinalityType

(* A step that leaves the frames, the flag and what is counted alone.      *)
CountAlone ==
    /\ UNCHANGED <<stream, log_turn_seen, replying, made, quiet, dropped>>
    /\ missing' + Refusals = missing + Refusals'

LEMMA CountStays ==
    ASSUME IInv, IInv', CountInv, CountAlone
    PROVE  CountInv'
<1>1. StreamShape'
  BY DEF CountAlone, CountInv, StreamShape
<1>2. FlagTells'
  BY DEF CountAlone, CountInv, FlagTells
<1>3. Unheard' = Unheard
  BY DEF CountAlone, Unheard
<1>4. Cardinality(Unheard') = Cardinality(Unheard)
  BY <1>3, Zenon
<1>5. /\ missing \in Nat /\ Refusals \in Nat /\ missing' \in Nat /\ Refusals' \in Nat
      /\ Quiets \in Nat /\ Cardinality(Unheard) \in Nat
  <2>1. Refusals' \in Nat
    BY CallsAreFinite, FS_Subset, FS_CardinalityType DEF IInv, ReplyTyped, Refusals
  <2> QED
    BY <2>1, UnheardIsFinite, CountsAreNumbers DEF IInv, ReplyTyped
<1>6. Quiets' = Quiets /\ missing' + Refusals = missing + Refusals'
  BY NoMoreQuiet DEF CountAlone
<1>7. missing' + Cardinality(Unheard') <= Quiets' + Refusals'
  <2>1. missing + Cardinality(Unheard) <= Quiets + Refusals
    BY DEF CountInv, Counted
  <2>2. missing' + Cardinality(Unheard) <= Quiets + Refusals'
    BY <2>1, <1>5, <1>6
  <2> QED
    BY <1>4, <2>2, <1>6
<1>8. ~dropped' => missing' + Cardinality(Unheard') = Quiets' + Refusals'
  <2> SUFFICES ASSUME ~dropped' PROVE missing' + Cardinality(Unheard') = Quiets' + Refusals'
    OBVIOUS
  <2>1. missing + Cardinality(Unheard) = Quiets + Refusals
    <3>1. ~dropped
      BY DEF CountAlone
    <3> QED
      BY <3>1 DEF CountInv, Counted
  <2> QED
    BY <1>4, <1>5, <1>6, <2>1
<1> QED
  BY <1>1, <1>2, <1>7, <1>8 DEF CountInv, Counted

LEMMA OneMore ==
    ASSUME IInv
    PROVE  \A i \in 1 .. Len(stream) + 1 : i = Len(stream) + 1 \/ i \in 1 .. Len(stream)
BY DEF IInv, ReplyTyped

(* A frame that joins the stream.                                          *)
LEMMA AppendUnheard ==
    ASSUME IInv, NEW e \in Stream, stream' = Append(stream, e), log_turn_seen' = log_turn_seen
    PROVE  /\ \A i \in 1 .. Len(stream) : i \in Unheard' <=> i \in Unheard
           /\ Unheard' \subseteq 1 .. Len(stream) + 1
           /\ Len(stream) + 1 \in Unheard' <=>
                 e = "end" /\ IF stream = <<>> THEN ~log_turn_seen
                              ELSE stream[Len(stream)] = "start"
<1>1. stream \in Seq(Stream) /\ Len(stream) \in Nat
  BY DEF IInv, ReplyTyped
<1>2. /\ Len(stream') = Len(stream) + 1 /\ stream'[Len(stream) + 1] = e
      /\ \A i \in 1 .. Len(stream) : stream'[i] = stream[i]
  BY <1>1
<1>3. ASSUME NEW i \in 1 .. Len(stream) PROVE i \in Unheard' <=> i \in Unheard
  <2>1. i = 1 \/ i - 1 \in 1 .. Len(stream)
    BY <1>1
  <2> QED
    BY <1>1, <1>2, <2>1 DEF Unheard
<1>4. Unheard' \subseteq 1 .. Len(stream) + 1
  BY <1>2 DEF Unheard
<1>5. Len(stream) + 1 \in Unheard' <=>
         e = "end" /\ IF stream = <<>> THEN ~log_turn_seen ELSE stream[Len(stream)] = "start"
  <2>1. CASE stream = <<>>
    BY <1>1, <1>2, <2>1 DEF Unheard
  <2>2. CASE stream # <<>>
    <3>1. Len(stream) \in 1 .. Len(stream) /\ Len(stream) + 1 # 1
      BY <1>1, <2>2
    <3> QED
      BY <1>1, <1>2, <2>2, <3>1 DEF Unheard
  <2> QED
    BY <2>1, <2>2
<1> QED
  BY <1>3, <1>4, <1>5

(* The frame that goes to the observer: the others move up by one.         *)
LEMMA TailUnheard ==
    ASSUME IInv, CountInv, ProcessFrame
    PROVE  Cardinality(Unheard') = Cardinality(Unheard \ {1})
<1>1. /\ stream \in Seq(Stream) /\ stream # <<>> /\ stream' = Tail(stream)
      /\ Len(stream) \in Nat \ {0}
  BY DEF IInv, ReplyTyped, ProcessFrame
<1>2. /\ Len(stream') = Len(stream) - 1 /\ Head(stream) = stream[1]
      /\ \A i \in 1 .. Len(stream) - 1 : stream'[i] = stream[i + 1]
      /\ \A i \in 1 .. Len(stream) : stream[i] \in Stream
  BY <1>1
<1>3. ASSUME NEW i \in 1 .. Len(stream) - 1
      PROVE  i \in Unheard' <=> i + 1 \in Unheard
  <2>1. i + 1 \in 1 .. Len(stream) /\ i + 1 # 1 /\ i \in 1 .. Len(stream)
    BY <1>1
  <2>2. i + 1 \in Unheard <=> stream[i + 1] = "end" /\ stream[i] = "start"
    BY <1>1, <2>1 DEF Unheard
  <2>3. CASE i # 1
    <3>1. i - 1 \in 1 .. Len(stream) - 1 /\ stream'[i - 1] = stream[i]
      BY <1>1, <1>2, <2>3
    <3> QED
      BY <1>1, <1>2, <2>2, <2>3, <3>1 DEF Unheard
  <2>4. CASE i = 1
    <3>1. i \in Unheard' <=> stream[2] = "end" /\ ~log_turn_seen'
      BY <1>1, <1>2, <2>4 DEF Unheard
    <3>2. stream[2] = "end" => stream[1] # "end"
      BY <1>1, <2>4 DEF CountInv, StreamShape
    <3>3. stream[2] = "end" => (~log_turn_seen' <=> stream[1] = "start")
      BY <1>1, <1>2, <3>2 DEF ProcessFrame, Stream
    <3> QED
      BY <2>2, <2>4, <3>1, <3>3
  <2> QED
    BY <2>3, <2>4
<1> DEFINE Later == Unheard \ {1}
           up == [i \in Later |-> i - 1]
<1>4. Unheard' \subseteq 1 .. Len(stream) - 1 /\ Later \subseteq 2 .. Len(stream)
  BY <1>1, <1>2 DEF Unheard
<1>5. up \in Bijection(Later, Unheard')
  <2>1. \A i \in Later : i - 1 \in Unheard'
    <3> TAKE i \in Later
    <3>1. i - 1 \in 1 .. Len(stream) - 1 /\ (i - 1) + 1 = i
      BY <1>1, <1>4
    <3> QED
      BY <1>3, <3>1
  <2>2. \A j \in Unheard' : j + 1 \in Later /\ (j + 1) - 1 = j
    BY <1>1, <1>3, <1>4
  <2>3. \A i, j \in Later : i - 1 = j - 1 => i = j
    BY <1>4
  <2> HIDE DEF Later
  <2>4. up \in [Later -> Unheard']
    BY <2>1
  <2>5. up \in Injection(Later, Unheard')
    BY <2>3, <2>4, Fun_IsInj
  <2>6. \A j \in Unheard' : \E i \in Later : up[i] = j
    BY <2>2
  <2>7. up \in Surjection(Later, Unheard')
    BY <2>4, <2>6, Fun_IsSurj
  <2> QED
    BY <2>5, <2>7 DEF Bijection
<1>6. ExistsBijection(Later, Unheard')
  BY <1>5 DEF ExistsBijection
<1>7. IsFiniteSet(Later)
  BY UnheardIsFinite, FS_Subset
<1> QED
  BY <1>6, <1>7, FS_Bijection

(* The end of a reply counts exactly where the reply made no call.         *)
LEMMA EndReplyCounts ==
    ASSUME IInv, IInv', HistoryInv, CountInv, EndReply
    PROVE  CountInv'
<1>0. /\ replying # 0 /\ replying' = 0 /\ stream' = Append(stream, "end")
      /\ quiet' = IF made = 0 THEN quiet \cup {replying} ELSE quiet
      /\ UNCHANGED <<log_turn_seen, made, missing, malformed, dropped>>
  BY DEF EndReply, history
<1>1. /\ stream \in Seq(Stream) /\ Len(stream) \in Nat /\ Quiets \in Nat
      /\ missing \in Nat /\ Refusals \in Nat
  BY CountsAreNumbers DEF IInv, ReplyTyped
<1>2. /\ Len(stream') = Len(stream) + 1 /\ stream'[Len(stream) + 1] = "end"
      /\ \A i \in 1 .. Len(stream) : stream'[i] = stream[i]
  BY <1>0, <1>1
<1>3. StreamShape'
  <2>1. stream # <<>> => stream[Len(stream)] # "end"
    BY <1>0 DEF CountInv, StreamShape
  <2>2. ASSUME NEW i \in 1 .. Len(stream') - 1, stream'[i] = "end"
        PROVE  stream'[i + 1] = "start"
    <3>1. i \in 1 .. Len(stream) /\ stream[i] = "end"
      BY <1>1, <1>2, <2>2
    <3>2. stream # <<>> /\ i # Len(stream)
      BY <1>1, <2>1, <3>1
    <3>3. i \in 1 .. Len(stream) - 1 /\ i + 1 \in 1 .. Len(stream)
      BY <1>1, <3>1, <3>2
    <3> QED
      BY <1>2, <3>1, <3>3 DEF CountInv, StreamShape
  <2> QED
    BY <1>0, <2>2 DEF StreamShape
<1>4. FlagTells'
  BY <1>0 DEF FlagTells
<1>5. Len(stream) + 1 \in Unheard' <=> made = 0
  <2>1. Len(stream) + 1 \in Unheard' <=>
           IF stream = <<>> THEN ~log_turn_seen ELSE stream[Len(stream)] = "start"
    BY <1>0, AppendUnheard DEF Stream
  <2>2. CASE stream = <<>>
    BY <1>0, <2>1, <2>2 DEF CountInv, FlagTells
  <2>3. CASE stream # <<>>
    BY <1>0, <2>1, <2>3 DEF CountInv, StreamShape
  <2> QED
    BY <2>2, <2>3
<1>6. /\ Unheard \subseteq 1 .. Len(stream) /\ IsFiniteSet(Unheard) /\ Cardinality(Unheard) \in Nat
      /\ Unheard' \subseteq 1 .. Len(stream) + 1
      /\ \A i \in 1 .. Len(stream) : i \in Unheard' <=> i \in Unheard
  BY <1>0, UnheardIsFinite, AppendUnheard DEF Stream
<1>7. Len(stream) + 1 \notin Unheard
  BY <1>1, <1>6
<1>8. CASE made = 0
  <2>1. Unheard' = Unheard \cup {Len(stream) + 1}
    BY <1>5, <1>6, <1>8, OneMore, Zenon
  <2>2. Cardinality(Unheard \cup {Len(stream) + 1}) = Cardinality(Unheard) + 1
    BY <1>6, <1>7, FS_AddElement
  <2>3. Cardinality(Unheard') = Cardinality(Unheard) + 1
    BY <2>1, <2>2, Zenon
  <2>4. Quiets' = Quiets + 1 /\ missing' = missing /\ Refusals' = Refusals
    BY <1>0, <1>8, AnotherQuiet, NoMoreRefusals
  <2>5. missing' + Cardinality(Unheard') <= Quiets' + Refusals'
    <3>1. missing + Cardinality(Unheard) <= Quiets + Refusals
      BY DEF CountInv, Counted
    <3> QED
      BY <1>1, <1>6, <2>3, <2>4, <3>1
  <2>6. ASSUME ~dropped' PROVE missing' + Cardinality(Unheard') = Quiets' + Refusals'
    <3>1. ~dropped
      BY <1>0, <2>6
    <3>2. missing + Cardinality(Unheard) = Quiets + Refusals
      BY <3>1 DEF CountInv, Counted
    <3> QED
      BY <1>1, <1>6, <2>3, <2>4, <3>2
  <2> QED
    BY <1>3, <1>4, <2>5, <2>6 DEF CountInv, Counted
<1>9. CASE made # 0
  <2>1. Unheard' = Unheard
    BY <1>5, <1>6, <1>9, OneMore, Zenon
  <2>2. Cardinality(Unheard') = Cardinality(Unheard)
    BY <2>1, Zenon
  <2>3. Quiets' = Quiets /\ missing' = missing /\ Refusals' = Refusals /\ dropped' = dropped
    BY <1>0, <1>9, NoMoreQuiet, NoMoreRefusals
  <2>4. Counted'
    BY <2>2, <2>3, Zenon DEF CountInv, Counted
  <2> QED
    BY <1>3, <1>4, <2>4 DEF CountInv
<1> QED
  BY <1>8, <1>9

(* A reply that starts, or makes a call, adds no end.                      *)
LEMMA StartOrCallCounts ==
    ASSUME IInv, IInv', CountInv, StartReply \/ CallLogTurn
    PROVE  CountInv'
<1>0. PICK e \in {"start", "call"} :
         /\ stream' = Append(stream, e)
         /\ replying' # 0 /\ (e = "start" <=> made' = 0)
         /\ e = "start" \/ replying # 0
  <2>1. CASE StartReply
    BY <2>1 DEF StartReply
  <2>2. CASE CallLogTurn
    <3>1. replying # 0 /\ replying' = replying /\ made' = made + 1 /\ stream' = Append(stream, "call")
      BY <2>2 DEF CallLogTurn
    <3>2. made' # 0
      BY <3>1 DEF IInv, ReplyTyped
    <3> QED
      BY <3>1, <3>2
  <2> QED
    BY <2>1, <2>2
<1>1. UNCHANGED <<log_turn_seen, quiet, missing, malformed, dropped>>
  BY DEF StartReply, CallLogTurn, history
<1>2. stream \in Seq(Stream) /\ Len(stream) \in Nat
  BY DEF IInv, ReplyTyped
<1>3. /\ stream' # <<>> /\ Len(stream') = Len(stream) + 1 /\ stream'[Len(stream) + 1] = e
      /\ \A i \in 1 .. Len(stream) : stream'[i] = stream[i]
  BY <1>0, <1>2
<1>4. StreamShape'
  <2>1. ASSUME NEW i \in 1 .. Len(stream') - 1, stream'[i] = "end"
        PROVE  stream'[i + 1] = "start"
    <3>1. i \in 1 .. Len(stream) /\ stream[i] = "end"
      BY <1>2, <1>3, <2>1
    <3>2. CASE i = Len(stream)
      <4>1. stream # <<>> /\ stream[Len(stream)] = "end"
        BY <3>1, <3>2
      <4>2. replying = 0
        BY <4>1 DEF CountInv, StreamShape
      <4> QED
        BY <1>0, <1>3, <3>2, <4>2
    <3>3. CASE i # Len(stream)
      <4>1. i \in 1 .. Len(stream) - 1 /\ i + 1 \in 1 .. Len(stream)
        BY <1>2, <3>1, <3>3
      <4> QED
        BY <1>3, <3>1, <4>1 DEF CountInv, StreamShape
    <3> QED
      BY <3>2, <3>3
  <2>2. stream'[Len(stream')] = IF made' = 0 THEN "start" ELSE "call"
    BY <1>0, <1>3
  <2> QED
    BY <2>1, <2>2 DEF StreamShape
<1>5. FlagTells'
  BY <1>3 DEF FlagTells
<1>6. Unheard' = Unheard
  <2>1. /\ Unheard \subseteq 1 .. Len(stream) /\ Unheard' \subseteq 1 .. Len(stream) + 1
        /\ Len(stream) + 1 \notin Unheard'
        /\ \A i \in 1 .. Len(stream) : i \in Unheard' <=> i \in Unheard
    BY <1>0, <1>1, UnheardIsFinite, AppendUnheard DEF Stream
  <2> QED
    BY <2>1, OneMore, Zenon
<1>7. /\ Cardinality(Unheard') = Cardinality(Unheard)
      /\ Quiets' = Quiets /\ Refusals' = Refusals
  BY <1>1, <1>6, NoMoreQuiet, NoMoreRefusals, Zenon
<1>8. Counted'
  BY <1>1, <1>7, Zenon DEF CountInv, Counted
<1> QED
  BY <1>4, <1>5, <1>8 DEF CountInv

(* The observer counts the end it would count.                             *)
LEMMA ProcessFrameCounts ==
    ASSUME IInv, IInv', CountInv, ProcessFrame
    PROVE  CountInv'
<1>1. /\ stream \in Seq(Stream) /\ stream # <<>> /\ stream' = Tail(stream)
      /\ Len(stream) \in Nat \ {0}
      /\ UNCHANGED <<replying, made, quiet, malformed, dropped>>
  BY DEF IInv, ReplyTyped, ProcessFrame, history
<1>2. /\ Len(stream') = Len(stream) - 1 /\ Head(stream) = stream[1]
      /\ \A i \in 1 .. Len(stream) - 1 : stream'[i] = stream[i + 1]
      /\ \A i \in 1 .. Len(stream) : stream[i] \in Stream
  BY <1>1
<1>3. StreamShape'
  <2>1. ASSUME NEW i \in 1 .. Len(stream') - 1, stream'[i] = "end"
        PROVE  stream'[i + 1] = "start"
    <3>1. /\ i \in 1 .. Len(stream) - 1 /\ i + 1 \in 1 .. Len(stream) - 1
      BY <1>1, <1>2
    <3> QED
      BY <1>2, <2>1, <3>1 DEF CountInv, StreamShape
  <2>2. ASSUME replying' # 0, stream' # <<>>
        PROVE  stream'[Len(stream')] = IF made' = 0 THEN "start" ELSE "call"
    <3>1. Len(stream') # 0
      BY <1>1, <2>2
    <3>2. Len(stream) - 1 \in 1 .. Len(stream) - 1
      BY <1>1, <1>2, <3>1
    <3>3. stream'[Len(stream')] = stream[Len(stream)]
      BY <1>1, <1>2, <3>2
    <3> QED
      BY <1>1, <2>2, <3>3 DEF CountInv, StreamShape
  <2> QED
    BY <2>1, <2>2 DEF StreamShape
<1>4. FlagTells'
  <2> SUFFICES ASSUME replying' # 0, stream' = <<>>
               PROVE  log_turn_seen' <=> made' # 0
    BY DEF FlagTells
  <2>1. Len(stream) = 1
    BY <1>1, <1>2
  <2>2. stream[1] = IF made = 0 THEN "start" ELSE "call"
    BY <1>1, <2>1 DEF CountInv, StreamShape
  <2> QED
    BY <1>1, <1>2, <2>2 DEF ProcessFrame
<1>5. Cardinality(Unheard') = Cardinality(Unheard \ {1})
  BY TailUnheard
<1>6. /\ IsFiniteSet(Unheard) /\ Cardinality(Unheard) \in Nat
      /\ missing \in Nat /\ Cardinality(Unheard') \in Nat
  <2>1. IsFiniteSet(Unheard) /\ Cardinality(Unheard) \in Nat
    BY UnheardIsFinite
  <2>2. Cardinality(Unheard \ {1}) \in Nat
    BY <2>1, FS_Subset, FS_CardinalityType
  <2> QED
    BY <1>5, <2>1, <2>2 DEF IInv, ReplyTyped
<1>7. missing' + Cardinality(Unheard') = missing + Cardinality(Unheard)
  <2>1. 1 \in Unheard <=> stream[1] = "end" /\ ~log_turn_seen
    BY <1>1 DEF Unheard
  <2>2. CASE 1 \in Unheard
    <3>1. Cardinality(Unheard \ {1}) = Cardinality(Unheard) - 1
      BY <1>6, <2>2, FS_RemoveElement
    <3>2. missing' = missing + 1
      BY <1>2, <2>1, <2>2 DEF ProcessFrame
    <3> QED
      BY <1>5, <1>6, <3>1, <3>2
  <2>3. CASE 1 \notin Unheard
    <3>1. Unheard \ {1} = Unheard
      BY <2>3
    <3>2. Cardinality(Unheard') = Cardinality(Unheard)
      BY <1>5, <3>1, Zenon
    <3>3. missing' = missing
      BY <1>2, <2>1, <2>3 DEF ProcessFrame
    <3> QED
      BY <3>2, <3>3
  <2> QED
    BY <2>2, <2>3
<1>8. Counted'
  <2>1. Quiets' = Quiets /\ Refusals' = Refusals /\ dropped' = dropped
    BY <1>1, NoMoreQuiet, NoMoreRefusals
  <2> QED
    BY <1>7, <2>1, Zenon DEF CountInv, Counted
<1> QED
  BY <1>3, <1>4, <1>8 DEF CountInv

LEMMA RoomStays ==
    ASSUME NEW a \in Nat, NEW b \in Nat, NEW c \in Nat, NEW d \in Nat, a <= b + c, b <= d
    PROVE  a <= d + c
OBVIOUS

(* What an interruption drops is never counted; the end it pushes is       *)
(* counted only for a reply without a call.                                *)
LEMMA InterruptCounts ==
    ASSUME IInv, IInv', HistoryInv, CountInv, Interrupt
    PROVE  CountInv'
<1> DEFINE calls == {i \in DOMAIN stream : stream[i] = "call"}
           n == Cardinality(calls)
           kept == [i \in 1 .. n |-> "call"]
<1>0. /\ replying' = 0 /\ UNCHANGED <<made, log_turn_seen, missing, malformed>>
      /\ stream' = kept \/ (replying # 0 /\ stream' = Append(kept, "end"))
      /\ quiet' = IF replying # 0 /\ made = 0 THEN quiet \cup {replying} ELSE quiet
      /\ ~dropped' => ~dropped /\ replying = 0 /\ kept = stream
  BY DEF Interrupt
<1>1. /\ stream \in Seq(Stream) /\ Len(stream) \in Nat /\ DOMAIN stream = 1 .. Len(stream)
      /\ Quiets \in Nat /\ missing \in Nat /\ Refusals \in Nat
  BY CountsAreNumbers DEF IInv, ReplyTyped
<1>2. IsFiniteSet(calls) /\ n \in Nat
  <2>1. IsFiniteSet(1 .. Len(stream)) /\ calls \subseteq 1 .. Len(stream)
    BY <1>1, FS_Interval
  <2> HIDE DEF calls
  <2> QED
    BY <2>1, FS_Subset, FS_CardinalityType
<1>3. n = 0 => calls = {}
  BY <1>2, FS_EmptySet
<1>4. n = 0 /\ stream # <<>> => stream[Len(stream)] # "call"
  <2> SUFFICES ASSUME n = 0, stream # <<>> PROVE stream[Len(stream)] # "call"
    OBVIOUS
  <2>1. Len(stream) \in DOMAIN stream
    BY <1>1
  <2> QED
    BY <1>3, <2>1
<1> HIDE DEF n
<1>5. kept \in Seq(Stream) /\ Len(kept) = n /\ \A i \in 1 .. n : kept[i] = "call"
  BY <1>2 DEF Stream
<1> HIDE DEF kept, calls
<1>6. Quiets' \in Nat /\ Quiets <= Quiets' /\ Refusals' = Refusals
  <2>1. Refusals' = Refusals
    BY <1>0, NoMoreRefusals
  <2>2. CASE replying # 0 /\ made = 0
    BY <1>0, <1>1, <2>1, <2>2, AnotherQuiet
  <2>3. CASE ~(replying # 0 /\ made = 0)
    BY <1>0, <1>1, <2>1, <2>3, NoMoreQuiet
  <2> QED
    BY <2>2, <2>3
<1>7. CASE stream' = kept
  <2>1. Unheard' = {}
    BY <1>5, <1>7 DEF Unheard
  <2>2. Cardinality(Unheard') = 0
    BY <2>1, FS_EmptySet
  <2>3. StreamShape' /\ FlagTells'
    BY <1>0, <1>2, <1>5, <1>7 DEF StreamShape, FlagTells
  <2>4. missing' + Cardinality(Unheard') <= Quiets' + Refusals'
    <3>1. /\ missing + Cardinality(Unheard) <= Quiets + Refusals /\ Cardinality(Unheard) \in Nat
          /\ missing' = missing /\ Refusals' = Refusals
      BY <1>0, <1>6, UnheardIsFinite DEF CountInv, Counted
    <3>2. missing <= Quiets + Refusals
      BY <1>1, <3>1
    <3>3. missing <= Quiets' + Refusals
      BY <1>1, <1>6, <3>2, RoomStays
    <3> QED
      BY <1>1, <2>2, <3>1, <3>3
  <2>5. ASSUME ~dropped' PROVE missing' + Cardinality(Unheard') = Quiets' + Refusals'
    <3>1. /\ ~dropped /\ stream' = stream /\ Quiets' = Quiets /\ missing' = missing
          /\ Refusals' = Refusals /\ log_turn_seen' = log_turn_seen
      BY <1>0, <1>6, <1>7, <2>5, NoMoreQuiet
    <3>2. Unheard' = Unheard
      BY <3>1 DEF Unheard
    <3>3. missing + Cardinality(Unheard) = Quiets + Refusals
      BY <3>1 DEF CountInv, Counted
    <3>4. Cardinality(Unheard') = Cardinality(Unheard)
      BY <3>2, Zenon
    <3> QED
      BY <3>1, <3>3, <3>4
  <2> QED
    BY <2>3, <2>4, <2>5 DEF CountInv, Counted
<1>8. CASE replying # 0 /\ stream' = Append(kept, "end")
  <2>1. /\ Len(stream') = n + 1 /\ stream'[n + 1] = "end"
        /\ \A i \in 1 .. n : stream'[i] = "call"
    BY <1>2, <1>5, <1>8
  <2>2. StreamShape' /\ FlagTells'
    BY <1>0, <1>2, <2>1 DEF StreamShape, FlagTells
  <2>3. \A i \in Unheard' : i = 1 /\ n = 0 /\ ~log_turn_seen
    <3> TAKE i \in Unheard'
    <3>1. i \in 1 .. n + 1 /\ stream'[i] = "end"
          /\ IF i = 1 THEN ~log_turn_seen ELSE stream'[i - 1] = "start"
      BY <1>0, <2>1 DEF Unheard
    <3>2. i = n + 1
      BY <1>2, <2>1, <3>1
    <3>3. i # 1 => i - 1 \in 1 .. n
      BY <1>2, <3>1, <3>2
    <3>4. i = 1
      BY <2>1, <3>1, <3>3
    <3> QED
      BY <1>2, <3>1, <3>2, <3>4
  <2>4. dropped'
    BY <1>0, <1>8
  <2>5. /\ missing + Cardinality(Unheard) <= Quiets + Refusals /\ Cardinality(Unheard) \in Nat
        /\ missing' = missing /\ Refusals' = Refusals
    BY <1>0, <1>6, UnheardIsFinite DEF CountInv, Counted
  <2>6. missing' + Cardinality(Unheard') <= Quiets' + Refusals'
    <3>1. CASE Unheard' = {}
      <4>1. Cardinality(Unheard') = 0
        BY <3>1, FS_EmptySet
      <4>2. missing <= Quiets + Refusals
        BY <1>1, <2>5
      <4>3. missing <= Quiets' + Refusals
        BY <1>1, <1>6, <4>2, RoomStays
      <4> QED
        BY <1>1, <2>5, <4>1, <4>3
    <3>2. CASE Unheard' # {}
      <4>1. n = 0 /\ ~log_turn_seen /\ Unheard' = {1}
        BY <2>3, <3>2
      <4>2. Cardinality(Unheard') = 1
        BY <4>1, FS_Singleton
      <4>3. made = 0
        <5>1. CASE stream = <<>>
          BY <1>8, <4>1, <5>1 DEF CountInv, FlagTells
        <5>2. CASE stream # <<>>
          BY <1>4, <1>8, <4>1, <5>2 DEF CountInv, StreamShape
        <5> QED
          BY <5>1, <5>2
      <4>4. Quiets' = Quiets + 1
        BY <1>0, <1>8, <4>3, AnotherQuiet
      <4> QED
        BY <1>1, <2>5, <4>2, <4>4
    <3> QED
      BY <3>1, <3>2
  <2> QED
    BY <2>2, <2>4, <2>6 DEF CountInv, Counted
<1> QED
  BY <1>0, <1>7, <1>8

LEMMA StepCount == IInv /\ IInv' /\ HistoryInv /\ CountInv /\ [Next]_vars => CountInv'
<1> SUFFICES ASSUME IInv, IInv', HistoryInv, CountInv, [Next]_vars PROVE CountInv'
  OBVIOUS
<1>0. missing \in Nat /\ Refusals \in Nat
  BY CountsAreNumbers DEF IInv, ReplyTyped
<1>1. CASE Speak \/ VADStart \/ VADStop \/ EndTurn \/ BotStart \/ BotStop \/ UNCHANGED vars
  <2>1. CountAlone
    BY <1>1, <1>0, NoMoreRefusals DEF CountAlone, Speak, VADStart, VADStop, EndTurn, BotStart, BotStop, vars, llm, history
  <2> QED
    BY <2>1, CountStays
<1>2. CASE (\E f \in flying : PushOn(f)) \/ PushOtherFrames
  <2>1. CountAlone
    BY <1>2, <1>0, NoMoreRefusals DEF CountAlone, PushOn, PushOtherFrames, llm, history
  <2> QED
    BY <2>1, CountStays
<1>3. CASE \E c \in Call : Handler(c)
  <2>1. UNCHANGED <<stream, log_turn_seen, replying, made, quiet, dropped>>
    BY <1>3 DEF Handler, Refuse, Record, Ingest, IngestFails, Answer, llm, history
  <2>2. \/ missing' = missing /\ Refusals' = Refusals
        \/ missing' = missing + 1 /\ Refusals' = Refusals + 1
    BY <1>3, NoMoreRefusals, AnotherRefusal
    DEF Handler, Refuse, Record, Ingest, IngestFails, Answer, history
  <2>3. missing' + Refusals = missing + Refusals'
    BY <1>0, <2>2
  <2>4. CountAlone
    BY <2>1, <2>3 DEF CountAlone
  <2> QED
    BY <2>4, CountStays
<1> QED
  BY <1>1, <1>2, <1>3, StartOrCallCounts, EndReplyCounts, ProcessFrameCounts, InterruptCounts
  DEF Next

-----------------------------------------------------------------------------
(* The theorems.                                                           *)

CounterInv == IInv /\ HistoryInv /\ CountInv

LEMMA CounterInvHolds == Spec => []CounterInv
<1>1. Init => CounterInv
  BY InitIInv, InitHistory, InitCount DEF CounterInv
<1>2. CounterInv /\ [Next]_vars => CounterInv'
  BY StepIInv, StepHistory, StepCount DEF CounterInv
<1> QED
  BY <1>1, <1>2, PTL DEF Spec

TimelyInv == IInv /\ RingInv /\ AnchorInv /\ TakenInv

LEMMA TimelyInvHolds == ASSUME Timely PROVE Spec => []TimelyInv
<1>1. Init => TimelyInv
  BY InitIInv, InitRing, InitAnchor, InitTaken DEF TimelyInv
<1>2. TimelyInv /\ [Next]_vars => TimelyInv'
  BY StepIInv, StepRing, StepAnchor, StepTaken DEF TimelyInv
<1> QED
  BY <1>1, <1>2, PTL DEF Spec

(* However late the VAD confirms an onset, and in whatever order the       *)
(* frames pass, what is measured is a response.                            *)
THEOREM OnlyResponsesMeasured == ASSUME Timely PROVE Spec => []MeasuresOnlyResponses
<1>1. TimelyInv => MeasuresOnlyResponses
  BY DEF TimelyInv, AnchorInv
<1> QED
  BY <1>1, TimelyInvHolds, PTL

(* The anchor is the end of what the bot said last, with nobody heard      *)
(* since, for a ring of any size that no frame outlives.                   *)
THEOREM AnchorClean == ASSUME Timely PROVE Spec => []AnchorIsClean
<1>1. TimelyInv => AnchorIsClean
  BY DEF TimelyInv, AnchorInv
<1> QED
  BY <1>1, TimelyInvHolds, PTL

(* No measurement goes to two observations, for any number of calls.       *)
THEOREM TakenOnce == ASSUME Timely PROVE Spec => []MeasurementIsTakenOnce
<1>1. TimelyInv => MeasurementIsTakenOnce
  BY DEF TimelyInv, TakenInv
<1> QED
  BY <1>1, TimelyInvHolds, PTL

(* The turns of the calls that were refused.                               *)
Refused == {c[1] : c \in malformed}

LEMMA RefusedIsCounted ==
    ASSUME IInv
    PROVE  IsFiniteSet(Refused) /\ Cardinality(Refused) <= Refusals /\ Cardinality(Refused) \in Nat
<1> DEFINE f == [c \in malformed |-> c[1]]
<1>1. f \in [malformed -> Refused] /\ \A t \in Refused : \E c \in malformed : f[c] = t
  BY DEF Refused
<1>2. f \in Surjection(malformed, Refused)
  BY <1>1, Fun_IsSurj
<1> QED
  BY <1>2, CountsAreNumbers, FS_Surjection, FS_CardinalityType DEF Refusals

(* missing leaves out no turn, for any number of turns, calls and          *)
(* interruptions that drop nothing, and is exactly the turns without a     *)
(* usable observation when each reply makes one call.                      *)
THEOREM MissingCounts == Spec => []MissingCountsTurns
<1>1. ASSUME CounterInv PROVE MissingCountsTurns
  <2>0. IInv /\ HistoryInv /\ CountInv
    BY <1>1 DEF CounterInv
  <2> DEFINE both == quiet \cup Refused
  <2>1. /\ Cardinality(Unheard) \in Nat /\ missing \in Nat /\ Quiets \in Nat /\ Refusals \in Nat
        /\ missing + Cardinality(Unheard) <= Quiets + Refusals
    BY <2>0, UnheardIsFinite, CountsAreNumbers DEF CountInv, Counted, IInv, ReplyTyped
  <2>2. /\ IsFiniteSet(both) /\ Cardinality(both) \in Nat
        /\ Cardinality(both) = Quiets + Cardinality(Refused) - Cardinality(quiet \cap Refused)
        /\ Cardinality(quiet \cap Refused) \in Nat
    <3>1. IsFiniteSet(quiet) /\ IsFiniteSet(Refused)
      BY <2>0, RefusedIsCounted, CountsAreNumbers
    <3>2. IsFiniteSet(quiet \cap Refused)
      BY <3>1, FS_Subset
    <3>3. IsFiniteSet(quiet \cup Refused)
          /\ Cardinality(quiet \cup Refused)
               = Cardinality(quiet) + Cardinality(Refused) - Cardinality(quiet \cap Refused)
      BY <3>1, FS_Union
    <3> QED
      BY <3>2, <3>3, FS_CardinalityType DEF Quiets
  <2>3. Unobserved \subseteq both
    BY DEF Unobserved, Made, Refused
  <2>4. Cardinality(Unobserved) <= Cardinality(both) /\ Cardinality(Unobserved) \in Nat
    BY <2>2, <2>3, FS_Subset, FS_CardinalityType
  <2>5. ASSUME ~dropped, stream = <<>> PROVE Cardinality(Unobserved) <= missing
    <3>1. Unheard = {}
      BY <2>5 DEF Unheard
    <3>2. Cardinality(Unheard) = 0
      BY <3>1, FS_EmptySet
    <3>3. missing + Cardinality(Unheard) = Quiets + Refusals
      BY <2>0, <2>5 DEF CountInv, Counted
    <3>4. missing = Quiets + Refusals
      BY <2>1, <3>2, <3>3
    <3>5. Cardinality(Refused) <= Refusals /\ Cardinality(Refused) \in Nat
      BY <2>0, RefusedIsCounted
    <3> QED
      BY <2>1, <2>2, <2>4, <3>4, <3>5
  <2>6. ASSUME \A c \in Call : stage[c] # "none" => c[2] = 1
        PROVE  missing <= Cardinality(Unobserved)
    <3>1. malformed \subseteq Call /\ \A c \in malformed : stage[c] # "none"
      BY <2>0 DEF HistoryInv, IInv, ReplyTyped
    <3>2. \A c \in Call : c = <<c[1], c[2]>> /\ c[1] \in Turn /\ c[2] \in 1 .. MAX_CALLS
      BY DEF Call
    <3>3. Refused \subseteq Unobserved
      <4> SUFFICES ASSUME NEW c \in malformed PROVE c[1] \in Unobserved
        BY DEF Refused
      <4>1. c \in Made(c[1]) /\ c[1] \in Turn
        BY <3>1, <3>2 DEF Made
      <4>2. \A d \in Made(c[1]) : d = c
        BY <2>6, <3>1, <3>2 DEF Made
      <4> QED
        BY <4>1, <4>2 DEF Unobserved
    <3>4. Unobserved = both
      BY <2>3, <3>3 DEF Unobserved
    <3>5. quiet \cap Refused = {}
      <4> SUFFICES ASSUME NEW c \in malformed, c[1] \in quiet PROVE FALSE
        BY DEF Refused
      <4>1. stage[<<c[1], c[2]>>] = "none"
        BY <2>0, <3>1, <3>2 DEF HistoryInv
      <4> QED
        BY <3>1, <3>2, <4>1
    <3>6. Cardinality(quiet \cap Refused) = 0
      BY <3>5, FS_EmptySet
    <3>7. Cardinality(Refused) = Refusals
      <4> DEFINE f == [c \in malformed |-> c[1]]
      <4>1. f \in [malformed -> Refused] /\ \A t \in Refused : \E c \in malformed : f[c] = t
        BY DEF Refused
      <4>2. \A c, d \in malformed : f[c] = f[d] => c = d
        BY <2>6, <3>1, <3>2
      <4>3. f \in Surjection(malformed, Refused) /\ f \in Injection(malformed, Refused)
        BY <4>1, <4>2, Fun_IsSurj, Fun_IsInj
      <4> QED
        BY <2>0, <4>3, CountsAreNumbers, FS_Surjection DEF Refusals
    <3>8. Cardinality(Unobserved) = Cardinality(both)
      BY <3>4, Zenon
    <3> QED
      BY <2>1, <2>2, <3>6, <3>7, <3>8
  <2> QED
    BY <2>5, <2>6 DEF MissingCountsTurns
<1> QED
  BY <1>1, CounterInvHolds, PTL
=============================================================================
