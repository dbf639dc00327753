------------------------------ MODULE AgentEval ------------------------------
(***************************************************************************)
(* The evaluation over whole sessions (eval/agent).  Every persona talks   *)
(* with the agent under test: a synthetic learner says something, the      *)
(* agent answers, until the budget of turns is over or a call fails; then  *)
(* a judge gives its verdict.  What the learner says and what the judge    *)
(* thinks are kept on disk, by persona and transcript, and used again by   *)
(* later runs.  An accumulator keeps in memory the profile the runtime     *)
(* would read from its database.                                           *)
(***************************************************************************)
EXTENDS Profile, LogTurnArgs

CONSTANTS
    PERSONAS, OPENING,  \* OPENING: those with an opening_utterance
    BUDGET,             \* turn_budget of each
    UTTERANCES,         \* what each may say
    ANSWERS,            \* what the agent may answer each
    VERDICTS,           \* what the judge may think of each
    NoCall,             \* an answer with no log_turn in it
    SLOTS,              \* --concurrency
    RUNS,               \* runs of the command (bound)
    Opening, Broken, NoOutput

(* An answer is its text and the arguments of its log_turn.                *)
ASSUME AgentAssumption ==
    /\ OPENING \subseteq PERSONAS /\ BUDGET \in [PERSONAS -> Nat \ {0}]
    /\ SLOTS \in Nat \ {0} /\ RUNS \in Nat \ {0}
    /\ \A p \in PERSONAS : Opening \notin UTTERANCES[p]
    /\ \A p \in PERSONAS : \A a \in ANSWERS[p] : a.call = NoCall \/ a.call \in Raw

VARIABLES
    run,        \* runs begun
    step,       \* per persona: "queued", "learner", "asking", "answering",
                \* "judge", "judging", "done", "failed"
    free,       \* the semaphore
    transcript, \* per persona: utterances and texts in turn
    called,     \* per persona: the log_turn calls, and the words they are about
    acc,        \* per persona: ProfileAccumulator
    learner_cache, judge_cache,  \* the files: <<persona, transcript>> -> entry
    sessions,   \* SessionRecords of this run
    output,     \* the file --output
    heard       \* history: what was said and judged, in any run

caches   == <<learner_cache, judge_cache>>
talk     == <<transcript, called, acc>>
agentVars == <<run, step, free, talk, caches, sessions, output, heard>>

NoAccount == [flags |-> <<>>, fluency |-> <<>>, errors |-> <<>>, vocab |-> <<>>, n |-> 0]

Fresh ==
    /\ step' = [p \in PERSONAS |-> "queued"]
    /\ free' = SLOTS
    /\ transcript' = [p \in PERSONAS |-> <<>>]
    /\ called' = [p \in PERSONAS |-> <<>>]
    /\ acc' = [p \in PERSONAS |-> NoAccount]
    /\ sessions' = <<>>
    /\ output' = NoOutput

AgentInit ==
    /\ run = 1
    /\ step = [p \in PERSONAS |-> "queued"]
    /\ free = SLOTS
    /\ transcript = [p \in PERSONAS |-> <<>>]
    /\ called = [p \in PERSONAS |-> <<>>]
    /\ acc = [p \in PERSONAS |-> NoAccount]
    /\ learner_cache = <<>> /\ judge_cache = <<>>
    /\ sessions = <<>>
    /\ output = NoOutput
    /\ heard = {}

-----------------------------------------------------------------------------
(* The cache on disk (_cache.py).                                          *)

Put(cache, key, value) == [k \in DOMAIN cache \cup {key} |-> IF k = key THEN value ELSE cache[k]]

(* Mutant: the key is the persona and how far the conversation is.         *)
Key_Length(p) == <<p, Len(transcript[p])>>

Key(p) == <<p, transcript[p]>>

Has(cache, p) == Key(p) \in DOMAIN cache

(* json.load raises on a file that was left half written.                  *)
Readable(cache, p) == Has(cache, p) /\ cache[Key(p)] # Broken

-----------------------------------------------------------------------------
(* One session.                                                            *)

At(p, here) == output = NoOutput /\ step[p] = here
Goto(p, there) == step' = [step EXCEPT ![p] = there]

Utterances(p) == Len(SelectSeq(transcript[p], LAMBDA t : t \in UTTERANCES[p] \cup {Opening}))

Begin(p) ==
    /\ At(p, "queued") /\ free > 0
    /\ free' = free - 1
    /\ Goto(p, "learner")
    /\ UNCHANGED <<run, talk, caches, sessions, output, heard>>

(* An entry of either cache, with the conversation it was made for, which  *)
(* is not in the file and only there to state ReplaysAgree.                *)
Entry(p, value) == [value |-> value, for |-> transcript[p]]

Hear(kind, p, entry) ==
    heard' = heard \cup {[kind |-> kind, persona |-> p, at |-> transcript[p], entry |-> entry]}

Say(p, entry) ==
    /\ transcript' = [transcript EXCEPT ![p] = Append(@, entry.value)]
    /\ Hear("said", p, entry)

(* SyntheticLearner.next_utterance, up to its call.  What is known already *)
(* goes to the agent at once, with the prompt of the accumulator's snapshot. *)
next_utterance(p) ==
    /\ At(p, "learner") /\ Utterances(p) < BUDGET[p]
    /\ \/ /\ transcript[p] = <<>> /\ p \in OPENING
          /\ Say(p, Entry(p, Opening))
          /\ Goto(p, "answering")
       \/ /\ ~ (transcript[p] = <<>> /\ p \in OPENING)
          /\ Readable(learner_cache, p)
          /\ Say(p, learner_cache[Key(p)])
          /\ Goto(p, "answering")
       \/ /\ ~ (transcript[p] = <<>> /\ p \in OPENING)
          /\ ~ Has(learner_cache, p)
          /\ Goto(p, "asking")
          /\ UNCHANGED <<transcript, heard>>
    /\ UNCHANGED <<run, free, called, acc, caches, sessions, output>>

(* The learner's words are on disk before they are in the transcript.      *)
LearnerAnswers(p) ==
    /\ At(p, "asking")
    /\ \E u \in UTTERANCES[p] :
          /\ learner_cache' = Put(learner_cache, Key(p), Entry(p, u))
          /\ Say(p, Entry(p, u))
    /\ Goto(p, "answering")
    /\ UNCHANGED <<run, free, called, acc, judge_cache, sessions, output>>

(* An APIError ends the conversation, which is judged as it is.            *)
LearnerFails(p) ==
    /\ At(p, "asking")
    /\ Goto(p, "judge")
    /\ UNCHANGED <<run, free, talk, caches, sessions, output, heard>>

(* Mutant: the window keeps one turn more than the runtime reads.          *)
Trim_OneTooMany(s) == IF Len(s) > WINDOW + 1 THEN Tail(s) ELSE s

Trim(s) == IF Len(s) > WINDOW THEN Tail(s) ELSE s

(* A category counts as often as it is named.                              *)
Times(c, s) == Cardinality({i \in DOMAIN s : s[i] = c})

CountErrors(account, turn) ==
    [c \in DOMAIN account.errors \cup ToSet(turn.errors) |->
        IF c \in ToSet(turn.errors)
        THEN [count |-> Times(c, turn.errors)
                        + (IF c \in DOMAIN account.errors THEN account.errors[c].count ELSE 0),
              seen  |-> account.n + 1]
        ELSE account.errors[c]]

DateLemmas(account, turn) ==
    [w \in DOMAIN account.vocab \cup turn.lemmas |->
        IF w \in turn.lemmas THEN account.n + 1 ELSE account.vocab[w]]

(* ProfileAccumulator.ingest.                                              *)
ingest(account, turn) ==
    [flags   |-> Trim(Append(account.flags, turn.l1)),
     fluency |-> Trim(Append(account.fluency, turn.fluency)),
     errors  |-> CountErrors(account, turn),
     vocab   |-> DateLemmas(account, turn),
     n       |-> account.n + 1]

snapshot(account) ==
    compute_snapshot(account.flags, account.fluency, account.errors, account.vocab)

AgentAnswers(p) ==
    /\ At(p, "answering")
    /\ \E a \in ANSWERS[p] :
          /\ a.call # NoCall => CanBeRead(a.call)
          /\ transcript' = [transcript EXCEPT ![p] = Append(@, a.text)]
          /\ IF a.call = NoCall
             THEN UNCHANGED <<called, acc>>
             ELSE LET said == Last(transcript[p])
                  IN  /\ called' = [called EXCEPT ![p] = Append(@, <<a.call, said>>)]
                      /\ acc' = [acc EXCEPT ![p] = ingest(@, _build_turn_record(a.call, said))]
    /\ Goto(p, IF Utterances(p) < BUDGET[p] THEN "learner" ELSE "judge")
    /\ UNCHANGED <<run, free, caches, sessions, output, heard>>

(* The call raises, or --timeout is over.                                  *)
AgentFails(p) ==
    /\ At(p, "answering")
    /\ Goto(p, "judge")
    /\ UNCHANGED <<run, free, talk, caches, sessions, output, heard>>

Finish(p, entry) ==
    /\ sessions' = Append(sessions, [persona |-> p, transcript |-> transcript[p],
                                     verdict |-> entry.value])
    /\ Hear("judged", p, entry)
    /\ free' = free + 1
    /\ Goto(p, "done")

(* judge_session, up to its call.                                          *)
judge_session(p) ==
    /\ At(p, "judge")
    /\ \/ /\ Readable(judge_cache, p)
          /\ Finish(p, judge_cache[Key(p)])
       \/ /\ ~ Has(judge_cache, p)
          /\ Goto(p, "judging")
          /\ UNCHANGED <<free, sessions, heard>>
    /\ UNCHANGED <<run, talk, caches, output>>

JudgeAnswers(p) ==
    /\ At(p, "judging")
    /\ \E v \in VERDICTS[p] :
          /\ judge_cache' = Put(judge_cache, Key(p), Entry(p, v))
          /\ Finish(p, Entry(p, v))
    /\ UNCHANGED <<run, talk, learner_cache, output>>

(* A log_turn that _build_turn_record cannot read.                         *)
AnswerIsUnreadable(p) ==
    At(p, "answering") /\ \E a \in ANSWERS[p] : a.call # NoCall /\ ~ CanBeRead(a.call)

(* Mutant: a session that fails keeps its permit.                          *)
SessionFails_KeepsPermit(p) ==
    /\ \/ AnswerIsUnreadable(p)
       \/ At(p, "learner") /\ Has(learner_cache, p) /\ ~ Readable(learner_cache, p)
       \/ At(p, "judge") /\ Has(judge_cache, p) /\ ~ Readable(judge_cache, p)
       \/ At(p, "judging")
    /\ Goto(p, "failed")
    /\ UNCHANGED <<run, free, talk, caches, sessions, output, heard>>

(* Anything else raised in a session: a cached file or a call that cannot  *)
(* be read, a judge that fails or does not parse.  Its transcript is lost. *)
SessionFails(p) ==
    /\ \/ AnswerIsUnreadable(p)
       \/ At(p, "learner") /\ Has(learner_cache, p) /\ ~ Readable(learner_cache, p)
       \/ At(p, "judge") /\ Has(judge_cache, p) /\ ~ Readable(judge_cache, p)
       \/ At(p, "judging")
    /\ free' = free + 1
    /\ Goto(p, "failed")
    /\ UNCHANGED <<run, talk, caches, sessions, output, heard>>

(* The disk is full: the file is opened and truncated, the rest raises.    *)
PutFails(p) ==
    /\ \/ /\ At(p, "asking")
          /\ learner_cache' = Put(learner_cache, Key(p), Broken)
          /\ UNCHANGED judge_cache
       \/ /\ At(p, "judging")
          /\ judge_cache' = Put(judge_cache, Key(p), Broken)
          /\ UNCHANGED learner_cache
    /\ free' = free + 1
    /\ Goto(p, "failed")
    /\ UNCHANGED <<run, talk, sessions, output, heard>>

-----------------------------------------------------------------------------
(* The command.                                                            *)

(* The failed sessions are printed, and are not in the file.               *)
WriteOutput ==
    /\ output = NoOutput /\ \A p \in PERSONAS : step[p] \in {"done", "failed"}
    /\ output' = [session_count |-> Len(sessions), sessions |-> sessions,
                  stopped |-> {p \in PERSONAS : step[p] = "failed"}]
    /\ UNCHANGED <<run, step, free, talk, caches, sessions, heard>>

(* Another run, with what is on disk.                                      *)
RunAgain ==
    /\ output # NoOutput /\ run < RUNS
    /\ run' = run + 1
    /\ Fresh
    /\ UNCHANGED <<caches, heard>>

(* The command is killed, perhaps while it writes a file, and run again.   *)
Kill ==
    /\ output = NoOutput /\ run < RUNS
    /\ run' = run + 1
    /\ Fresh
    /\ UNCHANGED heard
    /\ \/ UNCHANGED caches
       \/ \E p \in PERSONAS : \/ /\ step[p] = "asking"
                                 /\ learner_cache' = Put(learner_cache, Key(p), Broken)
                                 /\ UNCHANGED judge_cache
                              \/ /\ step[p] = "judging"
                                 /\ judge_cache' = Put(judge_cache, Key(p), Broken)
                                 /\ UNCHANGED learner_cache

AgentStep ==
    \/ \E p \in PERSONAS :
          \/ Begin(p)
          \/ next_utterance(p) \/ LearnerAnswers(p) \/ LearnerFails(p)
          \/ AgentAnswers(p) \/ AgentFails(p)
          \/ judge_session(p) \/ JudgeAnswers(p)
          \/ SessionFails(p) \/ PutFails(p)
    \/ WriteOutput

AgentNext == AgentStep \/ RunAgain \/ Kill

-----------------------------------------------------------------------------
(* The same words get the same answer: what is taken from a cache was made *)
(* for the very conversation it is used in; in every run a persona         *)
(* continues the same conversation with the same utterance, and the same   *)
(* session is given the same verdict, through failures, kills and files    *)
(* left half written (_cache.py; SyntheticLearner.next_utterance;          *)
(* judge_session).                                                         *)
ReplaysAgree ==
    \A a \in heard :
        /\ a.entry.for = a.at
        /\ \A b \in heard : a.kind = b.kind /\ a.persona = b.persona /\ a.at = b.at
                              => a.entry = b.entry

(* The rows the runtime would have of the same calls.                      *)
StoreTurn(turns, call) ==
    LET args == normalize_runtime_log_turn_args(call[1])
    IN  IF args = Refused THEN turns ELSE Append(turns, Stored(args, call[2]))

RuntimeTurns(p) == FoldLeft(StoreTurn, <<>>, called[p])

(* The accumulator is the runtime's profile: as long as every log_turn is  *)
(* as its schema asks and names every category once, its snapshot is the   *)
(* one LearnerProfileRepo.get reads from the rows the same calls leave     *)
(* (accumulator.py:1-8).                                                   *)
SnapshotsAgree ==
    \A p \in PERSONAS :
        (\A i \in DOMAIN called[p] : AsAsked(called[p][i][1])) =>
            snapshot(acc[p]) = Get(RuntimeTurns(p))

(* What the tests store, which the code does not keep: the row of an error *)
(* observation has the form the learner produced, as a test of the         *)
(* repository stores it (errors.py:45, tests/test_learner_errors.py:44).   *)
FormsAreKept ==
    \A p \in PERSONAS : \A i \in DOMAIN called[p] :
        LET args == normalize_runtime_log_turn_args(called[p][i][1])
        IN  args # Refused =>
                \A e \in ToSet(args.errors) : \E row \in ToSet(ErrorRows(args.errors)) :
                    e.type # NoType => row = [category |-> e.type, produced_form |-> e.produced]

(* What is written is what happened: a session is in the output once, with *)
(* the transcript it was judged on, or it failed; and no run ends with a   *)
(* permit of the semaphore taken (run_agent_eval.py:407-471).              *)
OutputIsComplete ==
    output # NoOutput =>
        /\ free = SLOTS
        /\ \A p \in PERSONAS :
              LET mine == {i \in DOMAIN output.sessions : output.sessions[i].persona = p}
              IN  IF p \in output.stopped THEN mine = {}
                  ELSE \E i \in mine : /\ mine = {i}
                                       /\ output.sessions[i].transcript = transcript[p]
=============================================================================
