-------------------------- MODULE EvaluationProofs --------------------------
(***************************************************************************)
(* Theorems about the two evaluations, for any personas, fixtures,         *)
(* replies, budgets and numbers of runs: the caches of the agent's         *)
(* evaluation replay one conversation alike, its output is complete, the   *)
(* report over fixtures accounts for all of them, its judge only raises a  *)
(* score, a call counts the same in whatever form it is written, and the   *)
(* profile kept in memory is the one the runtime would read.               *)
(***************************************************************************)
EXTENDS Evaluation, FiniteSetTheorems, SequenceTheorems, WellFoundedInduction, TLAPS

-----------------------------------------------------------------------------
(* The caches: an entry is made once, for the conversation of its key, and *)
(* everything said or judged is the entry of its conversation.             *)

Opens(p, at) == at = <<>> /\ p \in OPENING

(* Nothing on disk is another conversation's.                              *)
EntriesAreTheirs(cache) ==
    \A k \in DOMAIN cache : cache[k] = Broken \/ cache[k].for = k[2]

(* Whoever waits for an answer has none of it on disk.                     *)
WaitsAreNew ==
    \A p \in PERSONAS :
        /\ step[p] = "asking" => ~Has(learner_cache, p) /\ ~Opens(p, transcript[p])
        /\ step[p] = "judging" => ~Has(judge_cache, p)

OnDisk(cache, a) ==
    <<a.persona, a.at>> \in DOMAIN cache /\ cache[<<a.persona, a.at>>] = a.entry

HeardIsKept ==
    \A a \in heard :
        /\ a.kind \in {"said", "judged"} /\ a.entry.for = a.at
        /\ a.kind = "said" =>
              IF Opens(a.persona, a.at) THEN a.entry = [value |-> Opening, for |-> <<>>]
              ELSE OnDisk(learner_cache, a)
        /\ a.kind = "judged" => OnDisk(judge_cache, a)

AgentTyped == DOMAIN step = PERSONAS /\ DOMAIN transcript = PERSONAS

CacheInv ==
    /\ AgentTyped
    /\ EntriesAreTheirs(learner_cache) /\ EntriesAreTheirs(judge_cache)
    /\ WaitsAreNew /\ HeardIsKept

LEMMA InitCache == Init => CacheInv
BY DEF Init, AgentInit, CacheInv, AgentTyped, EntriesAreTheirs, WaitsAreNew, HeardIsKept

(* A new entry leaves the others alone.                                    *)
LEMMA PutIsTheirs ==
    ASSUME NEW cache, EntriesAreTheirs(cache), NEW key, NEW value,
           value = Broken \/ value.for = key[2]
    PROVE  EntriesAreTheirs(Put(cache, key, value))
<1> DEFINE after == Put(cache, key, value)
<1>1. /\ DOMAIN after = DOMAIN cache \cup {key} /\ after[key] = value
      /\ \A k \in DOMAIN cache : k # key => after[k] = cache[k]
  BY DEF Put
<1> HIDE DEF after
<1>2. SUFFICES \A k \in DOMAIN after : after[k] = Broken \/ after[k].for = k[2]
  BY DEF EntriesAreTheirs, after
<1>3. TAKE k \in DOMAIN after
<1>4. CASE k = key
  BY <1>1, <1>4
<1>5. CASE k # key
  BY <1>1, <1>3, <1>5 DEF EntriesAreTheirs
<1> QED
  BY <1>4, <1>5

(* Who is heard stays heard as long as the cache keeps its entry.          *)
LEMMA HeardStays ==
    ASSUME HeardIsKept,
           \A k \in DOMAIN learner_cache :
               k \in DOMAIN learner_cache' /\ learner_cache'[k] = learner_cache[k],
           \A k \in DOMAIN judge_cache :
               k \in DOMAIN judge_cache' /\ judge_cache'[k] = judge_cache[k],
           heard' = heard
    PROVE  HeardIsKept'
BY DEF HeardIsKept, OnDisk, Opens

(* One more thing heard.                                                   *)
LEMMA HearKeeps ==
    ASSUME HeardIsKept,
           \A k \in DOMAIN learner_cache :
               k \in DOMAIN learner_cache' /\ learner_cache'[k] = learner_cache[k],
           \A k \in DOMAIN judge_cache :
               k \in DOMAIN judge_cache' /\ judge_cache'[k] = judge_cache[k],
           NEW kind \in {"said", "judged"}, NEW p, NEW entry,
           Hear(kind, p, entry), entry.for = transcript[p],
           kind = "said" =>
               IF Opens(p, transcript[p]) THEN entry = [value |-> Opening, for |-> <<>>]
               ELSE Key(p) \in DOMAIN learner_cache' /\ learner_cache'[Key(p)] = entry,
           kind = "judged" => Key(p) \in DOMAIN judge_cache' /\ judge_cache'[Key(p)] = entry
    PROVE  HeardIsKept'
<1> DEFINE new == [kind |-> kind, persona |-> p, at |-> transcript[p], entry |-> entry]
<1>1. heard' = heard \cup {new}
  BY DEF Hear
<1>2. /\ new.kind = kind /\ new.persona = p /\ new.at = transcript[p] /\ new.entry = entry
  OBVIOUS
<1> HIDE DEF new
<1>3. ASSUME NEW a \in heard
      PROVE  /\ a.kind \in {"said", "judged"} /\ a.entry.for = a.at
             /\ a.kind = "said" =>
                   IF Opens(a.persona, a.at) THEN a.entry = [value |-> Opening, for |-> <<>>]
                   ELSE OnDisk(learner_cache, a)'
             /\ a.kind = "judged" => OnDisk(judge_cache, a)'
  BY DEF HeardIsKept, OnDisk
<1>4. /\ new.kind \in {"said", "judged"} /\ new.entry.for = new.at
      /\ new.kind = "said" =>
            IF Opens(new.persona, new.at) THEN new.entry = [value |-> Opening, for |-> <<>>]
            ELSE OnDisk(learner_cache', new)
      /\ new.kind = "judged" => OnDisk(judge_cache', new)
  BY <1>2 DEF OnDisk, Key
<1> QED
  BY <1>1, <1>3, <1>4 DEF HeardIsKept, OnDisk, Opens

SameCaches == learner_cache' = learner_cache /\ judge_cache' = judge_cache

(* The personas that neither move nor speak still wait for what is not on  *)
(* disk, since the new entry, if any, is of another persona.               *)
OthersWait(p) ==
    \A q \in PERSONAS \ {p} :
        /\ step'[q] = step[q] /\ transcript'[q] = transcript[q]
        /\ Key(q) \in DOMAIN learner_cache' => Key(q) \in DOMAIN learner_cache
        /\ Key(q) \in DOMAIN judge_cache' => Key(q) \in DOMAIN judge_cache

LEMMA OneWaits ==
    ASSUME WaitsAreNew, NEW p \in PERSONAS, OthersWait(p),
           /\ step'[p] = "asking" => ~Has(learner_cache, p)' /\ ~Opens(p, transcript'[p])
           /\ step'[p] = "judging" => ~Has(judge_cache, p)'
    PROVE  WaitsAreNew'
<1>1. \A q \in PERSONAS \ {p} : Key(q)' = Key(q)
  BY DEF OthersWait, Key
<1>2. ASSUME NEW q \in PERSONAS, q # p
      PROVE  /\ step'[q] = "asking" => ~Has(learner_cache, q)' /\ ~Opens(q, transcript'[q])
             /\ step'[q] = "judging" => ~Has(judge_cache, q)'
  BY <1>1, <1>2 DEF WaitsAreNew, OthersWait, Has, Opens
<1> QED
  BY <1>2 DEF WaitsAreNew, Opens

(* Nothing changes on disk, and nobody begins to wait.                     *)
LEMMA QuietStep ==
    ASSUME CacheInv, AgentTyped', SameCaches, heard' = heard,
           \A q \in PERSONAS :
               step'[q] \in {"asking", "judging"} =>
                   step'[q] = step[q] /\ transcript'[q] = transcript[q]
    PROVE  CacheInv'
<1>1. WaitsAreNew'
  BY DEF CacheInv, WaitsAreNew, SameCaches, Has, Key, Opens
<1>2. HeardIsKept'
  BY HeardStays DEF CacheInv, SameCaches
<1> QED
  BY <1>1, <1>2 DEF CacheInv, SameCaches, EntriesAreTheirs

(* The steps of one session.                                               *)
LEMMA NextUtteranceCaches ==
    ASSUME CacheInv, NEW p \in PERSONAS, next_utterance(p)
    PROVE  CacheInv'
<1> DEFINE open == transcript[p] = <<>> /\ p \in OPENING
<1>1. SameCaches /\ AgentTyped
  BY DEF next_utterance, caches, SameCaches, CacheInv
<1>2. CASE open /\ Say(p, Entry(p, Opening)) /\ Goto(p, "answering")
  <2>1. AgentTyped' /\ OthersWait(p) /\ step'[p] = "answering"
    BY <1>1, <1>2 DEF Say, Goto, AgentTyped, OthersWait, SameCaches
  <2>2. HeardIsKept'
    <3>1. Entry(p, Opening) = [value |-> Opening, for |-> <<>>]
          /\ Entry(p, Opening).for = transcript[p] /\ Opens(p, transcript[p])
      BY <1>2 DEF Entry, Opens
    <3> QED
      BY <1>1, <1>2, <3>1, HearKeeps DEF Say, CacheInv, SameCaches
  <2>3. WaitsAreNew'
    BY <2>1, OneWaits DEF CacheInv
  <2> QED
    BY <1>1, <2>1, <2>2, <2>3 DEF CacheInv, SameCaches, EntriesAreTheirs
<1>3. CASE /\ ~open /\ Readable(learner_cache, p)
           /\ Say(p, learner_cache[Key(p)]) /\ Goto(p, "answering")
  <2>1. AgentTyped' /\ OthersWait(p) /\ step'[p] = "answering"
    BY <1>1, <1>3 DEF Say, Goto, AgentTyped, OthersWait, SameCaches
  <2>2. HeardIsKept'
    <3>1. Key(p) \in DOMAIN learner_cache /\ learner_cache[Key(p)] # Broken
      BY <1>3 DEF Readable, Has
    <3>2. learner_cache[Key(p)].for = transcript[p]
      BY <3>1 DEF CacheInv, EntriesAreTheirs, Key
    <3>3. ~Opens(p, transcript[p])
      BY <1>3 DEF Opens
    <3> QED
      BY <1>1, <1>3, <3>1, <3>2, <3>3, HearKeeps DEF Say, CacheInv, SameCaches
  <2>3. WaitsAreNew'
    BY <2>1, OneWaits DEF CacheInv
  <2> QED
    BY <1>1, <2>1, <2>2, <2>3 DEF CacheInv, SameCaches, EntriesAreTheirs
<1>4. CASE /\ ~open /\ ~Has(learner_cache, p)
           /\ Goto(p, "asking") /\ UNCHANGED <<transcript, heard>>
  <2>1. AgentTyped' /\ OthersWait(p) /\ step'[p] = "asking"
    BY <1>1, <1>4 DEF Goto, AgentTyped, OthersWait, SameCaches
  <2>2. ~Has(learner_cache, p)' /\ ~Opens(p, transcript'[p])
    BY <1>1, <1>4 DEF Has, Key, SameCaches, Opens
  <2>3. WaitsAreNew'
    BY <2>1, <2>2, OneWaits DEF CacheInv
  <2>4. HeardIsKept'
    BY <1>1, <1>4, HeardStays DEF CacheInv, SameCaches
  <2> QED
    BY <1>1, <2>1, <2>3, <2>4 DEF CacheInv, SameCaches, EntriesAreTheirs
<1> QED
  BY <1>2, <1>3, <1>4 DEF next_utterance

LEMMA LearnerAnswersCaches ==
    ASSUME CacheInv, NEW p \in PERSONAS, LearnerAnswers(p)
    PROVE  CacheInv'
<1>1. PICK u \in UTTERANCES[p] : /\ learner_cache' = Put(learner_cache, Key(p), Entry(p, u))
                                 /\ Say(p, Entry(p, u))
  BY DEF LearnerAnswers
<1>2. judge_cache' = judge_cache /\ Goto(p, "answering") /\ step[p] = "asking" /\ AgentTyped
  BY DEF LearnerAnswers, At, CacheInv
<1>3. Key(p) \notin DOMAIN learner_cache /\ ~Opens(p, transcript[p])
  BY <1>2 DEF CacheInv, WaitsAreNew, Has
<1>4. /\ \A k \in DOMAIN learner_cache : /\ k \in DOMAIN learner_cache'
                                         /\ learner_cache'[k] = learner_cache[k]
      /\ DOMAIN learner_cache' = DOMAIN learner_cache \cup {Key(p)}
      /\ learner_cache'[Key(p)] = Entry(p, u)
  BY <1>1, <1>3 DEF Put
<1>5. Entry(p, u).for = transcript[p] /\ Key(p)[2] = transcript[p]
  BY DEF Entry, Key
<1>6. AgentTyped' /\ OthersWait(p) /\ step'[p] = "answering"
  <2>1. \A q \in PERSONAS \ {p} : Key(q) # Key(p)
    BY DEF Key
  <2> QED
    BY <1>1, <1>2, <1>4, <2>1 DEF Say, Goto, AgentTyped, OthersWait
<1>7. EntriesAreTheirs(learner_cache)' /\ EntriesAreTheirs(judge_cache)'
  <2>1. EntriesAreTheirs(learner_cache')
    BY <1>1, <1>5, PutIsTheirs DEF CacheInv
  <2> QED
    BY <1>2, <2>1 DEF EntriesAreTheirs, CacheInv
<1>8. WaitsAreNew'
  BY <1>6, OneWaits DEF CacheInv
<1>9. HeardIsKept'
  BY <1>1, <1>2, <1>3, <1>4, <1>5, HearKeeps DEF Say, CacheInv
<1> QED
  BY <1>6, <1>7, <1>8, <1>9 DEF CacheInv

(* A verdict is the entry of the session it is about.                      *)
LEMMA JudgeSessionCaches ==
    ASSUME CacheInv, NEW p \in PERSONAS, judge_session(p)
    PROVE  CacheInv'
<1>1. SameCaches /\ AgentTyped /\ transcript' = transcript
  BY DEF judge_session, caches, talk, SameCaches, CacheInv
<1>2. CASE Readable(judge_cache, p) /\ Finish(p, judge_cache[Key(p)])
  <2>1. AgentTyped' /\ OthersWait(p) /\ step'[p] = "done"
    BY <1>1, <1>2 DEF Finish, Goto, AgentTyped, OthersWait, SameCaches
  <2>2. Key(p) \in DOMAIN judge_cache /\ judge_cache[Key(p)] # Broken
    BY <1>2 DEF Readable, Has
  <2>3. judge_cache[Key(p)].for = transcript[p]
    BY <2>2 DEF CacheInv, EntriesAreTheirs, Key
  <2>4. HeardIsKept'
    BY <1>1, <1>2, <2>2, <2>3, HearKeeps DEF Finish, CacheInv, SameCaches
  <2>5. WaitsAreNew'
    BY <2>1, OneWaits DEF CacheInv
  <2> QED
    BY <1>1, <2>1, <2>4, <2>5 DEF CacheInv, SameCaches, EntriesAreTheirs
<1>3. CASE /\ ~Has(judge_cache, p) /\ Goto(p, "judging") /\ heard' = heard
  <2>1. AgentTyped' /\ OthersWait(p) /\ step'[p] = "judging"
    BY <1>1, <1>3 DEF Goto, AgentTyped, OthersWait, SameCaches
  <2>2. ~Has(judge_cache, p)'
    BY <1>1, <1>3 DEF Has, Key, SameCaches
  <2>3. WaitsAreNew'
    BY <2>1, <2>2, OneWaits DEF CacheInv
  <2>4. HeardIsKept'
    BY <1>1, <1>3, HeardStays DEF CacheInv, SameCaches
  <2> QED
    BY <1>1, <2>1, <2>3, <2>4 DEF CacheInv, SameCaches, EntriesAreTheirs
<1> QED
  BY <1>2, <1>3 DEF judge_session

LEMMA JudgeAnswersCaches ==
    ASSUME CacheInv, NEW p \in PERSONAS, JudgeAnswers(p)
    PROVE  CacheInv'
<1>1. PICK v \in VERDICTS[p] : /\ judge_cache' = Put(judge_cache, Key(p), Entry(p, v))
                               /\ Finish(p, Entry(p, v))
  BY DEF JudgeAnswers
<1>2. /\ learner_cache' = learner_cache /\ step[p] = "judging" /\ AgentTyped
      /\ transcript' = transcript
  BY DEF JudgeAnswers, At, CacheInv, talk
<1>3. Key(p) \notin DOMAIN judge_cache
  BY <1>2 DEF CacheInv, WaitsAreNew, Has
<1>4. /\ \A k \in DOMAIN judge_cache : /\ k \in DOMAIN judge_cache'
                                       /\ judge_cache'[k] = judge_cache[k]
      /\ DOMAIN judge_cache' = DOMAIN judge_cache \cup {Key(p)}
      /\ judge_cache'[Key(p)] = Entry(p, v)
  BY <1>1, <1>3 DEF Put
<1>5. Entry(p, v).for = transcript[p] /\ Key(p)[2] = transcript[p]
  BY DEF Entry, Key
<1>6. AgentTyped' /\ OthersWait(p) /\ step'[p] = "done"
  <2>1. \A q \in PERSONAS \ {p} : Key(q) # Key(p)
    BY DEF Key
  <2> QED
    BY <1>1, <1>2, <1>4, <2>1 DEF Finish, Goto, AgentTyped, OthersWait
<1>7. EntriesAreTheirs(learner_cache)' /\ EntriesAreTheirs(judge_cache)'
  <2>1. EntriesAreTheirs(judge_cache')
    BY <1>1, <1>5, PutIsTheirs DEF CacheInv
  <2> QED
    BY <1>2, <2>1 DEF EntriesAreTheirs, CacheInv
<1>8. WaitsAreNew'
  BY <1>6, OneWaits DEF CacheInv
<1>9. HeardIsKept'
  BY <1>1, <1>2, <1>4, <1>5, HearKeeps DEF Finish, CacheInv
<1> QED
  BY <1>6, <1>7, <1>8, <1>9 DEF CacheInv

(* A file left half written is an entry like another, of a persona that    *)
(* waits for it.                                                           *)
Broke(p) ==
    \/ /\ step[p] = "asking" /\ learner_cache' = Put(learner_cache, Key(p), Broken)
       /\ judge_cache' = judge_cache
    \/ /\ step[p] = "judging" /\ judge_cache' = Put(judge_cache, Key(p), Broken)
       /\ learner_cache' = learner_cache

LEMMA BrokenIsNobodys ==
    ASSUME CacheInv, NEW p \in PERSONAS, Broke(p), heard' = heard
    PROVE  /\ EntriesAreTheirs(learner_cache)' /\ EntriesAreTheirs(judge_cache)'
           /\ HeardIsKept'
           /\ DOMAIN learner_cache' \subseteq DOMAIN learner_cache \cup {Key(p)}
           /\ DOMAIN judge_cache' \subseteq DOMAIN judge_cache \cup {Key(p)}
<1>1. CASE /\ step[p] = "asking" /\ learner_cache' = Put(learner_cache, Key(p), Broken)
           /\ judge_cache' = judge_cache
  <2>1. Key(p) \notin DOMAIN learner_cache
    BY <1>1 DEF CacheInv, WaitsAreNew, Has
  <2>2. /\ \A k \in DOMAIN learner_cache : /\ k \in DOMAIN learner_cache'
                                           /\ learner_cache'[k] = learner_cache[k]
        /\ DOMAIN learner_cache' = DOMAIN learner_cache \cup {Key(p)}
    BY <1>1, <2>1 DEF Put
  <2>3. EntriesAreTheirs(learner_cache')
    BY <1>1, PutIsTheirs DEF CacheInv
  <2>4. HeardIsKept'
    BY <1>1, <2>2, HeardStays DEF CacheInv
  <2> QED
    BY <1>1, <2>2, <2>3, <2>4 DEF CacheInv, EntriesAreTheirs
<1>2. CASE /\ step[p] = "judging" /\ judge_cache' = Put(judge_cache, Key(p), Broken)
           /\ learner_cache' = learner_cache
  <2>1. Key(p) \notin DOMAIN judge_cache
    BY <1>2 DEF CacheInv, WaitsAreNew, Has
  <2>2. /\ \A k \in DOMAIN judge_cache : /\ k \in DOMAIN judge_cache'
                                         /\ judge_cache'[k] = judge_cache[k]
        /\ DOMAIN judge_cache' = DOMAIN judge_cache \cup {Key(p)}
    BY <1>2, <2>1 DEF Put
  <2>3. EntriesAreTheirs(judge_cache')
    BY <1>2, PutIsTheirs DEF CacheInv
  <2>4. HeardIsKept'
    BY <1>2, <2>2, HeardStays DEF CacheInv
  <2> QED
    BY <1>2, <2>2, <2>3, <2>4 DEF CacheInv, EntriesAreTheirs
<1> QED
  BY <1>1, <1>2 DEF Broke

LEMMA PutFailsCaches ==
    ASSUME CacheInv, NEW p \in PERSONAS, PutFails(p)
    PROVE  CacheInv'
<1>1. Broke(p) /\ heard' = heard /\ AgentTyped
  BY DEF PutFails, Broke, At, CacheInv
<1>2. Goto(p, "failed") /\ transcript' = transcript
  BY DEF PutFails, talk
<1>3. AgentTyped' /\ OthersWait(p) /\ step'[p] = "failed"
  <2>1. \A q \in PERSONAS \ {p} : Key(q) # Key(p)
    BY DEF Key
  <2> QED
    BY <1>1, <1>2, <2>1, BrokenIsNobodys DEF Goto, AgentTyped, OthersWait
<1>4. WaitsAreNew'
  BY <1>3, OneWaits DEF CacheInv
<1> QED
  BY <1>1, <1>3, <1>4, BrokenIsNobodys DEF CacheInv

LEMMA FreshWaitsForNothing ==
    ASSUME Fresh
    PROVE  AgentTyped' /\ WaitsAreNew' /\ \A q \in PERSONAS : step'[q] = "queued"
BY DEF Fresh, AgentTyped, WaitsAreNew

LEMMA KillCaches ==
    ASSUME CacheInv, Kill
    PROVE  CacheInv'
<1>1. Fresh /\ heard' = heard
  BY DEF Kill
<1>2. CASE SameCaches
  BY <1>1, <1>2, FreshWaitsForNothing, QuietStep
<1>3. CASE ~SameCaches
  <2>1. PICK p \in PERSONAS : Broke(p)
    BY <1>3 DEF Kill, caches, SameCaches, Broke
  <2> QED
    BY <1>1, <2>1, FreshWaitsForNothing, BrokenIsNobodys DEF CacheInv
<1> QED
  BY <1>2, <1>3

LEMMA StepCaches == CacheInv /\ [Next]_vars => CacheInv'
<1> SUFFICES ASSUME CacheInv, [Next]_vars PROVE CacheInv'
  OBVIOUS
<1>0. AgentTyped
  BY DEF CacheInv
<1>1. ASSUME NEW p \in PERSONAS,
             \/ Begin(p) \/ LearnerFails(p) \/ AgentFails(p) \/ SessionFails(p)
      PROVE  CacheInv'
  <2>1. SameCaches /\ heard' = heard /\ transcript' = transcript
    BY <1>1 DEF Begin, LearnerFails, AgentFails, SessionFails, caches, talk, SameCaches
  <2>2. PICK there \in {"learner", "judge", "failed"} : step' = [step EXCEPT ![p] = there]
    BY <1>1 DEF Begin, LearnerFails, AgentFails, SessionFails, Goto
  <2>3. AgentTyped' /\ \A q \in PERSONAS : step'[q] \in {"asking", "judging"} => step'[q] = step[q]
    BY <1>0, <2>1, <2>2 DEF AgentTyped
  <2> QED
    BY <2>1, <2>3, QuietStep
<1>2. ASSUME NEW p \in PERSONAS, AgentAnswers(p)
      PROVE  CacheInv'
  <2>1. SameCaches /\ heard' = heard
    BY <1>2 DEF AgentAnswers, caches, SameCaches
  <2>2. PICK there \in {"learner", "judge"} : step' = [step EXCEPT ![p] = there]
    BY <1>2 DEF AgentAnswers, Goto
  <2>3. PICK said : transcript' = [transcript EXCEPT ![p] = said]
    BY <1>2 DEF AgentAnswers
  <2>4. AgentTyped' /\ \A q \in PERSONAS :
          step'[q] \in {"asking", "judging"} => step'[q] = step[q] /\ transcript'[q] = transcript[q]
    BY <1>0, <2>2, <2>3 DEF AgentTyped
  <2> QED
    BY <2>1, <2>4, QuietStep
<1>3. ASSUME WriteOutput PROVE CacheInv'
  <2>1. SameCaches /\ heard' = heard /\ step' = step /\ transcript' = transcript
    BY <1>3 DEF WriteOutput, caches, talk, SameCaches
  <2> QED
    BY <1>0, <2>1, QuietStep DEF AgentTyped
<1>4. ASSUME RunAgain PROVE CacheInv'
  <2>1. SameCaches /\ heard' = heard /\ Fresh
    BY <1>4 DEF RunAgain, caches, SameCaches
  <2> QED
    BY <2>1, FreshWaitsForNothing, QuietStep
<1>5. ASSUME UNCHANGED agentVars PROVE CacheInv'
  <2>1. SameCaches /\ heard' = heard /\ step' = step /\ transcript' = transcript
    BY <1>5 DEF agentVars, caches, talk, SameCaches
  <2> QED
    BY <1>0, <2>1, QuietStep DEF AgentTyped
<1>6. CASE AgentNext
  BY <1>1, <1>2, <1>3, <1>4, <1>6, NextUtteranceCaches, LearnerAnswersCaches, JudgeSessionCaches,
     JudgeAnswersCaches, PutFailsCaches, KillCaches DEF AgentNext, AgentStep
<1> QED
  BY <1>5, <1>6 DEF Next, vars

(* The same words get the same answer, for any personas, utterances,       *)
(* answers, verdicts, budgets and number of runs, through failed calls,    *)
(* kills and files left half written (_cache.py; judge_session).           *)
THEOREM ReplaysAreAlike == Spec => []ReplaysAgree
<1>1. CacheInv => ReplaysAgree
  <2>1. SUFFICES ASSUME CacheInv, NEW a \in heard
                 PROVE  /\ a.entry.for = a.at
                        /\ \A b \in heard : a.kind = b.kind /\ a.persona = b.persona
                                             /\ a.at = b.at => a.entry = b.entry
    BY DEF ReplaysAgree
  <2>2. a.entry.for = a.at
    BY <2>1 DEF CacheInv, HeardIsKept
  <2>3. ASSUME NEW b \in heard, a.kind = b.kind, a.persona = b.persona, a.at = b.at
        PROVE  a.entry = b.entry
    BY <2>1, <2>3 DEF CacheInv, HeardIsKept, OnDisk
  <2> QED
    BY <2>2, <2>3
<1> QED
  BY <1>1, InitCache, StepCaches, PTL DEF Spec
-----------------------------------------------------------------------------
(* The output: what is done has one session, on its transcript, and every  *)
(* permit that is not free is held by a session under way.                 *)

Under == {"learner", "asking", "answering", "judge", "judging"}
AgentSteps == Under \cup {"queued", "done", "failed"}
Active == {p \in PERSONAS : step[p] \in Under}
Mine(p) == {i \in DOMAIN sessions : sessions[i].persona = p}

OutTyped ==
    /\ step \in [PERSONAS -> AgentSteps] /\ DOMAIN transcript = PERSONAS
    /\ Len(sessions) \in Nat /\ \E S : sessions \in Seq(S)

PermitsAreHeld ==
    IsFiniteSet(Active) /\ free \in Nat /\ free + Cardinality(Active) = SLOTS

SessionsAreDone ==
    \A p \in PERSONAS :
        IF step[p] = "done"
        THEN \E i \in DOMAIN sessions : Mine(p) = {i} /\ sessions[i].transcript = transcript[p]
        ELSE Mine(p) = {}

OutputIsLast ==
    output # NoOutput =>
        /\ \A p \in PERSONAS : step[p] \in {"done", "failed"}
        /\ output.sessions = sessions
        /\ output.stopped = {p \in PERSONAS : step[p] = "failed"}

OutInv == OutTyped /\ PermitsAreHeld /\ SessionsAreDone /\ OutputIsLast

(* A run begins with nobody under way and nothing done.                    *)
Afresh ==
    /\ step = [p \in PERSONAS |-> "queued"] /\ free = SLOTS
    /\ transcript = [p \in PERSONAS |-> <<>>] /\ sessions = <<>> /\ output = NoOutput

LEMMA AfreshIsInOrder == Afresh => OutInv
<1> SUFFICES ASSUME Afresh PROVE OutInv
  OBVIOUS
<1>1. step \in [PERSONAS -> AgentSteps] /\ DOMAIN transcript = PERSONAS
  BY DEF Afresh, AgentSteps
<1>2. Len(sessions) \in Nat /\ sessions \in Seq({}) /\ DOMAIN sessions = {}
  BY DEF Afresh
<1>3. PermitsAreHeld
  <2>1. Active = {}
    BY DEF Afresh, Active, Under
  <2> QED
    BY <2>1, FS_EmptySet, AgentAssumption DEF Afresh, PermitsAreHeld
<1>4. SessionsAreDone /\ OutputIsLast
  BY <1>2 DEF Afresh, SessionsAreDone, OutputIsLast, Mine
<1> QED
  BY <1>1, <1>2, <1>3, <1>4 DEF OutInv, OutTyped

LEMMA InitOut == Init => OutInv
<1> SUFFICES ASSUME Init PROVE OutInv
  OBVIOUS
<1>1. Afresh
  BY DEF Init, AgentInit, Afresh
<1> QED
  BY <1>1, AfreshIsInOrder

(* p goes from one step to another, before there is an output; the words   *)
(* of the others stay.                                                     *)
Moves(p, there) ==
    /\ output = NoOutput /\ output' = output
    /\ step' = [step EXCEPT ![p] = there]
    /\ DOMAIN transcript' = PERSONAS
    /\ \A q \in PERSONAS \ {p} : transcript'[q] = transcript[q]

(* What the others have is still so.                                       *)
LEMMA OthersAreDone ==
    ASSUME OutInv, NEW p \in PERSONAS, NEW there \in AgentSteps, Moves(p, there),
           sessions' = sessions, step[p] # "done", there # "done"
    PROVE  OutTyped' /\ SessionsAreDone' /\ OutputIsLast'
<1>1. OutTyped'
  BY DEF OutInv, OutTyped, Moves
<1>2. SessionsAreDone'
  BY DEF OutInv, OutTyped, Moves, SessionsAreDone, Mine
<1>3. OutputIsLast'
  BY DEF OutputIsLast, Moves
<1> QED
  BY <1>1, <1>2, <1>3

LEMMA GoesOn ==
    ASSUME OutInv, NEW p \in PERSONAS, NEW there \in Under, Moves(p, there),
           sessions' = sessions, step[p] \in Under, free' = free
    PROVE  OutInv'
<1>1. Active' = Active
  BY DEF Active, Moves, OutInv, OutTyped
<1>2. PermitsAreHeld'
  BY <1>1 DEF OutInv, PermitsAreHeld
<1>3. step[p] # "done" /\ there # "done" /\ there \in AgentSteps
  BY DEF Under, AgentSteps
<1> QED
  BY <1>2, <1>3, OthersAreDone DEF OutInv

LEMMA Begins ==
    ASSUME OutInv, NEW p \in PERSONAS, Moves(p, "learner"), sessions' = sessions,
           step[p] = "queued", free > 0, free' = free - 1
    PROVE  OutInv'
<1>1. Active' = Active \cup {p} /\ p \notin Active
  BY DEF Active, Moves, OutInv, OutTyped, Under
<1>2. /\ IsFiniteSet(Active \cup {p})
      /\ Cardinality(Active \cup {p}) = Cardinality(Active) + 1
      /\ Cardinality(Active) \in Nat
  BY <1>1, FS_AddElement, FS_CardinalityType DEF OutInv, PermitsAreHeld
<1>3. PermitsAreHeld'
  <2>1. free \in Nat /\ free + Cardinality(Active) = SLOTS /\ SLOTS \in Nat
    BY AgentAssumption DEF OutInv, PermitsAreHeld
  <2>2. free' \in Nat /\ free' + (Cardinality(Active) + 1) = SLOTS
    BY <1>2, <2>1
  <2> QED
    BY <1>1, <1>2, <2>2 DEF PermitsAreHeld
<1>4. step[p] # "done" /\ "learner" \in AgentSteps
  BY DEF Under, AgentSteps
<1> QED
  BY <1>3, <1>4, OthersAreDone DEF OutInv

(* Whoever stops gives its permit back.                                    *)
LEMMA StopsAndReleases ==
    ASSUME OutInv, NEW p \in PERSONAS, NEW there \in {"done", "failed"}, Moves(p, there),
           step[p] \in Under, free' = free + 1
    PROVE  PermitsAreHeld'
<1>1. Active' = Active \ {p} /\ p \in Active
  BY DEF Active, Moves, OutInv, OutTyped, Under
<1>2. /\ IsFiniteSet(Active \ {p})
      /\ Cardinality(Active \ {p}) = Cardinality(Active) - 1
      /\ Cardinality(Active) \in Nat
  BY <1>1, FS_RemoveElement, FS_CardinalityType DEF OutInv, PermitsAreHeld
<1>3. free \in Nat /\ free + Cardinality(Active) = SLOTS /\ SLOTS \in Nat
  BY AgentAssumption DEF OutInv, PermitsAreHeld
<1>4. free' \in Nat /\ free' + (Cardinality(Active) - 1) = SLOTS
  BY <1>2, <1>3
<1> QED
  BY <1>1, <1>2, <1>4 DEF PermitsAreHeld

LEMMA Stops ==
    ASSUME OutInv, NEW p \in PERSONAS, Moves(p, "failed"), sessions' = sessions,
           step[p] \in Under, free' = free + 1
    PROVE  OutInv'
<1>1. PermitsAreHeld'
  BY StopsAndReleases
<1>2. step[p] # "done" /\ "failed" \in AgentSteps
  BY DEF Under, AgentSteps
<1> QED
  BY <1>1, <1>2, OthersAreDone DEF OutInv

LEMMA Finishes ==
    ASSUME OutInv, NEW p \in PERSONAS, NEW entry, Finish(p, entry), step[p] \in Under,
           output = NoOutput, output' = output, transcript' = transcript
    PROVE  OutInv'
<1>1. Moves(p, "done")
  BY DEF Finish, Goto, Moves, OutInv, OutTyped
<1>2. PermitsAreHeld'
  BY <1>1, StopsAndReleases DEF Finish
<1> DEFINE new == [persona |-> p, transcript |-> transcript[p], verdict |-> entry.value]
<1>3. PICK S : sessions \in Seq(S)
  BY DEF OutInv, OutTyped
<1>4. sessions' = Append(sessions, new) /\ new.persona = p /\ new.transcript = transcript[p]
  BY DEF Finish
<1> HIDE DEF new
<1>5. sessions \in Seq(S \cup {new}) /\ sessions' \in Seq(S \cup {new})
  BY <1>3, <1>4
<1>6. PICK n \in Nat : n = Len(sessions)
  BY <1>3
<1>7. /\ Len(sessions') = n + 1 /\ DOMAIN sessions = 1 .. n
      /\ DOMAIN sessions' = 1 .. (n + 1) /\ sessions'[n + 1] = new
      /\ \A i \in 1 .. n : sessions'[i] = sessions[i]
  BY <1>4, <1>5, <1>6
<1>8. OutTyped'
  BY <1>1, <1>5, <1>6, <1>7 DEF OutInv, OutTyped, Moves, AgentSteps
<1>9. SessionsAreDone'
  <2>1. step[p] # "done" /\ Mine(p) = {}
    BY DEF Under, OutInv, SessionsAreDone
  <2>2. Mine(p)' = {n + 1}
    BY <1>4, <1>7, <2>1 DEF Mine
  <2>3. \A q \in PERSONAS \ {p} : Mine(q)' = Mine(q)
    BY <1>4, <1>7 DEF Mine
  <2>4. \A q \in PERSONAS \ {p} : step'[q] = step[q]
    BY <1>1 DEF Moves, OutInv, OutTyped
  <2>5. step'[p] = "done" /\ sessions'[n + 1].transcript = transcript'[p] /\ n + 1 \in DOMAIN sessions'
    BY <1>1, <1>4, <1>7 DEF Moves, OutInv, OutTyped
  <2>6. ASSUME NEW q \in PERSONAS, q # p
        PROVE  IF step'[q] = "done"
               THEN \E i \in DOMAIN sessions' : Mine(q)' = {i} /\ sessions'[i].transcript = transcript'[q]
               ELSE Mine(q)' = {}
    BY <1>7, <2>3, <2>4, <2>6 DEF OutInv, SessionsAreDone
  <2> QED
    BY <2>2, <2>5, <2>6 DEF SessionsAreDone
<1>10. OutputIsLast'
  BY <1>1 DEF OutputIsLast, Moves
<1> QED
  BY <1>2, <1>8, <1>9, <1>10 DEF OutInv

LEMMA OutStays ==
    ASSUME OutInv, step' = step, free' = free, transcript' = transcript, sessions' = sessions,
           output' = output
    PROVE  OutInv'
BY DEF OutInv, OutTyped, PermitsAreHeld, SessionsAreDone, OutputIsLast, Active, Mine

LEMMA StepOut == OutInv /\ [Next]_vars => OutInv'
<1> SUFFICES ASSUME OutInv, [Next]_vars PROVE OutInv'
  OBVIOUS
<1>0. DOMAIN transcript = PERSONAS
  BY DEF OutInv, OutTyped
<1>1. ASSUME NEW p \in PERSONAS, Begin(p) PROVE OutInv'
  <2>1. Moves(p, "learner") /\ sessions' = sessions
    BY <1>0, <1>1 DEF Begin, At, Goto, Moves, talk
  <2> QED
    BY <1>1, <2>1, Begins DEF Begin, At
<1>2. ASSUME NEW p \in PERSONAS, next_utterance(p) PROVE OutInv'
  <2>1. sessions' = sessions /\ free' = free /\ step[p] \in Under
    BY <1>2 DEF next_utterance, At, Under
  <2>2. PICK there \in Under : Goto(p, there)
    BY <1>2 DEF next_utterance, Under
  <2>3. PICK said : transcript' = [transcript EXCEPT ![p] = said] \/ transcript' = transcript
    BY <1>2 DEF next_utterance, Say
  <2>4. Moves(p, there)
    BY <1>0, <1>2, <2>2, <2>3 DEF next_utterance, At, Goto, Moves
  <2> QED
    BY <2>1, <2>4, GoesOn
<1>3. ASSUME NEW p \in PERSONAS, LearnerAnswers(p) PROVE OutInv'
  <2>1. PICK said : transcript' = [transcript EXCEPT ![p] = said]
    BY <1>3 DEF LearnerAnswers, Say
  <2>2. /\ Moves(p, "answering") /\ sessions' = sessions /\ free' = free
        /\ step[p] \in Under /\ "answering" \in Under
    BY <1>0, <1>3, <2>1 DEF LearnerAnswers, At, Goto, Moves, Under
  <2> QED
    BY <2>2, GoesOn
<1>4. ASSUME NEW p \in PERSONAS, LearnerFails(p) \/ AgentFails(p) PROVE OutInv'
  <2>1. /\ Moves(p, "judge") /\ sessions' = sessions /\ free' = free
        /\ step[p] \in Under /\ "judge" \in Under
    BY <1>0, <1>4 DEF LearnerFails, AgentFails, At, Goto, Moves, Under, talk
  <2> QED
    BY <2>1, GoesOn
<1>5. ASSUME NEW p \in PERSONAS, AgentAnswers(p) PROVE OutInv'
  <2>1. PICK said : transcript' = [transcript EXCEPT ![p] = said]
    BY <1>5 DEF AgentAnswers
  <2>2. PICK there \in Under : Goto(p, there)
    BY <1>5 DEF AgentAnswers, Under
  <2>3. /\ Moves(p, there) /\ sessions' = sessions /\ free' = free /\ step[p] \in Under
    BY <1>0, <1>5, <2>1, <2>2 DEF AgentAnswers, At, Goto, Moves, Under
  <2> QED
    BY <2>3, GoesOn
<1>6. ASSUME NEW p \in PERSONAS, judge_session(p) PROVE OutInv'
  <2>1. /\ output = NoOutput /\ output' = output /\ transcript' = transcript
        /\ step[p] \in Under /\ "judging" \in Under
    BY <1>6 DEF judge_session, At, Under, talk
  <2>2. CASE Goto(p, "judging") /\ UNCHANGED <<free, sessions, heard>>
    <3>1. Moves(p, "judging")
      BY <1>0, <2>1, <2>2 DEF Goto, Moves
    <3> QED
      BY <2>1, <2>2, <3>1, GoesOn
  <2>3. CASE Finish(p, judge_cache[Key(p)])
    BY <2>1, <2>3, Finishes
  <2> QED
    BY <1>6, <2>2, <2>3 DEF judge_session
<1>7. ASSUME NEW p \in PERSONAS, JudgeAnswers(p) PROVE OutInv'
  <2>1. /\ output = NoOutput /\ output' = output /\ transcript' = transcript /\ step[p] \in Under
    BY <1>7 DEF JudgeAnswers, At, Under, talk
  <2>2. PICK v : Finish(p, Entry(p, v))
    BY <1>7 DEF JudgeAnswers
  <2> QED
    BY <2>1, <2>2, Finishes
<1>8. ASSUME NEW p \in PERSONAS, SessionFails(p) \/ PutFails(p) PROVE OutInv'
  <2>1. /\ Moves(p, "failed") /\ sessions' = sessions /\ free' = free + 1
        /\ step[p] \in Under
    BY <1>0, <1>8 DEF SessionFails, AnswerIsUnreadable, PutFails, At, Goto, Moves, Under, talk
  <2> QED
    BY <2>1, Stops
<1>9. ASSUME WriteOutput PROVE OutInv'
  <2>1. step' = step /\ free' = free /\ transcript' = transcript /\ sessions' = sessions
    BY <1>9 DEF WriteOutput, talk
  <2>2. OutTyped' /\ PermitsAreHeld' /\ SessionsAreDone'
    BY <2>1 DEF OutInv, OutTyped, PermitsAreHeld, SessionsAreDone, Active, Mine
  <2>3. OutputIsLast'
    BY <1>9, <2>1 DEF WriteOutput, OutputIsLast
  <2> QED
    BY <2>2, <2>3 DEF OutInv
<1>10. ASSUME RunAgain \/ Kill PROVE OutInv'
  <2>1. Afresh'
    BY <1>10 DEF RunAgain, Kill, Fresh, Afresh
  <2> QED
    BY <2>1, AfreshIsInOrder, PTL
<1>11. ASSUME UNCHANGED agentVars PROVE OutInv'
  BY <1>11, OutStays DEF agentVars, talk
<1>12. CASE AgentNext
  BY <1>1, <1>2, <1>3, <1>4, <1>5, <1>6, <1>7, <1>8, <1>9, <1>10, <1>12 DEF AgentNext, AgentStep
<1> QED
  BY <1>11, <1>12 DEF Next, vars

(* What is written is what happened, for any personas and any number of    *)
(* permits: a session is in the output once, with the transcript it was    *)
(* judged on, or it failed, and no permit is lost                          *)
(* (run_agent_eval.py:407-471).                                            *)
THEOREM OutputComplete == Spec => []OutputIsComplete
<1>1. OutInv => OutputIsComplete
  <2>1. SUFFICES ASSUME OutInv, output # NoOutput
                 PROVE  /\ free = SLOTS
                        /\ \A p \in PERSONAS :
                              LET mine == {i \in DOMAIN output.sessions : output.sessions[i].persona = p}
                              IN  IF p \in output.stopped THEN mine = {}
                                  ELSE \E i \in mine : /\ mine = {i}
                                                       /\ output.sessions[i].transcript = transcript[p]
    BY DEF OutputIsComplete
  <2>2. /\ \A p \in PERSONAS : step[p] \in {"done", "failed"}
        /\ output.sessions = sessions
        /\ output.stopped = {p \in PERSONAS : step[p] = "failed"}
    BY <2>1 DEF OutInv, OutputIsLast
  <2>3. free = SLOTS
    <3>1. Active = {}
      BY <2>2 DEF Active, Under
    <3> QED
      BY <2>1, <3>1, FS_EmptySet, AgentAssumption DEF OutInv, PermitsAreHeld
  <2>4. ASSUME NEW p \in PERSONAS
        PROVE  IF p \in output.stopped THEN Mine(p) = {}
               ELSE \E i \in Mine(p) : Mine(p) = {i} /\ sessions[i].transcript = transcript[p]
    BY <2>1, <2>2 DEF OutInv, SessionsAreDone
  <2> QED
    BY <2>2, <2>3, <2>4 DEF Mine
<1> QED
  BY <1>1, InitOut, StepOut, PTL DEF Spec
-----------------------------------------------------------------------------
(* The report over fixtures: each is queued, being asked, or done with a   *)
(* row or an error of its own.                                             *)

Replied(f) == {i \in DOMAIN results : results[i].fixture = f}
Answered == {f \in FIXTURES : asked[f] = "done"}

FixtureTyped ==
    /\ asked \in [FIXTURES -> {"queued", "calling", "done"}] /\ errors \subseteq FIXTURES
    /\ Len(results) \in Nat /\ \E S : results \in Seq(S)

RowsAreTheirs ==
    \A f \in FIXTURES :
        IF asked[f] = "done"
        THEN \/ f \in errors /\ Replied(f) = {}
             \/ f \notin errors /\ \E i \in DOMAIN results : Replied(f) = {i}
        ELSE f \notin errors /\ Replied(f) = {}

AnswersAreCounted == Len(results) + Cardinality(errors) = Cardinality(Answered)

(* The report is written when nothing moves any more.                      *)
ReportIsLast ==
    /\ phase = "running" => report = NoReport
    /\ report # NoReport =>
          /\ \A f \in FIXTURES : asked[f] = "done"
          /\ report.results = results /\ report.errors = errors
          /\ report.fixture_count = Cardinality(FIXTURES)

ReportInv == FixtureTyped /\ RowsAreTheirs /\ AnswersAreCounted /\ ReportIsLast

LEMMA FixturesAreFinite ==
    ASSUME NEW S, S \subseteq FIXTURES
    PROVE  IsFiniteSet(S) /\ Cardinality(S) \in Nat
BY FixtureAssumption, FS_Subset, FS_CardinalityType

LEMMA InitReport == Init => ReportInv
<1> SUFFICES ASSUME Init PROVE ReportInv
  OBVIOUS
<1> USE DEF Init, FixtureInit
<1>1. FixtureTyped
  <2>1. results \in Seq({}) /\ Len(results) = 0
    OBVIOUS
  <2> QED
    BY <2>1 DEF FixtureTyped
<1>2. RowsAreTheirs
  BY DEF RowsAreTheirs, Replied
<1>3. AnswersAreCounted
  <2>1. Answered = {} /\ errors = {} /\ Len(results) = 0
    BY DEF Answered
  <2> QED
    BY <2>1, FS_EmptySet DEF AnswersAreCounted
<1>4. ReportIsLast
  BY DEF ReportIsLast
<1> QED
  BY <1>1, <1>2, <1>3, <1>4 DEF ReportInv

(* One more fixture is done.                                               *)
LEMMA OneMoreAnswered ==
    ASSUME FixtureTyped, NEW f \in FIXTURES, asked[f] = "calling",
           asked' = [asked EXCEPT ![f] = "done"]
    PROVE  Cardinality(Answered') = Cardinality(Answered) + 1
<1>1. Answered' = Answered \cup {f} /\ f \notin Answered
  BY DEF Answered, FixtureTyped
<1>2. IsFiniteSet(Answered)
  BY FixturesAreFinite DEF Answered
<1> QED
  BY <1>1, <1>2, FS_AddElement

LEMMA ReplyIsReported ==
    ASSUME ReportInv, NEW f \in FIXTURES, ReplyArrives(f)
    PROVE  ReportInv'
<1>1. /\ phase = "running" /\ asked[f] = "calling" /\ asked' = [asked EXCEPT ![f] = "done"]
      /\ errors' = errors /\ report' = report /\ phase' = phase
  BY DEF ReplyArrives
<1>2. PICK new : results' = Append(results, new) /\ new.fixture = f
  BY DEF ReplyArrives
<1>3. PICK S : results \in Seq(S)
  BY DEF ReportInv, FixtureTyped
<1>4. results \in Seq(S \cup {new}) /\ results' \in Seq(S \cup {new})
  BY <1>2, <1>3
<1>5. PICK n \in Nat : n = Len(results)
  BY <1>3
<1>6. /\ Len(results') = n + 1 /\ DOMAIN results = 1 .. n /\ DOMAIN results' = 1 .. (n + 1)
      /\ results'[n + 1] = new /\ \A i \in 1 .. n : results'[i] = results[i]
  BY <1>2, <1>4, <1>5
<1>7. FixtureTyped'
  <2>1. asked' \in [FIXTURES -> {"queued", "calling", "done"}] /\ errors' \subseteq FIXTURES
    BY <1>1 DEF ReportInv, FixtureTyped
  <2>2. Len(results') \in Nat
    BY <1>6
  <2> QED
    BY <1>4, <2>1, <2>2 DEF FixtureTyped
<1>8. RowsAreTheirs'
  <2>1. f \notin errors /\ Replied(f) = {}
    BY <1>1 DEF ReportInv, RowsAreTheirs
  <2>2. Replied(f)' = {n + 1} /\ n + 1 \in DOMAIN results'
    BY <1>2, <1>6, <2>1 DEF Replied
  <2>3. ASSUME NEW g \in FIXTURES, g # f
        PROVE  Replied(g)' = Replied(g) /\ asked'[g] = asked[g]
    <3>1. Replied(g)' = Replied(g)
      BY <1>2, <1>6, <2>3 DEF Replied
    <3> QED
      BY <1>1, <2>3, <3>1 DEF ReportInv, FixtureTyped
  <2>4. asked'[f] = "done"
    BY <1>1 DEF ReportInv, FixtureTyped
  <2>5. ASSUME NEW g \in FIXTURES, g # f
        PROVE  IF asked'[g] = "done"
               THEN \/ g \in errors' /\ Replied(g)' = {}
                    \/ g \notin errors' /\ \E i \in DOMAIN results' : Replied(g)' = {i}
               ELSE g \notin errors' /\ Replied(g)' = {}
    BY <1>1, <1>6, <2>3, <2>5 DEF ReportInv, RowsAreTheirs
  <2> QED
    BY <1>1, <2>1, <2>2, <2>4, <2>5 DEF RowsAreTheirs
<1>9. AnswersAreCounted'
  <2>1. Cardinality(Answered') = Cardinality(Answered) + 1
    BY <1>1, OneMoreAnswered DEF ReportInv
  <2>2. Cardinality(errors) \in Nat /\ Cardinality(Answered) \in Nat
    BY FixturesAreFinite DEF ReportInv, FixtureTyped, Answered
  <2>3. n + Cardinality(errors) = Cardinality(Answered)
    BY <1>5 DEF ReportInv, AnswersAreCounted
  <2>4. (n + 1) + Cardinality(errors) = Cardinality(Answered')
    BY <2>1, <2>2, <2>3
  <2> QED
    BY <1>1, <1>6, <2>4 DEF AnswersAreCounted
<1>10. ReportIsLast'
  BY <1>1 DEF ReportInv, ReportIsLast
<1> QED
  BY <1>7, <1>8, <1>9, <1>10 DEF ReportInv

LEMMA FailureIsReported ==
    ASSUME ReportInv, NEW f \in FIXTURES, CallFails(f)
    PROVE  ReportInv'
<1>1. /\ phase = "running" /\ asked[f] = "calling" /\ asked' = [asked EXCEPT ![f] = "done"]
      /\ errors' = errors \cup {f} /\ results' = results /\ report' = report /\ phase' = phase
  BY DEF CallFails
<1>2. FixtureTyped'
  BY <1>1 DEF ReportInv, FixtureTyped
<1>3. f \notin errors /\ Replied(f) = {}
  BY <1>1 DEF ReportInv, RowsAreTheirs
<1>4. RowsAreTheirs'
  BY <1>1, <1>3 DEF ReportInv, FixtureTyped, RowsAreTheirs, Replied
<1>5. AnswersAreCounted'
  <2>1. Cardinality(Answered') = Cardinality(Answered) + 1
    BY <1>1, OneMoreAnswered DEF ReportInv
  <2>2. /\ IsFiniteSet(errors) /\ Cardinality(errors) \in Nat
        /\ Cardinality(Answered) \in Nat /\ Len(results) \in Nat
    BY FixturesAreFinite DEF ReportInv, FixtureTyped, Answered
  <2>3. Cardinality(errors') = Cardinality(errors) + 1
    BY <1>1, <1>3, <2>2, FS_AddElement
  <2>4. Len(results) + Cardinality(errors) = Cardinality(Answered)
    BY DEF ReportInv, AnswersAreCounted
  <2>5. Len(results) + Cardinality(errors') = Cardinality(Answered')
    BY <2>1, <2>2, <2>3, <2>4
  <2> QED
    BY <1>1, <2>5 DEF AnswersAreCounted
<1>6. ReportIsLast'
  BY <1>1 DEF ReportInv, ReportIsLast
<1> QED
  BY <1>2, <1>4, <1>5, <1>6 DEF ReportInv

LEMMA ReportStays ==
    ASSUME ReportInv, asked' = asked, results' = results, errors' = errors, report' = report,
           phase' = "running" => phase = "running"
    PROVE  ReportInv'
BY DEF ReportInv, FixtureTyped, RowsAreTheirs, AnswersAreCounted, ReportIsLast, Replied, Answered

LEMMA StepReport == ReportInv /\ [Next]_vars => ReportInv'
<1> SUFFICES ASSUME ReportInv, [Next]_vars PROVE ReportInv'
  OBVIOUS
<1>1. ASSUME NEW f \in FIXTURES, call_model(f) PROVE ReportInv'
  <2>1. /\ phase = "running" /\ asked[f] = "queued" /\ asked' = [asked EXCEPT ![f] = "calling"]
        /\ errors' = errors /\ results' = results /\ report' = report /\ phase' = phase
    BY <1>1 DEF call_model
  <2>2. FixtureTyped'
    BY <2>1 DEF ReportInv, FixtureTyped
  <2>3. RowsAreTheirs'
    BY <2>1 DEF ReportInv, FixtureTyped, RowsAreTheirs, Replied
  <2>4. Answered' = Answered
    BY <2>1 DEF ReportInv, FixtureTyped, Answered
  <2>5. ReportIsLast' /\ AnswersAreCounted'
    BY <2>1, <2>4 DEF ReportInv, ReportIsLast, AnswersAreCounted
  <2> QED
    BY <2>2, <2>3, <2>5 DEF ReportInv
<1>2. ASSUME WriteReport PROVE ReportInv'
  <2>1. /\ phase = "running" /\ phase' = "written" /\ \A f \in FIXTURES : asked[f] = "done"
        /\ asked' = asked /\ errors' = errors /\ results' = results
        /\ report'.results = results /\ report'.errors = errors
        /\ report'.fixture_count = Cardinality(FIXTURES)
    BY <1>2 DEF WriteReport, asking
  <2>2. FixtureTyped' /\ RowsAreTheirs' /\ AnswersAreCounted'
    BY <2>1 DEF ReportInv, FixtureTyped, RowsAreTheirs, AnswersAreCounted, Replied, Answered
  <2>3. ReportIsLast'
    BY <2>1 DEF ReportIsLast
  <2> QED
    BY <2>2, <2>3 DEF ReportInv
<1>3. ASSUME StartJudging \/ WriteJudged \/ FixtureInterrupt PROVE ReportInv'
  <2>1. /\ asked' = asked /\ errors' = errors /\ results' = results /\ report' = report
        /\ phase' # "running"
    BY <1>3 DEF StartJudging, WriteJudged, FixtureInterrupt, asking
  <2> QED
    BY <2>1, ReportStays
<1>4. ASSUME NEW i \in DOMAIN opinions, judge_one(i) \/ Judged(i) PROVE ReportInv'
  <2>1. /\ asked' = asked /\ errors' = errors /\ results' = results /\ report' = report
        /\ phase' = phase
    BY <1>4 DEF judge_one, Judged, asking
  <2> QED
    BY <2>1, ReportStays
<1>5. ASSUME UNCHANGED fixtureVars PROVE ReportInv'
  BY <1>5, ReportStays DEF fixtureVars, asking
<1>6. CASE FixtureNext
  BY <1>1, <1>2, <1>3, <1>4, <1>6, ReplyIsReported, FailureIsReported DEF FixtureNext, FixtureStep
<1> QED
  BY <1>5, <1>6 DEF Next, vars

(* A written report accounts for every selected fixture once, as a result  *)
(* or as an error, for any fixtures, replies and concurrency, in whatever  *)
(* order the calls end (run_eval.py:212-249).                              *)
THEOREM ReportComplete == Spec => []ReportAccountsForAll
<1>1. ReportInv => ReportAccountsForAll
  <2>1. SUFFICES ASSUME ReportInv, report # NoReport
                 PROVE  /\ report.fixture_count = Len(report.results) + Cardinality(report.errors)
                        /\ \A f \in FIXTURES :
                              Cardinality({i \in Rows : report.results[i].fixture = f})
                              + One(f \in report.errors) = 1
    BY DEF ReportAccountsForAll
  <2>2. /\ \A f \in FIXTURES : asked[f] = "done"
        /\ report.results = results /\ report.errors = errors
        /\ report.fixture_count = Cardinality(FIXTURES)
    BY <2>1 DEF ReportInv, ReportIsLast
  <2>3. Answered = FIXTURES
    BY <2>2 DEF Answered
  <2>4. ASSUME NEW f \in FIXTURES
        PROVE  Cardinality(Replied(f)) + One(f \in errors) = 1
    <3>1. CASE f \in errors /\ Replied(f) = {}
      BY <3>1, FS_EmptySet DEF One
    <3>2. CASE f \notin errors /\ \E i \in DOMAIN results : Replied(f) = {i}
      <4>1. PICK i \in DOMAIN results : Replied(f) = {i}
        BY <3>2
      <4>2. Cardinality(Replied(f)) = 1
        BY <4>1, FS_Singleton
      <4> QED
        BY <3>2, <4>2 DEF One
    <3> QED
      BY <2>1, <2>2, <3>1, <3>2 DEF ReportInv, RowsAreTheirs
  <2>5. \A f \in FIXTURES : {i \in Rows : report.results[i].fixture = f} = Replied(f)
    BY <2>2 DEF Rows, Replied
  <2> QED
    BY <2>1, <2>2, <2>3, <2>4, <2>5 DEF ReportInv, AnswersAreCounted
<1> QED
  BY <1>1, InitReport, StepReport, PTL DEF Spec
-----------------------------------------------------------------------------
(* The judge: a row holds the score of its own reply, and the judged file  *)
(* the rows of the report, each scored again or left as it was.            *)

(* A scored row.                                                           *)
Scored(row) ==
    \E f \in FIXTURES : \E reply \in REPLIES[f] :
        row = [fixture |-> f, reply |-> reply, score |-> score_turn(reply, reply.native)]

JudgeInv ==
    /\ DOMAIN results = 1 .. Len(results) /\ \E S : results \in Seq(S)
    /\ \A i \in DOMAIN results : Scored(results[i])
    /\ phase = "running" => report = NoReport
    /\ phase \in {"written", "judging", "judged"} =>
          report.results = results /\ "results" \in DOMAIN report
    /\ phase \in {"judging", "judged"} => today.known \subseteq Rows
    /\ judged # NoReport =>
          /\ phase = "judged"
          /\ judged.results = [i \in Rows |-> Rejudge(i)]

LEMMA InitJudge == Init => JudgeInv
<1> SUFFICES ASSUME Init PROVE JudgeInv
  OBVIOUS
<1>1. results \in Seq({}) /\ DOMAIN results = {} /\ DOMAIN results = 1 .. Len(results)
  BY DEF Init, FixtureInit
<1> QED
  BY <1>1 DEF Init, FixtureInit, JudgeInv

LEMMA RejudgeStays ==
    ASSUME report' = report, today' = today, opinions' = opinions
    PROVE  \A i : Rejudge(i)' = Rejudge(i)
<1> TAKE i
<1>1. Recast(i)' = Recast(i)
  BY DEF Recast
<1> QED
  BY <1>1 DEF Rejudge

LEMMA JudgeStays ==
    ASSUME JudgeInv, results' = results, report' = report, today' = today,
           opinions' = opinions, judged' = judged, errors' = errors,
           (phase' = phase) \/ (phase' = "interrupted" /\ phase # "judged")
    PROVE  JudgeInv'
<1>1. Rows' = Rows /\ \A i : Rejudge(i)' = Rejudge(i)
  BY RejudgeStays DEF Rows
<1>2. [i \in Rows |-> Rejudge(i)]' = [i \in Rows |-> Rejudge(i)]
  BY <1>1
<1> QED
  BY <1>2 DEF JudgeInv, Scored, Rows

(* The opinions change before the judged file is written.                  *)
LEMMA OpinionsMayChange ==
    ASSUME JudgeInv, phase = "judging", phase' = phase, results' = results, report' = report,
           today' = today, judged' = judged, errors' = errors
    PROVE  JudgeInv'
BY DEF JudgeInv, Scored, Rows

LEMMA StepJudge == JudgeInv /\ [Next]_vars => JudgeInv'
<1> SUFFICES ASSUME JudgeInv, [Next]_vars PROVE JudgeInv'
  OBVIOUS
<1>1. ASSUME NEW f \in FIXTURES, call_model(f) \/ CallFails(f) PROVE JudgeInv'
  <2>1. /\ phase = "running" /\ phase' = phase /\ results' = results /\ report' = report
        /\ judged' = judged /\ today' = today /\ opinions' = opinions
    BY <1>1 DEF call_model, CallFails, judging
  <2> QED
    BY <2>1 DEF JudgeInv, Scored
<1>2. ASSUME NEW f \in FIXTURES, ReplyArrives(f) PROVE JudgeInv'
  <2>1. /\ phase = "running" /\ phase' = phase /\ report' = report /\ judged' = judged
    BY <1>2 DEF ReplyArrives
  <2>2. PICK new : results' = Append(results, new) /\ Scored(new)
    <3>1. PICK reply \in REPLIES[f] :
            results' = Append(results, [fixture |-> f, reply |-> reply,
                                        score |-> score_turn(reply, reply.native)])
      BY <1>2 DEF ReplyArrives
    <3> QED
      BY <3>1 DEF Scored
  <2>3. PICK S : results \in Seq(S)
    BY DEF JudgeInv
  <2>4. results \in Seq(S \cup {new}) /\ results' \in Seq(S \cup {new})
    BY <2>2, <2>3
  <2>5. /\ DOMAIN results' = 1 .. Len(results') /\ Len(results') = Len(results) + 1
        /\ \A i \in 1 .. Len(results) : results'[i] = results[i]
        /\ results'[Len(results) + 1] = new /\ Len(results) \in Nat
    BY <2>2, <2>4
  <2>6. \A i \in DOMAIN results' : i \in DOMAIN results \/ i = Len(results) + 1
    BY <2>3, <2>5
  <2>7. \A i \in DOMAIN results' : Scored(results'[i])
    BY <2>2, <2>3, <2>5, <2>6 DEF JudgeInv
  <2>8. \A i \in DOMAIN results' : Scored(results[i])'
    BY <2>7 DEF Scored
  <2> QED
    BY <2>1, <2>4, <2>5, <2>8 DEF JudgeInv
<1>3. ASSUME WriteReport PROVE JudgeInv'
  <2>1. /\ phase = "running" /\ phase' = "written" /\ results' = results /\ errors' = errors
        /\ judged' = judged
        /\ report'.results = results /\ "results" \in DOMAIN report'
    BY <1>3 DEF WriteReport, asking
  <2> QED
    BY <2>1 DEF JudgeInv, Scored
<1>4. ASSUME StartJudging PROVE JudgeInv'
  <2>1. /\ phase = "written" /\ phase' = "judging" /\ results' = results /\ errors' = errors
        /\ judged' = judged /\ report' = report
    BY <1>4 DEF StartJudging, asking
  <2>2. today'.known \subseteq Rows
    BY <1>4 DEF StartJudging
  <2> QED
    BY <2>1, <2>2 DEF JudgeInv, Scored, Rows
<1>5. ASSUME NEW i \in DOMAIN opinions, judge_one(i) \/ Judged(i) PROVE JudgeInv'
  <2>1. /\ phase = "judging" /\ phase' = phase /\ results' = results /\ report' = report
        /\ today' = today /\ judged' = judged /\ errors' = errors
    BY <1>5 DEF judge_one, Judged, asking
  <2> QED
    BY <2>1, OpinionsMayChange
<1>6. ASSUME WriteJudged PROVE JudgeInv'
  <2>1. /\ phase = "judging" /\ phase' = "judged" /\ results' = results /\ report' = report
        /\ today' = today /\ opinions' = opinions /\ errors' = errors
        /\ judged' = [report EXCEPT !.results = [i \in Rows |-> Rejudge(i)]]
    BY <1>6 DEF WriteJudged, asking, judging
  <2>2. judged'.results = [i \in Rows |-> Rejudge(i)]
    BY <2>1 DEF JudgeInv
  <2>3. [i \in Rows |-> Rejudge(i)]' = [i \in Rows |-> Rejudge(i)]
    BY <2>1, RejudgeStays DEF Rows
  <2> QED
    BY <2>1, <2>2, <2>3 DEF JudgeInv, Scored, Rows
<1>7. ASSUME FixtureInterrupt PROVE JudgeInv'
  <2>1. /\ phase' = "interrupted" /\ phase # "judged" /\ results' = results /\ report' = report
        /\ today' = today /\ opinions' = opinions /\ errors' = errors /\ judged' = judged
    BY <1>7 DEF FixtureInterrupt, asking, judging
  <2> QED
    BY <2>1, JudgeStays
<1>8. ASSUME UNCHANGED fixtureVars PROVE JudgeInv'
  BY <1>8, JudgeStays DEF fixtureVars, asking, judging
<1>9. CASE FixtureNext
  BY <1>1, <1>2, <1>3, <1>4, <1>5, <1>6, <1>7, <1>9 DEF FixtureNext, FixtureStep
<1> QED
  BY <1>8, <1>9 DEF Next, vars

(* A recast can only add to the score of a reply.                          *)
LEMMA RecastOnlyAdds ==
    ASSUME NEW reply \in Reply, NEW a \in BOOLEAN, NEW b \in BOOLEAN, a => b
    PROVE  Pedagogical(b, reply) >= Pedagogical(a, reply)
<1>1. reply.good \in 0 .. 5 /\ reply.repeated \in BOOLEAN
  BY DEF Reply
<1>2. One(a) \in Nat /\ One(b) \in Nat /\ One(b) >= One(a)
  BY DEF One
<1>3. CASE reply.repeated
  BY <1>3 DEF Pedagogical
<1>4. CASE ~reply.repeated
  <2>1. Pedagogical(b, reply) = reply.good + One(b) /\ Pedagogical(a, reply) = reply.good + One(a)
    BY <1>4 DEF Pedagogical
  <2> QED
    BY <1>1, <1>2, <2>1
<1> QED
  BY <1>3, <1>4

(* What scoring a row again makes of its two fields.                       *)
LEMMA RejudgedScore ==
    ASSUME NEW i \in Rows, Scored(report.results[i]), i \in today.known
    PROVE  /\ Rejudge(i).score.recast = Recast(i)
           /\ Rejudge(i).score.pedagogical = Pedagogical(Recast(i), report.results[i].reply)
<1> DEFINE row == report.results[i]
           tool == Fidelity(ToolSignals(parse_tool_calls(row.reply.text, <<>>)))
           ped == Pedagogical(Recast(i), row.reply)
           comp == Composite(ped, tool)
<1>1. PICK f \in FIXTURES : \E reply \in REPLIES[f] :
        row = [fixture |-> f, reply |-> reply, score |-> score_turn(reply, reply.native)]
  BY DEF Scored
<1>2. PICK reply \in REPLIES[f] :
        row = [fixture |-> f, reply |-> reply, score |-> score_turn(reply, reply.native)]
  BY <1>1
<1>3. DOMAIN row = {"fixture", "reply", "score"}
  BY <1>2
<1>4. DOMAIN row.score = {"recast", "called", "right", "pedagogical", "fidelity", "composite"}
  BY <1>2 DEF score_turn
<1>5. Rejudge(i) = [row EXCEPT !.score.recast = Recast(i), !.score.pedagogical = ped,
                               !.score.fidelity = tool, !.score.composite = comp]
  BY DEF Rejudge
<1> HIDE DEF row, tool, ped, comp
<1>6. Rejudge(i).score.recast = Recast(i) /\ Rejudge(i).score.pedagogical = ped
  <2>1. PICK again : again = Rejudge(i)
    OBVIOUS
  <2>2. again.score = [row.score EXCEPT !.recast = Recast(i), !.pedagogical = ped,
                                        !.fidelity = tool, !.composite = comp]
    BY <1>3, <1>5, <2>1
  <2> QED
    BY <1>4, <2>1, <2>2
<1> QED
  BY <1>6 DEF ped, row

(* The judge breaks ties only, for any fixtures, replies, limit and        *)
(* verdicts: it never takes a recast away that the heuristic of today      *)
(* still finds, and none is added without a verdict on that very reply     *)
(* (judge_recasts.py:178-181).                                             *)
THEOREM JudgeRaises == Spec => []JudgeOnlyRaises
<1>1. JudgeInv => JudgeOnlyRaises
  <2>1. SUFFICES ASSUME JudgeInv, judged # NoReport, NEW i \in today.known
                 PROVE  LET before == report.results[i].score
                            after  == judged.results[i].score
                        IN  /\ (before.recast => i \in today.recast)
                                   => after.pedagogical >= before.pedagogical
                            /\ after.recast /\ i \notin today.recast =>
                                  i \in DOMAIN opinions /\ opinions[i] = "present"
    BY DEF JudgeOnlyRaises
  <2>2. /\ phase = "judged" /\ judged.results = [k \in Rows |-> Rejudge(k)]
        /\ today.known \subseteq Rows /\ report.results = results
    BY <2>1 DEF JudgeInv
  <2>3. i \in Rows /\ Rows = DOMAIN results
    BY <2>1, <2>2 DEF Rows
  <2>4. Scored(report.results[i])
    BY <2>1, <2>2, <2>3 DEF JudgeInv
  <2>5. PICK f \in FIXTURES : \E reply \in REPLIES[f] :
          report.results[i] = [fixture |-> f, reply |-> reply,
                               score |-> score_turn(reply, reply.native)]
    BY <2>4 DEF Scored
  <2>6. PICK reply \in REPLIES[f] :
          report.results[i] = [fixture |-> f, reply |-> reply,
                               score |-> score_turn(reply, reply.native)]
    BY <2>5
  <2>7. reply \in Reply /\ reply.recast \in BOOLEAN
    <3>1. reply \in Reply
      BY FixtureAssumption
    <3> QED
      BY <3>1 DEF Reply
  <2>8. /\ report.results[i].reply = reply
        /\ report.results[i].score.recast = reply.recast
        /\ report.results[i].score.pedagogical = Pedagogical(reply.recast, reply)
    BY <2>6 DEF score_turn
  <2>9. /\ judged.results[i].score.recast = Recast(i)
        /\ judged.results[i].score.pedagogical = Pedagogical(Recast(i), reply)
    BY <2>1, <2>2, <2>3, <2>4, <2>8, RejudgedScore
  <2>10. Recast(i) \in BOOLEAN /\ (i \in today.recast => Recast(i))
    BY DEF Recast
  <2>11. (reply.recast => i \in today.recast)
           => Pedagogical(Recast(i), reply) >= Pedagogical(reply.recast, reply)
    BY <2>7, <2>10, RecastOnlyAdds
  <2>12. Recast(i) /\ i \notin today.recast => i \in DOMAIN opinions /\ opinions[i] = "present"
    BY DEF Recast
  <2> QED
    BY <2>8, <2>9, <2>11, <2>12
<1> QED
  BY <1>1, InitJudge, StepJudge, PTL DEF Spec
-----------------------------------------------------------------------------
(* The forms of a call.  parse_tool_calls reads a text in two loops, which *)
(* are folds.  A fold is a CHOOSE of its recursive function: that the      *)
(* function exists, and what holds of its values, is shown by induction    *)
(* over the places of the text, and the induction from the least element   *)
(* of a set of numbers, because no rule of the library that takes a        *)
(* predicate can be used.                                                  *)

LEMMA LessThanIsWellFounded ==
    \E R : IsWellFoundedOn(R, Nat) /\ \A x, y \in Nat : x < y => <<x, y>> \in R
<1>1. \A x, y \in Nat : x < y => <<x, y>> \in OpToRel(<, Nat)
  BY DEF OpToRel
<1> QED
  BY <1>1, NatLessThanWellFounded, Zenon

(* A set of numbers that is not empty has a least one.                     *)
LEMMA LeastOf ==
    ASSUME NEW S \in SUBSET Nat, S # {}
    PROVE  \E n \in S : \A m \in S : n <= m
<1>1. PICK R : IsWellFoundedOn(R, Nat) /\ \A x, y \in Nat : x < y => <<x, y>> \in R
  BY LessThanIsWellFounded
<1>2. \E x \in S : \A y \in S : ~ (<<y, x>> \in R)
  <2>1. S \subseteq Nat
    OBVIOUS
  <2>2. IsWellFoundedOn(R, Nat)
    BY <1>1
  <2> QED
    BY <2>1, <2>2, WFMin, Zenon
<1>3. PICK n \in S : \A m \in S : ~ (m < n)
  BY <1>1, <1>2
<1> QED
  BY <1>3

(* Induction up to n, for the set of the numbers at which a fact holds.    *)
LEMMA HoldsUpTo ==
    ASSUME NEW n \in Nat, NEW T, 0 \in T, \A k \in 1 .. n : k - 1 \in T => k \in T
    PROVE  \A k \in 0 .. n : k \in T
<1> SUFFICES ASSUME {k \in 0 .. n : k \notin T} # {} PROVE FALSE
  OBVIOUS
<1>1. PICK k \in {j \in 0 .. n : j \notin T} : \A m \in {j \in 0 .. n : j \notin T} : k <= m
  <2>1. {j \in 0 .. n : j \notin T} \in SUBSET Nat
    OBVIOUS
  <2> QED
    BY <2>1, LeastOf
<1>2. k \in 1 .. n
  BY <1>1
<1>3. k - 1 \in 0 .. n /\ k - 1 < k
  BY <1>2
<1>4. k - 1 \in T
  BY <1>1, <1>2, <1>3
<1> QED
  BY <1>1, <1>2, <1>4

(* The Max of FiniteSetsExt is the largest.                                *)
LEMMA MaxOf ==
    ASSUME NEW n \in Nat, NEW s \in SUBSET (1 .. n), s # {}
    PROVE  Max(s) \in s /\ \A x \in s : x <= Max(s)
<1> DEFINE D == {n - x : x \in s}
<1>1. D \in SUBSET Nat /\ D # {}
  <2>1. \A x \in s : n - x \in Nat
    OBVIOUS
  <2> QED
    BY <2>1
<1>2. PICK d \in D : \A e \in D : d <= e
  BY <1>1, LeastOf
<1>3. PICK x \in s : d = n - x
  BY <1>2
<1>4. \A y \in s : x >= y
  <2>1. \A y \in s : n - x <= n - y
    BY <1>2, <1>3
  <2> QED
    BY <2>1
<1>5. /\ Max(s) \in s /\ \A y \in s : Max(s) >= y
  BY <1>3, <1>4 DEF Max
<1> QED
  BY <1>5

(* The loops of the harness that are folds, and one turn of each: the two  *)
(* of parse_tool_calls; the items of a call as the handler, the store and  *)
(* the accumulator read them; and the calls of a session.                  *)
Loops == {"header", "function", "item", "row", "type", "call"}

Keep(form, found, x) ==
    IF form = "header" THEN KeepHeader(found, x)
    ELSE IF form = "function" THEN KeepFunction(found, x)
    ELSE IF form = "item" THEN normalize_error_item(found, x)
    ELSE IF form = "row" THEN AddRow(found, x)
    ELSE IF form = "type" THEN AddType(found, x)
    ELSE StoreTurn(found, x)

HeadersOf(base, text) == FoldLeft(KeepHeader, base, text)
FunctionsOf(base, text) == FoldLeft(KeepFunction, base, text)
ItemsOf(base, text) == FoldLeft(normalize_error_item, base, text)
RowsOf(base, text) == FoldLeft(AddRow, base, text)
TypesOf(base, text) == FoldLeft(AddType, base, text)
TurnsOf(base, text) == FoldLeft(StoreTurn, base, text)

FoldOf(form, base, text) ==
    IF form = "header" THEN HeadersOf(base, text)
    ELSE IF form = "function" THEN FunctionsOf(base, text)
    ELSE IF form = "item" THEN ItemsOf(base, text)
    ELSE IF form = "row" THEN RowsOf(base, text)
    ELSE IF form = "type" THEN TypesOf(base, text)
    ELSE TurnsOf(base, text)

Turn(form, base, text, h, s) ==
    IF s = {} THEN base ELSE Keep(form, h[s \ {Max(s)}], text[Max(s)])

Loop(form, base, text, D) ==
    CHOOSE h : h = [s \in SUBSET D |-> Turn(form, base, text, h, s)]

(* A fold is what its recursive function makes of all the places.          *)
LEMMA FoldUnfolds ==
    ASSUME NEW form \in Loops, NEW text, NEW base
    PROVE  FoldOf(form, base, text) = Loop(form, base, text, DOMAIN text)[DOMAIN text]
<1>1. /\ "function" # "header"
      /\ "item" # "header" /\ "item" # "function"
      /\ "row" # "header" /\ "row" # "function" /\ "row" # "item"
      /\ "type" # "header" /\ "type" # "function" /\ "type" # "item" /\ "type" # "row"
      /\ "call" # "header" /\ "call" # "function" /\ "call" # "item" /\ "call" # "row"
      /\ "call" # "type"
  OBVIOUS
<1>2. HeadersOf(base, text) = Loop("header", base, text, DOMAIN text)[DOMAIN text]
  BY <1>1, Zenon DEF HeadersOf, FoldLeft, MapThenFoldSet, Loop, Turn, Keep
<1>3. FunctionsOf(base, text) = Loop("function", base, text, DOMAIN text)[DOMAIN text]
  BY <1>1, Zenon DEF FunctionsOf, FoldLeft, MapThenFoldSet, Loop, Turn, Keep
<1>4. ItemsOf(base, text) = Loop("item", base, text, DOMAIN text)[DOMAIN text]
  BY <1>1, Zenon DEF ItemsOf, FoldLeft, MapThenFoldSet, Loop, Turn, Keep
<1>5. RowsOf(base, text) = Loop("row", base, text, DOMAIN text)[DOMAIN text]
  BY <1>1, Zenon DEF RowsOf, FoldLeft, MapThenFoldSet, Loop, Turn, Keep
<1>6. TypesOf(base, text) = Loop("type", base, text, DOMAIN text)[DOMAIN text]
  BY <1>1, Zenon DEF TypesOf, FoldLeft, MapThenFoldSet, Loop, Turn, Keep
<1>7. TurnsOf(base, text) = Loop("call", base, text, DOMAIN text)[DOMAIN text]
  BY <1>1, Zenon DEF TurnsOf, FoldLeft, MapThenFoldSet, Loop, Turn, Keep
<1>. QED
  BY <1>2, <1>3, <1>4, <1>5, <1>6, <1>7 DEF Loops, FoldOf

(* That function exists, one place after the other.                        *)
LEMMA FoldExists ==
    ASSUME NEW form, NEW base, NEW text, NEW n \in Nat
    PROVE  \E h : h = [s \in SUBSET (1 .. n) |-> Turn(form, base, text, h, s)]
<1> DEFINE T == {k \in 0 .. n : \E h : h = [s \in SUBSET (1 .. k) |-> Turn(form, base, text, h, s)]}
<1>1. 0 \in T
  <2> DEFINE h == [s \in SUBSET (1 .. 0) |-> base]
  <2>1. \A s \in SUBSET (1 .. 0) : s = {}
    OBVIOUS
  <2>2. h = [s \in SUBSET (1 .. 0) |-> Turn(form, base, text, h, s)]
    BY <2>1 DEF Turn
  <2> HIDE DEF h
  <2>3. \E g : g = [s \in SUBSET (1 .. 0) |-> Turn(form, base, text, g, s)]
    BY <2>2
  <2> QED
    BY <2>3
<1>2. ASSUME NEW k \in 1 .. n, k - 1 \in T
      PROVE  k \in T
  <2>1. PICK h : h = [s \in SUBSET (1 .. (k - 1)) |-> Turn(form, base, text, h, s)]
    BY <1>2
  <2> DEFINE g == [s \in SUBSET (1 .. k) |-> Turn(form, base, text, h, s)]
  <2>2. ASSUME NEW s \in SUBSET (1 .. k), s # {}
        PROVE  s \ {Max(s)} \in SUBSET (1 .. (k - 1))
    <3>1. Max(s) \in s /\ \A x \in s : x <= Max(s)
      BY <2>2, MaxOf
    <3>2. k \in Nat /\ Max(s) \in Nat /\ Max(s) <= k
      <4>1. Max(s) \in 1 .. k
        BY <3>1
      <4> HIDE DEF g
      <4> QED
        BY <4>1
    <3>3. ASSUME NEW x \in s \ {Max(s)} PROVE x \in 1 .. (k - 1)
      <4>1. x \in 1 .. k /\ x <= Max(s) /\ x # Max(s)
        BY <3>1
      <4>2. x \in Nat /\ x >= 1 /\ x <= k - 1
        BY <3>2, <4>1
      <4> QED
        BY <3>2, <4>2
    <3> QED
      BY <3>3
  <2>3. ASSUME NEW s \in SUBSET (1 .. (k - 1))
        PROVE  g[s] = h[s]
    <3>1. s \in SUBSET (1 .. k)
      OBVIOUS
    <3>2. h[s] = Turn(form, base, text, h, s)
      BY <2>1, Zenon
    <3> QED
      BY <3>1, <3>2
  <2> HIDE DEF g
  <2>4. ASSUME NEW s \in SUBSET (1 .. k)
        PROVE  Turn(form, base, text, h, s) = Turn(form, base, text, g, s)
    <3>1. CASE s = {}
      BY <3>1 DEF Turn
    <3>2. CASE s # {}
      <4>1. g[s \ {Max(s)}] = h[s \ {Max(s)}]
        BY <2>2, <2>3, <3>2
      <4> QED
        BY <4>1, <3>2 DEF Turn
    <3> QED
      BY <3>1, <3>2
  <2>5. g = [s \in SUBSET (1 .. k) |-> Turn(form, base, text, g, s)]
    BY <2>4 DEF g
  <2>6. \E f : f = [s \in SUBSET (1 .. k) |-> Turn(form, base, text, f, s)]
    BY <2>5
  <2> QED
    BY <2>6
<1> HIDE DEF T
<1>3. n \in T
  BY <1>1, <1>2, HoldsUpTo
<1> QED
  BY <1>3 DEF T

States(form, base, text, n, found) ==
    /\ found[0] = base
    /\ \A k \in 1 .. n : found[k] = Keep(form, found[k - 1], text[k])

(* A loop goes through states, one for every place.                        *)
LEMMA LoopStates ==
    ASSUME NEW form \in Loops, NEW base, NEW text, NEW n \in Nat, DOMAIN text = 1 .. n
    PROVE  \E found : States(form, base, text, n, found) /\ FoldOf(form, base, text) = found[n]
<1> DEFINE h == Loop(form, base, text, 1 .. n)
<1>1. h = [s \in SUBSET (1 .. n) |-> Turn(form, base, text, h, s)]
  BY FoldExists DEF Loop
<1>2. FoldOf(form, base, text) = h[1 .. n]
  BY FoldUnfolds
<1> HIDE DEF h
<1> DEFINE found == [k \in 0 .. n |-> h[1 .. k]]
<1>3. \A s \in SUBSET (1 .. n) : h[s] = Turn(form, base, text, h, s)
  BY <1>1, Zenon
<1>4. found[0] = base
  <2>1. 1 .. 0 = {} /\ {} \in SUBSET (1 .. n)
    OBVIOUS
  <2>2. h[{}] = base
    BY <1>3, <2>1 DEF Turn
  <2> QED
    BY <2>1, <2>2
<1>5. ASSUME NEW k \in 1 .. n
      PROVE  found[k] = Keep(form, found[k - 1], text[k])
  <2>1. 1 .. k \in SUBSET (1 .. n) /\ 1 .. k # {} /\ k \in Nat
    OBVIOUS
  <2>2. Max(1 .. k) = k
    <3>1. Max(1 .. k) \in 1 .. k /\ \A x \in 1 .. k : x <= Max(1 .. k)
      BY <2>1, MaxOf
    <3> QED
      BY <2>1, <3>1
  <2>3. (1 .. k) \ {k} = 1 .. (k - 1)
    OBVIOUS
  <2>4. h[1 .. k] = Keep(form, h[1 .. (k - 1)], text[k])
    BY <1>3, <2>1, <2>2, <2>3 DEF Turn
  <2>5. found[k] = h[1 .. k] /\ found[k - 1] = h[1 .. (k - 1)]
    OBVIOUS
  <2> HIDE DEF found
  <2> QED
    BY <2>4, <2>5
<1>6. found[n] = h[1 .. n]
  OBVIOUS
<1> HIDE DEF found
<1>7. States(form, base, text, n, found)
  BY <1>4, <1>5 DEF States
<1> QED
  BY <1>2, <1>6, <1>7

(* The same of each loop.                                                  *)
LEMMA HeaderStates ==
    ASSUME NEW base, NEW text, NEW n \in Nat, DOMAIN text = 1 .. n
    PROVE  \E found : States("header", base, text, n, found) /\ HeadersOf(base, text) = found[n]
<1>1. "function" # "header" /\ "header" \in Loops
  BY DEF Loops
<1>2. FoldOf("header", base, text) = HeadersOf(base, text)
  BY <1>1 DEF FoldOf
<1> QED
  BY <1>1, <1>2, LoopStates

LEMMA FunctionStates ==
    ASSUME NEW base, NEW text, NEW n \in Nat, DOMAIN text = 1 .. n
    PROVE  \E found : States("function", base, text, n, found) /\ FunctionsOf(base, text) = found[n]
<1>1. "function" # "header" /\ "function" \in Loops
  BY DEF Loops
<1>2. FoldOf("function", base, text) = FunctionsOf(base, text)
  BY <1>1 DEF FoldOf
<1> QED
  BY <1>1, <1>2, LoopStates

(* The calls of a text, all of one form.                                   *)
As(calls, form) == [j \in DOMAIN calls |-> [calls[j] EXCEPT !.form = form]]

(* All headers: they are found as they are.                                *)
LEMMA HeadersAreFound ==
    ASSUME NEW calls \in Seq(Call), calls # <<>>
    PROVE  parse_tool_calls(As(calls, "header"), <<>>) = [i \in DOMAIN calls |-> Payload(calls[i])]
<1> DEFINE text == As(calls, "header")
           n == Len(calls)
           upto == [k \in 0 .. n |-> [i \in 1 .. k |-> Payload(calls[i])]]
<1>1. n \in Nat /\ DOMAIN calls = 1 .. n /\ DOMAIN text = 1 .. n
  BY DEF As
<1>2. ASSUME NEW k \in 1 .. n
      PROVE  text[k].form = "header" /\ Payload(text[k]) = Payload(calls[k])
  <2>1. calls[k] \in Call
    BY <1>1
  <2>2. text[k] = [calls[k] EXCEPT !.form = "header"]
    BY <1>1 DEF As
  <2> QED
    BY <2>1, <2>2 DEF Call, Payload
<1> HIDE DEF text, n
<1>3. PICK found : States("header", <<>>, text, n, found) /\ HeadersOf(<<>>, text) = found[n]
  BY <1>1, HeaderStates
<1>4. found[n] = [i \in 1 .. n |-> Payload(calls[i])]
  <2> DEFINE T == {k \in 0 .. n : found[k] = [i \in 1 .. k |-> Payload(calls[i])]}
  <2>1. 0 \in T
    BY <1>1, <1>3 DEF States
  <2>2. ASSUME NEW k \in 1 .. n, k - 1 \in T
        PROVE  k \in T
    <3>1. found[k] = Append(found[k - 1], Payload(calls[k]))
      BY <1>2, <1>3 DEF States, Keep, KeepHeader
    <3>2. found[k - 1] = [i \in 1 .. (k - 1) |-> Payload(calls[i])]
      BY <2>2
    <3>3. Append([i \in 1 .. (k - 1) |-> Payload(calls[i])], Payload(calls[k]))
            = [i \in 1 .. k |-> Payload(calls[i])]
      <4>1. k \in Nat /\ k >= 1
        BY <1>1
      <4> DEFINE q == [i \in 1 .. (k - 1) |-> Payload(calls[i])]
                 r == [i \in 1 .. k |-> Payload(calls[i])]
                 S == {Payload(calls[i]) : i \in 1 .. k}
      <4>2. q \in Seq(S) /\ r \in Seq(S) /\ Len(q) = k - 1 /\ Len(r) = k
        BY <4>1
      <4>3. \A i \in 1 .. k : Append(q, Payload(calls[k]))[i] = r[i]
        BY <4>1, <4>2
      <4>4. Payload(calls[k]) \in S
        BY <4>1
      <4>5. Append(q, Payload(calls[k])) \in Seq(S) /\ Len(Append(q, Payload(calls[k]))) = k
        BY <4>1, <4>2, <4>4
      <4> HIDE DEF q, r, S
      <4>6. DOMAIN Append(q, Payload(calls[k])) = 1 .. k /\ DOMAIN r = 1 .. k
        BY <4>2, <4>5
      <4>7. Append(q, Payload(calls[k])) = r
        BY <4>2, <4>3, <4>5, <4>6
      <4> QED
        BY <4>7 DEF q, r
    <3>4. found[k] = [i \in 1 .. k |-> Payload(calls[i])]
      BY <3>1, <3>2, <3>3, Zenon
    <3> QED
      BY <3>4
  <2> HIDE DEF T
  <2>3. n \in T
    BY <1>1, <2>1, <2>2, HoldsUpTo
  <2> QED
    BY <2>3 DEF T
<1>5. FunctionsOf(found[n], text) = found[n]
  <2>1. PICK kept : /\ States("function", found[n], text, n, kept)
                    /\ FunctionsOf(found[n], text) = kept[n]
    BY <1>1, FunctionStates
  <2> DEFINE T == {k \in 0 .. n : kept[k] = found[n]}
  <2>2. 0 \in T
    BY <1>1, <2>1 DEF States
  <2>3. ASSUME NEW k \in 1 .. n, k - 1 \in T
        PROVE  k \in T
    <3>1. kept[k] = KeepFunction(kept[k - 1], text[k])
      BY <2>1 DEF States, Keep
    <3>2. KeepFunction(kept[k - 1], text[k]) = kept[k - 1]
      BY <1>2 DEF KeepFunction
    <3> QED
      BY <2>3, <3>1, <3>2
  <2> HIDE DEF T
  <2>4. n \in T
    BY <1>1, <2>2, <2>3, HoldsUpTo
  <2> QED
    BY <2>1, <2>4 DEF T
<1> QED
  <2>1. parse_tool_calls(text, <<>>) = FunctionsOf(HeadersOf(<<>>, text), text)
    BY Zenon DEF parse_tool_calls, HeadersOf, FunctionsOf
  <2> QED
    BY <1>1, <1>3, <1>4, <1>5, <2>1 DEF text

(* What is found in the text of the first k calls, all functions: the      *)
(* first log_turn, if there is one, and no other.                          *)
Found == [name : {"log_turn", "other"}, args : {"wrong", "right"}]

FirstOf(calls, j, k) ==
    /\ j \in 1 .. k /\ calls[j].name = "log_turn"
    /\ \A m \in 1 .. k : calls[m].name = "log_turn" => j <= m

FirstIsFound(calls, k, found) ==
    /\ found \in Seq(Found)
    /\ (\A m \in 1 .. k : calls[m].name # "log_turn") => LogTurns(found) = {}
    /\ \A j \in 1 .. k : FirstOf(calls, j, k) =>
          \E i : LogTurns(found) = {i} /\ found[i].args = calls[j].args

(* A call found after the others.                                          *)
LEMMA FoundGrows ==
    ASSUME NEW found \in Seq(Found), NEW x \in Found
    PROVE  /\ Append(found, x) \in Seq(Found)
           /\ x.name # "log_turn" => LogTurns(Append(found, x)) = LogTurns(found)
           /\ x.name = "log_turn" => LogTurns(Append(found, x)) = LogTurns(found) \cup {Len(found) + 1}
           /\ \A i \in LogTurns(found) : Append(found, x)[i] = found[i]
           /\ Append(found, x)[Len(found) + 1] = x
<1> DEFINE g == Append(found, x)
           l == Len(found)
<1>1. /\ g \in Seq(Found) /\ DOMAIN found = 1 .. l /\ l \in Nat /\ DOMAIN g = 1 .. (l + 1)
      /\ g[l + 1] = x
      /\ \A i \in 1 .. l : g[i] = found[i]
  OBVIOUS
<1> HIDE DEF g, l
<1>2. 1 .. (l + 1) = (1 .. l) \cup {l + 1}
  BY <1>1
<1>3. \A i : i \in LogTurns(g) <=> (i \in LogTurns(found) \/ (i = l + 1 /\ x.name = "log_turn"))
  <2>1. ASSUME NEW i \in 1 .. l PROVE i \in LogTurns(g) <=> i \in LogTurns(found)
    BY <1>1, <1>2 DEF LogTurns
  <2>2. l + 1 \in LogTurns(g) <=> x.name = "log_turn"
    BY <1>1, <1>2 DEF LogTurns
  <2>3. LogTurns(g) \subseteq 1 .. (l + 1) /\ LogTurns(found) \subseteq 1 .. l
    BY <1>1 DEF LogTurns
  <2> QED
    BY <1>1, <1>2, <2>1, <2>2, <2>3
<1>4. /\ x.name # "log_turn" => LogTurns(g) = LogTurns(found)
      /\ x.name = "log_turn" => LogTurns(g) = LogTurns(found) \cup {l + 1}
  BY <1>3
<1>5. \A i \in LogTurns(found) : g[i] = found[i]
  BY <1>1 DEF LogTurns
<1> QED
  BY <1>1, <1>4, <1>5 DEF g, l

(* One more call read.                                                     *)
LEMMA NextIsFound ==
    ASSUME NEW n \in Nat, NEW k \in 1 .. n, NEW found, NEW call, NEW calls, calls[k] \in Call,
           calls[k].args \in {"wrong", "right"}, call = [calls[k] EXCEPT !.form = "function"],
           FirstIsFound(calls, k - 1, found)
    PROVE  FirstIsFound(calls, k, KeepFunction(found, call))
<1> DEFINE x == Payload(calls[k])
           g == KeepFunction(found, call)
           same == \E i \in DOMAIN found : found[i].name = x.name
<1>1. /\ call.form = "function" /\ call.name = calls[k].name
      /\ Payload(call) = x
      /\ x.args = calls[k].args /\ x.name = calls[k].name
  BY DEF Call, Payload
<1>2. x \in Found
  BY DEF Call, Payload, Found
<1>3. found \in Seq(Found)
  BY DEF FirstIsFound
<1>4. \A i \in DOMAIN found : found[i].args # "empty"
  <2>1. \A i \in DOMAIN found : found[i] \in Found
    BY <1>3
  <2> QED
    BY <2>1 DEF Found
<1>5. x.args # "empty"
  BY <1>1
<1>6. g = IF same THEN found ELSE Append(found, x)
  BY <1>1, <1>4, <1>5 DEF KeepFunction
<1> HIDE DEF x, g
<1>7. k \in Nat /\ k >= 1 /\ k - 1 \in Nat /\ 1 .. k = (1 .. (k - 1)) \cup {k}
  OBVIOUS
<1>8. \A j \in 1 .. (k - 1) : FirstOf(calls, j, k) => FirstOf(calls, j, k - 1)
  BY <1>7 DEF FirstOf
<1>9. CASE x.name = "log_turn"
  <2>1. same <=> LogTurns(found) # {}
    BY <1>9 DEF LogTurns
  <2>2. CASE LogTurns(found) = {}
    <3>1. g = Append(found, x)
      BY <1>6, <2>1, <2>2
    <3>2. /\ g \in Seq(Found) /\ LogTurns(g) = {Len(found) + 1} /\ g[Len(found) + 1] = x
      BY <1>2, <1>3, <1>9, <2>2, <3>1, FoundGrows
    <3>3. ASSUME NEW j \in 1 .. k, FirstOf(calls, j, k)
          PROVE  j = k
      <4>1. ~ (j \in 1 .. (k - 1))
        BY <1>8, <2>2, <3>3 DEF FirstIsFound
      <4> QED
        BY <1>7, <4>1
    <3>4. ~ \A m \in 1 .. k : calls[m].name # "log_turn"
      BY <1>1, <1>7, <1>9
    <3>5. \A j \in 1 .. k : FirstOf(calls, j, k) =>
             LogTurns(g) = {Len(found) + 1} /\ g[Len(found) + 1].args = calls[j].args
      BY <1>1, <3>2, <3>3
    <3>6. FirstIsFound(calls, k, g)
      BY <3>2, <3>4, <3>5, Zenon DEF FirstIsFound
    <3> QED
      BY <3>6 DEF g
  <2>3. CASE LogTurns(found) # {}
    <3>1. g = found
      BY <1>6, <2>1, <2>3
    <3>2. ~ \A m \in 1 .. k : calls[m].name # "log_turn"
      BY <1>1, <1>7, <1>9
    <3>3. ASSUME NEW j \in 1 .. k, FirstOf(calls, j, k)
          PROVE  j \in 1 .. (k - 1)
      <4>1. ASSUME j = k PROVE FALSE
        <5>1. \A m \in 1 .. (k - 1) : calls[m].name # "log_turn"
          BY <1>7, <3>3, <4>1 DEF FirstOf
        <5> QED
          BY <2>3, <5>1 DEF FirstIsFound
      <4> QED
        BY <1>7, <4>1
    <3>4. \A j \in 1 .. k : FirstOf(calls, j, k) =>
             \E i : LogTurns(found) = {i} /\ found[i].args = calls[j].args
      BY <1>8, <3>3 DEF FirstIsFound
    <3>5. FirstIsFound(calls, k, found)
      BY <1>3, <3>2, <3>4, Zenon DEF FirstIsFound
    <3> QED
      BY <3>1, <3>5 DEF g
  <2> QED
    BY <2>2, <2>3
<1>10. CASE x.name # "log_turn"
  <2>1. /\ g \in Seq(Found) /\ LogTurns(g) = LogTurns(found)
        /\ \A i \in LogTurns(found) : g[i] = found[i]
    BY <1>2, <1>3, <1>6, <1>10, FoundGrows
  <2>2. (\A m \in 1 .. k : calls[m].name # "log_turn") => LogTurns(g) = {}
    BY <1>7, <2>1 DEF FirstIsFound
  <2>3. ASSUME NEW j \in 1 .. k, FirstOf(calls, j, k)
        PROVE  \E i : LogTurns(g) = {i} /\ g[i].args = calls[j].args
    <3>1. j # k
      BY <1>1, <1>10, <2>3 DEF FirstOf
    <3>2. j \in 1 .. (k - 1)
      BY <1>7, <3>1
    <3>3. PICK i : LogTurns(found) = {i} /\ found[i].args = calls[j].args
      BY <1>8, <2>3, <3>2 DEF FirstIsFound
    <3>4. g[i] = found[i]
      BY <2>1, <3>3
    <3> QED
      BY <2>1, <3>3, <3>4
  <2>4. FirstIsFound(calls, k, g)
    BY <2>1, <2>2, <2>3, Zenon DEF FirstIsFound
  <2> QED
    BY <2>4 DEF g
<1> QED
  BY <1>9, <1>10

(* All functions: the first log_turn is found, with its arguments.         *)
LEMMA FunctionsAreFound ==
    ASSUME NEW calls \in Seq(Call), calls # <<>>,
           \A j \in DOMAIN calls : calls[j].args \in {"wrong", "right"}
    PROVE  FirstIsFound(calls, Len(calls), parse_tool_calls(As(calls, "function"), <<>>))
<1> DEFINE text == As(calls, "function")
           n == Len(calls)
<1>1. n \in Nat /\ DOMAIN calls = 1 .. n /\ DOMAIN text = 1 .. n
  BY DEF As
<1>2. ASSUME NEW k \in 1 .. n
      PROVE  /\ calls[k] \in Call /\ text[k] = [calls[k] EXCEPT !.form = "function"]
             /\ text[k].form = "function"
  <2>1. calls[k] \in Call
    BY <1>1
  <2>2. text[k] = [calls[k] EXCEPT !.form = "function"]
    BY <1>1 DEF As
  <2> QED
    BY <2>1, <2>2 DEF Call
<1> HIDE DEF text, n
<1>3. HeadersOf(<<>>, text) = <<>>
  <2>1. PICK found : States("header", <<>>, text, n, found) /\ HeadersOf(<<>>, text) = found[n]
    BY <1>1, HeaderStates
  <2> DEFINE T == {k \in 0 .. n : found[k] = <<>>}
  <2>2. 0 \in T
    BY <1>1, <2>1 DEF States
  <2>3. ASSUME NEW k \in 1 .. n, k - 1 \in T
        PROVE  k \in T
    <3>1. found[k] = KeepHeader(found[k - 1], text[k])
      BY <2>1 DEF States, Keep
    <3>2. KeepHeader(found[k - 1], text[k]) = found[k - 1]
      BY <1>2 DEF KeepHeader
    <3> QED
      BY <2>3, <3>1, <3>2
  <2> HIDE DEF T
  <2>4. n \in Nat /\ n \in 0 .. n
    BY <1>1
  <2>5. \A k \in 0 .. n : k \in T
    BY <2>2, <2>3, <2>4, HoldsUpTo
  <2>6. n \in T
    BY <2>4, <2>5
  <2> QED
    BY <2>1, <2>6 DEF T
<1>4. PICK found : States("function", <<>>, text, n, found) /\ FunctionsOf(<<>>, text) = found[n]
  BY <1>1, FunctionStates
<1>5. FirstIsFound(calls, n, found[n])
  <2> DEFINE T == {k \in 0 .. n : FirstIsFound(calls, k, found[k])}
  <2>1. 0 \in T
    <3>1. found[0] = <<>>
      BY <1>4 DEF States
    <3>2. LogTurns(<<>>) = {} /\ <<>> \in Seq(Found) /\ 1 .. 0 = {}
      BY DEF LogTurns
    <3>3. FirstIsFound(calls, 0, found[0])
      BY <3>1, <3>2 DEF FirstIsFound
    <3> QED
      BY <1>1, <3>3
  <2>2. ASSUME NEW k \in 1 .. n, k - 1 \in T
        PROVE  k \in T
    <3>1. found[k] = KeepFunction(found[k - 1], text[k])
      <4>1. found[k] = Keep("function", found[k - 1], text[k])
        BY <1>4 DEF States
      <4> QED
        BY <4>1 DEF Keep
    <3>2. FirstIsFound(calls, k - 1, found[k - 1])
      BY <2>2
    <3>3. calls[k].args \in {"wrong", "right"}
      BY <1>1
    <3>4. FirstIsFound(calls, k, KeepFunction(found[k - 1], text[k]))
      BY <1>1, <1>2, <3>2, <3>3, NextIsFound
    <3> QED
      BY <3>1, <3>4
  <2> HIDE DEF T
  <2>3. n \in Nat /\ n \in 0 .. n
    BY <1>1
  <2>4. \A k \in 0 .. n : k \in T
    BY <2>1, <2>2, <2>3, HoldsUpTo
  <2> QED
    BY <2>3, <2>4 DEF T
<1>6. parse_tool_calls(text, <<>>) = FunctionsOf(HeadersOf(<<>>, text), text)
  BY Zenon DEF parse_tool_calls, HeadersOf, FunctionsOf
<1>7. FirstIsFound(calls, n, parse_tool_calls(text, <<>>))
  BY <1>3, <1>4, <1>5, <1>6
<1> QED
  BY <1>7 DEF text, n

(* Either form gives the signals of the calls themselves.                  *)
LEMMA SignalsAgree ==
    ASSUME NEW calls \in Seq(Call), NEW form \in {"header", "function"},
           \A j \in DOMAIN calls : calls[j].args \in {"wrong", "right"}
    PROVE  ToolSignals(parse_tool_calls(As(calls, form), <<>>))
               = ToolSignals(parse_tool_calls(<<>>, calls))
<1>1. CASE calls = <<>>
  <2>1. As(calls, form) = <<>>
    BY <1>1 DEF As
  <2> QED
    BY <1>1, <2>1
<1>2. CASE calls # <<>>
  <2> DEFINE native == [i \in DOMAIN calls |-> Payload(calls[i])]
             n == Len(calls)
  <2>1. parse_tool_calls(<<>>, calls) = native
    BY <1>2, Zenon DEF parse_tool_calls
  <2>2. CASE form = "header"
    BY <1>2, <2>1, <2>2, HeadersAreFound
  <2>3. CASE form = "function"
    <3> DEFINE found == parse_tool_calls(As(calls, "function"), <<>>)
    <3>1. FirstIsFound(calls, n, found)
      BY <1>2, FunctionsAreFound
    <3>2. n \in Nat /\ DOMAIN calls = 1 .. n
      OBVIOUS
    <3>3. ASSUME NEW i \in 1 .. n
          PROVE  native[i].name = calls[i].name /\ native[i].args = calls[i].args
      <4>1. calls[i].args # "unparsable"
        BY <3>2
      <4> QED
        BY <3>2, <4>1 DEF Payload
    <3>4. LogTurns(native) = {i \in 1 .. n : calls[i].name = "log_turn"}
      <4>1. DOMAIN native = 1 .. n
        BY <3>2
      <4> HIDE DEF native, n
      <4> QED
        BY <3>3, <4>1 DEF LogTurns
    <3> HIDE DEF found, native, n
    <3>5. CASE LogTurns(native) = {}
      <4>1. LogTurns(found) = {}
        BY <3>1, <3>4, <3>5 DEF FirstIsFound
      <4> QED
        BY <2>1, <2>3, <3>5, <4>1 DEF ToolSignals, found
    <3>6. CASE LogTurns(native) # {}
      <4>1. LogTurns(native) \in SUBSET Nat
        BY <3>2, <3>4
      <4>2. PICK j \in LogTurns(native) : \A m \in LogTurns(native) : j <= m
        BY <3>6, <4>1, LeastOf
      <4>3. j \in 1 .. n /\ FirstOf(calls, j, n)
        BY <3>4, <4>2 DEF FirstOf
      <4>4. PICK i : LogTurns(found) = {i} /\ found[i].args = calls[j].args
        BY <3>1, <4>3 DEF FirstIsFound
      <4>5. native[j].args = calls[j].args
        BY <3>3, <4>3
      <4>6. (\E m \in LogTurns(native) : /\ native[m].args = "right"
                                         /\ \A l \in LogTurns(native) : m <= l)
               <=> calls[j].args = "right"
        <5>1. ASSUME NEW m \in LogTurns(native), \A l \in LogTurns(native) : m <= l
              PROVE  m = j
          BY <4>1, <4>2, <5>1
        <5> QED
          BY <4>2, <4>5, <5>1
      <4>7. (\E m \in LogTurns(found) : /\ found[m].args = "right"
                                        /\ \A l \in LogTurns(found) : m <= l)
               <=> calls[j].args = "right"
        <5>1. i \in Nat
          <6>1. found \in Seq(Found)
            BY <3>1 DEF FirstIsFound
          <6>2. i \in DOMAIN found
            BY <4>4 DEF LogTurns
          <6> QED
            BY <6>1, <6>2
        <5> QED
          BY <4>4, <5>1
      <4>8. LogTurns(found) # {}
        BY <4>4
      <4>9. ToolSignals(found) = ToolSignals(native)
        BY <3>6, <4>6, <4>7, <4>8, Zenon DEF ToolSignals
      <4> QED
        BY <2>1, <2>3, <4>9 DEF found
    <3> QED
      BY <3>5, <3>6
  <2> QED
    BY <2>2, <2>3
<1> QED
  BY <1>1, <1>2

(* A well-formed call counts the same as a header, as a function and as a  *)
(* call of the API, of however many calls of a reply it is one             *)
(* (parse_tool_calls and score_turn, turn.py:134-180,319-342).             *)
THEOREM FormsAreAlike == Spec => []FormsAgree
<1>1. JudgeInv => FormsAgree
  <2> SUFFICES ASSUME JudgeInv, NEW i \in DOMAIN results,
                      NEW calls, calls = results[i].reply.text,
                      \A j \in DOMAIN calls : calls[j].args \in {"wrong", "right"},
                      NEW form \in {"header", "function"}
               PROVE  ToolSignals(parse_tool_calls(As(calls, form), <<>>))
                          = ToolSignals(parse_tool_calls(<<>>, calls))
    BY DEF FormsAgree, As
  <2>1. Scored(results[i])
    BY DEF JudgeInv
  <2>2. PICK f \in FIXTURES : \E reply \in REPLIES[f] :
          results[i] = [fixture |-> f, reply |-> reply,
                        score |-> score_turn(reply, reply.native)]
    BY <2>1 DEF Scored
  <2>3. PICK reply \in REPLIES[f] :
          results[i] = [fixture |-> f, reply |-> reply,
                        score |-> score_turn(reply, reply.native)]
    BY <2>2
  <2>4. reply \in Reply
    BY FixtureAssumption
  <2>5. calls \in Seq(Call)
    BY <2>3, <2>4 DEF Reply
  <2> QED
    BY <2>5, SignalsAgree
<1> QED
  BY <1>1, InitJudge, StepJudge, PTL DEF Spec
-----------------------------------------------------------------------------
(* The snapshots.  What the accumulator keeps of the turns so far: the     *)
(* last of each signal, counts and dates.                                  *)

(* One more at the end.                                                    *)
LEMMA AppendExtends ==
    ASSUME NEW k \in Nat, k >= 1, NEW out
    PROVE  Append([i \in 1 .. (k - 1) |-> out[i]], out[k]) = [i \in 1 .. k |-> out[i]]
<1> DEFINE q == [i \in 1 .. (k - 1) |-> out[i]]
           r == [i \in 1 .. k |-> out[i]]
           S == {out[i] : i \in 1 .. k}
<1>1. q \in Seq(S) /\ r \in Seq(S) /\ Len(q) = k - 1 /\ Len(r) = k
  OBVIOUS
<1>2. \A i \in 1 .. k : Append(q, out[k])[i] = r[i]
  BY <1>1
<1>3. out[k] \in S
  OBVIOUS
<1>4. Append(q, out[k]) \in Seq(S) /\ Len(Append(q, out[k])) = k
  BY <1>1, <1>3
<1> HIDE DEF q, r, S
<1>5. DOMAIN Append(q, out[k]) = 1 .. k /\ DOMAIN r = 1 .. k
  BY <1>1, <1>4
<1>6. Append(q, out[k]) = r
  BY <1>1, <1>2, <1>4, <1>5
<1> QED
  BY <1>6 DEF q, r

(* A loop that keeps everything.                                           *)
KeepsAll(form, text, n, out) ==
    \A k \in 1 .. n : \A found : Keep(form, found, text[k]) = Append(found, out[k])

LEMMA AllAreKept ==
    ASSUME NEW form \in Loops, NEW text, NEW n \in Nat, DOMAIN text = 1 .. n, NEW out,
           KeepsAll(form, text, n, out)
    PROVE  FoldOf(form, <<>>, text) = [i \in 1 .. n |-> out[i]]
<1>1. PICK found : States(form, <<>>, text, n, found) /\ FoldOf(form, <<>>, text) = found[n]
  BY LoopStates
<1> DEFINE T == {k \in 0 .. n : found[k] = [i \in 1 .. k |-> out[i]]}
<1>2. 0 \in T
  BY <1>1 DEF States
<1>3. ASSUME NEW k \in 1 .. n, k - 1 \in T
      PROVE  k \in T
  <2>1. found[k] = Append(found[k - 1], out[k])
    BY <1>1 DEF States, KeepsAll
  <2>2. found[k - 1] = [i \in 1 .. (k - 1) |-> out[i]]
    BY <1>3
  <2>3. Append([i \in 1 .. (k - 1) |-> out[i]], out[k]) = [i \in 1 .. k |-> out[i]]
    BY AppendExtends
  <2>4. found[k] = [i \in 1 .. k |-> out[i]]
    BY <2>1, <2>2, <2>3, Zenon
  <2> QED
    BY <2>4
<1> HIDE DEF T
<1>4. \A k \in 0 .. n : k \in T
  BY <1>2, <1>3, HoldsUpTo
<1>5. n \in T
  BY <1>4
<1> QED
  BY <1>1, <1>5 DEF T

(* No element twice.                                                       *)
NoRepeats(s) == \A i, j \in DOMAIN s : s[i] = s[j] => i = j

(* A call as its schema asks, with every category once, is stored, and     *)
(* read back as it was counted.                                            *)
LEMMA StoredAsCounted ==
    ASSUME NEW raw \in Raw, AsAsked(raw), NEW said
    PROVE  /\ normalize_runtime_log_turn_args(raw) # Refused
           /\ Stored(normalize_runtime_log_turn_args(raw), said) = _build_turn_record(raw, said)
           /\ NoRepeats(_build_turn_record(raw, said).errors)
<1> DEFINE items == raw.errors
           n == Len(items)
           errs == [i \in 1 .. n |-> [type |-> items[i].type, produced |-> items[i].produced]]
           rws == [i \in 1 .. n |-> [category |-> items[i].type,
                                     produced_form |-> produced_form(errs[i])]]
           types == [i \in 1 .. n |-> items[i].type]
           args == normalize_runtime_log_turn_args(raw)
<1>1. /\ ~ raw.blank /\ items \notin {NotAList, NotIterable} /\ items \in Seq(Item)
      /\ raw.fluency \in Fluency \cup {"missing"} /\ raw.l1 \in {"yes", "no", "missing"}
  BY DEF AsAsked, Raw
<1>2. n \in Nat /\ DOMAIN items = 1 .. n
  BY <1>1
<1>3. \A i \in 1 .. n : /\ items[i] \in Item /\ items[i].shape = "schema"
                        /\ items[i].type # NoType
  BY <1>1, <1>2 DEF AsAsked
<1> HIDE DEF n, items
<1>4. ItemsOf(<<>>, items) = errs
  <2>1. KeepsAll("item", items, n, errs)
    BY <1>3 DEF KeepsAll, Keep, normalize_error_item
  <2> HIDE DEF errs
  <2>2. FoldOf("item", <<>>, items) = [i \in 1 .. n |-> errs[i]]
    BY <1>2, <2>1, AllAreKept DEF Loops
  <2>3. FoldOf("item", <<>>, items) = ItemsOf(<<>>, items)
    BY DEF FoldOf
  <2> QED
    BY <2>2, <2>3 DEF errs
<1>5. RowsOf(<<>>, errs) = rws
  <2>1. KeepsAll("row", errs, n, rws)
    BY <1>3 DEF KeepsAll, Keep, AddRow
  <2>2. DOMAIN errs = 1 .. n
    OBVIOUS
  <2> HIDE DEF errs, rws
  <2>3. FoldOf("row", <<>>, errs) = [i \in 1 .. n |-> rws[i]]
    BY <1>2, <2>1, <2>2, AllAreKept DEF Loops
  <2>4. FoldOf("row", <<>>, errs) = RowsOf(<<>>, errs)
    BY DEF FoldOf
  <2> QED
    BY <2>3, <2>4 DEF rws
<1>6. TypesOf(<<>>, items) = types
  <2>1. KeepsAll("type", items, n, types)
    BY <1>3 DEF KeepsAll, Keep, AddType
  <2> HIDE DEF types
  <2>2. FoldOf("type", <<>>, items) = [i \in 1 .. n |-> types[i]]
    BY <1>2, <2>1, AllAreKept DEF Loops
  <2>3. FoldOf("type", <<>>, items) = TypesOf(<<>>, items)
    BY DEF FoldOf
  <2> QED
    BY <2>2, <2>3 DEF types
<1> DEFINE fluent == IF raw.fluency = "missing" THEN "moderate" ELSE raw.fluency
           used == raw.l1 \in {"yes", "'true'"}
<1>7. args = [errors |-> ItemsOf(<<>>, items), fluency |-> fluent, l1 |-> used]
  <2>1. args = [errors |-> FoldLeft(normalize_error_item, <<>>, items), fluency |-> fluent, l1 |-> used]
    <3>1. ~ (\/ raw.blank \/ raw.errors \in {NotAList, NotIterable}
             \/ raw.fluency = "invalid" \/ raw.l1 = "other")
      BY <1>1 DEF Fluency, items
    <3> QED
      BY <3>1, Zenon DEF normalize_runtime_log_turn_args, items
  <2> QED
    BY <2>1, Zenon DEF ItemsOf
<1> HIDE DEF args
<1>8. args # Refused
  <2>1. fluent \in Fluency /\ used \in BOOLEAN
    BY <1>1 DEF Fluency
  <2>2. errs \in Seq([type : Category \cup {NoType}, produced : {Form, NoForm}])
    BY <1>2, <1>3 DEF Item
  <2> HIDE DEF errs, fluent, used
  <2>3. args \in [errors : Seq([type : Category \cup {NoType}, produced : {Form, NoForm}]),
                  fluency : Fluency, l1 : BOOLEAN]
    BY <1>4, <1>7, <2>1, <2>2
  <2> QED
    BY <2>3, ArgsAssumption
<1>9. [i \in DOMAIN ErrorRows(args.errors) |-> ErrorRows(args.errors)[i].category] = types
  <2>1. ErrorRows(args.errors) = rws
    <3>1. args.errors = errs
      BY <1>4, <1>7
    <3> QED
      BY <1>5, <3>1, Zenon DEF ErrorRows, RowsOf
  <2> QED
    BY <2>1
<1>10. Stored(args, said) = [l1 |-> used, fluency |-> fluent, lemmas |-> {said}, errors |-> types]
  BY <1>7, <1>9 DEF Stored
<1>11. _build_turn_record(raw, said)
         = [l1 |-> used, fluency |-> fluent, lemmas |-> {said}, errors |-> types]
  <2>1. raw.l1 \notin {"no", "missing"} <=> used
    BY <1>1
  <2>2. (IF raw.fluency \in Fluency THEN raw.fluency ELSE "moderate") = fluent
    BY <1>1 DEF Fluency
  <2>3. (IF raw.errors = NotAList THEN <<>> ELSE FoldLeft(AddType, <<>>, raw.errors)) = types
    BY <1>1, <1>6 DEF TypesOf, items
  <2>4. (raw.l1 \notin {"no", "missing"}) = used
    BY <2>1
  <2> HIDE DEF fluent, used, types
  <2> QED
    BY <2>2, <2>3, <2>4, Zenon DEF _build_turn_record
<1>12. NoRepeats(types)
  BY <1>2 DEF NoRepeats, AsAsked, items
<1> HIDE DEF types, fluent, used
<1> QED
  BY <1>8, <1>10, <1>11, <1>12 DEF args

(* A window of n turns, of which out gives the signal.                     *)
Kept(n) == IF n < WINDOW THEN n ELSE WINDOW

LastOf(out, n) == [i \in 1 .. Kept(n) |-> out[(n - Kept(n)) + i]]

(* deque(maxlen=...): one more signal pushes out the first.                *)
LEMMA TrimKeepsTheLast ==
    ASSUME NEW n \in Nat, NEW out
    PROVE  Trim(Append(LastOf(out, n), out[n + 1])) = LastOf(out, n + 1)
<1>1. WINDOW \in Nat \ {0}
  BY ProfileAssumption
<1> DEFINE w == LastOf(out, n)
           g == Append(w, out[n + 1])
           m == Kept(n)
           S == {out[i] : i \in 1 .. (n + 1)}
<1>2. m \in Nat /\ m <= n /\ m <= WINDOW
  BY <1>1 DEF Kept
<1>3. w \in Seq(S) /\ Len(w) = m /\ \A i \in 1 .. m : w[i] = out[(n - m) + i]
  <2>1. w = [i \in 1 .. m |-> out[(n - m) + i]]
    BY DEF LastOf
  <2>2. \A i \in 1 .. m : (n - m) + i \in 1 .. (n + 1)
    BY <1>2
  <2> HIDE DEF m
  <2> QED
    BY <1>2, <2>1, <2>2
<1>4. out[n + 1] \in S
  OBVIOUS
<1> HIDE DEF w, S
<1>5. /\ g \in Seq(S) /\ Len(g) = m + 1 /\ g[m + 1] = out[n + 1]
      /\ \A i \in 1 .. m : g[i] = out[(n - m) + i]
  BY <1>2, <1>3, <1>4
<1> HIDE DEF g
<1>6. CASE n < WINDOW
  <2>1. m = n /\ Kept(n + 1) = n + 1
    BY <1>1, <1>6 DEF Kept
  <2>2. Trim(g) = g
    BY <1>1, <1>2, <1>5, <1>6, <2>1 DEF Trim
  <2>3. \A i \in 1 .. (n + 1) : g[i] = out[i]
    BY <1>5, <2>1
  <2>4. LastOf(out, n + 1) = [i \in 1 .. (n + 1) |-> out[i]]
    BY <2>1 DEF LastOf
  <2>5. g = [i \in 1 .. (n + 1) |-> out[i]]
    BY <1>5, <2>1, <2>3
  <2> QED
    BY <2>2, <2>4, <2>5 DEF g, w
<1>7. CASE ~ (n < WINDOW)
  <2>1. m = WINDOW /\ Kept(n + 1) = WINDOW
    BY <1>1, <1>7 DEF Kept
  <2>2. Trim(g) = Tail(g)
    BY <1>1, <1>2, <1>5, <2>1 DEF Trim
  <2>3. Tail(g) \in Seq(S) /\ Len(Tail(g)) = m /\ \A i \in 1 .. m : Tail(g)[i] = g[i + 1]
    BY <1>2, <1>5
  <2>4. \A i \in 1 .. m : Tail(g)[i] = out[((n + 1) - m) + i]
    <3> SUFFICES ASSUME NEW i \in 1 .. m PROVE g[i + 1] = out[((n + 1) - m) + i]
      BY <2>3
    <3>1. CASE i < m
      <4>1. i + 1 \in 1 .. m /\ (n - m) + (i + 1) = ((n + 1) - m) + i
        BY <1>2, <3>1
      <4> QED
        BY <1>5, <4>1
    <3>2. CASE i = m
      <4>1. ((n + 1) - m) + i = n + 1
        BY <1>2, <3>2
      <4> QED
        BY <1>5, <3>2, <4>1
    <3> QED
      BY <1>2, <3>1, <3>2
  <2>5. LastOf(out, n + 1) = [i \in 1 .. m |-> out[((n + 1) - m) + i]]
    BY <2>1 DEF LastOf
  <2> HIDE DEF m
  <2>6. Tail(g) = [i \in 1 .. m |-> out[((n + 1) - m) + i]]
    <3> DEFINE q == Tail(g)
    <3>1. q \in Seq(S) /\ Len(q) = m /\ m \in Nat
      BY <1>2, <2>3
    <3>2. \A i \in 1 .. m : q[i] = out[((n + 1) - m) + i]
      BY <2>4
    <3> HIDE DEF q
    <3>3. q = [i \in 1 .. m |-> q[i]]
      BY <3>1
    <3>4. q = [i \in 1 .. m |-> out[((n + 1) - m) + i]]
      BY <3>2, <3>3
    <3> QED
      BY <3>4 DEF q
  <2> QED
    BY <2>2, <2>5, <2>6 DEF g, w
<1> QED
  BY <1>6, <1>7

(* U is T and one turn more.                                               *)
Extends(U, T, n) ==
    /\ DOMAIN T = 1 .. n /\ DOMAIN U = 1 .. (n + 1)
    /\ \A i \in 1 .. n : U[i] = T[i]

(* The last of all places is the latest of any that have it.               *)
LEMMA LatestIs ==
    ASSUME NEW n \in Nat, NEW S \in SUBSET (1 .. n), n \in S
    PROVE  Latest(S) = n
<1>1. \A i \in S : i \in Int /\ i <= n
  OBVIOUS
<1>2. \A i \in S : (\A j \in S : j <= i) => i = n
  BY <1>1
<1> QED
  BY <1>1, <1>2 DEF Latest

(* A category is counted once in a turn that has it once.                  *)
LEMMA CountsGrow ==
    ASSUME NEW n \in Nat, NEW T, NEW U, Extends(U, T, n), NoRepeats(U[n + 1].errors),
           NEW account, account.errors = ErrorCounts(T), account.n = n
    PROVE  CountErrors(account, U[n + 1]) = ErrorCounts(U)
<1> DEFINE t == U[n + 1]
           new == ToSet(t.errors)
           D(turns) == UNION {ToSet(turns[i].errors) : i \in DOMAIN turns}
<1>1. DOMAIN T = 1 .. n /\ DOMAIN U = 1 .. (n + 1) /\ \A i \in 1 .. n : U[i] = T[i]
  BY DEF Extends
<1>2. 1 .. (n + 1) = (1 .. n) \cup {n + 1} /\ n + 1 \notin 1 .. n /\ n + 1 \in Nat
  OBVIOUS
<1>3. D(U) = D(T) \cup new
  BY <1>1, <1>2
<1>4. \A c : TurnsWith(T, c) \in SUBSET (1 .. n)
  BY <1>1 DEF TurnsWith
<1>5. \A c : c \notin new => TurnsWith(U, c) = TurnsWith(T, c)
  BY <1>1, <1>2 DEF TurnsWith
<1>6. \A c : c \in new => TurnsWith(U, c) = TurnsWith(T, c) \cup {n + 1}
  BY <1>1, <1>2 DEF TurnsWith
<1>7. \A c : c \notin D(T) => TurnsWith(T, c) = {}
  BY <1>1 DEF TurnsWith
<1>8. \A c : IsFiniteSet(TurnsWith(T, c)) /\ Cardinality(TurnsWith(T, c)) \in Nat
  <2>1. IsFiniteSet(1 .. n)
    BY FS_Interval
  <2> QED
    BY <1>4, <2>1, FS_Subset, FS_CardinalityType
<1>9. \A c \in new : Times(c, t.errors) = 1
  <2> SUFFICES ASSUME NEW c \in new PROVE Times(c, t.errors) = 1
    OBVIOUS
  <2>1. PICK k \in DOMAIN t.errors : t.errors[k] = c
    BY DEF ToSet
  <2>2. {i \in DOMAIN t.errors : t.errors[i] = c} = {k}
    BY <2>1 DEF NoRepeats
  <2>3. Cardinality({k}) = 1
    BY FS_Singleton
  <2> QED
    BY <2>2, <2>3, Zenon DEF Times
<1>10. \A c \in D(T) : ErrorCounts(T)[c] = [count |-> Cardinality(TurnsWith(T, c)),
                                           seen |-> Latest(TurnsWith(T, c))]
  BY DEF ErrorCounts
<1>11. DOMAIN ErrorCounts(T) = D(T)
  BY DEF ErrorCounts
<1>12. ErrorCounts(U) = [c \in D(U) |-> [count |-> Cardinality(TurnsWith(U, c)),
                                       seen |-> Latest(TurnsWith(U, c))]]
  BY DEF ErrorCounts
<1>13. CountErrors(account, t) =
         [c \in D(T) \cup new |->
            IF c \in new
            THEN [count |-> Times(c, t.errors)
                            + (IF c \in D(T) THEN account.errors[c].count ELSE 0),
                  seen  |-> n + 1]
            ELSE account.errors[c]]
  BY <1>11 DEF CountErrors
<1> HIDE DEF D, new, t
<1>14. ASSUME NEW c \in new
       PROVE  /\ Cardinality(TurnsWith(U, c))
                   = Times(c, t.errors) + (IF c \in D(T) THEN account.errors[c].count ELSE 0)
              /\ Latest(TurnsWith(U, c)) = n + 1
  <2>1. Cardinality(TurnsWith(U, c)) = Cardinality(TurnsWith(T, c)) + 1
    <3>1. n + 1 \notin TurnsWith(T, c)
      BY <1>2, <1>4
    <3> QED
      BY <1>6, <1>8, <1>14, <3>1, FS_AddElement
  <2>2. (IF c \in D(T) THEN account.errors[c].count ELSE 0) = Cardinality(TurnsWith(T, c))
    <3>1. CASE c \in D(T)
      <4>1. account.errors[c] = ErrorCounts(T)[c]
        OBVIOUS
      <4>2. account.errors[c] = [count |-> Cardinality(TurnsWith(T, c)),
                                 seen |-> Latest(TurnsWith(T, c))]
        BY <1>10, <3>1, <4>1
      <4>3. account.errors[c].count = Cardinality(TurnsWith(T, c))
        BY <4>2
      <4> QED
        BY <3>1, <4>3
    <3>2. CASE c \notin D(T)
      BY <1>7, <3>2, FS_EmptySet
    <3> QED
      BY <3>1, <3>2
  <2>3. Latest(TurnsWith(U, c)) = n + 1
    <3>1. TurnsWith(U, c) \in SUBSET (1 .. (n + 1)) /\ n + 1 \in TurnsWith(U, c)
      BY <1>2, <1>4, <1>6, <1>14
    <3> QED
      BY <1>2, <3>1, LatestIs
  <2> QED
    BY <1>8, <1>9, <1>14, <2>1, <2>2, <2>3
<1>15. ASSUME NEW c \in D(T) \cup new, c \notin new
       PROVE  account.errors[c] = [count |-> Cardinality(TurnsWith(U, c)),
                                   seen |-> Latest(TurnsWith(U, c))]
  BY <1>5, <1>10, <1>15
<1>16. CountErrors(account, t) = ErrorCounts(U)
  BY <1>3, <1>12, <1>13, <1>14, <1>15
<1> QED
  BY <1>16 DEF t

(* A lemma is dated by the last turn that has it.                          *)
LEMMA DatesGrow ==
    ASSUME NEW n \in Nat, NEW T, NEW U, Extends(U, T, n),
           NEW account, account.vocab = VocabularyItems(T), account.n = n
    PROVE  DateLemmas(account, U[n + 1]) = VocabularyItems(U)
<1> DEFINE t == U[n + 1]
           new == t.lemmas
           D(turns) == UNION {turns[i].lemmas : i \in DOMAIN turns}
<1>1. DOMAIN T = 1 .. n /\ DOMAIN U = 1 .. (n + 1) /\ \A i \in 1 .. n : U[i] = T[i]
  BY DEF Extends
<1>2. 1 .. (n + 1) = (1 .. n) \cup {n + 1} /\ n + 1 \notin 1 .. n /\ n + 1 \in Nat
  OBVIOUS
<1>3. D(U) = D(T) \cup new
  BY <1>1, <1>2
<1>4. \A w : w \notin new => TurnsSaying(U, w) = TurnsSaying(T, w)
  BY <1>1, <1>2 DEF TurnsSaying
<1>5. \A w \in new : TurnsSaying(U, w) \in SUBSET (1 .. (n + 1)) /\ n + 1 \in TurnsSaying(U, w)
  BY <1>1, <1>2 DEF TurnsSaying
<1>6. \A w \in new : Latest(TurnsSaying(U, w)) = n + 1
  BY <1>2, <1>5, LatestIs
<1>7. VocabularyItems(T) = [w \in D(T) |-> Latest(TurnsSaying(T, w))]
  BY DEF VocabularyItems
<1>8. VocabularyItems(U) = [w \in D(U) |-> Latest(TurnsSaying(U, w))]
  BY DEF VocabularyItems
<1>9. DateLemmas(account, t) = [w \in D(T) \cup new |-> IF w \in new THEN n + 1 ELSE account.vocab[w]]
  BY <1>7 DEF DateLemmas
<1> HIDE DEF D, new, t
<1>10. \A w \in D(T) : account.vocab[w] = Latest(TurnsSaying(T, w))
  BY <1>7
<1>11. DateLemmas(account, t) = VocabularyItems(U)
  BY <1>3, <1>4, <1>6, <1>8, <1>9, <1>10
<1> QED
  BY <1>11 DEF t

(* Two sets of places, one the mirror of the other, are as large.          *)
LEMMA MirrorCounts ==
    ASSUME NEW m \in Nat, NEW A, NEW B, A \subseteq 1 .. m, B \subseteq 1 .. m,
           \A i \in 1 .. m : i \in B <=> (m + 1) - i \in A
    PROVE  Cardinality(B) = Cardinality(A)
<1> DEFINE mirror == [i \in A |-> (m + 1) - i]
<1>1. \A i \in 1 .. m : (m + 1) - i \in 1 .. m /\ (m + 1) - ((m + 1) - i) = i
  OBVIOUS
<1>2. \A i \in A : mirror[i] \in B
  <2> SUFFICES ASSUME NEW i \in A PROVE (m + 1) - i \in B
    OBVIOUS
  <2>1. i \in 1 .. m /\ (m + 1) - i \in 1 .. m /\ (m + 1) - ((m + 1) - i) = i
    BY <1>1
  <2> QED
    BY <2>1
<1>3. mirror \in Injection(A, B)
  <2>1. \A i, j \in A : mirror[i] = mirror[j] => i = j
    <3> SUFFICES ASSUME NEW i \in A, NEW j \in A, (m + 1) - i = (m + 1) - j PROVE i = j
      OBVIOUS
    <3>1. i \in 1 .. m /\ j \in 1 .. m
      OBVIOUS
    <3> QED
      BY <3>1
  <2>2. mirror \in [A -> B]
    BY <1>2
  <2> HIDE DEF mirror
  <2> QED
    BY <2>1, <2>2 DEF Injection, IsInjective
<1>4. \A i \in B : \E j \in A : mirror[j] = i
  <2> SUFFICES ASSUME NEW i \in B PROVE \E j \in A : (m + 1) - j = i
    OBVIOUS
  <2>1. i \in 1 .. m /\ (m + 1) - i \in A /\ (m + 1) - ((m + 1) - i) = i
    BY <1>1
  <2> QED
    BY <2>1
<1> HIDE DEF mirror
<1>5. mirror \in Bijection(A, B)
  BY <1>3, <1>4 DEF Bijection, Surjection, Injection
<1>6. IsFiniteSet(A)
  <2>1. IsFiniteSet(1 .. m)
    BY FS_Interval
  <2> QED
    BY <2>1, FS_Subset
<1>7. ExistsBijection(A, B)
  BY <1>5 DEF ExistsBijection
<1> QED
  BY <1>6, <1>7, FS_Bijection

(* The rows of the last n turns, newest first.                             *)
LEMMA NewestAre ==
    ASSUME NEW n \in Nat, NEW S, NEW T \in Seq(S), Len(T) = n
    PROVE  Newest(T, WINDOW) = [i \in 1 .. Kept(n) |-> T[(n - i) + 1]]
<1>1. WINDOW \in Nat \ {0}
  BY ProfileAssumption
<1> DEFINE m == IF n < WINDOW THEN n ELSE WINDOW
           r == Reverse(T)
           new == SubSeq(r, 1, m)
<1>2. m \in Nat /\ m <= n /\ m = Kept(n)
  BY <1>1 DEF Kept
<1>3. r = [i \in 1 .. n |-> T[(n - i) + 1]]
  BY DEF Reverse
<1>4. \A i \in 1 .. n : r[i] = T[(n - i) + 1] /\ r[i] \in S
  <2>1. \A i \in 1 .. n : (n - i) + 1 \in 1 .. n
    OBVIOUS
  <2>2. \A i \in 1 .. n : T[i] \in S
    OBVIOUS
  <2> QED
    BY <1>3, <2>1, <2>2
<1>5. r \in Seq(S) /\ Len(r) = n
  BY <1>3, <1>4
<1>6. Newest(T, WINDOW) = new
  <2>1. Newest(T, WINDOW) = SubSeq(r, 1, IF Len(T) < WINDOW THEN Len(T) ELSE WINDOW)
    BY DEF Newest
  <2> QED
    BY <2>1
<1> HIDE DEF m, r
<1>7. \A i \in 1 .. m : r[i] \in S
  BY <1>2, <1>4
<1>8. new \in Seq(S) /\ Len(new) = m /\ \A i \in 1 .. m : new[i] = r[i]
  <2>1. /\ new \in Seq(S) /\ Len(new) = IF 1 <= m THEN m - 1 + 1 ELSE 0
        /\ \A i \in 1 .. m - 1 + 1 : new[i] = r[1 + i - 1]
    BY <1>2, <1>7, SubSeqProperties
  <2>2. m - 1 + 1 = m /\ \A i \in 1 .. m : 1 + i - 1 = i
    BY <1>2
  <2> QED
    BY <1>2, <2>1, <2>2
<1> HIDE DEF new
<1>9. \A i \in 1 .. m : new[i] = T[(n - i) + 1]
  BY <1>2, <1>4, <1>8
<1>10. new = [i \in 1 .. m |-> new[i]]
  BY <1>2, <1>8
<1>11. new = [i \in 1 .. m |-> T[(n - i) + 1]]
  BY <1>9, <1>10
<1> QED
  BY <1>2, <1>6, <1>11

(* The account holds what the first n turns amount to.                     *)
IsAccount(account, T, n) ==
    /\ account.n = n
    /\ account.flags = LastOf([i \in 1 .. n |-> T[i].l1], n)
    /\ account.fluency = LastOf([i \in 1 .. n |-> T[i].fluency], n)
    /\ account.errors = ErrorCounts(T)
    /\ account.vocab = VocabularyItems(T)

(* The window of equal signals.                                            *)
LEMMA LastOfAgrees ==
    ASSUME NEW n \in Nat, NEW out, NEW other, \A i \in 1 .. n : out[i] = other[i]
    PROVE  LastOf(out, n) = LastOf(other, n)
<1>1. WINDOW \in Nat \ {0}
  BY ProfileAssumption
<1>2. Kept(n) \in Nat /\ Kept(n) <= n
  BY <1>1 DEF Kept
<1> DEFINE m == Kept(n)
<1>3. \A i \in 1 .. m : out[(n - m) + i] = other[(n - m) + i]
  <2>1. \A i \in 1 .. m : (n - m) + i \in 1 .. n
    BY <1>2
  <2> QED
    BY <2>1
<1> HIDE DEF m
<1>4. [i \in 1 .. m |-> out[(n - m) + i]] = [i \in 1 .. m |-> other[(n - m) + i]]
  BY <1>3
<1> QED
  BY <1>4 DEF LastOf, m

(* ProfileAccumulator.ingest takes in one turn more.                       *)
LEMMA IngestKeepsAccount ==
    ASSUME NEW n \in Nat, NEW T, NEW U, Extends(U, T, n), NoRepeats(U[n + 1].errors),
           NEW account, IsAccount(account, T, n)
    PROVE  IsAccount(ingest(account, U[n + 1]), U, n + 1)
<1> DEFINE t == U[n + 1]
           l1s(V, k) == [i \in 1 .. k |-> V[i].l1]
           levels(V, k) == [i \in 1 .. k |-> V[i].fluency]
<1>1. \A i \in 1 .. n : U[i] = T[i]
  BY DEF Extends
<1>2. n + 1 \in 1 .. (n + 1) /\ \A i \in 1 .. n : i \in 1 .. (n + 1)
  OBVIOUS
<1>3. account.flags = LastOf(l1s(U, n + 1), n) /\ l1s(U, n + 1)[n + 1] = t.l1
  <2>1. \A i \in 1 .. n : l1s(T, n)[i] = l1s(U, n + 1)[i]
    BY <1>1, <1>2
  <2>2. account.flags = LastOf(l1s(T, n), n)
    BY DEF IsAccount
  <2>3. l1s(U, n + 1)[n + 1] = t.l1
    BY <1>2
  <2> HIDE DEF l1s
  <2>4. LastOf(l1s(T, n), n) = LastOf(l1s(U, n + 1), n)
    BY <2>1, LastOfAgrees
  <2> QED
    BY <2>2, <2>3, <2>4
<1>4. account.fluency = LastOf(levels(U, n + 1), n) /\ levels(U, n + 1)[n + 1] = t.fluency
  <2>1. \A i \in 1 .. n : levels(T, n)[i] = levels(U, n + 1)[i]
    BY <1>1, <1>2
  <2>2. account.fluency = LastOf(levels(T, n), n)
    BY DEF IsAccount
  <2>3. levels(U, n + 1)[n + 1] = t.fluency
    BY <1>2
  <2> HIDE DEF levels
  <2>4. LastOf(levels(T, n), n) = LastOf(levels(U, n + 1), n)
    BY <2>1, LastOfAgrees
  <2> QED
    BY <2>2, <2>3, <2>4
<1>5. Trim(Append(account.flags, t.l1)) = LastOf(l1s(U, n + 1), n + 1)
  <2> HIDE DEF l1s, t
  <2> QED
    BY <1>3, TrimKeepsTheLast
<1>6. Trim(Append(account.fluency, t.fluency)) = LastOf(levels(U, n + 1), n + 1)
  <2> HIDE DEF levels, t
  <2> QED
    BY <1>4, TrimKeepsTheLast
<1>7. CountErrors(account, t) = ErrorCounts(U)
  BY CountsGrow DEF IsAccount
<1>8. DateLemmas(account, t) = VocabularyItems(U)
  BY DatesGrow DEF IsAccount
<1>9. account.n = n
  BY DEF IsAccount
<1> HIDE DEF t
<1>10. IsAccount(ingest(account, t), U, n + 1)
  BY <1>5, <1>6, <1>7, <1>8, <1>9 DEF IsAccount, ingest
<1> QED
  BY <1>10 DEF t

(* The account and the rows of the same turns: the windows are in opposite *)
(* order, which a mean does not see.                                       *)
LEMMA WindowsCountAlike ==
    ASSUME NEW n \in Nat, NEW S, NEW T \in Seq(S), Len(T) = n,
           NEW account, IsAccount(account, T, n)
    PROVE  snapshot(account) = Get(T)
<1> DEFINE m == Kept(n)
           recent == Newest(T, WINDOW)
           flags == [i \in DOMAIN recent |-> recent[i].l1]
           signals == [i \in DOMAIN recent |-> recent[i].fluency]
<1>1. WINDOW \in Nat \ {0}
  BY ProfileAssumption
<1>2. m \in Nat /\ m <= n
  BY <1>1 DEF Kept
<1>3. recent = [i \in 1 .. m |-> T[(n - i) + 1]]
  BY NewestAre
<1> HIDE DEF m, recent
<1>4. flags = [i \in 1 .. m |-> T[(n - i) + 1].l1] /\ signals = [i \in 1 .. m |-> T[(n - i) + 1].fluency]
  BY <1>3
<1> HIDE DEF flags, signals
<1>5. \A i \in 1 .. m : (n - m) + i \in 1 .. n
  BY <1>2
<1>6. account.flags = [i \in 1 .. m |-> T[(n - m) + i].l1]
  <2>1. account.flags = [i \in 1 .. m |-> [j \in 1 .. n |-> T[j].l1][(n - m) + i]]
    BY DEF IsAccount, LastOf, m
  <2> QED
    BY <1>5, <2>1
<1>7. account.fluency = [i \in 1 .. m |-> T[(n - m) + i].fluency]
  <2>1. account.fluency = [i \in 1 .. m |-> [j \in 1 .. n |-> T[j].fluency][(n - m) + i]]
    BY DEF IsAccount, LastOf, m
  <2> QED
    BY <1>5, <2>1
<1>8. \A i \in 1 .. m : (m + 1) - i \in 1 .. m /\ (n - m) + ((m + 1) - i) = (n - i) + 1
  BY <1>2
<1>9. Len(flags) = m /\ Len(account.flags) = m
  BY <1>2, <1>4, <1>6
<1>10. Cardinality({i \in DOMAIN flags : flags[i]})
         = Cardinality({i \in DOMAIN account.flags : account.flags[i]})
  <2> DEFINE A == {i \in DOMAIN account.flags : account.flags[i]}
             B == {i \in DOMAIN flags : flags[i]}
  <2>1. A \subseteq 1 .. m /\ B \subseteq 1 .. m
    BY <1>4, <1>6
  <2>2. ASSUME NEW i \in 1 .. m PROVE i \in B <=> (m + 1) - i \in A
    <3>1. (m + 1) - i \in 1 .. m /\ (n - m) + ((m + 1) - i) = (n - i) + 1
      BY <1>8
    <3>2. flags[i] = T[(n - i) + 1].l1
      BY <1>4
    <3>3. account.flags[(m + 1) - i] = T[(n - m) + ((m + 1) - i)].l1
      BY <1>6, <3>1
    <3>4. flags[i] = account.flags[(m + 1) - i]
      BY <3>1, <3>2, <3>3
    <3>5. i \in DOMAIN flags /\ (m + 1) - i \in DOMAIN account.flags
      BY <1>4, <1>6, <3>1
    <3> QED
      BY <3>4, <3>5, Zenon
  <2> HIDE DEF A, B
  <2>3. Cardinality(B) = Cardinality(A)
    BY <1>2, <2>1, <2>2, MirrorCounts
  <2> QED
    BY <2>3 DEF A, B
<1>11. ASSUME NEW level
       PROVE  Cardinality({i \in DOMAIN signals : signals[i] = level})
                = Cardinality({i \in DOMAIN account.fluency : account.fluency[i] = level})
  <2> DEFINE A == {i \in DOMAIN account.fluency : account.fluency[i] = level}
             B == {i \in DOMAIN signals : signals[i] = level}
  <2>1. A \subseteq 1 .. m /\ B \subseteq 1 .. m
    BY <1>4, <1>7
  <2>2. ASSUME NEW i \in 1 .. m PROVE i \in B <=> (m + 1) - i \in A
    <3>1. (m + 1) - i \in 1 .. m /\ (n - m) + ((m + 1) - i) = (n - i) + 1
      BY <1>8
    <3>2. signals[i] = T[(n - i) + 1].fluency
      BY <1>4
    <3>3. account.fluency[(m + 1) - i] = T[(n - m) + ((m + 1) - i)].fluency
      BY <1>7, <3>1
    <3>4. signals[i] = account.fluency[(m + 1) - i]
      BY <3>1, <3>2, <3>3
    <3>5. i \in DOMAIN signals /\ (m + 1) - i \in DOMAIN account.fluency
      BY <1>4, <1>7, <3>1
    <3> QED
      BY <3>4, <3>5, Zenon
  <2> HIDE DEF A, B
  <2>3. Cardinality(B) = Cardinality(A)
    BY <1>2, <2>1, <2>2, MirrorCounts
  <2> QED
    BY <2>3 DEF A, B
<1>12. [level \in {"weak", "moderate", "strong"} |->
           Cardinality({i \in DOMAIN signals : signals[i] = level})]
       = [level \in {"weak", "moderate", "strong"} |->
           Cardinality({i \in DOMAIN account.fluency : account.fluency[i] = level})]
  <2>1. \A level \in {"weak", "moderate", "strong"} :
           Cardinality({i \in DOMAIN signals : signals[i] = level})
             = Cardinality({i \in DOMAIN account.fluency : account.fluency[i] = level})
    BY <1>11
  <2> QED
    BY <2>1
<1>13. Get(T) = compute_snapshot(flags, signals, ErrorCounts(T), VocabularyItems(T))
  BY DEF Get, flags, signals, recent
<1>14. snapshot(account)
         = compute_snapshot(account.flags, account.fluency, ErrorCounts(T), VocabularyItems(T))
  BY DEF snapshot, IsAccount
<1>15. compute_snapshot(flags, signals, ErrorCounts(T), VocabularyItems(T))
         = compute_snapshot(account.flags, account.fluency, ErrorCounts(T), VocabularyItems(T))
  BY <1>9, <1>10, <1>12, Zenon DEF compute_snapshot
<1> QED
  BY <1>13, <1>14, <1>15

(* The turns of the calls of a session, as the accumulator is given them.  *)
RecordsOf(calls) == [i \in DOMAIN calls |-> _build_turn_record(calls[i][1], calls[i][2])]

AllAsked(calls) == \A i \in DOMAIN calls : AsAsked(calls[i][1])

(* The accumulator has taken in the calls so far, if it reads them alike.  *)
InStep(calls, account) ==
    /\ \E W : calls \in Seq(Raw \X W)
    /\ AllAsked(calls) => IsAccount(account, RecordsOf(calls), Len(calls))

(* A session begins so, and every call keeps it so.                        *)
LEMMA NothingYet == InStep(<<>>, NoAccount)
<1>1. <<>> \in Seq(Raw \X {}) /\ Len(<<>>) = 0
  OBVIOUS
<1>2. \A f : <<>> = [i \in 1 .. 0 |-> f[i]]
  OBVIOUS
<1>3. LastOf([i \in 1 .. 0 |-> RecordsOf(<<>>)[i].l1], 0) = <<>>
      /\ LastOf([i \in 1 .. 0 |-> RecordsOf(<<>>)[i].fluency], 0) = <<>>
  <2>1. WINDOW \in Nat \ {0}
    BY ProfileAssumption
  <2>2. Kept(0) = 0
    BY <2>1 DEF Kept
  <2>3. \A out : LastOf(out, 0) = <<>>
    BY <2>2 DEF LastOf
  <2> QED
    BY <2>3
<1>4. RecordsOf(<<>>) = <<>>
  BY DEF RecordsOf
<1>5. ErrorCounts(<<>>) = <<>>
  <2>1. UNION {ToSet(<<>>[i].errors) : i \in DOMAIN <<>>} = {}
    OBVIOUS
  <2>2. \A g : [c \in {} |-> g[c]] = <<>>
    OBVIOUS
  <2> QED
    BY <2>1, <2>2 DEF ErrorCounts
<1>6. VocabularyItems(<<>>) = <<>>
  <2>1. UNION {<<>>[i].lemmas : i \in DOMAIN <<>>} = {}
    OBVIOUS
  <2> QED
    BY <2>1 DEF VocabularyItems
<1> QED
  BY <1>1, <1>3, <1>4, <1>5, <1>6 DEF InStep, IsAccount, NoAccount

LEMMA OneMoreCall ==
    ASSUME NEW calls, NEW account, InStep(calls, account), NEW call \in Raw, NEW said
    PROVE  InStep(Append(calls, <<call, said>>), ingest(account, _build_turn_record(call, said)))
<1> DEFINE n == Len(calls)
           new == Append(calls, <<call, said>>)
           T == RecordsOf(calls)
           U == RecordsOf(new)
<1>1. PICK W : calls \in Seq(Raw \X W)
  BY DEF InStep
<1>2. n \in Nat /\ DOMAIN calls = 1 .. n
  BY <1>1
<1>3. new \in Seq(Raw \X (W \cup {said}))
  <2>1. calls \in Seq(Raw \X (W \cup {said}))
    <3>1. \A i \in DOMAIN calls : calls[i] \in Raw \X (W \cup {said})
      BY <1>1
    <3> QED
      BY <1>1, <3>1
  <2>2. <<call, said>> \in Raw \X (W \cup {said})
    OBVIOUS
  <2> QED
    BY <2>1, <2>2
<1>4. /\ Len(new) = n + 1 /\ DOMAIN new = 1 .. (n + 1) /\ new[n + 1] = <<call, said>>
      /\ \A i \in 1 .. n : new[i] = calls[i]
  BY <1>1
<1> HIDE DEF new
<1>5. n + 1 \in 1 .. (n + 1) /\ \A i \in 1 .. n : i \in 1 .. (n + 1)
  BY <1>2
<1>6. Extends(U, T, n)
  BY <1>2, <1>4, <1>5 DEF Extends, RecordsOf
<1>7. U[n + 1] = _build_turn_record(call, said)
  BY <1>4, <1>5 DEF RecordsOf
<1>8. ASSUME AllAsked(new) PROVE IsAccount(ingest(account, U[n + 1]), U, n + 1)
  <2>1. AllAsked(calls) /\ AsAsked(call)
    BY <1>2, <1>4, <1>5, <1>8 DEF AllAsked
  <2>2. IsAccount(account, T, n)
    BY <2>1 DEF InStep
  <2>3. NoRepeats(U[n + 1].errors)
    BY <1>7, <2>1, StoredAsCounted
  <2> HIDE DEF n, T, U
  <2> QED
    BY <1>2, <1>6, <2>2, <2>3, IngestKeepsAccount
<1>9. AllAsked(new) => IsAccount(ingest(account, _build_turn_record(call, said)), RecordsOf(new), Len(new))
  BY <1>4, <1>7, <1>8
<1>10. InStep(new, ingest(account, _build_turn_record(call, said)))
  BY <1>3, <1>9 DEF InStep
<1> QED
  BY <1>10 DEF new

(* What the runtime stores of such calls are the turns that were counted.  *)
LEMMA StoredTurns ==
    ASSUME NEW W, NEW calls \in Seq(Raw \X W), AllAsked(calls)
    PROVE  TurnsOf(<<>>, calls) = RecordsOf(calls)
<1> DEFINE n == Len(calls)
           T == RecordsOf(calls)
<1>1. n \in Nat /\ DOMAIN calls = 1 .. n
  OBVIOUS
<1>2. ASSUME NEW k \in 1 .. n, NEW found
      PROVE  Keep("call", found, calls[k]) = Append(found, T[k])
  <2>1. calls[k] \in Raw \X W
    BY <1>1
  <2>2. calls[k][1] \in Raw /\ AsAsked(calls[k][1])
    BY <1>1, <2>1 DEF AllAsked
  <2> DEFINE args == normalize_runtime_log_turn_args(calls[k][1])
  <2>3. args # Refused
        /\ Stored(args, calls[k][2]) = _build_turn_record(calls[k][1], calls[k][2])
    BY <2>2, StoredAsCounted
  <2> HIDE DEF args
  <2>4. StoreTurn(found, calls[k]) = Append(found, Stored(args, calls[k][2]))
    BY <2>3, Zenon DEF StoreTurn, args
  <2>5. T[k] = _build_turn_record(calls[k][1], calls[k][2])
    BY <1>1 DEF RecordsOf
  <2>6. Keep("call", found, calls[k]) = StoreTurn(found, calls[k])
    BY DEF Keep
  <2> QED
    BY <2>3, <2>4, <2>5, <2>6
<1>3. KeepsAll("call", calls, n, T)
  BY <1>2 DEF KeepsAll
<1>4. T = [i \in 1 .. n |-> T[i]]
  BY <1>1 DEF RecordsOf
<1> HIDE DEF n, T
<1>5. FoldOf("call", <<>>, calls) = [i \in 1 .. n |-> T[i]]
  BY <1>1, <1>3, AllAreKept DEF Loops
<1>6. FoldOf("call", <<>>, calls) = TurnsOf(<<>>, calls)
  BY DEF FoldOf
<1> QED
  BY <1>4, <1>5, <1>6 DEF T

(* Then the two snapshots are the same.                                    *)
LEMMA SameSnapshot ==
    ASSUME NEW calls, NEW account, InStep(calls, account), AllAsked(calls)
    PROVE  snapshot(account) = Get(TurnsOf(<<>>, calls))
<1> DEFINE n == Len(calls)
           T == RecordsOf(calls)
           S == {T[i] : i \in 1 .. n}
<1>1. PICK W : calls \in Seq(Raw \X W)
  BY DEF InStep
<1>2. n \in Nat /\ DOMAIN calls = 1 .. n
  BY <1>1
<1>3. T = [i \in 1 .. n |-> T[i]]
  BY <1>2 DEF RecordsOf
<1>4. IsAccount(account, T, n)
  BY DEF InStep
<1>5. TurnsOf(<<>>, calls) = T
  BY <1>1, StoredTurns
<1> HIDE DEF n, T
<1>6. T \in Seq(S) /\ Len(T) = n
  BY <1>2, <1>3
<1> QED
  BY <1>2, <1>4, <1>5, <1>6, WindowsCountAlike

AccountInv ==
    /\ DOMAIN called = PERSONAS /\ DOMAIN acc = PERSONAS
    /\ \A p \in PERSONAS : InStep(called[p], acc[p])

LEMMA InitAccount == Init => AccountInv
BY NothingYet DEF Init, AgentInit, AccountInv

LEMMA StepAccount == AccountInv /\ [Next]_vars => AccountInv'
<1> SUFFICES ASSUME AccountInv, [Next]_vars PROVE AccountInv'
  OBVIOUS
<1>1. ASSUME NEW p \in PERSONAS, AgentAnswers(p) PROVE AccountInv'
  <2>1. PICK a \in ANSWERS[p] :
          IF a.call = NoCall
          THEN UNCHANGED <<called, acc>>
          ELSE LET said == Last(transcript[p])
               IN  /\ called' = [called EXCEPT ![p] = Append(@, <<a.call, said>>)]
                   /\ acc' = [acc EXCEPT ![p] = ingest(@, _build_turn_record(a.call, said))]
    BY <1>1 DEF AgentAnswers
  <2>2. CASE a.call = NoCall
    BY <2>1, <2>2 DEF AccountInv
  <2>3. CASE a.call # NoCall
    <3> DEFINE said == Last(transcript[p])
    <3>1. a.call \in Raw
      BY <2>3, AgentAssumption
    <3>2. /\ called' = [called EXCEPT ![p] = Append(called[p], <<a.call, said>>)]
          /\ acc' = [acc EXCEPT ![p] = ingest(acc[p], _build_turn_record(a.call, said))]
      BY <2>1, <2>3
    <3> HIDE DEF said
    <3>3. InStep(Append(called[p], <<a.call, said>>),
                 ingest(acc[p], _build_turn_record(a.call, said)))
      BY <3>1, OneMoreCall DEF AccountInv
    <3> QED
      BY <3>2, <3>3 DEF AccountInv
  <2> QED
    BY <2>2, <2>3
<1>2. ASSUME Fresh PROVE AccountInv'
  BY <1>2, NothingYet DEF Fresh, AccountInv
<1>3. ASSUME UNCHANGED <<called, acc>> PROVE AccountInv'
  BY <1>3 DEF AccountInv
<1>4. CASE UNCHANGED agentVars
  BY <1>3, <1>4 DEF agentVars, talk
<1>5. CASE AgentNext
  <2>1. CASE RunAgain \/ Kill
    BY <1>2, <2>1 DEF RunAgain, Kill
  <2>2. CASE WriteOutput
    BY <1>3, <2>2 DEF WriteOutput, talk
  <2>3. ASSUME NEW p \in PERSONAS,
               \/ Begin(p)
               \/ next_utterance(p) \/ LearnerAnswers(p) \/ LearnerFails(p) \/ AgentFails(p)
               \/ judge_session(p) \/ JudgeAnswers(p) \/ SessionFails(p) \/ PutFails(p)
        PROVE  AccountInv'
    BY <1>3, <2>3 DEF Begin, next_utterance, LearnerAnswers, LearnerFails, AgentFails,
       judge_session, JudgeAnswers, SessionFails, PutFails, talk
  <2> QED
    BY <1>1, <1>5, <2>1, <2>2, <2>3 DEF AgentNext, AgentStep
<1> QED
  BY <1>4, <1>5 DEF Next, vars

(* The accumulator is the runtime's profile: however many turns there are  *)
(* and however long the windows and the lists of the snapshot, as long as  *)
(* every log_turn is as its schema asks and names every category once, the *)
(* snapshot kept in memory is the one LearnerProfileRepo.get reads         *)
(* (accumulator.py:1-8).                                                   *)
THEOREM SnapshotsAreAlike == Spec => []SnapshotsAgree
<1>1. AccountInv => SnapshotsAgree
  <2> SUFFICES ASSUME AccountInv, NEW p \in PERSONAS, AllAsked(called[p])
               PROVE  snapshot(acc[p]) = Get(RuntimeTurns(p))
    BY DEF SnapshotsAgree, AllAsked
  <2>1. snapshot(acc[p]) = Get(TurnsOf(<<>>, called[p]))
    BY SameSnapshot DEF AccountInv
  <2>2. TurnsOf(<<>>, called[p]) = RuntimeTurns(p)
    BY Zenon DEF TurnsOf, RuntimeTurns
  <2> QED
    BY <2>1, <2>2
<1> QED
  BY <1>1, InitAccount, StepAccount, PTL DEF Spec
=============================================================================
