------------------------------- MODULE Handoff -------------------------------
(***************************************************************************)
(* Speaking handoffs from La Libreta: api/routes/external_sessions.py over *)
(* hable_ya/handoff/repo.py and callback.py.  La Libreta creates a handoff *)
(* (and repeats the request when it is unsure), the learner's tabs start   *)
(* and complete it, and the one completion that took effect sends La       *)
(* Libreta a callback in the background.  One database statement, or one   *)
(* HTTP exchange, a step; the process may die between any two.             *)
(*                                                                         *)
(* An id is a fresh uuid, so the request that generates it stands for it.  *)
(* La Libreta's receiver, its network and DNS are external: an exchange    *)
(* may fail on the way there or on the way back.                           *)
(***************************************************************************)
EXTENDS Integers

CONSTANTS
    Request,       \* the create requests La Libreta ever sends
    Click,         \* the completion requests the tabs ever send
    Key,           \* the (source, sourceRef, date) triples
    Payload,       \* the prompts, structures and targets
    None,          \* SQL NULL
    MAX_ATTEMPTS   \* callback.MAX_ATTEMPTS

ASSUME HandoffAssumption ==
    /\ None \notin Request \cup Key \cup Payload
    /\ MAX_ATTEMPTS \in Nat \ {0}

VARIABLES
    row,       \* external_session_handoffs by its unique key: what its INSERT wrote,
    started,   \* the keys with a started_at,
    completed, \* the keys with a completed_at,
    callback,  \* and what is recorded of the callback
    create,    \* how far each create request has got
    asked,     \* the key and payload of each create request
    answer,    \* the id and status each create request was answered with
    complete,  \* how far each completion request, then its callback, has got
    target,    \* the handoff a completion request is for
    tries,     \* the attempts of a callback run
    success,   \* the result of a callback run
    posts,     \* external: the requests sent to La Libreta's receiver
    acked      \* external: how many it answered with a 2xx that arrived

creating == <<create, asked, answer>>
completing == <<complete, target, tries, success>>
receiver == <<posts, acked>>
table == <<row, started, completed, callback>>
vars == <<table, creating, completing, receiver>>

CreateStages == {"idle", "selecting", "answered", "refused", "gone"}
CompleteStages == {"idle", "validating", "posting", "recording", "done", "gone"}
Running == {"validating", "posting", "recording"}

Exists(k) == row[k].id # None

Init ==
    /\ row = [k \in Key |-> [id |-> None, payload |-> None, url |-> FALSE]]
    /\ started = {} /\ completed = {}
    /\ callback = [k \in Key |-> [attempts |-> 0, delivered |-> FALSE, error |-> FALSE]]
    /\ create = [r \in Request |-> "idle"]
    /\ asked = [r \in Request |-> [key |-> None, payload |-> None]]
    /\ answer = [r \in Request |-> [id |-> None, created |-> FALSE]]
    /\ complete = [c \in Click |-> "idle"]
    /\ target = [c \in Click |-> None]
    /\ tries = [c \in Click |-> 0]
    /\ success = [c \in Click |-> FALSE]
    /\ posts = [k \in Key |-> 0]
    /\ acked = [k \in Key |-> 0]

-----------------------------------------------------------------------------
(* Creating.                                                               *)

(* The token, the body or the callback's origin does not pass: nothing is  *)
(* written.                                                                *)
Refuse(r) ==
    /\ create[r] = "idle"
    /\ create' = [create EXCEPT ![r] = "refused"]
    /\ UNCHANGED <<table, asked, answer, completing, receiver>>

(* Mutant: ON CONFLICT DO UPDATE.                                          *)
Insert_Upsert(r, k, p, url) ==
    /\ create[r] = "idle"
    /\ asked' = [asked EXCEPT ![r] = [key |-> k, payload |-> p]]
    /\ row' = [row EXCEPT ![k] = [id |-> r, payload |-> p, url |-> url]]
    /\ create' = [create EXCEPT ![r] = "answered"]
    /\ answer' = [answer EXCEPT ![r] = [id |-> r, created |-> TRUE]]
    /\ UNCHANGED <<started, completed, callback, completing, receiver>>

(* INSERT ... ON CONFLICT DO NOTHING RETURNING.  A row whose link cannot   *)
(* be built, for want of a public origin, stays, but is not answered.      *)
Insert(r, k, p, url) ==
    /\ create[r] = "idle"
    /\ asked' = [asked EXCEPT ![r] = [key |-> k, payload |-> p]]
    /\ \/ /\ ~Exists(k)
          /\ row' = [row EXCEPT ![k] = [id |-> r, payload |-> p, url |-> url]]
          /\ \E next \in {"answered", "refused"} : create' = [create EXCEPT ![r] = next]
          /\ answer' = [answer EXCEPT ![r] = [id |-> r, created |-> TRUE]]
       \/ /\ Exists(k)
          /\ create' = [create EXCEPT ![r] = "selecting"]
          /\ UNCHANGED <<row, answer>>
    /\ UNCHANGED <<started, completed, callback, completing, receiver>>

(* The loser of the conflict reads the winner's row.                       *)
Select(r) ==
    /\ create[r] = "selecting"
    /\ answer' = [answer EXCEPT ![r] =
                    [id |-> row[asked[r].key].id, created |-> FALSE]]
    /\ \E next \in {"answered", "refused"} : create' = [create EXCEPT ![r] = next]
    /\ UNCHANGED <<table, asked, completing, receiver>>

-----------------------------------------------------------------------------
(* Practising and completing.                                              *)

(* mark_started, from a live session that was opened on the handoff.       *)
MarkStarted(k) ==
    /\ Exists(k) /\ k \notin started
    /\ started' = started \cup {k}
    /\ UNCHANGED <<row, completed, callback, creating, completing, receiver>>

(* Mutant: the UPDATE without AND completed_at IS NULL.                    *)
MarkCompleted_Again(c, k) ==
    /\ complete[c] = "idle"
    /\ target' = [target EXCEPT ![c] = k]
    /\ \/ /\ Exists(k)
          /\ completed' = completed \cup {k}
          /\ complete' = [complete EXCEPT ![c] =
                            IF row[k].url THEN "validating" ELSE "done"]
       \/ /\ ~Exists(k)
          /\ complete' = [complete EXCEPT ![c] = "done"]
          /\ UNCHANGED completed
    /\ UNCHANGED <<row, started, callback, creating, tries, success, receiver>>

(* mark_completed: the UPDATE ... WHERE completed_at IS NULL decides which *)
(* request fires the callback; the others read the row and answer.         *)
MarkCompleted(c, k) ==
    /\ complete[c] = "idle"
    /\ target' = [target EXCEPT ![c] = k]
    /\ \/ /\ Exists(k) /\ k \notin completed
          /\ completed' = completed \cup {k}
          /\ complete' = [complete EXCEPT ![c] =
                            IF row[k].url THEN "validating" ELSE "done"]
       \/ /\ ~Exists(k) \/ k \in completed
          /\ complete' = [complete EXCEPT ![c] = "done"]
          /\ UNCHANGED completed
    /\ UNCHANGED <<row, started, callback, creating, tries, success, receiver>>

-----------------------------------------------------------------------------
(* deliver_callback and its record, in the background.                     *)

(* The origin is no longer allowed, or resolves to a private address.      *)
Validate(c) ==
    /\ complete[c] = "validating"
    /\ \E next \in {"posting", "recording"} :
         complete' = [complete EXCEPT ![c] = next]
    /\ UNCHANGED <<table, creating, target, tries, success, receiver>>

(* Mutant: nothing but an answer ends the loop.                            *)
Settles_OnAnswerOnly(c, status) == status \in {"2xx", "4xx"}

(* Is this attempt the last one?                                           *)
Settles(c, status) == status \in {"2xx", "4xx"} \/ tries[c] + 1 >= MAX_ATTEMPTS

(* One exchange.  status: what Habla hears, "4xx" for any answer below 500 *)
(* that is not a 2xx, and "transport" for no answer.  La Libreta may have  *)
(* processed the request whatever it answers, if it answers at all.        *)
Post(c, status) ==
    /\ complete[c] = "posting"
    /\ tries[c] < MAX_ATTEMPTS
    /\ tries' = [tries EXCEPT ![c] = @ + 1]
    /\ posts' = [posts EXCEPT ![target[c]] = @ + 1]
    /\ acked' = IF status = "2xx" THEN [acked EXCEPT ![target[c]] = @ + 1] ELSE acked
    /\ success' = [success EXCEPT ![c] = status = "2xx"]
    /\ complete' = [complete EXCEPT ![c] =
                      IF Settles(c, status) THEN "recording" ELSE "posting"]
    /\ UNCHANGED <<table, creating, target>>

(* Mutant: any answer counts as a delivery.                                *)
Record_AnyAnswer(c) ==
    LET k == target[c] IN
    /\ complete[c] = "recording"
    /\ callback' = [callback EXCEPT ![k] =
                      [attempts |-> callback[k].attempts + tries[c],
                       delivered |-> tries[c] > 0, error |-> ~success[c]]]
    /\ complete' = [complete EXCEPT ![c] = "done"]
    /\ UNCHANGED <<row, started, completed, creating, target, tries, success, receiver>>

(* record_callback_attempt, unless the database fails, which is logged.    *)
Record(c) ==
    LET k == target[c] IN
    /\ complete[c] = "recording"
    /\ \/ /\ ~callback[k].delivered
          /\ callback' = [callback EXCEPT ![k] =
                            [attempts |-> callback[k].attempts + tries[c],
                             delivered |-> success[c], error |-> ~success[c]]]
       \/ UNCHANGED callback
    /\ complete' = [complete EXCEPT ![c] = "done"]
    /\ UNCHANGED <<row, started, completed, creating, target, tries, success, receiver>>

(* The process dies: what was in flight is gone, committed rows stay.      *)
Crash ==
    /\ \/ \E r \in Request : create[r] = "selecting"
       \/ \E c \in Click : complete[c] \in Running
    /\ create' = [r \in Request |-> IF create[r] = "selecting" THEN "gone" ELSE create[r]]
    /\ complete' = [c \in Click |-> IF complete[c] \in Running THEN "gone" ELSE complete[c]]
    /\ UNCHANGED <<table, asked, answer, target, tries, success, receiver>>

Statuses == {"2xx", "4xx", "5xx", "transport"}

Callback(c) ==
    \/ Validate(c)
    \/ \E status \in Statuses : Post(c, status)
    \/ Record(c)

Next ==
    \/ \E r \in Request :
         \/ Refuse(r)
         \/ \E k \in Key, p \in Payload, url \in BOOLEAN : Insert(r, k, p, url)
         \/ Select(r)
    \/ \E k \in Key : MarkStarted(k) \/ \E c \in Click : MarkCompleted(c, k)
    \/ \E c \in Click : Callback(c)
    \/ Crash

(* The event loop runs a queued background task to its end: every exchange *)
(* has a timeout.                                                          *)
Spec == Init /\ [][Next]_vars /\ \A c \in Click : WF_vars(Callback(c))

-----------------------------------------------------------------------------
TypeOK ==
    /\ row \in [Key -> [id : Request \cup {None}, payload : Payload \cup {None}, url : BOOLEAN]]
    /\ started \subseteq Key /\ completed \subseteq Key
    /\ callback \in [Key -> [attempts : Nat, delivered : BOOLEAN, error : BOOLEAN]]
    /\ create \in [Request -> CreateStages]
    /\ asked \in [Request -> [key : Key \cup {None}, payload : Payload \cup {None}]]
    /\ answer \in [Request -> [id : Request \cup {None}, created : BOOLEAN]]
    /\ complete \in [Click -> CompleteStages]
    /\ target \in [Click -> Key \cup {None}]
    /\ \A c \in Click : complete[c] \in Running => target[c] \in Key
    /\ tries \in [Click -> 0 .. MAX_ATTEMPTS]
    /\ success \in [Click -> BOOLEAN]
    /\ posts \in [Key -> Nat]
    /\ acked \in [Key -> Nat]

(* Requests for one key are answered with one id, only the first of them   *)
(* as created, and that id still stands for the prompt its creator sent,   *)
(* however requests race, repeat with other payloads or die                *)
(* (external_sessions.py:216-223, repo.py:35-41).                          *)
AnswersAgree ==
    \A r \in Request : create[r] = "answered" =>
        LET k == asked[r].key IN
        /\ Exists(k) /\ answer[r].id = row[k].id
        /\ answer[r].created <=> answer[r].id = r
        /\ row[k].payload = asked[row[k].id].payload

(* La Libreta hears of a handoff only once its completion is durable, and  *)
(* at most MAX_ATTEMPTS times in all: clicks, tabs, crashes and retries    *)
(* together (external_sessions.py:307-319, callback.py:192).               *)
PostsAreBounded ==
    \A k \in Key :
        /\ posts[k] <= MAX_ATTEMPTS
        /\ posts[k] > 0 => k \in completed /\ row[k].url

(* Habla never sends again once it has heard a success, whoever clicks     *)
(* (repo.py:107-109).                                                      *)
HeardSuccessIsFinal == \A k \in Key : acked[k] <= 1

(* What is recorded happened: a delivery was acknowledged, and the attempt *)
(* counter is the number of requests sent, all of one run or none          *)
(* (repo.py:132-151, external_sessions.py:323-345).                        *)
RecordIsTrue ==
    \A k \in Key :
        /\ callback[k].delivered => acked[k] = 1
        /\ callback[k].attempts \in {0, posts[k]}

(* A callback run ends, whatever La Libreta does (callback.py:20-23).      *)
CallbackEnds ==
    \A c \in Click : complete[c] \in Running ~> complete[c] \in {"done", "gone"}

=============================================================================
