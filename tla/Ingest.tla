-------------------------------- MODULE Ingest --------------------------------
(***************************************************************************)
(* The learner's store: hable_ya/learner/ingest.py over errors.py,         *)
(* vocabulary.py and graph.py.  Every log_turn call stores its turn in one *)
(* transaction and, after the commit, upserts the graph as well as it can; *)
(* a session inserts its row at its start and stamps it at its end.  Turns *)
(* of one session, or of one and its successor, overlap.                   *)
(*                                                                         *)
(* A step is one statement.  Postgres is external: a row a transaction has *)
(* written is locked until it ends, and a statement that waits for a lock  *)
(* fails when it closes a cycle or after command_timeout.  The pool hands  *)
(* its connections to the tasks that await one, without a timeout.         *)
(***************************************************************************)
EXTENDS Integers, FiniteSets

CONSTANTS
    Turn,         \* the log_turn calls
    Session,      \* the sessions they come from
    Category,     \* the error types the model reports
    Lemma,        \* the lemmas spaCy finds
    Unsafe,       \* the names graph._safe refuses
    MAX_ERRORS,   \* bound: errors of one category in one turn
    POOL_SIZE,    \* settings.db_pool_max_size
    None

Row == Category \cup Lemma  \* of error_counts and vocabulary_items

ASSUME IngestAssumption ==
    /\ IsFiniteSet(Turn) /\ IsFiniteSet(Session)
    /\ Turn \cap Session = {} /\ Category \cap Lemma = {}
    /\ Unsafe \subseteq Row /\ None \notin Row \cup Session
    /\ MAX_ERRORS \in Nat /\ POOL_SIZE \in Nat \ {0}

VARIABLES
    stage,      \* how far the ingest of each turn has got
    home,       \* its session
    observed,   \* how many errors of each category it reports
    said,       \* the lemmas found in it
    todo,       \* the rows it still has to upsert, in the store or the graph
    waiting,    \* the row whose lock it waits for
    half,       \* the row whose node it has upserted, and not yet its edge
    dirty,      \* the counters it has written and not committed, 0 for none
    count,      \* the counters of error_counts and vocabulary_items
    stored,     \* the rows of turns
    row,        \* the rows of sessions: none, full, or stitched by a turn
    life,       \* how far the handler of each session has got
    sessions_completed,
    node, edge, \* how often each node and its edge were upserted in the graph
    graph_failed,
    holding,    \* the tasks that have a connection
    free        \* the connections in the pool

turns == <<stage, home, observed, said, todo, waiting, half, dirty>>
graph == <<node, edge, graph_failed>>
pool == <<holding, free>>
vars == <<turns, count, stored, row, life, sessions_completed, graph, pool>>

InTransaction == {"inserting", "counting", "upserting"}
Busy == InTransaction \cup {"graph"}
Stages == Busy \cup {"idle", "done", "failed", "lost"}
Accessing == {"starting", "registering", "ending", "leveling"}
Lives == Accessing \cup {"idle", "open", "closed"}

Init ==
    /\ stage = [t \in Turn |-> "idle"]
    /\ home = [t \in Turn |-> None]
    /\ observed = [t \in Turn |-> [c \in Category |-> 0]]
    /\ said = [t \in Turn |-> {}]
    /\ todo = [t \in Turn |-> {}]
    /\ waiting = [t \in Turn |-> None]
    /\ half = [t \in Turn |-> None]
    /\ dirty = [t \in Turn |-> [x \in Row |-> 0]]
    /\ count = [x \in Row |-> 0]
    /\ stored = {}
    /\ row = [s \in Session |-> "none"]
    /\ life = [s \in Session |-> "idle"]
    /\ sessions_completed = 0
    /\ node = [x \in Row |-> 0] /\ edge = [x \in Row |-> 0]
    /\ graph_failed = 0
    /\ holding = {} /\ free = POOL_SIZE

-----------------------------------------------------------------------------
(* The connection pool.                                                    *)

Needs(j) ==
    \/ j \in Turn /\ stage[j] = "inserting"
    \/ j \in Session /\ life[j] \in Accessing

Acquire(j) ==
    /\ j \notin holding /\ Needs(j) /\ free > 0
    /\ holding' = holding \cup {j}
    /\ free' = free - 1
    /\ UNCHANGED <<turns, count, stored, row, life, sessions_completed, graph>>

(* Mutant: a connection is acquired without async with.                    *)
Release_Forgets(j) ==
    /\ holding' = holding \ {j}
    /\ UNCHANGED free

(* The end of an async with pool.acquire().                                *)
Release(j) ==
    /\ holding' = holding \ {j}
    /\ free' = IF j \in holding THEN free + 1 ELSE free

-----------------------------------------------------------------------------
(* A session's start and end.                                              *)

Open(s) ==
    /\ life[s] = "idle"
    /\ life' = [life EXCEPT ![s] = "starting"]
    /\ UNCHANGED <<turns, count, stored, row, sessions_completed, graph, pool>>

(* Mutant: the session is counted where its row is inserted.               *)
StartRow_CountsAnyway(s) ==
    /\ life[s] = "starting" /\ s \in holding
    /\ row' \in {row, [row EXCEPT ![s] = "full"]}
    /\ sessions_completed' = sessions_completed + 1
    /\ life' = [life EXCEPT ![s] = "open"]
    /\ Release(s)
    /\ UNCHANGED <<turns, count, stored, graph>>

(* start_session's transaction: the row and its link in the graph, or, if  *)
(* either fails, nothing; the exception skips the counter.                 *)
StartRow(s) ==
    /\ life[s] = "starting" /\ s \in holding
    /\ \/ /\ row' = [row EXCEPT ![s] = "full"]
          /\ life' = [life EXCEPT ![s] = "registering"]
       \/ /\ life' = [life EXCEPT ![s] = "open"]
          /\ UNCHANGED row
    /\ Release(s)
    /\ UNCHANGED <<turns, count, stored, sessions_completed, graph>>

(* increment_session_count, on a connection of its own.                    *)
CountSession(s) ==
    /\ life[s] = "registering" /\ s \in holding
    /\ sessions_completed' \in {sessions_completed, sessions_completed + 1}
    /\ life' = [life EXCEPT ![s] = "open"]
    /\ Release(s)
    /\ UNCHANGED <<turns, count, stored, row, graph>>

HangUp(s) ==
    /\ life[s] = "open"
    /\ life' = [life EXCEPT ![s] = "ending"]
    /\ UNCHANGED <<turns, count, stored, row, sessions_completed, graph, pool>>

(* end_session: ended_at, calibration and band; the connection goes back   *)
(* before leveling takes one.                                              *)
EndRow(s) ==
    /\ life[s] = "ending" /\ s \in holding
    /\ \E next \in {"leveling", "closed"} : life' = [life EXCEPT ![s] = next]
    /\ Release(s)
    /\ UNCHANGED <<turns, count, stored, row, sessions_completed, graph>>

(* What it writes is in module Leveling.                                   *)
Level(s) ==
    /\ life[s] = "leveling" /\ s \in holding
    /\ life' = [life EXCEPT ![s] = "closed"]
    /\ Release(s)
    /\ UNCHANGED <<turns, count, stored, row, sessions_completed, graph>>

-----------------------------------------------------------------------------
(* A turn's transaction.                                                   *)

Arrive(t, s, errors) ==
    /\ stage[t] = "idle" /\ life[s] = "open"
    /\ stage' = [stage EXCEPT ![t] = "inserting"]
    /\ home' = [home EXCEPT ![t] = s]
    /\ observed' = [observed EXCEPT ![t] = errors]
    /\ UNCHANGED <<said, todo, waiting, half, dirty, count, stored, row, life,
                   sessions_completed, graph, pool>>

(* Another turn is inserting the missing row of the same session.          *)
Stitching(t) ==
    /\ row[home[t]] = "none"
    /\ \E u \in Turn \ {t} : home[u] = home[t] /\ stage[u] \in {"counting", "upserting"}

(* _insert_turn, and a row of error_observations for each error.           *)
Insert(t) ==
    /\ stage[t] = "inserting" /\ t \in holding /\ ~Stitching(t)
    /\ stage' = [stage EXCEPT ![t] = "counting"]
    /\ todo' = [todo EXCEPT ![t] = {c \in Category : observed[t][c] > 0}]
    /\ UNCHANGED <<home, observed, said, waiting, half, dirty, count, stored, row,
                   life, sessions_completed, graph, pool>>

Locked(t, x) == \E u \in Turn \ {t} : dirty[u][x] > 0

(* Mutant: SELECT, then UPDATE with what was read, without the row's lock.  *)
Upsert_Unlocked(t, x) ==
    /\ stage[t] \in {"counting", "upserting"} /\ x \in todo[t]
    /\ waiting[t] \in {None, x}
    /\ dirty' = [dirty EXCEPT ![t][x] = count[x] + 1]
    /\ todo' = [todo EXCEPT ![t] = todo[t] \ {x}]
    /\ waiting' = [waiting EXCEPT ![t] = None]
    /\ UNCHANGED <<stage, home, observed, said, half, count, stored, row, life,
                   sessions_completed, graph, pool>>

(* INSERT ... ON CONFLICT DO UPDATE SET count = count + 1, once a category *)
(* in the order of a set, then once a lemma in the order of the utterance. *)
Upsert(t, x) ==
    /\ stage[t] \in {"counting", "upserting"} /\ x \in todo[t]
    /\ waiting[t] \in {None, x} /\ ~Locked(t, x)
    /\ dirty' = [dirty EXCEPT ![t][x] = count[x] + 1]
    /\ todo' = [todo EXCEPT ![t] = todo[t] \ {x}]
    /\ waiting' = [waiting EXCEPT ![t] = None]
    /\ UNCHANGED <<stage, home, observed, said, half, count, stored, row, life,
                   sessions_completed, graph, pool>>

Wait(t, x) ==
    /\ stage[t] \in {"counting", "upserting"} /\ x \in todo[t]
    /\ waiting[t] = None /\ Locked(t, x)
    /\ waiting' = [waiting EXCEPT ![t] = x]
    /\ UNCHANGED <<stage, home, observed, said, todo, half, dirty, count, stored,
                   row, life, sessions_completed, graph, pool>>

(* spaCy, in a thread, while the locks are held; without its model a turn  *)
(* has no lemmas.                                                          *)
Lemmatize(t, lemmas) ==
    /\ stage[t] = "counting" /\ todo[t] = {}
    /\ stage' = [stage EXCEPT ![t] = "upserting"]
    /\ said' = [said EXCEPT ![t] = lemmas]
    /\ todo' = [todo EXCEPT ![t] = lemmas]
    /\ UNCHANGED <<home, observed, waiting, half, dirty, count, stored, row, life,
                   sessions_completed, graph, pool>>

Touched(t) == {c \in Category : observed[t][c] > 0} \cup said[t]

Commit(t) ==
    /\ stage[t] = "upserting" /\ todo[t] = {}
    /\ stored' = stored \cup {t}
    /\ count' = [x \in Row |-> IF dirty[t][x] > 0 THEN dirty[t][x] ELSE count[x]]
    /\ dirty' = [dirty EXCEPT ![t] = [x \in Row |-> 0]]
    /\ row' = IF row[home[t]] = "none" THEN [row EXCEPT ![home[t]] = "stitched"] ELSE row
    /\ stage' = [stage EXCEPT ![t] = "graph"]
    /\ todo' = [todo EXCEPT ![t] = Touched(t)]
    /\ UNCHANGED <<home, observed, said, waiting, half, life, sessions_completed,
                   graph, pool>>

(* The ingest ends: what it has not committed is rolled back and its       *)
(* connection goes back to the pool.                                       *)
Leave(t, next) ==
    /\ stage' = [stage EXCEPT ![t] = next]
    /\ dirty' = [dirty EXCEPT ![t] = [x \in Row |-> 0]]
    /\ todo' = [todo EXCEPT ![t] = {}]
    /\ waiting' = [waiting EXCEPT ![t] = None]
    /\ half' = [half EXCEPT ![t] = None]
    /\ Release(t)
    /\ UNCHANGED <<home, observed, said, count, stored, row, life, sessions_completed>>

(* A statement of the transaction raises; the handler counts it.           *)
Fail(t) ==
    /\ stage[t] \in InTransaction /\ t \in holding
    /\ Leave(t, "failed")
    /\ UNCHANGED graph

(* Mutant: nothing ends the wait for a lock.                               *)
TimeOut_Never(t) == t \notin Turn

(* A lock that does not come: the deadlock detector or command_timeout.    *)
TimeOut(t) ==
    /\ waiting[t] # None \/ (stage[t] = "inserting" /\ Stitching(t))
    /\ Fail(t)

(* The pipeline is cancelled: nothing is counted.                          *)
Cancel(t) ==
    /\ stage[t] \in Busy
    /\ Leave(t, "lost")
    /\ UNCHANGED graph

-----------------------------------------------------------------------------
(* The graph, after the commit.                                            *)

(* Mutant: inside the transaction, before its commit.                      *)
Following_BeforeCommit(t, x) ==
    /\ stage[t] \in {"upserting", "graph"} /\ t \in holding
    /\ x \in todo[t] /\ (x \in Lemma => todo[t] \cap Category = {})
    /\ half[t] \in {None, x}

(* The errors, then the lemmas.                                            *)
Following(t, x) ==
    /\ stage[t] = "graph" /\ t \in holding
    /\ x \in todo[t] /\ (x \in Lemma => todo[t] \cap Category = {})
    /\ half[t] \in {None, x}

UpsertNode(t, x) ==
    /\ Following(t, x) /\ half[t] = None /\ x \notin Unsafe
    /\ node' = [node EXCEPT ![x] = @ + 1]
    /\ half' = [half EXCEPT ![t] = x]
    /\ UNCHANGED <<stage, home, observed, said, todo, waiting, dirty, count, stored,
                   row, life, sessions_completed, edge, graph_failed, pool>>

UpsertEdge(t, x) ==
    /\ Following(t, x) /\ half[t] = x
    /\ edge' = [edge EXCEPT ![x] = @ + 1]
    /\ half' = [half EXCEPT ![t] = None]
    /\ todo' = [todo EXCEPT ![t] = todo[t] \ {x}]
    /\ UNCHANGED <<stage, home, observed, said, waiting, dirty, count, stored, row,
                   life, sessions_completed, node, graph_failed, pool>>

(* A name that _safe refuses is logged and passed over.                    *)
Skip(t, x) ==
    /\ Following(t, x) /\ half[t] = None /\ x \in Unsafe
    /\ todo' = [todo EXCEPT ![t] = todo[t] \ {x}]
    /\ UNCHANGED <<stage, home, observed, said, waiting, half, dirty, count, stored,
                   row, life, sessions_completed, graph, pool>>

GraphEnds(t) ==
    /\ stage[t] = "graph" /\ todo[t] = {}
    /\ Leave(t, "done")
    /\ UNCHANGED graph

GraphFails(t) ==
    /\ stage[t] = "graph" /\ todo[t] # {}
    /\ graph_failed' = graph_failed + 1
    /\ Leave(t, "done")
    /\ UNCHANGED <<node, edge>>

-----------------------------------------------------------------------------
(* The process dies and another starts: its counters are gone, too.        *)
Crash ==
    /\ \/ \E t \in Turn : stage[t] \in Busy
       \/ \E s \in Session : life[s] \in Accessing
    /\ stage' = [t \in Turn |-> IF stage[t] \in Busy THEN "lost" ELSE stage[t]]
    /\ life' = [s \in Session |-> IF life[s] = "idle" THEN "idle" ELSE "closed"]
    /\ dirty' = [t \in Turn |-> [x \in Row |-> 0]]
    /\ todo' = [t \in Turn |-> {}]
    /\ waiting' = [t \in Turn |-> None]
    /\ half' = [t \in Turn |-> None]
    /\ graph_failed' = 0
    /\ holding' = {} /\ free' = POOL_SIZE
    /\ UNCHANGED <<home, observed, said, count, stored, row, sessions_completed,
                   node, edge>>

SessionStep(s) == StartRow(s) \/ CountSession(s) \/ EndRow(s) \/ Level(s)

Statement(t) ==
    \/ Insert(t) \/ Commit(t) \/ GraphEnds(t) \/ GraphFails(t)
    \/ \E x \in Row : Upsert(t, x) \/ Wait(t, x)
    \/ \E lemmas \in SUBSET Lemma : Lemmatize(t, lemmas)
    \/ \E x \in Row : UpsertNode(t, x) \/ UpsertEdge(t, x) \/ Skip(t, x)

Next ==
    \/ \E j \in Turn \cup Session : Acquire(j)
    \/ \E s \in Session : Open(s) \/ HangUp(s) \/ SessionStep(s)
    \/ \E t \in Turn, s \in Session, errors \in [Category -> 0 .. MAX_ERRORS] :
         Arrive(t, s, errors)
    \/ \E t \in Turn : Statement(t) \/ Fail(t) \/ Cancel(t)
    \/ Crash

(* The event loop runs on, a lock that does not come is given up, and the  *)
(* pool serves its waiters in their order.                                 *)
Fairness ==
    /\ \A j \in Turn \cup Session : SF_vars(Acquire(j))
    /\ \A s \in Session : WF_vars(SessionStep(s))
    /\ \A t \in Turn : WF_vars(Statement(t) \/ TimeOut(t))

Spec == Init /\ [][Next]_vars /\ Fairness

-----------------------------------------------------------------------------
TypeOK ==
    /\ stage \in [Turn -> Stages]
    /\ home \in [Turn -> Session \cup {None}]
    /\ observed \in [Turn -> [Category -> 0 .. MAX_ERRORS]]
    /\ said \in [Turn -> SUBSET Lemma]
    /\ todo \in [Turn -> SUBSET Row]
    /\ waiting \in [Turn -> Row \cup {None}]
    /\ half \in [Turn -> Row \cup {None}]
    /\ dirty \in [Turn -> [Row -> Nat]]
    /\ count \in [Row -> Nat]
    /\ stored \subseteq Turn
    /\ row \in [Session -> {"none", "full", "stitched"}]
    /\ life \in [Session -> Lives]
    /\ sessions_completed \in Nat
    /\ node \in [Row -> Nat] /\ edge \in [Row -> Nat]
    /\ graph_failed \in Nat
    /\ holding \subseteq Turn \cup Session
    /\ free \in 0 .. POOL_SIZE

(* A counter is the number of stored turns that have its category or its   *)
(* lemma, once a turn however often it is said, and however turns overlap, *)
(* wait for each other's locks, fail or die (errors.py:62-73,              *)
(* vocabulary.py:56-69).                                                   *)
CountsExplainTurns ==
    \A x \in Row : count[x] = Cardinality({t \in stored : x \in Touched(t)})

(* The graph may miss what the store has, and never has more: an edge is   *)
(* upserted after its node, a node after the commit (ingest.py:79-103).    *)
GraphLagsBehindStore == \A x \in Row : edge[x] <= node[x] /\ node[x] <= count[x]

(* No connection is lost, whatever fails (ingest.py:68, 121, 144).         *)
NoConnectionIsLost == free + Cardinality(holding) = POOL_SIZE

(* Every stored turn has the row of its session, which a turn replaces     *)
(* when start_session lost it; only a session whose row start_session      *)
(* wrote is counted (ingest.py:121-139, 170-182).                          *)
SessionsAreOnRecord ==
    /\ \A t \in stored : row[home[t]] # "none"
    /\ sessions_completed <= Cardinality({s \in Session : row[s] = "full"})

(* Every turn is stored, or not, in the end, and every session closed: no  *)
(* ingest waits for a lock or a connection for ever (ingest.py:66-87), nor *)
(* does the end of a session, because leveling takes its connection after  *)
(* end_session has returned its own (ingest.py:151-153).                   *)
NobodyWaitsForEver ==
    /\ \A t \in Turn : stage[t] = "inserting" ~> stage[t] \in {"done", "failed", "lost"}
    /\ \A s \in Session : life[s] = "ending" ~> life[s] = "closed"

=============================================================================
