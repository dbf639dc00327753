---------------------------- MODULE IngestProofs ----------------------------
(***************************************************************************)
(* Safety of Ingest for every number of turns, sessions, categories,       *)
(* lemmas and connections: the counters explain the stored turns, the      *)
(* graph lags behind them, no connection is lost, sessions are on record.  *)
(***************************************************************************)
EXTENDS Ingest, FiniteSetTheorems, TLAPS

-----------------------------------------------------------------------------
(* The inductive invariant.                                                *)

Writing == {"counting", "upserting"}

(* Uncommitted counters are one above the committed ones, and belong to    *)
(* one transaction each.                                                   *)
Locks ==
    /\ \A t \in Turn, x \in Row : dirty[t][x] > 0 =>
         /\ stage[t] \in Writing
         /\ dirty[t][x] = count[x] + 1
         /\ x \in Touched(t) \ todo[t]
    /\ \A t, u \in Turn, x \in Row : dirty[t][x] > 0 /\ dirty[u][x] > 0 => t = u

(* A transaction has upserted every row of its turn that is not still to   *)
(* do, and its turn is not stored.                                         *)
Accounts ==
    /\ \A t \in Turn : stage[t] \in Writing =>
         /\ todo[t] \subseteq Touched(t)
         /\ \A x \in Touched(t) : x \in todo[t] \/ dirty[t][x] > 0
    /\ \A t \in Turn : stage[t] \in {"idle", "inserting", "counting"} => said[t] = {}
    /\ \A t \in Turn : stage[t] \in InTransaction \cup {"idle", "failed"} => t \notin stored

(* The stored turns whose row x has no node yet, or a node and no edge.    *)
Pending(x) == {t \in Turn : stage[t] = "graph" /\ x \in todo[t] /\ half[t] # x}
Halfway(x) == {t \in Turn : half[t] = x}

Lags ==
    /\ \A x \in Row :
         /\ edge[x] + Cardinality(Halfway(x)) <= node[x]
         /\ node[x] + Cardinality(Pending(x)) <= count[x]
    /\ \A t \in Turn : half[t] # None => stage[t] = "graph" /\ half[t] \in todo[t]

(* Until a session is open it has no turns, and no row but the one its     *)
(* start inserts.                                                          *)
Registering == {s \in Session : life[s] = "registering"}
Full == {s \in Session : row[s] = "full"}

Records ==
    /\ \A s \in Session : life[s] \in {"idle", "starting"} => row[s] = "none"
    /\ \A s \in Session : life[s] = "registering" => row[s] = "full"
    /\ \A t \in Turn : stage[t] # "idle" =>
         home[t] \in Session /\ life[home[t]] \notin {"idle", "starting", "registering"}
    /\ \A t \in stored : stage[t] # "idle" /\ row[home[t]] # "none"
    /\ sessions_completed + Cardinality(Registering) <= Cardinality(Full)

Inv ==
    /\ TypeOK /\ Locks /\ Accounts /\ CountsExplainTurns
    /\ Lags /\ NoConnectionIsLost /\ Records

-----------------------------------------------------------------------------
(* The steps, grouped by what they leave alone.                            *)

(* The four ways an ingest ends.                                           *)
LEMMA Leaving ==
    ASSUME NEW t \in Turn,
           GraphEnds(t) \/ GraphFails(t) \/ Fail(t) \/ Cancel(t)
    PROVE  \E next \in {"done", "failed", "lost"} :
             /\ Leave(t, next) /\ stage[t] \in Busy
             /\ next = "failed" => stage[t] \in InTransaction
             /\ UNCHANGED <<node, edge>>
             /\ graph_failed' \in {graph_failed, graph_failed + 1}
  BY DEF GraphEnds, GraphFails, Fail, Cancel, graph, Busy, InTransaction

(* The steps of a session's handler and the pool's: no turn moves.         *)
SessionMoves(s) ==
    \/ Open(s) \/ HangUp(s) \/ StartRow(s) \/ CountSession(s) \/ EndRow(s) \/ Level(s)

LEMMA TurnsStay ==
    ASSUME NEW s, SessionMoves(s) \/ Acquire(s)
    PROVE  UNCHANGED <<turns, count, stored, graph>>
  BY DEF SessionMoves, Open, HangUp, StartRow, CountSession, EndRow, Level, Acquire

(* The steps of a turn that is not ending.                                 *)
TurnMoves(t) ==
    \/ \E s \in Session, errors \in [Category -> 0 .. MAX_ERRORS] : Arrive(t, s, errors)
    \/ Insert(t) \/ Commit(t)
    \/ \E x \in Row : \/ Upsert(t, x) \/ Wait(t, x)
                      \/ UpsertNode(t, x) \/ UpsertEdge(t, x) \/ Skip(t, x)
    \/ \E lemmas \in SUBSET Lemma : Lemmatize(t, lemmas)

(* Every step is one of these.                                             *)
LEMMA Steps ==
    ASSUME [Next]_vars
    PROVE  \/ \E j \in Turn \cup Session : Acquire(j)
           \/ \E s \in Session : SessionMoves(s)
           \/ \E t \in Turn : TurnMoves(t)
           \/ \E t \in Turn : GraphEnds(t) \/ GraphFails(t) \/ Fail(t) \/ Cancel(t)
           \/ Crash
           \/ UNCHANGED vars
<1>1. CASE \E j \in Turn \cup Session : Acquire(j)
  BY <1>1
<1>2. CASE \E s \in Session : Open(s) \/ HangUp(s) \/ SessionStep(s)
  BY <1>2 DEF SessionStep, SessionMoves
<1>3. CASE \E t \in Turn, s \in Session, errors \in [Category -> 0 .. MAX_ERRORS] :
             Arrive(t, s, errors)
  BY <1>3, Zenon DEF TurnMoves
<1>4. CASE \E t \in Turn : Statement(t) \/ Fail(t) \/ Cancel(t)
  BY <1>4, Zenon DEF Statement, TurnMoves
<1>. QED BY <1>1, <1>2, <1>3, <1>4, Zenon DEF Next

-----------------------------------------------------------------------------
(* Types.                                                                  *)

LEMMA InitTypeOK == Init => TypeOK
  BY IngestAssumption DEF Init, TypeOK, Stages, Busy, Lives, Accessing

LEMMA StepTypeOK ==
    ASSUME TypeOK, NoConnectionIsLost, [Next]_vars
    PROVE  TypeOK'
<1>. USE IngestAssumption
<1>. USE DEF Stages, Busy, InTransaction, Lives, Accessing
<1>0. /\ IsFiniteSet(holding)
      /\ \A j \in holding : Cardinality(holding) > 0
      /\ Cardinality(holding) \in Nat
  <2>1. IsFiniteSet(holding)
    BY FS_Union, FS_Subset DEF TypeOK
  <2>. QED BY <2>1, FS_CardinalityType, FS_EmptySet
<1>1. ASSUME NEW j \in Turn \cup Session, Acquire(j) PROVE TypeOK'
  BY <1>1 DEF Acquire, TypeOK, turns, graph
<1>2. ASSUME NEW j \in Turn \cup Session, Release(j)
      PROVE  holding' \subseteq Turn \cup Session /\ free' \in 0 .. POOL_SIZE
  BY <1>0, <1>2 DEF Release, TypeOK, NoConnectionIsLost
<1>3. ASSUME NEW s \in Session, SessionMoves(s) PROVE TypeOK'
  <2>1. CASE Open(s) \/ HangUp(s)
    BY <2>1 DEF Open, HangUp, TypeOK, turns, graph, pool
  <2>2. CASE StartRow(s)
    BY <1>2, <2>2 DEF StartRow, TypeOK, turns, graph
  <2>3. CASE CountSession(s)
    BY <1>2, <2>3 DEF CountSession, TypeOK, turns, graph
  <2>4. CASE EndRow(s) \/ Level(s)
    BY <1>2, <2>4 DEF EndRow, Level, TypeOK, turns, graph
  <2>. QED BY <1>3, <2>1, <2>2, <2>3, <2>4 DEF SessionMoves
<1>4. ASSUME NEW t \in Turn, NEW s \in Session,
             NEW errors \in [Category -> 0 .. MAX_ERRORS], Arrive(t, s, errors)
      PROVE  TypeOK'
  BY <1>4 DEF Arrive, TypeOK, graph, pool
<1>5. ASSUME NEW t \in Turn, Insert(t) PROVE TypeOK'
  BY <1>5 DEF Insert, TypeOK, graph, pool, Row
<1>6. ASSUME NEW t \in Turn, Commit(t) PROVE TypeOK'
  <2>1. /\ count' \in [Row -> Nat]
        /\ Touched(t) \subseteq Row
    BY <1>6 DEF Commit, TypeOK, Touched, Row
  <2>2. dirty' \in [Turn -> [Row -> Nat]]
    BY <1>6 DEF Commit, TypeOK
  <2>3. row' \in [Session -> {"none", "full", "stitched"}]
    BY <1>6 DEF Commit, TypeOK
  <2>4. stage' \in [Turn -> Stages] /\ todo' \in [Turn -> SUBSET Row]
    BY <1>6, <2>1 DEF Commit, TypeOK
  <2>. QED BY <1>6, <2>1, <2>2, <2>3, <2>4 DEF Commit, TypeOK, graph, pool
<1>7. ASSUME NEW t \in Turn, NEW x \in Row, Upsert(t, x) PROVE TypeOK'
  <2>1. dirty' \in [Turn -> [Row -> Nat]]
    BY <1>7 DEF Upsert, TypeOK
  <2>. QED BY <1>7, <2>1 DEF Upsert, TypeOK, graph, pool
<1>8. ASSUME NEW t \in Turn, NEW x \in Row, Wait(t, x) PROVE TypeOK'
  BY <1>8 DEF Wait, TypeOK, graph, pool
<1>9. ASSUME NEW t \in Turn, NEW x \in Row, UpsertNode(t, x) PROVE TypeOK'
  BY <1>9 DEF UpsertNode, TypeOK, pool
<1>10. ASSUME NEW t \in Turn, NEW x \in Row, UpsertEdge(t, x) PROVE TypeOK'
  BY <1>10 DEF UpsertEdge, TypeOK, pool
<1>11. ASSUME NEW t \in Turn, NEW x \in Row, Skip(t, x) PROVE TypeOK'
  BY <1>11 DEF Skip, TypeOK, graph, pool
<1>12. ASSUME NEW t \in Turn, NEW lemmas \in SUBSET Lemma, Lemmatize(t, lemmas)
       PROVE  TypeOK'
  BY <1>12 DEF Lemmatize, TypeOK, graph, pool, Row
<1>13. ASSUME NEW t \in Turn, GraphEnds(t) \/ GraphFails(t) \/ Fail(t) \/ Cancel(t)
       PROVE  TypeOK'
  <2>1. PICK next \in {"done", "failed", "lost"} :
             /\ Leave(t, next)
             /\ UNCHANGED <<node, edge>>
             /\ graph_failed' \in {graph_failed, graph_failed + 1}
    BY <1>13, Leaving
  <2>2. dirty' \in [Turn -> [Row -> Nat]]
    BY <2>1 DEF Leave, TypeOK
  <2>. QED BY <1>2, <2>1, <2>2 DEF Leave, TypeOK
<1>14. ASSUME Crash PROVE TypeOK'
  BY <1>14 DEF Crash, TypeOK
<1>15. ASSUME UNCHANGED vars PROVE TypeOK'
  BY <1>15 DEF vars, turns, graph, pool, TypeOK
<1>16. ASSUME NEW t \in Turn, TurnMoves(t) PROVE TypeOK'
  BY <1>4, <1>5, <1>6, <1>7, <1>8, <1>9, <1>10, <1>11, <1>12, <1>16, Zenon DEF TurnMoves
<1>. QED BY <1>1, <1>3, <1>13, <1>14, <1>15, <1>16, Steps, Zenon

-----------------------------------------------------------------------------
(* Locks: of two transactions that write a row, the second waits.          *)

LEMMA StepLocks ==
    ASSUME TypeOK, Locks, Accounts, [Next]_vars
    PROVE  Locks'
<1>0. /\ stage \in [Turn -> Stages] /\ dirty \in [Turn -> [Row -> Nat]]
      /\ count \in [Row -> Nat] /\ said \in [Turn -> SUBSET Lemma]
      /\ observed \in [Turn -> [Category -> 0 .. MAX_ERRORS]]
      /\ todo \in [Turn -> SUBSET Row]
  BY DEF TypeOK
<1>1. ASSUME UNCHANGED <<turns, count>> PROVE Locks'
  BY <1>1 DEF turns, Locks, Touched
(* A transaction that does not write and touches no more is no concern.    *)
<1>2. ASSUME NEW t \in Turn, UNCHANGED <<dirty, count>>,
             \A u \in Turn \ {t} : /\ stage'[u] = stage[u] /\ todo'[u] = todo[u]
                                   /\ said'[u] = said[u] /\ observed'[u] = observed[u],
             \A x \in Row : dirty[t][x] > 0 =>
               stage'[t] \in Writing /\ x \in Touched(t)' \ todo'[t]
      PROVE  Locks'
  <2>1. ASSUME NEW u \in Turn, NEW x \in Row, dirty[u][x] > 0
        PROVE  /\ stage'[u] \in Writing /\ dirty[u][x] = count[x] + 1
               /\ x \in Touched(u)' \ todo'[u]
    <3>1. CASE u = t
      BY <1>2, <2>1, <3>1 DEF Locks
    <3>2. CASE u # t
      <4>1. Touched(u)' = Touched(u)
        BY <1>2, <3>2 DEF Touched
      <4>. QED BY <1>2, <2>1, <3>2, <4>1 DEF Locks
    <3>. QED BY <3>1, <3>2
  <2>. QED BY <1>2, <2>1 DEF Locks
<1>3. ASSUME NEW t \in Turn, NEW s \in Session,
             NEW errors \in [Category -> 0 .. MAX_ERRORS], Arrive(t, s, errors)
      PROVE  Locks'
  <2>1. \A x \in Row : ~(dirty[t][x] > 0)
    BY <1>3 DEF Arrive, Locks, Writing
  <2>. QED BY <1>0, <1>2, <1>3, <2>1 DEF Arrive
<1>4. ASSUME NEW t \in Turn, Insert(t) PROVE Locks'
  <2>1. \A x \in Row : ~(dirty[t][x] > 0)
    BY <1>4 DEF Insert, Locks, Writing
  <2>. QED BY <1>0, <1>2, <1>4, <2>1 DEF Insert
<1>5. ASSUME NEW t \in Turn, Commit(t) PROVE Locks'
  <2>1. /\ \A x \in Row : dirty'[t][x] = 0
        /\ \A u \in Turn \ {t} : /\ dirty'[u] = dirty[u] /\ stage'[u] = stage[u]
                                 /\ todo'[u] = todo[u]
        /\ UNCHANGED <<said, observed>>
    BY <1>0, <1>5 DEF Commit
  <2>2. \A u \in Turn \ {t}, x \in Row : dirty[u][x] > 0 => count'[x] = count[x]
    BY <1>0, <1>5 DEF Commit, Locks
  <2>. QED BY <2>1, <2>2 DEF Locks, Touched
<1>6. ASSUME NEW t \in Turn, NEW x \in Row, Upsert(t, x) PROVE Locks'
  <2>1. /\ stage[t] \in Writing /\ x \in todo[t]
        /\ \A u \in Turn \ {t} : ~(dirty[u][x] > 0)
        /\ dirty'[t][x] = count[x] + 1
        /\ \A y \in Row : y # x => dirty'[t][y] = dirty[t][y]
        /\ \A u \in Turn \ {t} : dirty'[u] = dirty[u]
        /\ todo'[t] = todo[t] \ {x} /\ \A u \in Turn \ {t} : todo'[u] = todo[u]
        /\ UNCHANGED <<stage, said, observed, count>>
    BY <1>0, <1>6 DEF Upsert, Locked, Writing
  <2>2. x \in Touched(t)
    BY <2>1, <1>6 DEF Accounts
  <2>3. ASSUME NEW u \in Turn, NEW y \in Row, dirty'[u][y] > 0
        PROVE  /\ stage[u] \in Writing /\ dirty'[u][y] = count[y] + 1
               /\ y \in Touched(u) \ todo'[u]
    <3>1. CASE u = t /\ y = x
      BY <2>1, <2>2, <3>1
    <3>2. CASE ~(u = t /\ y = x)
      BY <2>1, <2>3, <3>2 DEF Locks
    <3>. QED BY <3>1, <3>2
  <2>4. ASSUME NEW u \in Turn, NEW v \in Turn, NEW y \in Row,
               dirty'[u][y] > 0, dirty'[v][y] > 0
        PROVE  u = v
    BY <2>1, <2>4 DEF Locks
  <2>. QED BY <2>1, <2>3, <2>4 DEF Locks, Touched
<1>7. ASSUME NEW t \in Turn, NEW x \in Row,
             \/ Wait(t, x) \/ UpsertNode(t, x)
      PROVE  Locks'
  <2>1. UNCHANGED <<stage, observed, said, todo, dirty, count>>
    BY <1>7 DEF Wait, UpsertNode
  <2>. QED BY <2>1 DEF Locks, Touched
<1>8. ASSUME NEW t \in Turn, NEW x \in Row, UpsertEdge(t, x) \/ Skip(t, x) PROVE Locks'
  <2>1. stage[t] = "graph"
    BY <1>8 DEF UpsertEdge, Skip, Following
  <2>2. \A y \in Row : ~(dirty[t][y] > 0)
    BY <2>1 DEF Locks, Writing
  <2>3. /\ UNCHANGED <<stage, observed, said, dirty, count>>
        /\ \A u \in Turn \ {t} : todo'[u] = todo[u]
    BY <1>0, <1>8 DEF UpsertEdge, Skip
  <2>. QED BY <1>2, <2>2, <2>3
<1>9. ASSUME NEW t \in Turn, NEW lemmas \in SUBSET Lemma, Lemmatize(t, lemmas)
      PROVE  Locks'
  <2>1. /\ stage[t] = "counting" /\ todo[t] = {} /\ said[t] = {}
        /\ stage' = [stage EXCEPT ![t] = "upserting"]
        /\ said' = [said EXCEPT ![t] = lemmas] /\ todo' = [todo EXCEPT ![t] = lemmas]
        /\ UNCHANGED <<observed, dirty, count>>
    BY <1>9 DEF Lemmatize, Accounts
  <2>2. \A x \in Row : dirty[t][x] > 0 => x \in Category /\ observed[t][x] > 0
    BY <1>0, <2>1 DEF Locks, Touched
  <2>3. \A x \in Row : dirty[t][x] > 0 => x \in Touched(t)' \ todo'[t]
    BY <1>0, <2>1, <2>2, IngestAssumption DEF Touched
  <2>. QED BY <1>0, <1>2, <2>1, <2>3 DEF Writing
<1>10. ASSUME NEW t \in Turn, GraphEnds(t) \/ GraphFails(t) \/ Fail(t) \/ Cancel(t)
       PROVE  Locks'
  <2>1. PICK next \in {"done", "failed", "lost"} : Leave(t, next)
    BY <1>10, Leaving
  <2>2. /\ \A x \in Row : dirty'[t][x] = 0
        /\ \A u \in Turn \ {t} : /\ dirty'[u] = dirty[u] /\ stage'[u] = stage[u]
                                 /\ todo'[u] = todo[u]
        /\ UNCHANGED <<said, observed, count>>
    BY <1>0, <2>1 DEF Leave
  <2>. QED BY <2>2 DEF Locks, Touched
<1>11. ASSUME Crash PROVE Locks'
  <2>1. \A t \in Turn, x \in Row : dirty'[t][x] = 0
    BY <1>11 DEF Crash
  <2>. QED BY <2>1 DEF Locks
<1>12. ASSUME NEW t \in Turn, TurnMoves(t) PROVE Locks'
  BY <1>3, <1>4, <1>5, <1>6, <1>7, <1>8, <1>9, <1>12, Zenon DEF TurnMoves
<1>13. CASE UNCHANGED vars
  BY <1>1, <1>13 DEF vars
<1>. QED BY <1>1, <1>10, <1>11, <1>12, <1>13, Steps, TurnsStay, Zenon

-----------------------------------------------------------------------------
(* Accounts.                                                               *)

LEMMA StepAccounts ==
    ASSUME TypeOK, Accounts, [Next]_vars
    PROVE  Accounts'
<1>0. /\ stage \in [Turn -> Stages] /\ dirty \in [Turn -> [Row -> Nat]]
      /\ count \in [Row -> Nat] /\ said \in [Turn -> SUBSET Lemma]
      /\ observed \in [Turn -> [Category -> 0 .. MAX_ERRORS]]
      /\ todo \in [Turn -> SUBSET Row]
  BY DEF TypeOK
<1>1. ASSUME UNCHANGED <<stage, observed, said, todo, dirty, stored>> PROVE Accounts'
  BY <1>1 DEF Accounts, Touched
(* What a step of t must keep for t, when it leaves the others alone.      *)
<1>2. ASSUME NEW t \in Turn, stored' \subseteq stored \cup {t},
             \A u \in Turn \ {t} :
               /\ stage'[u] = stage[u] /\ todo'[u] = todo[u] /\ dirty'[u] = dirty[u]
               /\ said'[u] = said[u] /\ observed'[u] = observed[u],
             stage'[t] \in Writing =>
               /\ todo'[t] \subseteq Touched(t)'
               /\ \A x \in Touched(t)' : x \in todo'[t] \/ dirty'[t][x] > 0,
             stage'[t] \in {"idle", "inserting", "counting"} => said'[t] = {},
             stage'[t] \in InTransaction \cup {"idle", "failed"} => t \notin stored'
      PROVE  Accounts'
  <2>1. ASSUME NEW u \in Turn
        PROVE  /\ stage'[u] \in Writing =>
                    /\ todo'[u] \subseteq Touched(u)'
                    /\ \A x \in Touched(u)' : x \in todo'[u] \/ dirty'[u][x] > 0
               /\ stage'[u] \in {"idle", "inserting", "counting"} => said'[u] = {}
               /\ stage'[u] \in InTransaction \cup {"idle", "failed"} => u \notin stored'
    <3>1. CASE u = t
      BY <1>2, <3>1
    <3>2. CASE u # t
      <4>1. Touched(u)' = Touched(u)
        BY <1>2, <3>2 DEF Touched
      <4>. QED BY <1>2, <3>2, <4>1 DEF Accounts
    <3>. QED BY <3>1, <3>2
  <2>. QED BY <2>1 DEF Accounts
<1>3. ASSUME NEW t \in Turn, NEW s \in Session,
             NEW errors \in [Category -> 0 .. MAX_ERRORS], Arrive(t, s, errors)
      PROVE  Accounts'
  <2>1. /\ stage'[t] = "inserting" /\ said'[t] = {} /\ t \notin stored'
        /\ stored' = stored
    BY <1>0, <1>3 DEF Arrive, Accounts
  <2>. QED BY <1>0, <1>2, <1>3, <2>1 DEF Arrive, Writing
<1>4. ASSUME NEW t \in Turn, Insert(t) PROVE Accounts'
  <2>1. /\ stage'[t] = "counting" /\ said'[t] = {} /\ t \notin stored' /\ stored' = stored
        /\ todo'[t] = {c \in Category : observed[t][c] > 0} /\ observed' = observed
    BY <1>0, <1>4 DEF Insert, Accounts, InTransaction
  <2>2. Touched(t)' = todo'[t]
    BY <2>1 DEF Touched
  <2>. QED BY <1>0, <1>2, <1>4, <2>1, <2>2 DEF Insert, Writing
<1>5. ASSUME NEW t \in Turn, Commit(t) PROVE Accounts'
  <2>1. stage'[t] = "graph" /\ stored' = stored \cup {t}
    BY <1>0, <1>5 DEF Commit
  <2>. QED BY <1>0, <1>2, <1>5, <2>1 DEF Commit, Writing, InTransaction
<1>6. ASSUME NEW t \in Turn, NEW x \in Row, Upsert(t, x) PROVE Accounts'
  <2>1. /\ stage[t] \in Writing
        /\ dirty'[t][x] = count[x] + 1 /\ count[x] \in Nat
        /\ \A y \in Row : y # x => dirty'[t][y] = dirty[t][y]
        /\ todo'[t] = todo[t] \ {x}
        /\ UNCHANGED <<stage, said, observed, stored>>
    BY <1>0, <1>6 DEF Upsert, Writing
  <2>2. Touched(t)' = Touched(t) /\ Touched(t) \subseteq Row
    BY <1>0, <2>1 DEF Touched, Row
  <2>3. todo'[t] \subseteq Touched(t)' /\ \A y \in Touched(t)' : y \in todo'[t] \/ dirty'[t][y] > 0
    BY <1>0, <2>1, <2>2 DEF Accounts
  <2>4. /\ stage'[t] \in {"idle", "inserting", "counting"} => said'[t] = {}
        /\ stage'[t] \in InTransaction \cup {"idle", "failed"} => t \notin stored'
    BY <2>1 DEF Accounts
  <2>. QED BY <1>0, <1>2, <1>6, <2>1, <2>3, <2>4 DEF Upsert
<1>7. ASSUME NEW t \in Turn, NEW x \in Row, Wait(t, x) \/ UpsertNode(t, x) PROVE Accounts'
  BY <1>1, <1>7 DEF Wait, UpsertNode
<1>8. ASSUME NEW t \in Turn, NEW x \in Row, UpsertEdge(t, x) \/ Skip(t, x) PROVE Accounts'
  <2>1. stage[t] = "graph" /\ UNCHANGED <<stage, stored, dirty, said, observed>>
    BY <1>8 DEF UpsertEdge, Skip, Following
  <2>. QED
    BY <1>0, <1>2, <1>8, <2>1 DEF UpsertEdge, Skip, Writing, InTransaction
<1>9. ASSUME NEW t \in Turn, NEW lemmas \in SUBSET Lemma, Lemmatize(t, lemmas)
      PROVE  Accounts'
  <2>1. /\ stage[t] = "counting" /\ todo[t] = {} /\ said[t] = {} /\ stage'[t] = "upserting"
        /\ said'[t] = lemmas /\ todo'[t] = lemmas
        /\ UNCHANGED <<observed, dirty, stored>>
    BY <1>0, <1>9 DEF Lemmatize, Accounts
  <2>2. \A y \in Touched(t)' : y \in todo'[t] \/ dirty'[t][y] > 0
    BY <1>0, <2>1 DEF Touched, Accounts, Writing
  <2>3. t \notin stored'
    BY <2>1 DEF Accounts, InTransaction
  <2>. QED BY <1>0, <1>2, <1>9, <2>1, <2>2, <2>3 DEF Lemmatize, Touched
<1>10. ASSUME NEW t \in Turn, GraphEnds(t) \/ GraphFails(t) \/ Fail(t) \/ Cancel(t)
       PROVE  Accounts'
  <2>1. PICK next \in {"done", "failed", "lost"} :
             Leave(t, next) /\ (next = "failed" => stage[t] \in InTransaction)
    BY <1>10, Leaving
  <2>2. stage'[t] = next /\ UNCHANGED <<said, observed, stored>>
    BY <1>0, <2>1 DEF Leave
  <2>3. next = "failed" => t \notin stored'
    BY <2>1, <2>2 DEF Accounts
  <2>. QED BY <1>0, <1>2, <2>1, <2>2, <2>3 DEF Leave, Writing, InTransaction
<1>11. ASSUME Crash PROVE Accounts'
  <2>1. /\ \A t \in Turn : stage'[t] = IF stage[t] \in Busy THEN "lost" ELSE stage[t]
        /\ UNCHANGED <<said, stored>>
    BY <1>11 DEF Crash
  <2>. QED BY <2>1 DEF Accounts, Writing, Busy, InTransaction
<1>12. ASSUME NEW t \in Turn, TurnMoves(t) PROVE Accounts'
  BY <1>3, <1>4, <1>5, <1>6, <1>7, <1>8, <1>9, <1>12, Zenon DEF TurnMoves
<1>13. CASE UNCHANGED vars
  BY <1>1, <1>13 DEF vars, turns
<1>14. ASSUME NEW s, SessionMoves(s) \/ Acquire(s) PROVE Accounts'
  BY <1>1, <1>14, TurnsStay DEF turns
<1>. QED BY <1>10, <1>11, <1>12, <1>13, <1>14, Steps, Zenon

-----------------------------------------------------------------------------
(* The counters.                                                           *)

(* The commit of t adds one to every row t touches, and to no other.       *)
LEMMA CommitCounts ==
    ASSUME TypeOK, Locks, Accounts, NEW t \in Turn, Commit(t), NEW x \in Row
    PROVE  /\ t \notin stored
           /\ x \in Touched(t) => count'[x] = count[x] + 1
           /\ x \notin Touched(t) => count'[x] = count[x]
<1>1. /\ stage[t] = "upserting" /\ todo[t] = {}
      /\ count'[x] = IF dirty[t][x] > 0 THEN dirty[t][x] ELSE count[x]
  BY DEF Commit
<1>2. x \in Touched(t) => dirty[t][x] > 0
  BY <1>1 DEF Accounts, Writing
<1>3. dirty[t][x] > 0 => dirty[t][x] = count[x] + 1 /\ x \in Touched(t)
  BY DEF Locks
<1>4. t \notin stored
  BY <1>1 DEF Accounts, InTransaction
<1>. QED BY <1>1, <1>2, <1>3, <1>4

LEMMA StepCounts ==
    ASSUME TypeOK, Locks, Accounts, CountsExplainTurns, [Next]_vars
    PROVE  CountsExplainTurns'
<1>. DEFINE S(x) == {t \in stored : x \in Touched(t)}
<1>0. /\ \A x \in Row : IsFiniteSet(S(x)) /\ count[x] = Cardinality(S(x))
      /\ stored \subseteq Turn
  BY IngestAssumption, FS_Subset DEF TypeOK, CountsExplainTurns
<1>1. ASSUME UNCHANGED <<count, stored>>, \A t \in stored : Touched(t)' = Touched(t)
      PROVE  CountsExplainTurns'
  <2>1. \A x \in Row : S(x)' = S(x)
    BY <1>1
  <2>. QED BY <1>0, <1>1, <2>1 DEF CountsExplainTurns
<1>2. ASSUME NEW t \in Turn, Commit(t) PROVE CountsExplainTurns'
  <2>1. stored' = stored \cup {t} /\ \A u \in Turn : Touched(u)' = Touched(u)
    BY <1>2 DEF Commit, Touched
  <2>2. ASSUME NEW x \in Row PROVE count'[x] = Cardinality(S(x)')
    <3>1. CASE x \in Touched(t)
      <4>1. S(x)' = S(x) \cup {t} /\ t \notin S(x)
        BY <1>0, <1>2, <2>1, <3>1, CommitCounts
      <4>2. Cardinality(S(x)') = Cardinality(S(x)) + 1
        BY <1>0, <4>1, FS_AddElement
      <4>. QED BY <1>0, <1>2, <3>1, <4>2, CommitCounts
    <3>2. CASE x \notin Touched(t)
      <4>1. S(x)' = S(x)
        BY <1>0, <2>1, <3>2
      <4>. QED BY <1>0, <1>2, <3>2, <4>1, CommitCounts
    <3>. QED BY <3>1, <3>2
  <2>. QED BY <2>2 DEF CountsExplainTurns
<1>3. ASSUME NEW t \in Turn, NEW s \in Session,
             NEW errors \in [Category -> 0 .. MAX_ERRORS], Arrive(t, s, errors)
      PROVE  CountsExplainTurns'
  <2>1. t \notin stored
    BY <1>3 DEF Arrive, Accounts
  <2>. QED BY <1>0, <1>1, <1>3, <2>1 DEF Arrive, Touched, TypeOK
<1>4. ASSUME NEW t \in Turn, NEW lemmas \in SUBSET Lemma, Lemmatize(t, lemmas)
      PROVE  CountsExplainTurns'
  <2>1. t \notin stored
    BY <1>4 DEF Lemmatize, Accounts, InTransaction
  <2>. QED BY <1>0, <1>1, <1>4, <2>1 DEF Lemmatize, Touched, TypeOK
<1>5. ASSUME UNCHANGED <<count, stored, observed, said>> PROVE CountsExplainTurns'
  BY <1>1, <1>5 DEF Touched
<1>6. ASSUME NEW t \in Turn, TurnMoves(t) PROVE CountsExplainTurns'
  <2>1. ASSUME NEW x \in Row, \/ Upsert(t, x) \/ Wait(t, x)
                              \/ UpsertNode(t, x) \/ UpsertEdge(t, x) \/ Skip(t, x)
        PROVE  CountsExplainTurns'
    BY <1>5, <2>1 DEF Upsert, Wait, UpsertNode, UpsertEdge, Skip
  <2>2. CASE Insert(t)
    BY <1>5, <2>2 DEF Insert
  <2>. QED BY <1>2, <1>3, <1>4, <1>6, <2>1, <2>2, Zenon DEF TurnMoves
<1>7. ASSUME NEW t \in Turn, GraphEnds(t) \/ GraphFails(t) \/ Fail(t) \/ Cancel(t)
      PROVE  CountsExplainTurns'
  <2>1. PICK next \in {"done", "failed", "lost"} : Leave(t, next)
    BY <1>7, Leaving
  <2>. QED BY <1>5, <2>1 DEF Leave
<1>8. CASE Crash
  BY <1>5, <1>8 DEF Crash
<1>9. CASE UNCHANGED vars
  BY <1>5, <1>9 DEF vars, turns
<1>10. ASSUME NEW s, SessionMoves(s) \/ Acquire(s) PROVE CountsExplainTurns'
  BY <1>5, <1>10, TurnsStay DEF turns
<1>. QED BY <1>6, <1>7, <1>8, <1>9, <1>10, Steps, Zenon

-----------------------------------------------------------------------------
(* The graph.                                                              *)

LEMMA StepLags ==
    ASSUME TypeOK, Locks, Accounts, Lags, [Next]_vars
    PROVE  Lags'
<1>. USE IngestAssumption
<1>0. /\ stage \in [Turn -> Stages] /\ todo \in [Turn -> SUBSET Row]
      /\ half \in [Turn -> Row \cup {None}] /\ count \in [Row -> Nat]
      /\ node \in [Row -> Nat] /\ edge \in [Row -> Nat]
  BY DEF TypeOK
<1>1. \A x \in Row : /\ IsFiniteSet(Pending(x)) /\ Cardinality(Pending(x)) \in Nat
                     /\ IsFiniteSet(Halfway(x)) /\ Cardinality(Halfway(x)) \in Nat
  BY FS_Subset, FS_CardinalityType DEF Pending, Halfway
(* Less is pending, and nothing else changes.                              *)
<1>2. ASSUME UNCHANGED <<count, node, edge>>,
             \A x \in Row : Pending(x)' \subseteq Pending(x) /\ Halfway(x)' \subseteq Halfway(x),
             \A u \in Turn : half'[u] # None => stage'[u] = "graph" /\ half'[u] \in todo'[u]
      PROVE  Lags'
  <2>1. \A x \in Row : /\ Cardinality(Pending(x)') <= Cardinality(Pending(x))
                       /\ Cardinality(Halfway(x)') <= Cardinality(Halfway(x))
                       /\ Cardinality(Pending(x)') \in Nat /\ Cardinality(Halfway(x)') \in Nat
    BY <1>1, <1>2, FS_Subset, FS_CardinalityType
  <2>. QED BY <1>0, <1>1, <1>2, <2>1 DEF Lags
(* A step of a turn before its commit.                                     *)
<1>3. ASSUME NEW t \in Turn, UNCHANGED <<half, count, node, edge>>,
             stage[t] # "graph", stage'[t] # "graph",
             \A u \in Turn \ {t} : stage'[u] = stage[u] /\ todo'[u] = todo[u]
      PROVE  Lags'
  <2>1. half[t] = None
    BY <1>3 DEF Lags
  <2>2. \A x \in Row : Pending(x)' = Pending(x) /\ Halfway(x)' = Halfway(x)
    BY <1>3 DEF Pending, Halfway
  <2>. QED BY <1>2, <1>3, <2>1, <2>2 DEF Lags
<1>4. ASSUME NEW t \in Turn, NEW s \in Session,
             NEW errors \in [Category -> 0 .. MAX_ERRORS], Arrive(t, s, errors)
      PROVE  Lags'
  BY <1>0, <1>3, <1>4 DEF Arrive, graph
<1>5. ASSUME NEW t \in Turn, Insert(t) PROVE Lags'
  BY <1>0, <1>3, <1>5 DEF Insert, graph
<1>6. ASSUME NEW t \in Turn, NEW x \in Row, Upsert(t, x) \/ Wait(t, x) PROVE Lags'
  BY <1>0, <1>3, <1>6 DEF Upsert, Wait, graph
<1>7. ASSUME NEW t \in Turn, NEW lemmas \in SUBSET Lemma, Lemmatize(t, lemmas) PROVE Lags'
  BY <1>0, <1>3, <1>7 DEF Lemmatize, graph
<1>8. ASSUME NEW t \in Turn, Commit(t) PROVE Lags'
  <2>1. /\ stage[t] = "upserting" /\ stage'[t] = "graph" /\ half[t] = None
        /\ todo'[t] = Touched(t) /\ UNCHANGED <<half, node, edge>>
        /\ \A u \in Turn \ {t} : stage'[u] = stage[u] /\ todo'[u] = todo[u]
    BY <1>0, <1>8 DEF Commit, Lags, graph
  <2>2. \A x \in Row : /\ t \notin Pending(x) /\ Halfway(x)' = Halfway(x)
                       /\ x \in Touched(t) => Pending(x)' = Pending(x) \cup {t}
                       /\ x \notin Touched(t) => Pending(x)' = Pending(x)
    BY <2>1 DEF Pending, Halfway
  <2>3. ASSUME NEW x \in Row PROVE node[x] + Cardinality(Pending(x)') <= count'[x]
    <3>1. CASE x \in Touched(t)
      <4>1. Cardinality(Pending(x)') = Cardinality(Pending(x)) + 1
        BY <1>1, <2>2, <3>1, FS_AddElement
      <4>. QED BY <1>0, <1>1, <1>8, <3>1, <4>1, CommitCounts DEF Lags
    <3>2. CASE x \notin Touched(t)
      BY <1>8, <2>2, <3>2, CommitCounts DEF Lags
    <3>. QED BY <3>1, <3>2
  <2>. QED BY <2>1, <2>2, <2>3 DEF Lags
<1>9. ASSUME NEW t \in Turn, NEW x \in Row, UpsertNode(t, x) PROVE Lags'
  <2>1. /\ stage[t] = "graph" /\ x \in todo[t] /\ half[t] = None
        /\ node' = [node EXCEPT ![x] = node[x] + 1] /\ half' = [half EXCEPT ![t] = x]
        /\ UNCHANGED <<stage, todo, count, edge>>
    BY <1>9 DEF UpsertNode, Following
  <2>2. /\ t \in Pending(x) /\ Pending(x)' = Pending(x) \ {t}
        /\ t \notin Halfway(x) /\ Halfway(x)' = Halfway(x) \cup {t}
        /\ \A y \in Row : y # x => Pending(y)' = Pending(y) /\ Halfway(y)' = Halfway(y)
    BY <1>0, <2>1 DEF Pending, Halfway
  <2>3. /\ Cardinality(Pending(x)') = Cardinality(Pending(x)) - 1
        /\ Cardinality(Halfway(x)') = Cardinality(Halfway(x)) + 1
    <3>1. Cardinality(Pending(x)') = Cardinality(Pending(x)) - 1
      BY <1>1, <2>2, FS_RemoveElement
    <3>2. Cardinality(Halfway(x)') = Cardinality(Halfway(x)) + 1
      BY <1>1, <2>2, FS_AddElement
    <3>. QED BY <3>1, <3>2
  <2>4. /\ edge'[x] + Cardinality(Halfway(x)') <= node'[x]
        /\ node'[x] + Cardinality(Pending(x)') <= count'[x]
    BY <1>0, <1>1, <2>1, <2>3 DEF Lags
  <2>5. \A y \in Row : y # x => /\ edge'[y] + Cardinality(Halfway(y)') <= node'[y]
                                /\ node'[y] + Cardinality(Pending(y)') <= count'[y]
    BY <1>0, <2>1, <2>2 DEF Lags
  <2>6. \A u \in Turn : half'[u] # None => stage'[u] = "graph" /\ half'[u] \in todo'[u]
    BY <1>0, <2>1 DEF Lags
  <2>. QED BY <2>4, <2>5, <2>6 DEF Lags
<1>10. ASSUME NEW t \in Turn, NEW x \in Row, UpsertEdge(t, x) PROVE Lags'
  <2>1. /\ half[t] = x /\ edge' = [edge EXCEPT ![x] = edge[x] + 1]
        /\ half' = [half EXCEPT ![t] = None] /\ todo' = [todo EXCEPT ![t] = todo[t] \ {x}]
        /\ UNCHANGED <<stage, count, node>>
    BY <1>10 DEF UpsertEdge
  <2>2. /\ t \in Halfway(x) /\ Halfway(x)' = Halfway(x) \ {t}
        /\ \A y \in Row : Pending(y)' = Pending(y)
        /\ \A y \in Row : y # x => Halfway(y)' = Halfway(y)
    BY <1>0, <2>1 DEF Pending, Halfway
  <2>3. Cardinality(Halfway(x)') = Cardinality(Halfway(x)) - 1
    BY <1>1, <2>2, FS_RemoveElement
  <2>4. edge'[x] + Cardinality(Halfway(x)') <= node'[x]
    BY <1>0, <1>1, <2>1, <2>3 DEF Lags
  <2>5. \A y \in Row : /\ y # x => edge'[y] + Cardinality(Halfway(y)') <= node'[y]
                       /\ node'[y] + Cardinality(Pending(y)') <= count'[y]
    BY <1>0, <2>1, <2>2 DEF Lags
  <2>6. \A u \in Turn : half'[u] # None => stage'[u] = "graph" /\ half'[u] \in todo'[u]
    BY <1>0, <2>1 DEF Lags
  <2>. QED BY <2>4, <2>5, <2>6 DEF Lags
<1>11. ASSUME NEW t \in Turn, NEW x \in Row, Skip(t, x) PROVE Lags'
  <2>1. /\ half[t] = None /\ todo' = [todo EXCEPT ![t] = todo[t] \ {x}]
        /\ UNCHANGED <<stage, half, count, node, edge>>
    BY <1>11 DEF Skip, graph
  <2>2. \A y \in Row : Pending(y)' \subseteq Pending(y) /\ Halfway(y)' = Halfway(y)
    BY <1>0, <2>1 DEF Pending, Halfway
  <2>3. \A u \in Turn : half'[u] # None => stage'[u] = "graph" /\ half'[u] \in todo'[u]
    BY <1>0, <2>1 DEF Lags
  <2>. QED BY <1>2, <2>1, <2>2, <2>3
<1>12. ASSUME NEW t \in Turn, GraphEnds(t) \/ GraphFails(t) \/ Fail(t) \/ Cancel(t)
       PROVE  Lags'
  <2>1. PICK next \in {"done", "failed", "lost"} :
             Leave(t, next) /\ UNCHANGED <<node, edge>>
    BY <1>12, Leaving
  <2>2. /\ stage' = [stage EXCEPT ![t] = next] /\ half' = [half EXCEPT ![t] = None]
        /\ todo' = [todo EXCEPT ![t] = {}] /\ UNCHANGED count
    BY <2>1 DEF Leave
  <2>3. \A y \in Row : Pending(y)' \subseteq Pending(y) /\ Halfway(y)' \subseteq Halfway(y)
    BY <1>0, <2>2 DEF Pending, Halfway
  <2>4. \A u \in Turn : half'[u] # None => stage'[u] = "graph" /\ half'[u] \in todo'[u]
    BY <1>0, <2>2 DEF Lags
  <2>. QED BY <1>2, <2>1, <2>2, <2>3, <2>4
<1>13. ASSUME Crash PROVE Lags'
  <2>1. /\ \A t \in Turn : half'[t] = None /\ todo'[t] = {}
        /\ UNCHANGED <<count, node, edge>>
    BY <1>13 DEF Crash
  <2>2. \A y \in Row : Pending(y)' = {} /\ Halfway(y)' = {}
    BY <2>1 DEF Pending, Halfway
  <2>. QED BY <1>2, <2>1, <2>2
<1>14. ASSUME UNCHANGED <<turns, count, graph>> PROVE Lags'
  BY <1>14 DEF turns, graph, Lags, Pending, Halfway
<1>15. ASSUME NEW t \in Turn, TurnMoves(t) PROVE Lags'
  BY <1>4, <1>5, <1>6, <1>7, <1>8, <1>9, <1>10, <1>11, <1>15, Zenon DEF TurnMoves
<1>16. CASE UNCHANGED vars
  BY <1>14, <1>16 DEF vars
<1>17. ASSUME NEW s, SessionMoves(s) \/ Acquire(s) PROVE Lags'
  BY <1>14, <1>17, TurnsStay
<1>. QED BY <1>12, <1>13, <1>15, <1>16, <1>17, Steps, Zenon

-----------------------------------------------------------------------------
(* The pool.                                                               *)

LEMMA StepPool ==
    ASSUME TypeOK, NoConnectionIsLost, [Next]_vars
    PROVE  NoConnectionIsLost'
<1>. USE IngestAssumption
<1>0. IsFiniteSet(holding) /\ Cardinality(holding) \in Nat /\ free \in Nat
  <2>1. IsFiniteSet(holding)
    BY FS_Union, FS_Subset DEF TypeOK
  <2>2. free \in Nat
    BY DEF TypeOK
  <2>. QED BY <2>1, <2>2, FS_CardinalityType
<1>1. ASSUME NEW j \in Turn \cup Session, Acquire(j) PROVE NoConnectionIsLost'
  <2>1. Cardinality(holding') = Cardinality(holding) + 1 /\ free' = free - 1
    BY <1>0, <1>1, FS_AddElement DEF Acquire
  <2>. QED BY <1>0, <2>1 DEF NoConnectionIsLost
<1>2. ASSUME NEW j, Release(j) PROVE NoConnectionIsLost'
  <2>1. CASE j \in holding
    <3>1. Cardinality(holding') = Cardinality(holding) - 1 /\ free' = free + 1
      BY <1>0, <1>2, <2>1, FS_RemoveElement DEF Release
    <3>. QED BY <1>0, <3>1 DEF NoConnectionIsLost
  <2>2. CASE j \notin holding
    <3>1. holding' = holding /\ free' = free
      BY <1>2, <2>2 DEF Release
    <3>. QED BY <3>1 DEF NoConnectionIsLost
  <2>. QED BY <2>1, <2>2
<1>3. ASSUME UNCHANGED pool PROVE NoConnectionIsLost'
  BY <1>3 DEF pool, NoConnectionIsLost
<1>4. ASSUME NEW s \in Session, SessionMoves(s) PROVE NoConnectionIsLost'
  BY <1>2, <1>3, <1>4
  DEF SessionMoves, Open, HangUp, StartRow, CountSession, EndRow, Level
<1>5. ASSUME NEW t \in Turn, TurnMoves(t) PROVE NoConnectionIsLost'
  <2>1. ASSUME NEW s \in Session, NEW errors \in [Category -> 0 .. MAX_ERRORS],
               Arrive(t, s, errors)
        PROVE  UNCHANGED pool
    BY <2>1 DEF Arrive
  <2>2. ASSUME NEW x \in Row, \/ Upsert(t, x) \/ Wait(t, x)
                              \/ UpsertNode(t, x) \/ UpsertEdge(t, x) \/ Skip(t, x)
        PROVE  UNCHANGED pool
    BY <2>2 DEF Upsert, Wait, UpsertNode, UpsertEdge, Skip
  <2>3. ASSUME NEW lemmas \in SUBSET Lemma, Lemmatize(t, lemmas) PROVE UNCHANGED pool
    BY <2>3 DEF Lemmatize
  <2>4. CASE Insert(t) \/ Commit(t)
    BY <1>3, <2>4 DEF Insert, Commit
  <2>. QED BY <1>3, <1>5, <2>1, <2>2, <2>3, <2>4, Zenon DEF TurnMoves
<1>6. ASSUME NEW t \in Turn, GraphEnds(t) \/ GraphFails(t) \/ Fail(t) \/ Cancel(t)
      PROVE  NoConnectionIsLost'
  BY <1>2, <1>6 DEF GraphEnds, GraphFails, Fail, Cancel, Leave
<1>7. CASE Crash
  BY <1>7, FS_EmptySet DEF Crash, NoConnectionIsLost
<1>8. CASE UNCHANGED vars
  BY <1>3, <1>8 DEF vars
<1>. QED BY <1>1, <1>4, <1>5, <1>6, <1>7, <1>8, Steps, Zenon

-----------------------------------------------------------------------------
(* The sessions.                                                           *)

LEMMA StepRecords ==
    ASSUME TypeOK, Records, [Next]_vars
    PROVE  Records'
<1>. USE IngestAssumption
<1>0. /\ stage \in [Turn -> Stages] /\ home \in [Turn -> Session \cup {None}]
      /\ row \in [Session -> {"none", "full", "stitched"}]
      /\ life \in [Session -> Lives] /\ stored \subseteq Turn /\ sessions_completed \in Nat
  BY DEF TypeOK
<1>1. /\ IsFiniteSet(Registering) /\ Cardinality(Registering) \in Nat
      /\ IsFiniteSet(Full) /\ Cardinality(Full) \in Nat
  <2>1. IsFiniteSet(Registering) /\ IsFiniteSet(Full)
    BY FS_Subset DEF Registering, Full
  <2>. QED BY <2>1, FS_CardinalityType
(* A step of a turn that has a session, before or after its commit.        *)
<1>2. ASSUME UNCHANGED <<home, stored, row, life, sessions_completed>>,
             \A t \in Turn : stage'[t] = "idle" <=> stage[t] = "idle"
      PROVE  Records'
  BY <1>0, <1>2 DEF Records, Registering, Full
(* A session that is open moves on.                                        *)
<1>3. ASSUME NEW s \in Session, life[s] \notin {"idle", "registering"},
             UNCHANGED <<stage, home, stored, row, sessions_completed>>,
             \E next \in {"open", "ending", "leveling", "closed"} :
               life' = [life EXCEPT ![s] = next]
      PROVE  Records'
  <2>1. Registering' = Registering /\ Full' = Full
    BY <1>0, <1>3 DEF Registering, Full
  <2>. QED BY <1>0, <1>3, <2>1 DEF Records
<1>4. ASSUME NEW s \in Session, Open(s) PROVE Records'
  <2>1. /\ life[s] = "idle" /\ life' = [life EXCEPT ![s] = "starting"]
        /\ UNCHANGED <<stage, home, stored, row, sessions_completed>>
    BY <1>4 DEF Open, turns
  <2>2. Registering' = Registering /\ Full' = Full
    BY <1>0, <2>1 DEF Registering, Full
  <2>. QED BY <1>0, <2>1, <2>2 DEF Records
<1>5. ASSUME NEW s \in Session, StartRow(s) PROVE Records'
  <2>1. /\ life[s] = "starting"
        /\ UNCHANGED <<stage, home, stored, sessions_completed>>
    BY <1>5 DEF StartRow, turns
  <2>2. CASE UNCHANGED row /\ life' = [life EXCEPT ![s] = "open"]
    BY <1>3, <2>1, <2>2
  <2>3. CASE row' = [row EXCEPT ![s] = "full"] /\ life' = [life EXCEPT ![s] = "registering"]
    <3>1. /\ Registering' = Registering \cup {s} /\ s \notin Registering
          /\ Full' = Full \cup {s} /\ s \notin Full
      BY <1>0, <2>1, <2>3 DEF Registering, Full, Records
    <3>2. Cardinality(Registering') = Cardinality(Registering) + 1
      BY <1>1, <3>1, FS_AddElement
    <3>3. Cardinality(Full') = Cardinality(Full) + 1
      BY <1>1, <3>1, FS_AddElement
    <3>4. sessions_completed' + Cardinality(Registering') <= Cardinality(Full')
      BY <1>0, <1>1, <2>1, <3>2, <3>3 DEF Records
    <3>. QED BY <1>0, <2>1, <2>3, <3>4 DEF Records
  <2>. QED BY <1>5, <2>2, <2>3 DEF StartRow
<1>6. ASSUME NEW s \in Session, CountSession(s) PROVE Records'
  <2>1. /\ life[s] = "registering" /\ life' = [life EXCEPT ![s] = "open"]
        /\ sessions_completed' \in {sessions_completed, sessions_completed + 1}
        /\ UNCHANGED <<stage, home, stored, row>>
    BY <1>6 DEF CountSession, turns
  <2>2. /\ Registering' = Registering \ {s} /\ s \in Registering /\ Full' = Full
    BY <1>0, <2>1 DEF Registering, Full
  <2>3. Cardinality(Registering') = Cardinality(Registering) - 1
    BY <1>1, <2>2, FS_RemoveElement
  <2>4. sessions_completed' + Cardinality(Registering') <= Cardinality(Full')
    BY <1>0, <1>1, <2>1, <2>2, <2>3 DEF Records
  <2>. QED BY <1>0, <2>1, <2>4 DEF Records
<1>7. ASSUME NEW s \in Session, HangUp(s) \/ EndRow(s) \/ Level(s) PROVE Records'
  <2>1. life[s] \notin {"idle", "registering"}
    BY <1>7 DEF HangUp, EndRow, Level
  <2>2. UNCHANGED <<stage, home, stored, row, sessions_completed>>
    BY <1>7 DEF HangUp, EndRow, Level, turns
  <2>3. \E next \in {"open", "ending", "leveling", "closed"} :
          life' = [life EXCEPT ![s] = next]
    BY <1>7 DEF HangUp, EndRow, Level
  <2>. QED BY <1>3, <2>1, <2>2, <2>3
<1>8. ASSUME NEW s \in Session, SessionMoves(s) PROVE Records'
  BY <1>4, <1>5, <1>6, <1>7, <1>8, Zenon DEF SessionMoves
<1>9. ASSUME NEW j \in Turn \cup Session, Acquire(j) PROVE Records'
  BY <1>2, <1>9 DEF Acquire, turns
<1>10. ASSUME NEW t \in Turn, NEW s \in Session,
              NEW errors \in [Category -> 0 .. MAX_ERRORS], Arrive(t, s, errors)
       PROVE  Records'
  <2>1. /\ stage[t] = "idle" /\ life[s] = "open" /\ t \notin stored
        /\ stage' = [stage EXCEPT ![t] = "inserting"] /\ home' = [home EXCEPT ![t] = s]
        /\ UNCHANGED <<stored, row, life, sessions_completed>>
    BY <1>10 DEF Arrive, Records
  <2>2. Registering' = Registering /\ Full' = Full
    BY <2>1 DEF Registering, Full
  <2>. QED BY <1>0, <2>1, <2>2 DEF Records
<1>11. ASSUME NEW t \in Turn, Commit(t) PROVE Records'
  <2>1. /\ stage[t] = "upserting" /\ stage' = [stage EXCEPT ![t] = "graph"]
        /\ stored' = stored \cup {t}
        /\ row' = IF row[home[t]] = "none" THEN [row EXCEPT ![home[t]] = "stitched"] ELSE row
        /\ UNCHANGED <<home, life, sessions_completed>>
    BY <1>11 DEF Commit
  <2>2. home[t] \in Session /\ life[home[t]] \notin {"idle", "starting", "registering"}
    BY <2>1 DEF Records
  <2>3. /\ row'[home[t]] # "none"
        /\ \A s \in Session : row[s] # "none" => row'[s] = row[s]
        /\ \A s \in Session : s # home[t] => row'[s] = row[s]
        /\ \A s \in Session : row'[s] = "full" <=> row[s] = "full"
    BY <1>0, <2>1, <2>2
  <2>4. Registering' = Registering /\ Full' = Full
    BY <2>1, <2>3 DEF Registering, Full
  <2>5. \A u \in stored' : stage'[u] # "idle" /\ row'[home[u]] # "none"
    BY <1>0, <2>1, <2>3 DEF Records
  <2>. QED BY <1>0, <2>1, <2>2, <2>3, <2>4, <2>5 DEF Records
<1>12. ASSUME NEW t \in Turn, NEW x \in Row,
              \/ Upsert(t, x) \/ Wait(t, x)
              \/ UpsertNode(t, x) \/ UpsertEdge(t, x) \/ Skip(t, x)
       PROVE  Records'
  BY <1>2, <1>12 DEF Upsert, Wait, UpsertNode, UpsertEdge, Skip
<1>13. ASSUME NEW t \in Turn, Insert(t) PROVE Records'
  BY <1>0, <1>2, <1>13 DEF Insert
<1>14. ASSUME NEW t \in Turn, NEW lemmas \in SUBSET Lemma, Lemmatize(t, lemmas)
       PROVE  Records'
  BY <1>0, <1>2, <1>14 DEF Lemmatize
<1>15. ASSUME NEW t \in Turn, GraphEnds(t) \/ GraphFails(t) \/ Fail(t) \/ Cancel(t)
       PROVE  Records'
  <2>1. PICK next \in {"done", "failed", "lost"} : Leave(t, next) /\ stage[t] \in Busy
    BY <1>15, Leaving
  <2>. QED BY <1>0, <1>2, <2>1 DEF Leave, Busy, InTransaction
<1>16. ASSUME Crash PROVE Records'
  <2>1. /\ \A t \in Turn : stage'[t] = "idle" <=> stage[t] = "idle"
        /\ \A s \in Session : life'[s] = IF life[s] = "idle" THEN "idle" ELSE "closed"
        /\ UNCHANGED <<home, stored, row, sessions_completed>>
    BY <1>0, <1>16 DEF Crash, Busy, InTransaction
  <2>2. Registering' = {} /\ Full' = Full
    BY <2>1 DEF Registering, Full
  <2>3. sessions_completed' + Cardinality(Registering') <= Cardinality(Full')
    BY <1>0, <1>1, <2>1, <2>2, FS_EmptySet DEF Records
  <2>. QED BY <1>0, <2>1, <2>3 DEF Records
<1>17. ASSUME NEW t \in Turn, TurnMoves(t) PROVE Records'
  BY <1>10, <1>11, <1>12, <1>13, <1>14, <1>17, Zenon DEF TurnMoves
<1>18. CASE UNCHANGED vars
  BY <1>2, <1>18 DEF vars, turns
<1>. QED BY <1>8, <1>9, <1>15, <1>16, <1>17, <1>18, Steps, Zenon

-----------------------------------------------------------------------------
(* The theorems.                                                           *)

LEMMA InitInv == Init => Inv
<1>. SUFFICES ASSUME Init PROVE Inv
  OBVIOUS
<1>. USE IngestAssumption
<1>1. TypeOK
  BY InitTypeOK
<1>2. Locks /\ Accounts
  BY DEF Init, Locks, Accounts, Writing, InTransaction
<1>3. CountsExplainTurns
  <2>1. \A x \in Row : {t \in stored : x \in Touched(t)} = {} /\ count[x] = 0
    BY DEF Init
  <2>. QED BY <2>1, FS_EmptySet DEF CountsExplainTurns
<1>4. Lags
  <2>1. \A x \in Row : /\ Halfway(x) = {} /\ Pending(x) = {}
                       /\ node[x] = 0 /\ edge[x] = 0 /\ count[x] = 0
    BY DEF Init, Halfway, Pending
  <2>2. \A t \in Turn : half[t] = None
    BY DEF Init
  <2>. QED BY <2>1, <2>2, FS_EmptySet DEF Lags
<1>5. NoConnectionIsLost
  BY FS_EmptySet DEF Init, NoConnectionIsLost
<1>6. Records
  <2>1. Registering = {} /\ Full = {} /\ sessions_completed = 0
    BY DEF Init, Registering, Full
  <2>2. sessions_completed + Cardinality(Registering) <= Cardinality(Full)
    BY <2>1, FS_EmptySet
  <2>. QED BY <2>2 DEF Init, Records
<1>. QED BY <1>1, <1>2, <1>3, <1>4, <1>5, <1>6 DEF Inv

(* Every step, of any turn, session or crash, keeps the invariant.         *)
THEOREM Invariance == Spec => []Inv
<1>1. Inv /\ [Next]_vars => Inv'
  BY StepTypeOK, StepLocks, StepAccounts, StepCounts, StepLags, StepPool, StepRecords,
     Zenon DEF Inv
<1>. QED BY InitInv, <1>1, PTL DEF Spec

(* The types of the store, the graph and the pool.                         *)
THEOREM TypeCorrect == Spec => []TypeOK
<1>1. Inv => TypeOK
  BY DEF Inv
<1>. QED BY Invariance, <1>1, PTL

(* A counter is the number of stored turns that have its category or its   *)
(* lemma, however ingests overlap, wait, fail or die.                      *)
THEOREM CountsAreTurns == Spec => []CountsExplainTurns
<1>1. Inv => CountsExplainTurns
  BY DEF Inv
<1>. QED BY Invariance, <1>1, PTL

(* The graph never has more than the store.                                *)
THEOREM GraphLags == Spec => []GraphLagsBehindStore
<1>1. ASSUME Inv PROVE GraphLagsBehindStore
  <2>1. \A x \in Row : /\ Cardinality(Pending(x)) \in Nat /\ Cardinality(Halfway(x)) \in Nat
                       /\ node[x] \in Nat /\ edge[x] \in Nat /\ count[x] \in Nat
    <3>1. \A x \in Row : IsFiniteSet(Pending(x)) /\ IsFiniteSet(Halfway(x))
      BY IngestAssumption, FS_Subset DEF Pending, Halfway
    <3>. QED BY <1>1, <3>1, FS_CardinalityType DEF Inv, TypeOK
  <2>. QED BY <1>1, <2>1 DEF Inv, Lags, GraphLagsBehindStore
<1>. QED BY Invariance, <1>1, PTL

(* Every connection is in the pool or with one task.                       *)
THEOREM PoolIsWhole == Spec => []NoConnectionIsLost
<1>1. Inv => NoConnectionIsLost
  BY DEF Inv
<1>. QED BY Invariance, <1>1, PTL

(* Stored turns have their session's row, counted sessions the full one.   *)
THEOREM OnRecord == Spec => []SessionsAreOnRecord
<1>1. ASSUME Inv PROVE SessionsAreOnRecord
  <2>1. IsFiniteSet(Registering) /\ IsFiniteSet(Full)
    BY IngestAssumption, FS_Subset DEF Registering, Full
  <2>2. Cardinality(Registering) \in Nat /\ Cardinality(Full) \in Nat
    BY <2>1, FS_CardinalityType
  <2>. QED BY <1>1, <2>2 DEF Inv, TypeOK, Records, Full, SessionsAreOnRecord
<1>. QED BY Invariance, <1>1, PTL
=============================================================================
