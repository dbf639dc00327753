--------------------------- MODULE HandoffProofs ---------------------------
(***************************************************************************)
(* Safety of Handoff for every set of requests, clicks, keys and payloads: *)
(* one answer per key (the invariant Owned), and one callback run per key  *)
(* whose attempts are all the requests La Libreta ever sees (Delivery).    *)
(***************************************************************************)
EXTENDS Handoff, TLAPS

-----------------------------------------------------------------------------
(* The inductive invariant.                                                *)

(* A row belongs to the request that inserted it, which was answered as    *)
(* its creator (or could not build the link); every other request that got *)
(* past the INSERT found the row there.                                    *)
Owned ==
    /\ \A k \in Key : Exists(k) =>
         LET r == row[k].id IN
         /\ r \in Request
         /\ create[r] \in {"answered", "refused"}
         /\ asked[r] = [key |-> k, payload |-> row[k].payload]
    /\ \A r \in Request : create[r] \in {"selecting", "answered"} =>
         asked[r].key \in Key /\ Exists(asked[r].key)
    /\ \A r \in Request : create[r] = "selecting" => row[asked[r].key].id # r
    /\ \A r \in Request : create[r] = "answered" =>
         /\ answer[r].id = row[asked[r].key].id
         /\ answer[r].created <=> answer[r].id = r

(* The completion request c is, or was, the one that runs the callback.    *)
Ran(c) == complete[c] \in Running \/ tries[c] > 0

(* What a callback run has done so far is all that ever happened to its    *)
(* key: the requests sent, the success heard, the record.                  *)
RunAccounts(c) ==
    LET k == target[c] IN
    /\ k \in Key /\ k \in completed /\ row[k].url
    /\ posts[k] = tries[c]
    /\ acked[k] = IF success[c] THEN 1 ELSE 0
    /\ callback[k].attempts \in {0, tries[c]}
    /\ callback[k].delivered => success[c]
    /\ complete[c] \in Running =>
         callback[k].attempts = 0 /\ ~callback[k].delivered

Untouched(k) ==
    posts[k] = 0 /\ acked[k] = 0 /\ callback[k].attempts = 0 /\ ~callback[k].delivered

Delivery ==
    /\ \A c \in Click : Ran(c) => RunAccounts(c)
    /\ \A c, d \in Click : Ran(c) /\ Ran(d) /\ target[c] = target[d] => c = d
    /\ \A k \in Key : (\A c \in Click : Ran(c) => target[c] # k) => Untouched(k)
    /\ \A c \in Click : complete[c] = "posting" => ~success[c] /\ tries[c] < MAX_ATTEMPTS
    /\ \A c \in Click : complete[c] \in {"idle", "validating"} => tries[c] = 0
    /\ \A c \in Click : tries[c] = 0 => ~success[c]
    /\ \A k \in completed : Exists(k)

-----------------------------------------------------------------------------
(* Types.                                                                  *)

LEMMA InitTypeOK == Init => TypeOK
  BY HandoffAssumption DEF Init, TypeOK, CreateStages, CompleteStages, Running

LEMMA StepTypeOK ==
    ASSUME TypeOK, Owned, [Next]_vars
    PROVE  TypeOK'
<1>. USE DEF TypeOK, CreateStages, CompleteStages, table, creating, completing, receiver
<1>. USE HandoffAssumption
<1>1. ASSUME NEW r \in Request, Refuse(r) PROVE TypeOK'
  BY <1>1 DEF Refuse
<1>2. ASSUME NEW r \in Request, NEW k \in Key, NEW p \in Payload,
             NEW url \in BOOLEAN, Insert(r, k, p, url)
      PROVE  TypeOK'
  <2>1. CASE Exists(k)
    BY <1>2, <2>1 DEF Insert
  <2>2. CASE ~Exists(k)
    <3>1. row' = [row EXCEPT ![k] = [id |-> r, payload |-> p, url |-> url]]
      BY <1>2, <2>2 DEF Insert
    <3>2. row' \in [Key -> [id : Request \cup {None}, payload : Payload \cup {None},
                            url : BOOLEAN]]
      BY <3>1
    <3>3. create' \in [Request -> CreateStages]
      <4>1. PICK next \in {"answered", "refused"} : create' = [create EXCEPT ![r] = next]
        BY <1>2, <2>2 DEF Insert
      <4>2. create \in [Request -> CreateStages]
        OBVIOUS
      <4>. QED BY <4>1, <4>2
    <3>4. asked' \in [Request -> [key : Key \cup {None}, payload : Payload \cup {None}]]
      <4>1. asked' = [asked EXCEPT ![r] = [key |-> k, payload |-> p]]
        BY <1>2 DEF Insert
      <4>. QED BY <4>1
    <3>5. answer' \in [Request -> [id : Request \cup {None}, created : BOOLEAN]]
      <4>1. answer' = [answer EXCEPT ![r] = [id |-> r, created |-> TRUE]]
        BY <1>2, <2>2 DEF Insert
      <4>. QED BY <4>1
    <3>6. UNCHANGED <<started, completed, callback, completing, receiver>>
      BY <1>2, <2>2 DEF Insert
    <3>. QED BY <3>2, <3>3, <3>4, <3>5, <3>6
  <2>. QED BY <2>1, <2>2
<1>3. ASSUME NEW r \in Request, Select(r) PROVE TypeOK'
  <2>1. row[asked[r].key].id \in Request \cup {None}
    BY <1>3 DEF Select, Owned
  <2>. QED BY <1>3, <2>1 DEF Select
<1>4. ASSUME NEW k \in Key, MarkStarted(k) PROVE TypeOK'
  BY <1>4 DEF MarkStarted
<1>5. ASSUME NEW k \in Key, NEW c \in Click, MarkCompleted(c, k) PROVE TypeOK'
  BY <1>5 DEF MarkCompleted, Running
<1>6. ASSUME NEW c \in Click, Validate(c) PROVE TypeOK'
  BY <1>6 DEF Validate, Running
<1>7. ASSUME NEW c \in Click, NEW status \in Statuses, Post(c, status)
      PROVE  TypeOK'
  BY <1>7 DEF Post, Running
<1>8. ASSUME NEW c \in Click, Record(c) PROVE TypeOK'
  <2>1. target[c] \in Key /\ tries[c] \in Nat /\ success[c] \in BOOLEAN
    BY <1>8 DEF Record, Running
  <2>2. callback' \in [Key -> [attempts : Nat, delivered : BOOLEAN, error : BOOLEAN]]
    <3>. DEFINE rec == [attempts |-> callback[target[c]].attempts + tries[c],
                        delivered |-> success[c], error |-> ~success[c]]
    <3>1. rec \in [attempts : Nat, delivered : BOOLEAN, error : BOOLEAN]
      BY <2>1
    <3>2. callback' = [callback EXCEPT ![target[c]] = rec] \/ callback' = callback
      BY <1>8 DEF Record
    <3>. HIDE DEF rec
    <3>. QED BY <2>1, <3>1, <3>2
  <2>3. /\ complete' = [complete EXCEPT ![c] = "done"]
        /\ UNCHANGED <<row, started, completed, creating, target, tries, success, receiver>>
    BY <1>8 DEF Record
  <2>. QED BY <2>2, <2>3 DEF Running
<1>9. ASSUME Crash PROVE TypeOK'
  BY <1>9 DEF Crash, Running
<1>10. ASSUME UNCHANGED vars PROVE TypeOK'
  BY <1>10 DEF vars
<1>. HIDE DEF TypeOK
<1>11. CASE \E r \in Request :
              \/ Refuse(r)
              \/ \E k \in Key, p \in Payload, url \in BOOLEAN : Insert(r, k, p, url)
              \/ Select(r)
  <2>1. PICK r \in Request :
              \/ Refuse(r)
              \/ \E k \in Key, p \in Payload, url \in BOOLEAN : Insert(r, k, p, url)
              \/ Select(r)
    BY <1>11
  <2>2. CASE \E k \in Key, p \in Payload, url \in BOOLEAN : Insert(r, k, p, url)
    BY <1>2, <2>2, Zenon
  <2>. QED BY <1>1, <1>3, <2>1, <2>2
<1>12. CASE \E k \in Key : MarkStarted(k) \/ \E c \in Click : MarkCompleted(c, k)
  BY <1>4, <1>5, <1>12
<1>13. CASE \E c \in Click : Callback(c)
  BY <1>6, <1>7, <1>8, <1>13 DEF Callback
<1>. QED BY <1>9, <1>10, <1>11, <1>12, <1>13 DEF Next

-----------------------------------------------------------------------------
(* One answer per key.                                                     *)

LEMMA StepOwned ==
    ASSUME TypeOK, Owned, [Next]_vars
    PROVE  Owned'
<1>1. /\ row \in [Key -> [id : Request \cup {None}, payload : Payload \cup {None},
                          url : BOOLEAN]]
      /\ create \in [Request -> CreateStages]
      /\ asked \in [Request -> [key : Key \cup {None}, payload : Payload \cup {None}]]
      /\ answer \in [Request -> [id : Request \cup {None}, created : BOOLEAN]]
  BY DEF TypeOK
<1>2. ASSUME NEW r \in Request, Refuse(r) PROVE Owned'
  BY <1>1, <1>2 DEF Refuse, Owned, Exists, table, completing, receiver
<1>3. ASSUME NEW r \in Request, NEW k \in Key, NEW p \in Payload,
             NEW url \in BOOLEAN, Insert(r, k, p, url)
      PROVE  Owned'
  <2>1. create[r] = "idle" /\ asked' = [asked EXCEPT ![r] = [key |-> k, payload |-> p]]
    BY <1>3 DEF Insert
  <2>2. CASE Exists(k)
    <3>1. /\ create' = [create EXCEPT ![r] = "selecting"]
          /\ row' = row /\ answer' = answer
      BY <1>3, <2>2 DEF Insert
    <3>2. /\ create'[r] = "selecting" /\ asked'[r] = [key |-> k, payload |-> p]
          /\ \A q \in Request : q # r => asked'[q] = asked[q] /\ create'[q] = create[q]
      BY <1>1, <2>1, <3>1
    <3>3. ASSUME NEW l \in Key, Exists(l) PROVE row[l].id \in Request \ {r}
      BY <2>1, <3>3 DEF Owned
    <3>4. ASSUME NEW l \in Key, Exists(l) PROVE
             /\ create'[row[l].id] \in {"answered", "refused"}
             /\ asked'[row[l].id] = [key |-> l, payload |-> row[l].payload]
      BY <3>2, <3>3, <3>4 DEF Owned
    <3>5. ASSUME NEW q \in Request
          PROVE  /\ create'[q] \in {"selecting", "answered"} =>
                      asked'[q].key \in Key /\ Exists(asked'[q].key)
                 /\ create'[q] = "selecting" => row[asked'[q].key].id # q
                 /\ create'[q] = "answered" =>
                      /\ answer[q].id = row[asked'[q].key].id
                      /\ answer[q].created <=> answer[q].id = q
      <4>1. CASE q = r
        BY <2>2, <3>2, <3>3, <4>1
      <4>2. CASE q # r
        BY <3>2, <4>2 DEF Owned
      <4>. QED BY <4>1, <4>2
    <3>. QED BY <3>1, <3>3, <3>4, <3>5 DEF Owned, Exists
  <2>3. CASE ~Exists(k)
    <3>1. /\ row' = [row EXCEPT ![k] = [id |-> r, payload |-> p, url |-> url]]
          /\ answer' = [answer EXCEPT ![r] = [id |-> r, created |-> TRUE]]
      BY <1>3, <2>3 DEF Insert
    <3>2. PICK next \in {"answered", "refused"} : create' = [create EXCEPT ![r] = next]
      BY <1>3, <2>3 DEF Insert
    <3>3. /\ row'[k].id = r /\ row'[k].payload = p
          /\ \A l \in Key : l # k => row'[l] = row[l]
          /\ asked'[r] = [key |-> k, payload |-> p]
          /\ answer'[r] = [id |-> r, created |-> TRUE]
          /\ \A q \in Request : q # r =>
               asked'[q] = asked[q] /\ answer'[q] = answer[q] /\ create'[q] = create[q]
          /\ create'[r] \in {"answered", "refused"}
      BY <1>1, <2>1, <3>1, <3>2
    <3>4. /\ \A l \in Key : Exists(l) => row[l].id # r
          /\ \A q \in Request : create[q] \in {"selecting", "answered"} => asked[q].key # k
      <4>1. ASSUME NEW l \in Key, Exists(l) PROVE row[l].id # r
        BY <2>1, <4>1 DEF Owned
      <4>2. ASSUME NEW q \in Request, create[q] \in {"selecting", "answered"}
            PROVE  asked[q].key # k
        BY <2>3, <4>2 DEF Owned
      <4>. QED BY <4>1, <4>2
    <3>5. ASSUME NEW l \in Key, Exists(l)' PROVE
             /\ row'[l].id \in Request
             /\ create'[row'[l].id] \in {"answered", "refused"}
             /\ asked'[row'[l].id] = [key |-> l, payload |-> row'[l].payload]
      <4>1. CASE l = k
        BY <4>1, <3>3
      <4>2. CASE l # k
        BY <4>2, <3>3, <3>4, <3>5 DEF Owned, Exists
      <4>. QED BY <4>1, <4>2
    <3>6. ASSUME NEW q \in Request, create'[q] \in {"selecting", "answered"}
          PROVE  asked'[q].key \in Key /\ Exists(asked[q].key)'
      <4>1. CASE q = r
        BY <4>1, <3>3, HandoffAssumption DEF Exists
      <4>2. CASE q # r
        BY <4>2, <3>3, <3>4, <3>6 DEF Owned, Exists
      <4>. QED BY <4>1, <4>2
    <3>7. ASSUME NEW q \in Request
          PROVE  /\ create'[q] = "selecting" => row'[asked'[q].key].id # q
                 /\ create'[q] = "answered" =>
                      /\ answer'[q].id = row'[asked'[q].key].id
                      /\ answer'[q].created <=> answer'[q].id = q
      <4>1. CASE q = r
        BY <4>1, <3>3
      <4>2. CASE q # r
        BY <4>2, <3>3, <3>4 DEF Owned
      <4>. QED BY <4>1, <4>2
    <3>. QED BY <3>5, <3>6, <3>7 DEF Owned
  <2>. QED BY <2>2, <2>3
<1>4. ASSUME NEW r \in Request, Select(r) PROVE Owned'
  <2>1. /\ create[r] = "selecting" /\ row' = row /\ asked' = asked
        /\ answer' = [answer EXCEPT ![r] =
                         [id |-> row[asked[r].key].id, created |-> FALSE]]
    BY <1>4 DEF Select, table
  <2>2. PICK next \in {"answered", "refused"} : create' = [create EXCEPT ![r] = next]
    BY <1>4 DEF Select
  <2>. QED BY <1>1, <2>1, <2>2 DEF Owned, Exists
<1>5. ASSUME Crash PROVE Owned'
  BY <1>1, <1>5 DEF Crash, Owned, Exists, table
<1>6. ASSUME UNCHANGED <<row, creating>> PROVE Owned'
  BY <1>6 DEF Owned, Exists, creating
<1>7. CASE \E r \in Request :
             \/ Refuse(r)
             \/ \E k \in Key, p \in Payload, url \in BOOLEAN : Insert(r, k, p, url)
             \/ Select(r)
  BY <1>2, <1>3, <1>4, <1>7, Zenon
<1>8. CASE \E k \in Key : MarkStarted(k) \/ \E c \in Click : MarkCompleted(c, k)
  BY <1>6, <1>8 DEF MarkStarted, MarkCompleted, creating
<1>9. CASE \E c \in Click : Callback(c)
  BY <1>6, <1>9 DEF Callback, Validate, Post, Record, creating, table
<1>10. CASE UNCHANGED vars
  BY <1>6, <1>10 DEF vars, table
<1>. QED BY <1>5, <1>7, <1>8, <1>9, <1>10 DEF Next

-----------------------------------------------------------------------------
(* One callback run per key.                                               *)

LEMMA StepDelivery ==
    ASSUME TypeOK, Delivery, [Next]_vars
    PROVE  Delivery'
<1>1. /\ completed \subseteq Key
      /\ callback \in [Key -> [attempts : Nat, delivered : BOOLEAN, error : BOOLEAN]]
      /\ complete \in [Click -> CompleteStages]
      /\ target \in [Click -> Key \cup {None}]
      /\ tries \in [Click -> 0 .. MAX_ATTEMPTS]
      /\ success \in [Click -> BOOLEAN]
      /\ posts \in [Key -> Nat] /\ acked \in [Key -> Nat]
      /\ MAX_ATTEMPTS \in Nat \ {0}
      /\ row \in [Key -> [id : Request \cup {None}, payload : Payload \cup {None},
                          url : BOOLEAN]]
  BY HandoffAssumption DEF TypeOK
<1>2. ASSUME UNCHANGED <<row, completed, callback, completing, posts, acked>>
      PROVE  Delivery'
  BY <1>2 DEF Delivery, Ran, RunAccounts, Untouched, Exists, completing
<1>3. ASSUME NEW r \in Request, NEW k \in Key, NEW p \in Payload,
             NEW url \in BOOLEAN, Insert(r, k, p, url)
      PROVE  Delivery'
  <2>1. UNCHANGED <<completed, callback, completing, posts, acked>>
    BY <1>3 DEF Insert, receiver
  <2>2. CASE Exists(k)
    BY <1>2, <1>3, <2>1, <2>2 DEF Insert
  <2>3. CASE ~Exists(k)
    <3>1. row' = [row EXCEPT ![k] = [id |-> r, payload |-> p, url |-> url]]
      BY <1>3, <2>3 DEF Insert
    <3>2. k \notin completed
      BY <2>3 DEF Delivery
    <3>3. \A l \in completed : row'[l] = row[l]
      BY <1>1, <3>1, <3>2
    <3>. QED
      BY <2>1, <3>3 DEF Delivery, Ran, RunAccounts, Untouched, Exists, completing
  <2>. QED BY <2>2, <2>3
<1>4. ASSUME NEW k \in Key, NEW c \in Click, MarkCompleted(c, k) PROVE Delivery'
  <2>1. /\ complete[c] = "idle" /\ target' = [target EXCEPT ![c] = k]
        /\ UNCHANGED <<row, callback, tries, success, posts, acked>>
    BY <1>4 DEF MarkCompleted, receiver
  <2>2. ~Ran(c) /\ tries[c] = 0 /\ ~success[c]
    BY <1>1, <2>1 DEF Ran, Running, Delivery
  <2>3. CASE Exists(k) /\ k \notin completed /\ row[k].url
    <3>1. /\ completed' = completed \cup {k}
          /\ complete' = [complete EXCEPT ![c] = "validating"]
      BY <1>4, <2>3 DEF MarkCompleted
    <3>2. Ran(c)' /\ \A d \in Click : d # c => (Ran(d)' <=> Ran(d))
      BY <1>1, <2>1, <3>1 DEF Ran, Running
    <3>3. \A d \in Click : Ran(d) => target[d] # k
      BY <2>3 DEF Delivery, RunAccounts
    <3>. QED
      BY <1>1, <2>1, <2>2, <2>3, <3>1, <3>2, <3>3
      DEF Delivery, RunAccounts, Untouched, Exists, Running
  <2>4. CASE ~(Exists(k) /\ k \notin completed /\ row[k].url)
    <3>1. /\ complete' = [complete EXCEPT ![c] = "done"]
          /\ completed' = completed \/ (Exists(k) /\ completed' = completed \cup {k})
      BY <1>4, <2>4 DEF MarkCompleted
    <3>2. ~Ran(c)' /\ \A d \in Click : d # c => (Ran(d)' <=> Ran(d))
      BY <1>1, <2>1, <2>2, <3>1 DEF Ran, Running
    <3>. QED
      BY <1>1, <2>1, <2>2, <3>1, <3>2
      DEF Delivery, RunAccounts, Untouched, Exists, Running
  <2>. QED BY <2>3, <2>4
<1>5. ASSUME NEW c \in Click, Validate(c) PROVE Delivery'
  <2>1. /\ complete[c] = "validating"
        /\ UNCHANGED <<row, completed, callback, target, tries, success, posts, acked>>
    BY <1>5 DEF Validate, table, receiver
  <2>2. PICK next \in {"posting", "recording"} : complete' = [complete EXCEPT ![c] = next]
    BY <1>5 DEF Validate
  <2>3. \A d \in Click : Ran(d)' <=> Ran(d)
    BY <1>1, <2>1, <2>2 DEF Ran, Running
  <2>. QED
    BY <1>1, <2>1, <2>2, <2>3 DEF Delivery, RunAccounts, Untouched, Exists, Running
<1>6. ASSUME NEW c \in Click, NEW status \in Statuses, Post(c, status)
      PROVE  Delivery'
  <2>. DEFINE k == target[c]
  <2>1. /\ complete[c] = "posting" /\ tries[c] < MAX_ATTEMPTS
        /\ tries' = [tries EXCEPT ![c] = tries[c] + 1]
        /\ posts' = [posts EXCEPT ![k] = posts[k] + 1]
        /\ acked' = IF status = "2xx" THEN [acked EXCEPT ![k] = acked[k] + 1] ELSE acked
        /\ success' = [success EXCEPT ![c] = status = "2xx"]
        /\ complete' = [complete EXCEPT ![c] =
                          IF Settles(c, status) THEN "recording" ELSE "posting"]
        /\ UNCHANGED <<row, completed, callback, target>>
    BY <1>6 DEF Post, table
  <2>2. Ran(c) /\ ~success[c] /\ RunAccounts(c) /\ k \in Key
    BY <2>1 DEF Delivery, Ran, Running, RunAccounts
  <2>3. \A d \in Click : Ran(d)' <=> Ran(d)
    BY <1>1, <2>1, <2>2 DEF Ran, Running
  <2>4. \A d \in Click : Ran(d) /\ d # c => target[d] # k
    BY <2>2 DEF Delivery
  <2>5. RunAccounts(c)'
    BY <1>1, <2>1, <2>2 DEF RunAccounts, Running
  <2>6. \A d \in Click : Ran(d) /\ d # c => RunAccounts(d)'
    BY <1>1, <2>1, <2>2, <2>4 DEF Delivery, RunAccounts
  <2>7. \A l \in Key : l # k => (Untouched(l)' <=> Untouched(l))
    BY <1>1, <2>1 DEF Untouched
  <2>8. complete'[c] = "posting" => ~success'[c] /\ tries'[c] < MAX_ATTEMPTS
    <3>1. status = "2xx" => complete'[c] = "recording"
      BY <1>1, <2>1 DEF Settles
    <3>2. complete'[c] = "posting" => tries[c] + 1 < MAX_ATTEMPTS
      BY <1>1, <2>1 DEF Settles
    <3>3. tries'[c] = tries[c] + 1 /\ success'[c] = (status = "2xx")
      BY <1>1, <2>1
    <3>. QED BY <3>1, <3>2, <3>3
  <2>9. /\ complete'[c] \in {"recording", "posting"} /\ tries'[c] > 0
        /\ \A d \in Click : d # c =>
             /\ complete'[d] = complete[d] /\ tries'[d] = tries[d]
             /\ success'[d] = success[d]
    BY <1>1, <2>1
  <2>. QED
    BY <1>1, <2>1, <2>2, <2>3, <2>4, <2>5, <2>6, <2>7, <2>8, <2>9 DEF Delivery, Exists
<1>7. ASSUME NEW c \in Click, Record(c) PROVE Delivery'
  <2>. DEFINE k == target[c]
  <2>1. /\ complete[c] = "recording" /\ complete' = [complete EXCEPT ![c] = "done"]
        /\ UNCHANGED <<row, completed, target, tries, success, posts, acked>>
    BY <1>7 DEF Record, receiver
  <2>2. Ran(c) /\ RunAccounts(c) /\ k \in Key
    BY <2>1 DEF Delivery, Ran, Running, RunAccounts
  <2>3. \/ callback' = [callback EXCEPT ![k] =
                          [attempts |-> callback[k].attempts + tries[c],
                           delivered |-> success[c], error |-> ~success[c]]]
        \/ callback' = callback
    BY <1>7 DEF Record
  <2>4. \A d \in Click : Ran(d)' => Ran(d)
    BY <1>1, <2>1 DEF Ran, Running
  <2>5. \A d \in Click : Ran(d) /\ d # c => target[d] # k
    BY <2>2 DEF Delivery
  <2>6. /\ callback'[k].attempts \in {0, tries[c]}
        /\ callback'[k].delivered => success[c]
    BY <1>1, <2>1, <2>2, <2>3 DEF RunAccounts, Running
  <2>7. RunAccounts(c)'
    BY <1>1, <2>1, <2>2, <2>6 DEF RunAccounts, Running
  <2>8. \A l \in Key : l # k => callback'[l] = callback[l]
    BY <1>1, <2>3
  <2>9. \A d \in Click : Ran(d) /\ d # c => RunAccounts(d)'
    BY <1>1, <2>1, <2>5, <2>8 DEF Delivery, RunAccounts
  <2>10. (\A d \in Click : Ran(d)' => target[d] # k) => Untouched(k)'
    <3>1. ~Ran(c)' => tries[c] = 0
      BY <1>1, <2>1 DEF Ran
    <3>2. tries[c] = 0 => ~success[c]
      BY DEF Delivery
    <3>. QED BY <1>1, <2>1, <2>2, <2>6, <3>1, <3>2 DEF RunAccounts, Untouched
  <2>11. \A l \in Key : (\A d \in Click : Ran(d)' => target[d] # l) => Untouched(l)'
    <3>1. ASSUME NEW l \in Key, l # k, \A d \in Click : Ran(d)' => target[d] # l
          PROVE  Untouched(l)'
      <4>1. \A d \in Click : Ran(d) => target[d] # l
        BY <1>1, <2>1, <3>1 DEF Ran, Running
      <4>2. Untouched(l)
        BY <4>1 DEF Delivery
      <4>. QED BY <2>1, <2>8, <3>1, <4>2 DEF Untouched
    <3>2. ASSUME NEW l \in Key, l = k, \A d \in Click : Ran(d)' => target[d] # l
          PROVE  Untouched(l)'
      BY <2>1, <2>10, <3>2 DEF Untouched
    <3>. HIDE DEF k
    <3>. QED BY <3>1, <3>2, Zenon
  <2>. QED
    BY <1>1, <2>1, <2>4, <2>7, <2>9, <2>11 DEF Delivery, Exists
<1>8. ASSUME Crash PROVE Delivery'
  <2>1. /\ complete' = [c \in Click |->
                          IF complete[c] \in Running THEN "gone" ELSE complete[c]]
        /\ UNCHANGED <<row, completed, callback, target, tries, success, posts, acked>>
    BY <1>8 DEF Crash, table, receiver
  <2>2. \A c \in Click : Ran(c)' <=> tries[c] > 0
    BY <1>1, <2>1 DEF Ran, Running
  <2>3. \A c \in Click : Ran(c)' => RunAccounts(c)'
    BY <2>1, <2>2 DEF Delivery, Ran, RunAccounts, Running
  <2>4. ASSUME NEW k \in Key, \A c \in Click : Ran(c)' => target[c] # k
        PROVE  Untouched(k)
    <3>1. ASSUME NEW c \in Click, Ran(c), target[c] = k PROVE Untouched(k)
      BY <1>1, <2>2, <2>4, <3>1 DEF Delivery, Ran, RunAccounts, Untouched
    <3>. QED BY <3>1 DEF Delivery
  <2>. QED
    BY <2>1, <2>2, <2>3, <2>4 DEF Delivery, Ran, Untouched, Exists, Running
<1>9. CASE \E r \in Request :
             \/ Refuse(r)
             \/ \E k \in Key, p \in Payload, url \in BOOLEAN : Insert(r, k, p, url)
             \/ Select(r)
  <2>1. ASSUME NEW r \in Request, Refuse(r) \/ Select(r) PROVE Delivery'
    BY <1>2, <2>1 DEF Refuse, Select, table, receiver
  <2>. QED BY <1>3, <1>9, <2>1, Zenon
<1>10. CASE \E k \in Key : MarkStarted(k) \/ \E c \in Click : MarkCompleted(c, k)
  <2>1. ASSUME NEW k \in Key, MarkStarted(k) PROVE Delivery'
    BY <1>2, <2>1 DEF MarkStarted, receiver
  <2>. QED BY <1>4, <1>10, <2>1
<1>11. CASE \E c \in Click : Callback(c)
  BY <1>5, <1>6, <1>7, <1>11 DEF Callback
<1>12. CASE UNCHANGED vars
  BY <1>2, <1>12 DEF vars, table, receiver
<1>. QED BY <1>8, <1>9, <1>10, <1>11, <1>12 DEF Next

-----------------------------------------------------------------------------
(* The theorems.                                                           *)

Inv == TypeOK /\ Owned /\ Delivery

LEMMA InitInv == Init => Inv
<1>. SUFFICES ASSUME Init PROVE Inv
  OBVIOUS
<1>1. Owned
  BY HandoffAssumption DEF Init, Owned, Exists
<1>2. Delivery
  BY DEF Init, Delivery, Ran, RunAccounts, Untouched, Running, Exists
<1>. QED BY <1>1, <1>2, InitTypeOK DEF Inv

(* The three together are inductive: every reachable state has them        *)
(* (external_sessions.py, repo.py, callback.py).                           *)
THEOREM Invariance == Spec => []Inv
<1>1. Inv /\ [Next]_vars => Inv'
  BY StepTypeOK, StepOwned, StepDelivery DEF Inv
<1>. QED BY InitInv, <1>1, PTL DEF Spec

(* The variables keep their types, and a callback under way has a target.  *)
THEOREM TypeCorrect == Spec => []TypeOK
<1>1. Inv => TypeOK
  BY DEF Inv
<1>. QED BY Invariance, <1>1, PTL

(* Every request for a key that is answered is answered with the one id of *)
(* that key, which stands for its creator's prompt (repo.py:26-73).        *)
THEOREM AgreementOfAnswers == Spec => []AnswersAgree
<1>1. Inv => AnswersAgree
  <2>. SUFFICES ASSUME Inv, NEW r \in Request, create[r] = "answered"
                PROVE  LET k == asked[r].key IN
                       /\ Exists(k) /\ answer[r].id = row[k].id
                       /\ answer[r].created <=> answer[r].id = r
                       /\ row[k].payload = asked[row[k].id].payload
    BY DEF AnswersAgree
  <2>1. asked[r].key \in Key /\ Exists(asked[r].key)
    BY DEF Inv, Owned
  <2>2. /\ answer[r].id = row[asked[r].key].id
        /\ answer[r].created <=> answer[r].id = r
    BY DEF Inv, Owned
  <2>3. row[asked[r].key].payload = asked[row[asked[r].key].id].payload
    <3>1. asked[row[asked[r].key].id] =
            [key |-> asked[r].key, payload |-> row[asked[r].key].payload]
      BY <2>1 DEF Inv, Owned
    <3>. QED BY <3>1
  <2>. QED BY <2>1, <2>2, <2>3
<1>. QED BY Invariance, <1>1, PTL

(* At most MAX_ATTEMPTS requests per handoff, and only for a completed one *)
(* that asked for a callback (repo.py:103-129, callback.py:192-243).       *)
THEOREM BoundedPosts == Spec => []PostsAreBounded
<1>1. Inv => PostsAreBounded
  <2>. SUFFICES ASSUME Inv, NEW k \in Key
                PROVE  /\ posts[k] <= MAX_ATTEMPTS
                       /\ posts[k] > 0 => k \in completed /\ row[k].url
    BY DEF PostsAreBounded
  <2>1. CASE \E c \in Click : Ran(c) /\ target[c] = k
    BY <2>1, HandoffAssumption DEF Inv, TypeOK, Delivery, RunAccounts
  <2>2. CASE ~ \E c \in Click : Ran(c) /\ target[c] = k
    BY <2>2, HandoffAssumption DEF Inv, Delivery, Untouched
  <2>. QED BY <2>1, <2>2
<1>. QED BY Invariance, <1>1, PTL

(* No second success is ever heard for a handoff (repo.py:107-109).        *)
THEOREM OneHeardSuccess == Spec => []HeardSuccessIsFinal
<1>1. Inv => HeardSuccessIsFinal
  <2>. SUFFICES ASSUME Inv, NEW k \in Key PROVE acked[k] <= 1
    BY DEF HeardSuccessIsFinal
  <2>1. CASE \E c \in Click : Ran(c) /\ target[c] = k
    BY <2>1 DEF Inv, Delivery, RunAccounts
  <2>2. CASE ~ \E c \in Click : Ran(c) /\ target[c] = k
    BY <2>2 DEF Inv, Delivery, Untouched
  <2>. QED BY <2>1, <2>2
<1>. QED BY Invariance, <1>1, PTL

(* A recorded delivery was acknowledged, once, and the attempts recorded   *)
(* are the requests sent (repo.py:132-151).                                *)
THEOREM TrueRecord == Spec => []RecordIsTrue
<1>1. Inv => RecordIsTrue
  <2>. SUFFICES ASSUME Inv, NEW k \in Key
                PROVE  /\ callback[k].delivered => acked[k] = 1
                       /\ callback[k].attempts \in {0, posts[k]}
    BY DEF RecordIsTrue
  <2>1. CASE \E c \in Click : Ran(c) /\ target[c] = k
    BY <2>1 DEF Inv, Delivery, RunAccounts
  <2>2. CASE ~ \E c \in Click : Ran(c) /\ target[c] = k
    BY <2>2 DEF Inv, Delivery, Untouched
  <2>. QED BY <2>1, <2>2
<1>. QED BY Invariance, <1>1, PTL
=============================================================================
