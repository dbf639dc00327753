------------------------ MODULE SessionPromptProofs ------------------------
(***************************************************************************)
(* The first-session block and the neutral theme go to learners who were   *)
(* not placed, for every number of sessions, every pool larger than the    *)
(* cooldown, every query string and every set of handoffs; and a theme the *)
(* tutor picks is rested, where the cooldown is what the query returns.    *)
(***************************************************************************)
EXTENDS SessionPrompt, FiniteSetTheorems, TLAPS

IsSequence(q) == Len(q) \in Nat /\ DOMAIN q = 1 .. Len(q)

(* The window of a cooldown never holds more themes than the cooldown.     *)
LEMMA WindowIsBounded ==
    ASSUME NEW list, IsSequence(list), NEW cooldown \in Nat
    PROVE  /\ IsFiniteSet(Window(list, cooldown))
           /\ Cardinality(Window(list, cooldown)) <= cooldown
<1> DEFINE n == Len(list)
           places == {j \in DOMAIN list : j + cooldown > n}
           range == (n - cooldown + 1) .. n
<1>1. n \in Nat /\ DOMAIN list = 1 .. n
  BY DEF IsSequence
<1>2. IsFiniteSet(range) /\ Cardinality(range) = cooldown
  <2>1. n - cooldown + 1 \in Int /\ n \in Int
    BY <1>1
  <2>2. IsFiniteSet(range)
        /\ Cardinality(range) = IF n - cooldown + 1 > n THEN 0 ELSE n - (n - cooldown + 1) + 1
    BY <2>1, FS_Interval
  <2> QED
    BY <1>1, <2>2
<1>3. places \subseteq range
  BY <1>1
<1>4. IsFiniteSet(places) /\ Cardinality(places) <= cooldown
  BY <1>2, <1>3, FS_Subset
<1> DEFINE pick == [i \in places |-> list[i]]
<1>5. pick \in Surjection(places, Window(list, cooldown)) \/ cooldown = 0
  <2>1. SUFFICES ASSUME cooldown # 0
                 PROVE  pick \in Surjection(places, Window(list, cooldown))
    OBVIOUS
  <2>2. Window(list, cooldown) = {list[i] : i \in places}
    BY <2>1 DEF Window
  <2>3. pick \in [places -> Window(list, cooldown)]
    BY <2>2
  <2>4. \A t \in Window(list, cooldown) : \E i \in places : pick[i] = t
    BY <2>2
  <2> QED
    BY <2>3, <2>4 DEF Surjection
<1>6. CASE cooldown = 0
  BY <1>6, FS_EmptySet DEF Window
<1>7. CASE cooldown # 0
  <2>1. pick \in Surjection(places, Window(list, cooldown))
    BY <1>5, <1>7
  <2>2. /\ IsFiniteSet(Window(list, cooldown))
        /\ Cardinality(Window(list, cooldown)) <= Cardinality(places)
    BY <1>4, <2>1, FS_Surjection
  <2> QED
    BY <1>4, <2>2, FS_CardinalityType
<1> QED
  BY <1>6, <1>7

(* A pool larger than the cooldown always has a theme left: the choice is  *)
(* never the neutral theme, nor one of the window.                         *)
LEMMA PoolIsNeverExhausted ==
    ASSUME NEW level \in BANDS, NEW list, IsSequence(list),
           NEW t \in get_session_theme(POOL[level], list, COOLDOWN)
    PROVE  t \in STRING /\ t # NEUTRAL_THEME /\ t \notin Window(list, COOLDOWN)
<1> DEFINE w == Window(list, COOLDOWN)
<1>1. /\ COOLDOWN \in Nat /\ IsFiniteSet(POOL[level]) /\ Cardinality(POOL[level]) > COOLDOWN
      /\ POOL[level] \subseteq STRING \ {NEUTRAL_THEME}
  BY SessionPromptAssumption
<1>2. IsFiniteSet(w) /\ Cardinality(w) <= COOLDOWN
  BY <1>1, WindowIsBounded
<1>3. POOL[level] \ w # {}
  <2>1. SUFFICES ASSUME POOL[level] \subseteq w PROVE FALSE
    OBVIOUS
  <2>2. Cardinality(POOL[level]) <= Cardinality(w)
    BY <1>2, <2>1, FS_Subset
  <2> QED
    BY <1>1, <1>2, <2>2, FS_CardinalityType
<1>4. t \in POOL[level] /\ t \notin w
  BY <1>3 DEF get_session_theme
<1> QED
  BY <1>1, <1>4
-----------------------------------------------------------------------------
(* The inductive invariant.                                                *)

Before == {"none", "resolved", "rested", "profiled"}

(* What the proof needs of the types; the rows do not matter.              *)
Typed ==
    /\ placed \in BOOLEAN /\ band \in BANDS
    /\ step \in [Session -> Steps]
    /\ DOMAIN recent = Session /\ \A s \in Session : IsSequence(recent[s])
    /\ snapshot \in [Session -> BANDS]
    /\ DOMAIN request = Session /\ DOMAIN prompt = Session /\ DOMAIN since = Session

(* Nobody is placed back, so who was placed at the connection still is.    *)
Diagnosed(s) ==
    LET p == prompt[s][1]
    IN  /\ since[s].placed => p.first = "none" /\ (p.theme = NEUTRAL_THEME => Steered(s))
        /\ p.first = "none" => placed

IInv ==
    /\ Typed
    /\ \E S : rows \in Seq(S)
    /\ \A s \in Session : since[s].placed => placed
    /\ \A s \in Session : Prompted(s) => Diagnosed(s)

(* The themes of the last rows are a sequence.                             *)
LEMMA RecentIsTyped ==
    ASSUME NEW S, rows \in Seq(S)
    PROVE  IsSequence(RecentDomains) /\ Len(RecentDomains) <= LIMIT
<1> DEFINE total == Cardinality(ThemedRows)
           n == IF total < LIMIT THEN total ELSE LIMIT
<1>1. Len(rows) \in Nat /\ DOMAIN rows = 1 .. Len(rows)
  OBVIOUS
<1>2. IsFiniteSet(1 .. Len(rows))
  BY <1>1, FS_Interval
<1>3. total \in Nat
  <2>1. IsFiniteSet(ThemedRows)
    BY <1>1, <1>2, FS_Subset DEF ThemedRows
  <2> QED
    BY <2>1, FS_CardinalityType
<1>4. n \in Nat
  BY <1>3, SessionPromptAssumption
<1>5. RecentDomains = [k \in 1 .. n |->
        rows[CHOOSE i \in ThemedRows : Cardinality(Newer(i)) = k - 1].theme]
  BY DEF RecentDomains
<1>6. n <= LIMIT
  BY <1>3, SessionPromptAssumption
<1> HIDE DEF n, total
<1> QED
  BY <1>4, <1>5, <1>6 DEF IsSequence

LEMMA InitEstablishes == Init => IInv
<1> SUFFICES ASSUME Init PROVE IInv
  OBVIOUS
<1>1. Typed
  <2>1. /\ step \in [Session -> Steps] /\ snapshot \in [Session -> BANDS]
        /\ placed \in BOOLEAN /\ band \in BANDS
        /\ DOMAIN prompt = Session /\ DOMAIN since = Session /\ DOMAIN recent = Session
    BY LabelAssumption DEF Init, Steps
  <2>2. DOMAIN request = Session
    BY DEF Init
  <2>3. \A s \in Session : IsSequence(recent[s])
    BY DEF Init, IsSequence
  <2> QED
    BY <2>1, <2>2, <2>3 DEF Typed
<1>2. rows \in Seq({})
  BY DEF Init
<1>3. \A s \in Session : ~since[s].placed /\ ~Prompted(s)
  BY DEF Init, Unseen, Prompted
<1> QED
  BY <1>1, <1>2, <1>3 DEF IInv

(* The prompt of the step that builds it, whatever the request.            *)
LEMMA BuildDiagnoses ==
    ASSUME IInv, NEW s \in Session, build_session_prompt(s)
    PROVE  Diagnosed(s)'
<1> DEFINE ref == request[s].handoff
           cfg == parse_conversation_config(request[s])
<1>1. PICK choice \in ThemesFor(s, placed) :
        prompt' = [prompt EXCEPT ![s] =
            <<render(snapshot[s], choice[1], choice[2], FirstBlock(placed, ref), ref)>>]
  BY DEF build_session_prompt, is_calibrated
<1>2. /\ prompt'[s][1].theme = choice[1]
      /\ prompt'[s][1].first = FirstBlock(placed, ref)
  BY <1>1 DEF render, IInv, Typed
<1>3. /\ since' = since /\ placed' = placed /\ request' = request
      /\ placed \in BOOLEAN /\ (since[s].placed => placed)
  BY DEF build_session_prompt, IInv, Typed
<1>4. FirstBlock(placed, ref) = "none" <=> placed
  BY <1>3 DEF FirstBlock
<1>5. ASSUME placed, choice[1] = NEUTRAL_THEME
      PROVE  Steered(s)
  <2>1. SUFFICES ASSUME ~Steered(s) PROVE FALSE
    OBVIOUS
  <2>2. ref = None /\ cfg.mode = "open" /\ cfg.topic = None
    BY <2>1 DEF Steered, parse_conversation_config, VALID_MODES
  <2>3. choice \in {<<t, "open">> : t \in get_session_theme(POOL[snapshot[s]], recent[s], COOLDOWN)}
    BY <1>1, <1>5, <2>2 DEF ThemesFor
  <2>4. PICK t \in get_session_theme(POOL[snapshot[s]], recent[s], COOLDOWN) : choice = <<t, "open">>
    BY <2>3
  <2>5. snapshot[s] \in BANDS /\ IsSequence(recent[s])
    BY DEF IInv, Typed
  <2>6. t # NEUTRAL_THEME
    BY <2>4, <2>5, PoolIsNeverExhausted
  <2> QED
    BY <1>5, <2>4, <2>6
<1>6. Steered(s)' = Steered(s)
  BY <1>3 DEF Steered
<1> QED
  BY <1>2, <1>3, <1>4, <1>5, <1>6 DEF Diagnosed

(* A prompt stays diagnosed while its session goes on and nobody is placed *)
(* back.                                                                   *)
LEMMA DiagnosisStays ==
    ASSUME NEW s \in Session, Diagnosed(s), placed => placed',
           prompt'[s] = prompt[s], since'[s] = since[s], request'[s] = request[s]
    PROVE  Diagnosed(s)'
BY DEF Diagnosed, Steered

LEMMA AppendIsRows ==
    ASSUME IInv, NEW row
    PROVE  \E S : Append(rows, row) \in Seq(S)
<1>1. PICK S : rows \in Seq(S)
  BY DEF IInv
<1>2. rows \in Seq(S \cup {row})
  BY <1>1
<1>3. Append(rows, row) \in Seq(S \cup {row})
  BY <1>2
<1> QED
  BY <1>3

LEMMA StepPreserves == IInv /\ [Next]_vars => IInv'
<1> SUFFICES ASSUME IInv, [Next]_vars PROVE IInv'
  OBVIOUS
<1> USE DEF IInv
<1>1. ASSUME NEW s \in Session, NEW r \in REQUESTS, Connect(s, r)
      PROVE  IInv'
  <2>1. Typed'
    BY <1>1 DEF Connect, Typed, Steps
  <2>2. \A t \in Session : since'[t].placed => placed'
    BY <1>1 DEF Connect, Typed
  <2>3. \A t \in Session : Prompted(t)' => Prompted(t) /\ t # s
    BY <1>1 DEF Connect, Typed, Prompted
  <2>4. \A t \in Session : Prompted(t)' => Diagnosed(t)'
    <3>1. TAKE t \in Session
    <3>2. HAVE Prompted(t)'
    <3>3. Diagnosed(t) /\ t # s
      BY <2>3, <3>2
    <3>4. /\ placed' = placed /\ prompt'[t] = prompt[t]
          /\ since'[t] = since[t] /\ request'[t] = request[t]
      BY <1>1, <3>3 DEF Connect, Typed
    <3> QED
      BY <3>3, <3>4, DiagnosisStays
  <2> QED
    BY <1>1, <2>1, <2>2, <2>4 DEF Connect
<1>2. ASSUME NEW s \in Session, QueryRecent(s) PROVE IInv'
  <2>1. Typed'
    BY <1>2, RecentIsTyped DEF QueryRecent, Typed, Steps
  <2>2. \A t \in Session : since'[t].placed = since[t].placed /\ (t # s => since'[t] = since[t])
    BY <1>2 DEF QueryRecent, Typed
  <2>3. \A t \in Session : Prompted(t)' => Prompted(t) /\ t # s
    BY <1>2 DEF QueryRecent, Typed, Prompted
  <2>4. \A t \in Session : Prompted(t)' => Diagnosed(t)'
    BY <1>2, <2>2, <2>3, DiagnosisStays DEF QueryRecent
  <2> QED
    BY <1>2, <2>1, <2>2, <2>4 DEF QueryRecent
<1>3. ASSUME NEW s \in Session, ReadProfile(s) PROVE IInv'
  <2>1. Typed'
    BY <1>3 DEF ReadProfile, Typed, Steps
  <2>2. \A t \in Session : Prompted(t)' => Prompted(t)
    BY <1>3 DEF ReadProfile, Typed, Prompted
  <2>3. \A t \in Session : Prompted(t)' => Diagnosed(t)'
    BY <1>3, <2>2, DiagnosisStays DEF ReadProfile
  <2> QED
    BY <1>3, <2>1, <2>3 DEF ReadProfile
<1>4. ASSUME NEW s \in Session, ReadFails(s) PROVE IInv'
  <2>1. Typed'
    BY <1>4, LabelAssumption DEF ReadFails, Typed, Steps, IsSequence
  <2>2. \A t \in Session : since'[t].placed => placed'
    BY <1>4 DEF ReadFails, Typed, Unseen
  <2>3. \A t \in Session : Prompted(t)' => Prompted(t) /\ t # s
    BY <1>4 DEF ReadFails, Typed, Prompted
  <2>4. \A t \in Session : t # s => since'[t] = since[t] /\ request'[t] = request[t]
    BY <1>4 DEF ReadFails, Typed
  <2>5. \A t \in Session : Prompted(t)' => Diagnosed(t)'
    BY <1>4, <2>3, <2>4, DiagnosisStays DEF ReadFails
  <2> QED
    BY <1>4, <2>1, <2>2, <2>5 DEF ReadFails
<1>5. ASSUME NEW s \in Session, build_session_prompt(s) PROVE IInv'
  <2>1. Typed'
    BY <1>5 DEF build_session_prompt, Typed, Steps
  <2>2. \A t \in Session \ {s} : prompt'[t] = prompt[t] /\ (Prompted(t)' => Prompted(t))
    BY <1>5 DEF build_session_prompt, Typed, Prompted
  <2>3. \A t \in Session \ {s} : Prompted(t)' => Diagnosed(t)'
    BY <1>5, <2>2, DiagnosisStays DEF build_session_prompt
  <2>4. Diagnosed(s)'
    BY <1>5, BuildDiagnoses
  <2> QED
    BY <1>5, <2>1, <2>3, <2>4 DEF build_session_prompt
<1>6. ASSUME NEW s \in Session, StartSession(s) PROVE IInv'
  <2>1. Typed'
    BY <1>6 DEF StartSession, Typed, Steps
  <2>2. \A t \in Session : Prompted(t)' => Prompted(t)
    BY <1>6 DEF StartSession, Typed, Prompted
  <2>3. \A t \in Session : Prompted(t)' => Diagnosed(t)'
    BY <1>6, <2>2, DiagnosisStays DEF StartSession
  <2>4. \E S : rows' \in Seq(S)
    BY <1>6, AppendIsRows DEF StartSession
  <2> QED
    BY <1>6, <2>1, <2>3, <2>4 DEF StartSession
<1>7. ASSUME NEW s \in Session, StartFails(s) PROVE IInv'
  <2>1. Typed'
    BY <1>7 DEF StartFails, Typed, Steps
  <2>2. \A t \in Session : Prompted(t)' => Prompted(t)
    BY <1>7 DEF StartFails, Typed, Prompted
  <2>3. \A t \in Session : Prompted(t)' => Diagnosed(t)'
    BY <1>7, <2>2, DiagnosisStays DEF StartFails
  <2> QED
    BY <1>7, <2>1, <2>3 DEF StartFails
<1>8. ASSUME NEW s \in Session, InsertTurn(s) PROVE IInv'
  <2>1. \E S : rows' \in Seq(S)
    BY <1>8, AppendIsRows DEF InsertTurn
  <2>2. Typed' /\ \A t \in Session : Prompted(t)' => Prompted(t)
    BY <1>8 DEF InsertTurn, mine, Typed, Prompted
  <2>3. \A t \in Session : Prompted(t)' => Diagnosed(t)'
    BY <1>8, <2>2, DiagnosisStays DEF InsertTurn, mine
  <2> QED
    BY <1>8, <2>1, <2>2, <2>3 DEF InsertTurn, mine
<1>9. ASSUME NEW s \in Session, EndSession(s) PROVE IInv'
  <2>1. Typed' /\ (placed => placed')
    <3>1. placed' \in BOOLEAN /\ band' \in BANDS /\ (placed => placed')
      BY <1>9 DEF EndSession, Typed
    <3>2. /\ step' \in [Session -> Steps] /\ snapshot' \in [Session -> BANDS]
          /\ DOMAIN prompt' = Session /\ DOMAIN since' = Session /\ DOMAIN recent' = Session
      BY <1>9, LabelAssumption DEF EndSession, Typed, Steps
    <3>3. DOMAIN request' = Session
      BY <1>9 DEF EndSession, Typed
    <3>4. \A t \in Session : IsSequence(recent'[t])
      BY <1>9 DEF EndSession, Typed, IsSequence
    <3> QED
      BY <3>1, <3>2, <3>3, <3>4 DEF Typed
  <2>2. \A t \in Session : since'[t].placed => placed'
    BY <1>9, <2>1 DEF EndSession, Typed, Unseen
  <2>3. \A t \in Session : Prompted(t)' => Prompted(t) /\ t # s
    BY <1>9 DEF EndSession, Typed, Prompted
  <2>4. \A t \in Session \ {s} :
          prompt'[t] = prompt[t] /\ since'[t] = since[t] /\ request'[t] = request[t]
    BY <1>9 DEF EndSession, Typed
  <2>5. \A t \in Session : Prompted(t)' => Diagnosed(t)'
    BY <2>1, <2>3, <2>4, DiagnosisStays
  <2> QED
    BY <1>9, <2>1, <2>2, <2>5 DEF EndSession
<1>10. CASE UNCHANGED vars
  <2>1. Typed' /\ \A t \in Session : Prompted(t)' => Prompted(t)
    BY <1>10 DEF vars, mine, Typed, Prompted
  <2>2. \A t \in Session : Prompted(t)' => Diagnosed(t)'
    BY <1>10, <2>1, DiagnosisStays DEF vars, mine
  <2> QED
    BY <1>10, <2>1, <2>2 DEF vars, mine
<1> QED
  BY <1>1, <1>2, <1>3, <1>4, <1>5, <1>6, <1>7, <1>8, <1>9, <1>10 DEF Next, Handler

(* Whoever was placed when the session connected is not diagnosed again    *)
(* nor sent to the neutral theme, and whoever is not is asked for the      *)
(* estimates placement needs, whatever is asked, read stale or lost.       *)
THEOREM FirstSessionsDiagnosed == Spec => []FirstSessionsAreDiagnosed
<1>1. IInv => FirstSessionsAreDiagnosed
  BY DEF IInv, FirstSessionsAreDiagnosed, Diagnosed
<1> QED
  BY <1>1, InitEstablishes, StepPreserves, PTL DEF Spec
-----------------------------------------------------------------------------
(* The rest of a theme.  The rows a session read stay where they are, and  *)
(* its window holds the themes of those in the cooldown: of the rows up to *)
(* n, a place in the cooldown is a place with few newer ones, which is the *)
(* number the query returns it under.                                      *)

Listed(s, theme) == \E k \in DOMAIN recent[s] : recent[s][k] = theme

(* What a session read holds the themes of its cooldown, and no more than  *)
(* the window keeps.                                                       *)
Remembers(s) ==
    /\ since[s].rows \in Nat
    /\ since[s].rows <= Len(rows)
    /\ Len(recent[s]) <= LIMIT
    /\ \A i \in 1 .. since[s].rows :
           InCooldown(i, since[s].rows) => Listed(s, rows[i].theme)

(* A theme the tutor picked is outside the window.                         *)
Fresh(s) ==
    LET p == prompt[s][1]
    IN  p.first = "none" /\ ~Steered(s) => p.theme \notin Window(recent[s], COOLDOWN)

RestInv ==
    /\ \A s \in Session : Remembers(s)
    /\ \A s \in Session : Prompted(s) => Fresh(s)

(* Of two places with a theme the older one has more newer ones.           *)
LEMMA NewerDecreases ==
    ASSUME NEW S, rows \in Seq(S), NEW i \in ThemedRows, NEW j \in ThemedRows, i < j
    PROVE  Cardinality(Newer(j)) < Cardinality(Newer(i))
<1>1. DOMAIN rows = 1 .. Len(rows) /\ Len(rows) \in Nat
  OBVIOUS
<1>2. IsFiniteSet(Newer(i)) /\ IsFiniteSet(Newer(j))
  <2>1. IsFiniteSet(1 .. Len(rows))
    BY <1>1, FS_Interval
  <2> QED
    BY <1>1, <2>1, FS_Subset DEF Newer, ThemedRows
<1>3. i \in Nat /\ j \in Nat
  BY <1>1 DEF ThemedRows
<1>4. Newer(j) \subseteq Newer(i) \ {j}
  BY <1>1, <1>3 DEF Newer, ThemedRows
<1>5. j \in Newer(i)
  BY DEF Newer
<1>6. IsFiniteSet(Newer(i) \ {j}) /\ Cardinality(Newer(i) \ {j}) = Cardinality(Newer(i)) - 1
  BY <1>2, <1>5, FS_RemoveElement
<1>7. Cardinality(Newer(j)) <= Cardinality(Newer(i) \ {j})
  BY <1>4, <1>6, FS_Subset
<1>8. Cardinality(Newer(i)) \in Nat /\ Cardinality(Newer(j)) \in Nat
  BY <1>2, FS_CardinalityType
<1> QED
  BY <1>6, <1>7, <1>8

(* The query returns the theme of every place in the cooldown.             *)
LEMMA RecentCoversTheCooldown ==
    ASSUME COOLDOWN <= LIMIT, NEW S, rows \in Seq(S), NEW i \in 1 .. Len(rows),
           InCooldown(i, Len(rows))
    PROVE  \E k \in DOMAIN RecentDomains : RecentDomains[k] = rows[i].theme
<1> DEFINE total == Cardinality(ThemedRows)
           n == IF total < LIMIT THEN total ELSE LIMIT
           k == Cardinality(Newer(i)) + 1
<1>1. DOMAIN rows = 1 .. Len(rows) /\ Len(rows) \in Nat /\ i \in Nat
  OBVIOUS
<1>2. i \in ThemedRows
  BY <1>1 DEF InCooldown, ThemedRows
<1>3. IsFiniteSet(ThemedRows)
  <2>1. IsFiniteSet(1 .. Len(rows))
    BY <1>1, FS_Interval
  <2> QED
    BY <1>1, <2>1, FS_Subset DEF ThemedRows
<1>4. IsFiniteSet(Newer(i)) /\ Cardinality(Newer(i)) \in Nat
  BY <1>3, FS_Subset, FS_CardinalityType DEF Newer
<1>5. Cardinality(Newer(i)) < total
  <2>1. Newer(i) \subseteq ThemedRows \ {i}
    BY <1>1 DEF Newer
  <2>2. IsFiniteSet(ThemedRows \ {i}) /\ Cardinality(ThemedRows \ {i}) = total - 1
    BY <1>2, <1>3, FS_RemoveElement
  <2>3. Cardinality(Newer(i)) <= Cardinality(ThemedRows \ {i})
    BY <2>1, <2>2, FS_Subset
  <2>4. total \in Nat
    BY <1>3, FS_CardinalityType
  <2> QED
    BY <1>4, <2>2, <2>3, <2>4
<1>6. Cardinality(Newer(i)) < COOLDOWN
  <2>1. Newer(i) = {j \in (i + 1) .. Len(rows) : Themed(rows[j])}
    BY <1>1 DEF Newer, ThemedRows
  <2> QED
    BY <2>1 DEF InCooldown
<1>7. total \in Nat /\ LIMIT \in Nat /\ COOLDOWN \in Nat
  BY <1>3, FS_CardinalityType, SessionPromptAssumption
<1>8. k \in 1 .. n /\ k - 1 = Cardinality(Newer(i))
  <2> HIDE DEF total
  <2> QED
    BY <1>4, <1>5, <1>6, <1>7
<1>9. ASSUME NEW j \in ThemedRows, Cardinality(Newer(j)) = k - 1
      PROVE  j = i
  <2>1. j \in Nat
    BY <1>1 DEF ThemedRows
  <2>2. ~(i < j) /\ ~(j < i)
    BY <1>2, <1>4, <1>8, <1>9, NewerDecreases
  <2> QED
    BY <1>1, <2>1, <2>2
<1> HIDE DEF k
<1>10. (CHOOSE j \in ThemedRows : Cardinality(Newer(j)) = k - 1) = i
  BY <1>2, <1>8, <1>9
<1>11. RecentDomains = [q \in 1 .. n |->
         rows[CHOOSE j \in ThemedRows : Cardinality(Newer(j)) = q - 1].theme]
  BY DEF RecentDomains
<1> HIDE DEF n
<1>12. k \in DOMAIN RecentDomains /\ RecentDomains[k] = rows[i].theme
  BY <1>8, <1>10, <1>11
<1> QED
  BY <1>12

(* A window as long as the list keeps all of it.                           *)
LEMMA WindowKeepsAll ==
    ASSUME NEW list, IsSequence(list), NEW cooldown \in Nat \ {0},
           Len(list) <= cooldown, NEW k \in DOMAIN list
    PROVE  list[k] \in Window(list, cooldown)
BY DEF Window, IsSequence

(* Both parts stay while the session goes on and the rows only grow.       *)
LEMMA MemoryStays ==
    ASSUME NEW s \in Session, Remembers(s), NEW S, rows \in Seq(S),
           since'[s] = since[s], recent'[s] = recent[s],
           Len(rows') \in Nat, Len(rows') >= Len(rows),
           \A i \in 1 .. Len(rows) : rows'[i] = rows[i]
    PROVE  Remembers(s)'
<1> DEFINE n == since[s].rows
<1>1. n \in Nat /\ n <= Len(rows) /\ Len(rows) \in Nat /\ since'[s].rows = n
  BY DEF Remembers
<1>2. \A i \in 1 .. n : rows'[i] = rows[i]
  BY <1>1
<1>3. ASSUME NEW i \in 1 .. n, InCooldown(i, n)'
      PROVE  Listed(s, rows[i].theme)'
  <2>1. {j \in (i + 1) .. n : Themed(rows'[j])} = {j \in (i + 1) .. n : Themed(rows[j])}
    BY <1>1, <1>2
  <2>2. InCooldown(i, n)
    BY <1>1, <1>2, <1>3, <2>1 DEF InCooldown
  <2>3. Listed(s, rows[i].theme)
    BY <2>2 DEF Remembers
  <2> QED
    BY <1>2, <2>3 DEF Listed
<1>4. n <= Len(rows')
  BY <1>1
<1> QED
  BY <1>1, <1>3, <1>4 DEF Remembers

LEMMA FreshStays ==
    ASSUME NEW s \in Session, Fresh(s),
           prompt'[s] = prompt[s], recent'[s] = recent[s], request'[s] = request[s]
    PROVE  Fresh(s)'
BY DEF Fresh, Steered

LEMMA NothingIsRemembered ==
    ASSUME NEW s, since[s] = Unseen, recent[s] = <<>>, Len(rows) \in Nat
    PROVE  Remembers(s)
<1>1. since[s].rows = 0 /\ Len(recent[s]) = 0
  BY DEF Unseen
<1> QED
  BY <1>1, SessionPromptAssumption DEF Remembers

LEMMA InitRests == Init => RestInv
<1> SUFFICES ASSUME Init PROVE RestInv
  OBVIOUS
<1>1. \A s \in Session : Remembers(s)
  BY NothingIsRemembered DEF Init
<1>2. \A s \in Session : ~Prompted(s)
  BY DEF Init, Prompted
<1> QED
  BY <1>1, <1>2 DEF RestInv

(* The step that reads the rows.                                           *)
LEMMA QueryRemembers ==
    ASSUME COOLDOWN <= LIMIT, IInv, NEW s \in Session, QueryRecent(s)
    PROVE  Remembers(s)'
<1>1. PICK S : rows \in Seq(S)
  BY DEF IInv
<1>2. since'[s].rows = Len(rows) /\ recent'[s] = RecentDomains /\ rows' = rows
  BY DEF QueryRecent, IInv, Typed
<1>3. Len(rows) \in Nat /\ Len(recent'[s]) <= LIMIT
  BY <1>1, <1>2, RecentIsTyped
<1>4. ASSUME NEW i \in 1 .. Len(rows), InCooldown(i, Len(rows))
      PROVE  \E k \in DOMAIN recent'[s] : recent'[s][k] = rows[i].theme
  BY <1>1, <1>2, <1>4, RecentCoversTheCooldown
<1>5. \A i : InCooldown(i, since[s].rows)' <=> InCooldown(i, Len(rows))
  BY <1>2 DEF InCooldown
<1> QED
  BY <1>2, <1>3, <1>4, <1>5 DEF Remembers, Listed

(* The step that builds the prompt.                                        *)
LEMMA BuildIsFresh ==
    ASSUME IInv, NEW s \in Session, build_session_prompt(s)
    PROVE  Fresh(s)'
<1> DEFINE ref == request[s].handoff
           cfg == parse_conversation_config(request[s])
<1>1. PICK choice \in ThemesFor(s, placed) :
        prompt' = [prompt EXCEPT ![s] =
            <<render(snapshot[s], choice[1], choice[2], FirstBlock(placed, ref), ref)>>]
  BY DEF build_session_prompt, is_calibrated
<1>2. /\ prompt'[s][1].theme = choice[1]
      /\ prompt'[s][1].first = FirstBlock(placed, ref)
  BY <1>1 DEF render, IInv, Typed
<1>3. recent' = recent /\ request' = request /\ placed \in BOOLEAN
  BY DEF build_session_prompt, IInv, Typed
<1>4. ASSUME FirstBlock(placed, ref) = "none", ~Steered(s)
      PROVE  choice[1] \notin Window(recent[s], COOLDOWN)
  <2>1. placed
    BY <1>3, <1>4 DEF FirstBlock
  <2>2. ref = None /\ cfg.mode = "open" /\ cfg.topic = None
    BY <1>4 DEF Steered, parse_conversation_config, VALID_MODES
  <2>3. choice \in {<<t, "open">> : t \in get_session_theme(POOL[snapshot[s]], recent[s], COOLDOWN)}
    BY <1>1, <2>1, <2>2 DEF ThemesFor
  <2>4. PICK t \in get_session_theme(POOL[snapshot[s]], recent[s], COOLDOWN) : choice = <<t, "open">>
    BY <2>3
  <2>5. snapshot[s] \in BANDS /\ IsSequence(recent[s])
    BY DEF IInv, Typed
  <2>6. t \notin Window(recent[s], COOLDOWN)
    BY <2>4, <2>5, PoolIsNeverExhausted
  <2> QED
    BY <2>4, <2>6
<1>5. Steered(s)' = Steered(s)
  BY <1>3 DEF Steered
<1> QED
  BY <1>2, <1>3, <1>4, <1>5 DEF Fresh

(* What a step leaves to the sessions it is not about.                     *)
Others(s) ==
    \A t \in Session \ {s} :
        /\ since'[t] = since[t] /\ recent'[t] = recent[t]
        /\ prompt'[t] = prompt[t] /\ request'[t] = request[t]
        /\ Prompted(t)' <=> Prompted(t)

RowsGrow ==
    /\ Len(rows) \in Nat /\ Len(rows') \in Nat /\ Len(rows') >= Len(rows)
    /\ \A i \in 1 .. Len(rows) : rows'[i] = rows[i]

LEMMA RowsOnlyGrow ==
    ASSUME IInv, NEW row, (rows' = rows) \/ (rows' = Append(rows, row))
    PROVE  RowsGrow
<1>1. PICK S : rows \in Seq(S)
  BY DEF IInv
<1>2. CASE rows' = rows
  BY <1>1, <1>2 DEF RowsGrow
<1>3. CASE rows' = Append(rows, row)
  <2>1. rows \in Seq(S \cup {row}) /\ row \in S \cup {row}
    BY <1>1
  <2>2. /\ Len(rows) \in Nat /\ Len(rows') = Len(rows) + 1
        /\ \A i \in 1 .. Len(rows) : rows'[i] = rows[i]
    BY <1>3, <2>1
  <2> QED
    BY <2>2 DEF RowsGrow
<1> QED
  BY <1>2, <1>3

LEMMA OthersRest ==
    ASSUME IInv, RestInv, NEW s \in Session, Others(s), RowsGrow,
           Remembers(s)', Prompted(s)' => Fresh(s)'
    PROVE  RestInv'
<1>1. PICK S : rows \in Seq(S)
  BY DEF IInv
<1>2. \A t \in Session \ {s} : Remembers(t)'
  BY <1>1, MemoryStays DEF Others, RowsGrow, RestInv
<1>3. \A t \in Session \ {s} : Prompted(t)' => Fresh(t)'
  BY FreshStays DEF Others, RestInv
<1> QED
  BY <1>2, <1>3 DEF RestInv

LEMMA StepRests ==
    ASSUME COOLDOWN <= LIMIT
    PROVE  IInv /\ RestInv /\ [Next]_vars => RestInv'
<1> SUFFICES ASSUME IInv, RestInv, [Next]_vars PROVE RestInv'
  OBVIOUS
<1>0. PICK S : rows \in Seq(S)
  BY DEF IInv
<1>s. ASSUME NEW s \in Session, RowsGrow, since'[s] = since[s], recent'[s] = recent[s]
      PROVE  Remembers(s)'
  BY <1>0, <1>s, MemoryStays DEF RowsGrow, RestInv
<1>1. ASSUME NEW s \in Session, NEW r \in REQUESTS, Connect(s, r)
      PROVE  RestInv'
  <2>1. Others(s) /\ ~Prompted(s)'
    BY <1>1 DEF Connect, Others, Prompted, IInv, Typed
  <2>2. RowsGrow
    BY <1>1, RowsOnlyGrow DEF Connect
  <2>3. Remembers(s)'
    <3>1. since'[s].rows = since[s].rows /\ recent' = recent /\ rows' = rows
      BY <1>1 DEF Connect, IInv, Typed
    <3>2. Remembers(s)
      BY DEF RestInv
    <3>3. \A i \in 1 .. since'[s].rows : InCooldown(i, since[s].rows)' => InCooldown(i, since[s].rows)
      BY <3>1 DEF InCooldown
    <3> QED
      BY <3>1, <3>2, <3>3 DEF Remembers, Listed
  <2> QED
    BY <2>1, <2>2, <2>3, OthersRest
<1>2. ASSUME NEW s \in Session, QueryRecent(s) PROVE RestInv'
  <2>1. Others(s) /\ ~Prompted(s)'
    BY <1>2 DEF QueryRecent, Others, Prompted, IInv, Typed
  <2>2. RowsGrow
    BY <1>2, RowsOnlyGrow DEF QueryRecent
  <2>3. Remembers(s)'
    BY <1>2, QueryRemembers
  <2> QED
    BY <2>1, <2>2, <2>3, OthersRest
<1>3. ASSUME NEW s \in Session, ReadProfile(s) PROVE RestInv'
  <2>1. Others(s) /\ ~Prompted(s)'
    BY <1>3 DEF ReadProfile, Others, Prompted, IInv, Typed
  <2>2. RowsGrow
    BY <1>3, RowsOnlyGrow DEF ReadProfile
  <2>3. Remembers(s)'
    BY <1>3, <1>s, <2>2 DEF ReadProfile
  <2> QED
    BY <2>1, <2>2, <2>3, OthersRest
<1>4. ASSUME NEW s \in Session, ReadFails(s) PROVE RestInv'
  <2>1. Others(s) /\ ~Prompted(s)'
    BY <1>4 DEF ReadFails, Others, Prompted, IInv, Typed
  <2>2. RowsGrow
    BY <1>4, RowsOnlyGrow DEF ReadFails
  <2>3. since'[s] = Unseen /\ recent'[s] = <<>>
    BY <1>4 DEF ReadFails, IInv, Typed
  <2>4. Remembers(s)'
    <3>1. since'[s].rows = 0 /\ Len(recent'[s]) = 0 /\ Len(rows') \in Nat
      BY <2>2, <2>3 DEF Unseen, RowsGrow
    <3> QED
      BY <3>1, SessionPromptAssumption DEF Remembers
  <2> QED
    BY <2>1, <2>2, <2>4, OthersRest
<1>5. ASSUME NEW s \in Session, build_session_prompt(s) PROVE RestInv'
  <2>1. Others(s)
    BY <1>5 DEF build_session_prompt, Others, Prompted, IInv, Typed
  <2>2. RowsGrow
    BY <1>5, RowsOnlyGrow DEF build_session_prompt
  <2>3. Remembers(s)'
    BY <1>5, <1>s, <2>2 DEF build_session_prompt
  <2> QED
    BY <1>5, <2>1, <2>2, <2>3, BuildIsFresh, OthersRest
<1>6. ASSUME NEW s \in Session, StartSession(s) PROVE RestInv'
  <2>1. Others(s) /\ Prompted(s)
    BY <1>6 DEF StartSession, Others, Prompted, IInv, Typed
  <2>2. RowsGrow
    BY <1>6, RowsOnlyGrow DEF StartSession
  <2>3. Remembers(s)'
    BY <1>6, <1>s, <2>2 DEF StartSession
  <2>4. Fresh(s)'
    BY <1>6, <2>1, FreshStays DEF StartSession, RestInv
  <2> QED
    BY <2>1, <2>2, <2>3, <2>4, OthersRest
<1>7. ASSUME NEW s \in Session, StartFails(s) PROVE RestInv'
  <2>1. Others(s) /\ Prompted(s)
    BY <1>7 DEF StartFails, Others, Prompted, IInv, Typed
  <2>2. RowsGrow
    BY <1>7, RowsOnlyGrow DEF StartFails
  <2>3. Remembers(s)'
    BY <1>7, <1>s, <2>2 DEF StartFails
  <2>4. Fresh(s)'
    BY <1>7, <2>1, FreshStays DEF StartFails, RestInv
  <2> QED
    BY <2>1, <2>2, <2>3, <2>4, OthersRest
<1>8. ASSUME NEW s \in Session, InsertTurn(s) PROVE RestInv'
  <2>1. Others(s) /\ Prompted(s)
    BY <1>8 DEF InsertTurn, mine, Others, Prompted
  <2>2. RowsGrow
    BY <1>8, RowsOnlyGrow DEF InsertTurn
  <2>3. Remembers(s)'
    BY <1>8, <1>s, <2>2 DEF InsertTurn, mine
  <2>4. Fresh(s)'
    BY <1>8, <2>1, FreshStays DEF InsertTurn, mine, RestInv
  <2> QED
    BY <2>1, <2>2, <2>3, <2>4, OthersRest
<1>9. ASSUME NEW s \in Session, EndSession(s) PROVE RestInv'
  <2>1. Others(s) /\ ~Prompted(s)'
    BY <1>9 DEF EndSession, Others, Prompted, IInv, Typed
  <2>2. RowsGrow
    BY <1>9, RowsOnlyGrow DEF EndSession
  <2>3. since'[s] = Unseen /\ recent'[s] = <<>>
    BY <1>9 DEF EndSession, IInv, Typed
  <2>4. Remembers(s)'
    <3>1. since'[s].rows = 0 /\ Len(recent'[s]) = 0 /\ Len(rows') \in Nat
      BY <2>2, <2>3 DEF Unseen, RowsGrow
    <3> QED
      BY <3>1, SessionPromptAssumption DEF Remembers
  <2> QED
    BY <2>1, <2>2, <2>4, OthersRest
<1>10. CASE UNCHANGED vars
  <2>1. RowsGrow
    BY <1>10, RowsOnlyGrow DEF vars
  <2>2. \A t \in Session : Remembers(t)'
    BY <1>10, <1>s, <2>1 DEF vars, mine
  <2>3. \A t \in Session : Prompted(t)' => Fresh(t)'
    BY <1>10, FreshStays DEF vars, mine, Prompted, RestInv
  <2> QED
    BY <2>2, <2>3 DEF RestInv
<1> QED
  BY <1>1, <1>2, <1>3, <1>4, <1>5, <1>6, <1>7, <1>8, <1>9, <1>10 DEF Next, Handler

(* Where the query returns as many rows as the cooldown looks at (three    *)
(* and three in the code's defaults), a theme the tutor picks is none of   *)
(* those of the rows in the cooldown, whatever failed, overlapped, was     *)
(* steered or left a row without a theme.  With a shorter cooldown the     *)
(* window keeps the wrong end of the list, and with a longer one the rows  *)
(* beyond the query are not rested.                                        *)
THEOREM PickedThemesAreRested ==
    ASSUME COOLDOWN = LIMIT
    PROVE  Spec => []ThemeIsRested
<1>1. COOLDOWN <= LIMIT /\ COOLDOWN \in Nat
  BY SessionPromptAssumption
<1>2. ASSUME IInv, RestInv
      PROVE  ThemeIsRested
  <2>1. SUFFICES ASSUME NEW s \in Session, Prompted(s), prompt[s][1].first = "none", ~Steered(s),
                        NEW i \in 1 .. since[s].rows, InCooldown(i, since[s].rows)
                 PROVE  rows[i].theme # prompt[s][1].theme
    BY DEF ThemeIsRested
  <2>2. prompt[s][1].theme \notin Window(recent[s], COOLDOWN)
    BY <1>2, <2>1 DEF RestInv, Fresh
  <2>3. PICK k \in DOMAIN recent[s] : recent[s][k] = rows[i].theme
    BY <1>2, <2>1 DEF RestInv, Remembers, Listed
  <2>4. COOLDOWN # 0
    <3>1. k \in 1 .. Len(recent[s]) /\ Len(recent[s]) <= LIMIT /\ Len(recent[s]) \in Nat
      BY <1>2, <2>3 DEF IInv, Typed, IsSequence, RestInv, Remembers
    <3> QED
      BY <1>1, <3>1
  <2>5. IsSequence(recent[s]) /\ Len(recent[s]) <= COOLDOWN
    BY <1>2 DEF IInv, Typed, RestInv, Remembers
  <2>6. recent[s][k] \in Window(recent[s], COOLDOWN)
    BY <1>1, <2>3, <2>4, <2>5, WindowKeepsAll
  <2> QED
    BY <2>2, <2>3, <2>6
<1>3. IInv /\ RestInv /\ [Next]_vars => RestInv'
  BY <1>1, StepRests
<1> QED
  BY <1>2, <1>3, InitEstablishes, InitRests, StepPreserves, PTL DEF Spec
=============================================================================
