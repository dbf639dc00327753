---------------------------- MODULE SessionProofs ----------------------------
(***************************************************************************)
(* The two ends of a voice session: theorems about SessionServer, for any  *)
(* number of connections (the safety of the slot, and that every step of   *)
(* the handlers is a step of the policy SessionSlot states), and about     *)
(* VoiceClient, for any number of screens (what a screen that is gone      *)
(* leaves behind, and that the one App shows has a connection).  Neither   *)
(* end assumes anything of the other.                                      *)
(***************************************************************************)
EXTENDS SessionServer, VoiceClient, TLAPS

(* The registration names a session that went through _install_active and  *)
(* did not give it up.                                                     *)
HolderIsInstalled ==
    active # None => phase[active] \notin {"new", "preparing", "ending"}

SInv ==
    /\ TypeOK
    /\ HolderIsInstalled
    /\ SlotIsNewest
    /\ NoPipelineIsForgotten

LEMMA InitSInv == Init => SInv
<1>. SUFFICES ASSUME Init PROVE SInv
  OBVIOUS
<1>. USE DEF Init
<1>1. TypeOK BY DEF TypeOK, Phases, Evicting
<1>2. HolderIsInstalled BY DEF HolderIsInstalled
<1>3. SlotIsNewest BY DEF SlotIsNewest
<1>4. NoPipelineIsForgotten BY DEF NoPipelineIsForgotten, Installed, Phases
<1>. QED BY <1>1, <1>2, <1>3, <1>4 DEF SInv

LEMMA StepSInv ==
    ASSUME SInv, [Next]_vars
    PROVE  SInv'
<1>. USE SessionServerAssumption
     DEF SInv, TypeOK, HolderIsInstalled, SlotIsNewest, NoPipelineIsForgotten,
         Phases, Installed, Evicting, Silenced
<1>1. CASE Ready BY <1>1 DEF Ready
<1>2. ASSUME NEW c \in Conn, Refuse(c) PROVE SInv'
  BY <1>2 DEF Refuse, Goto
<1>3. ASSUME NEW c \in Conn, Accept(c) PROVE SInv'
  BY <1>3 DEF Accept, Goto
<1>4. ASSUME NEW c \in Conn, PrepareFails(c) PROVE SInv'
  BY <1>4 DEF PrepareFails, Leave, Goto
<1>5. ASSUME NEW c \in Conn, Install(c) PROVE SInv'
  BY <1>5 DEF Install, Goto
<1>6. ASSUME NEW c \in Conn, CancelIncumbent(c) PROVE SInv'
  BY <1>6 DEF CancelIncumbent, Goto
<1>7. ASSUME NEW c \in Conn, CloseIncumbent(c) PROVE SInv'
  BY <1>7 DEF CloseIncumbent, Goto
<1>8. ASSUME NEW c \in Conn, StartRow(c) PROVE SInv'
  BY <1>8 DEF StartRow, Goto
<1>9. ASSUME NEW c \in Conn, MarkStarted(c) PROVE SInv'
  BY <1>9 DEF MarkStarted, Goto
<1>10. ASSUME NEW c \in Conn, RunEnds(c) PROVE SInv'
  BY <1>10 DEF RunEnds, Goto
<1>11. ASSUME NEW c \in Conn, EndSession(c) PROVE SInv'
  BY <1>11 DEF EndSession, Leave, Goto
<1>12. ASSUME NEW c \in Conn, ClientGone(c) PROVE SInv'
  BY <1>12 DEF ClientGone
<1>13. CASE Restart BY <1>13 DEF Restart
<1>14. CASE UNCHANGED vars BY <1>14 DEF vars
<1>. QED
  BY <1>1, <1>2, <1>3, <1>4, <1>5, <1>6, <1>7, <1>8, <1>9, <1>10, <1>11, <1>12,
     <1>13, <1>14
  DEF Next, Handler

LEMMA Invariance == Spec => []SInv
BY InitSInv, StepSInv, PTL DEF Spec

(* Every variable has its type, whoever connects, leaves or evicts, and    *)
(* whenever the server restarts.                                           *)
THEOREM TypeCorrect == Spec => []TypeOK
BY Invariance, PTL DEF SInv

(* The slot is the newest session's until that session is over, for any    *)
(* number of connections and any interleaving (session.py:145-164).        *)
THEOREM NewestHoldsSlot == Spec => []SlotIsNewest
BY Invariance, PTL DEF SInv

(* Whoever lost the slot has been told, or is about to be                  *)
(* (session.py:167-175, 273-278).                                          *)
THEOREM NobodyForgotten == Spec => []NoPipelineIsForgotten
BY Invariance, PTL DEF SInv

-----------------------------------------------------------------------------
(* The refinement, its safety part.                                        *)

(* Where a connection stands, one case at a time.                          *)
LEMMA PlaceOf ==
    ASSUME TypeOK, NEW c \in Conn
    PROVE  /\ phase[c] \in {"new", "preparing"} => placeBar[c] = "waiting"
           /\ phase[c] \in {"ending", "closed"} => placeBar[c] = "over"
           /\ phase[c] \in Installed \ {"ending"} =>
                placeBar[c] = IF active = c THEN "holding" ELSE "superseded"
BY DEF TypeOK, placeBar, placeOf, Installed, Phases

LEMMA PlacesAreAFunction == placeBar = [c \in Conn |-> placeBar[c]]
BY DEF placeBar

LEMMA NextPlacesAreAFunction == placeBar' = [c \in Conn |-> placeBar'[c]]
BY DEF placeBar

(* A step that moves no connection is a stutter of the policy.             *)
LEMMA SamePlaces ==
    ASSUME TypeOK, TypeOK', \A c \in Conn : placeBar'[c] = placeBar[c]
    PROVE  placeBar' = placeBar
BY PlacesAreAFunction, NextPlacesAreAFunction

(* A step that only ends connection c's wait or session.                   *)
LEMMA OnlyEnds ==
    ASSUME TypeOK, TypeOK', NEW c \in Conn,
           placeBar'[c] = "over",
           \A d \in Conn \ {c} : placeBar'[d] = placeBar[d]
    PROVE  Slot!Next \/ placeBar' = placeBar
<1>1. CASE placeBar[c] = "over" BY <1>1, SamePlaces
<1>2. CASE placeBar[c] # "over"
  <2>1. placeBar' = [placeBar EXCEPT ![c] = "over"]
    BY PlacesAreAFunction, NextPlacesAreAFunction
  <2>2. Slot!End(c) BY <1>2, <2>1 DEF Slot!End
  <2>. QED BY <2>2 DEF Slot!Next
<1>. QED BY <1>1, <1>2

LEMMA StepRefines ==
    ASSUME SInv, SInv', [Next]_vars
    PROVE  [Slot!Next]_placeBar
<1>. DEFINE Goal == Slot!Next \/ placeBar' = placeBar
<1>. SUFFICES Goal
  OBVIOUS
<1>1. TypeOK /\ TypeOK' /\ HolderIsInstalled /\ HolderIsInstalled'
  BY DEF SInv
<1>2. /\ phase \in [Conn -> Phases] /\ phase' \in [Conn -> Phases]
  BY <1>1 DEF TypeOK
<1>3. ASSUME UNCHANGED active, NEW c \in Conn,
             phase[c] \in {"new", "preparing"} <=> phase'[c] \in {"new", "preparing"},
             phase[c] \in {"ending", "closed"} <=> phase'[c] \in {"ending", "closed"}
      PROVE  placeBar'[c] = placeBar[c]
  BY <1>1, <1>2, <1>3 DEF placeBar, placeOf, Installed, Phases
<1>4. ASSUME UNCHANGED active, NEW c \in Conn,
             \A d \in Conn \ {c} : phase'[d] = phase[d],
             phase'[c] \in {"ending", "closed"}
      PROVE  Goal
  <2>1. placeBar'[c] = "over" BY <1>1, <1>4 DEF placeBar, placeOf, Installed, Phases
  <2>2. \A d \in Conn \ {c} : placeBar'[d] = placeBar[d] BY <1>3, <1>4
  <2>. QED BY <1>1, <2>1, <2>2, OnlyEnds
<1>5. ASSUME UNCHANGED active, NEW c \in Conn,
             \A d \in Conn \ {c} : phase'[d] = phase[d],
             phase[c] \in {"new", "preparing"} <=> phase'[c] \in {"new", "preparing"},
             phase[c] \in {"ending", "closed"} <=> phase'[c] \in {"ending", "closed"}
      PROVE  Goal
  BY <1>1, <1>3, <1>5, SamePlaces
<1>6. CASE Ready
  BY <1>1, <1>3, <1>6, SamePlaces DEF Ready
<1>7. ASSUME NEW c \in Conn, Refuse(c) \/ PrepareFails(c) \/ EndSession(c) PROVE Goal
  BY <1>2, <1>4, <1>7 DEF Refuse, PrepareFails, EndSession, Leave, Goto
<1>8. ASSUME NEW c \in Conn, Accept(c) \/ StartRow(c) \/ MarkStarted(c) PROVE Goal
  BY <1>2, <1>5, <1>8 DEF Accept, StartRow, MarkStarted, Goto
<1>9. ASSUME NEW c \in Conn, CancelIncumbent(c) PROVE Goal
  BY <1>2, <1>5, <1>9 DEF CancelIncumbent, Goto
<1>10. ASSUME NEW c \in Conn, CloseIncumbent(c) PROVE Goal
  <2>1. CASE phase[c] = "closing"
    BY <1>2, <1>5, <1>10, <2>1 DEF CloseIncumbent, Goto
  <2>2. CASE phase[c] = "failing"
    BY <1>2, <1>4, <1>10, <2>2 DEF CloseIncumbent, Goto
  <2>. QED BY <1>10, <2>1, <2>2 DEF CloseIncumbent
<1>11. ASSUME NEW c \in Conn, Install(c) PROVE Goal
  <2>1. /\ phase[c] = "preparing" /\ active' = c
        /\ phase'[c] \in {"starting", "evicting"}
        /\ \A d \in Conn \ {c} : phase'[d] = phase[d]
    BY <1>2, <1>11 DEF Install, Goto
  <2>2. placeBar[c] = "waiting" /\ placeBar'[c] = "holding"
    BY <1>1, <2>1, PlaceOf DEF placeBar, placeOf, Installed, Phases
  <2>3. ASSUME NEW d \in Conn \ {c}
        PROVE  placeBar'[d] = IF placeBar[d] = "holding" THEN "superseded"
                              ELSE placeBar[d]
    BY <1>1, <1>2, <2>1, SessionServerAssumption DEF placeBar, placeOf, Installed, Phases
  <2>4. placeBar' = [d \in Conn |-> IF d = c THEN "holding"
                                    ELSE IF placeBar[d] = "holding" THEN "superseded"
                                    ELSE placeBar[d]]
    BY <2>2, <2>3, NextPlacesAreAFunction
  <2>5. Slot!Take(c) BY <2>2, <2>4 DEF Slot!Take
  <2>. QED BY <2>5 DEF Slot!Next
<1>12. ASSUME NEW c \in Conn, RunEnds(c) PROVE Goal
  <2>1. /\ phase[c] = "running" /\ phase'[c] = "ending"
        /\ active' = (IF active = c THEN None ELSE active)
        /\ \A d \in Conn \ {c} : phase'[d] = phase[d]
    BY <1>2, <1>12 DEF RunEnds, Goto
  <2>2. placeBar'[c] = "over" BY <2>1 DEF placeBar, placeOf, Installed, Phases
  <2>3. ASSUME NEW d \in Conn \ {c} PROVE placeBar'[d] = placeBar[d]
    BY <1>2, <2>1, SessionServerAssumption DEF placeBar, placeOf, Installed, Phases
  <2>. QED BY <1>1, <2>2, <2>3, OnlyEnds
<1>13. ASSUME NEW c \in Conn, ClientGone(c) PROVE Goal
  BY <1>1, <1>3, <1>13, SamePlaces DEF ClientGone
<1>14. CASE Restart
  <2>. DEFINE lost == {c \in Conn : phase[c] = "preparing"}
  <2>1. ASSUME NEW c \in Conn
        PROVE  placeBar'[c] = IF placeBar[c] = "waiting" /\ c \notin lost
                              THEN "waiting" ELSE "over"
    BY <1>2, <1>14 DEF Restart, placeBar, placeOf, Installed, Phases
  <2>2. placeBar' = [c \in Conn |-> IF placeBar[c] = "waiting" /\ c \notin lost
                                    THEN "waiting" ELSE "over"]
    BY <2>1, NextPlacesAreAFunction
  <2>3. lost \in SUBSET Conn OBVIOUS
  <2>4. Slot!Restart BY <2>2, <2>3 DEF Slot!Restart
  <2>. QED BY <2>4 DEF Slot!Next
<1>15. CASE UNCHANGED vars
  BY <1>1, <1>3, <1>15, SamePlaces DEF vars
<1>. QED
  BY <1>6, <1>7, <1>8, <1>9, <1>10, <1>11, <1>12, <1>13, <1>14, <1>15
  DEF Next, Handler

(* Every step of the handlers is a step of the policy, or none: the newest *)
(* session takes the slot at once, and a session that lost it never holds  *)
(* it again.                                                               *)
THEOREM RefinesSlot == Spec => Slot!Init /\ [][Slot!Next]_placeBar
<1>1. Init => Slot!Init
  BY DEF Init, Slot!Init, placeBar, placeOf, Installed, Phases
<1>2. SInv /\ SInv' /\ [Next]_vars => [Slot!Next]_placeBar
  BY StepRefines
<1>. QED BY <1>1, <1>2, Invariance, PTL DEF Spec
-----------------------------------------------------------------------------
(* The client.                                                             *)

(* Nothing is acquired, and nothing will be.                               *)
Quiet(s) ==
    /\ connect[s] \in {"none", "done", "failed"}
    /\ stream[s] # "live" /\ context[s] # "open"
    /\ socket[s] \notin {"connecting", "open"}

(* A screen that is not shown is quiet, unless it was left early.          *)
Released == \A s \in Screen : s = screen \/ s \in early \/ Quiet(s)

(* The socket is made last.                                                *)
SocketIsLast == \A s \in Screen : socket[s] # "none" => connect[s] = "done"

(* What was not started has nothing.                                       *)
Untouched ==
    \A s \in Screen : s > started =>
        /\ connect[s] = "none" /\ stream[s] = "none" /\ context[s] = "none"
        /\ socket[s] = "none" /\ ~disposed[s]

ClientInv ==
    /\ ClientTypeOK /\ screen <= started
    /\ Released /\ SocketIsLast /\ Untouched /\ ScreenHasItsConnection

LEMMA ClientInitInv == ClientInit => ClientInv
<1> SUFFICES ASSUME ClientInit PROVE ClientInv
  OBVIOUS
<1> USE VoiceClientAssumption DEF ClientInit, Screen
<1>1. ClientTypeOK
  BY DEF ClientTypeOK
<1>2. Released
  BY DEF Released, Quiet
<1> QED
  BY <1>1, <1>2 DEF ClientInv, SocketIsLast, Untouched, ScreenHasItsConnection

(* disconnect() of the shown screen leaves it quiet or marks it early.     *)
LEMMA DisconnectReleases ==
    ASSUME ClientInv, NEW x \in Screen, NEW so, NEW t, NEW c, disconnect(x, so, t, c),
           so \in [Screen -> {"none", "connecting", "open", "closing", "ended", "lost"}],
           t = stream, c = context,
           connect' \in [Screen -> {"none", "microphone", "worklet", "done", "failed"}],
           so[x] # "none" => connect'[x] = "done"
    PROVE  x \in early' \/ Quiet(x)'
<1>1. CASE so[x] \in {"none", "connecting"} /\ connect'[x] # "failed"
  BY <1>1 DEF disconnect
<1>2. CASE so[x] \notin {"none", "connecting"} \/ connect'[x] = "failed"
  <2>1. socket'[x] = IF so[x] = "open" THEN "closing" ELSE so[x]
    BY DEF disconnect, Ended
  <2>2. stream'[x] = IF stream[x] = "live" THEN "stopped" ELSE stream[x]
    BY DEF disconnect, Ended, ClientInv, ClientTypeOK
  <2>3. context'[x] = IF context[x] = "open" THEN "closed" ELSE context[x]
    BY DEF disconnect, Ended, ClientInv, ClientTypeOK
  <2>4. so[x] # "connecting" /\ connect'[x] \in {"none", "done", "failed"}
    BY <1>2
  <2> QED
    BY <2>1, <2>2, <2>3, <2>4 DEF Quiet
<1> QED
  BY <1>1, <1>2

(* onExit, whoever calls it: so is the socket with the event's change, and *)
(* connect may have failed at the same time.                               *)
LEMMA ExitPreserves ==
    ASSUME ClientInv, NEW s \in Screen, NEW so, onExit(so, stream, context),
           UNCHANGED <<started, practice>>,
           completion' \in [Screen -> {"idle", "sending", "done", "failed"}],
           \/ so = socket /\ connect' = connect
           \/ /\ so = socket /\ connect' = [connect EXCEPT ![s] = "failed"]
              /\ connect[s] \in {"microphone", "worklet"}
           \/ /\ so = [socket EXCEPT ![s] = "lost"] /\ connect' = connect
              /\ socket[s] \in {"connecting", "open", "closing"}
    PROVE  ClientInv'
<1> USE VoiceClientAssumption DEF Screen
<1> DEFINE States == {"none", "connecting", "open", "closing", "ended", "lost"}
<1>1. /\ so \in [Screen -> States]
      /\ connect' \in [Screen -> {"none", "microphone", "worklet", "done", "failed"}]
  BY DEF ClientInv, ClientTypeOK
<1>2. \A r \in Screen : so[r] # "none" => connect'[r] = "done"
  BY DEF ClientInv, ClientTypeOK, SocketIsLast
<1>3. \A r \in Screen : r > started =>
          so[r] = "none" /\ connect'[r] = "none"
  BY DEF ClientInv, ClientTypeOK, Untouched
<1>4. CASE screen = 0
  <2>1. /\ screen' = 0 /\ socket' = so /\ UNCHANGED <<stream, context, disposed, early>>
    BY <1>4 DEF onExit
  <2>2. ClientTypeOK'
    BY <1>1, <2>1 DEF ClientInv, ClientTypeOK
  <2>3. Released'
    BY <1>1, <1>4, <2>1 DEF Released, Quiet, ClientInv, ClientTypeOK
  <2>4. SocketIsLast' /\ Untouched' /\ ScreenHasItsConnection' /\ screen' <= started'
    BY <1>2, <1>3, <2>1 DEF ClientInv, ClientTypeOK, SocketIsLast, Untouched, ScreenHasItsConnection
  <2> QED
    BY <2>2, <2>3, <2>4 DEF ClientInv
<1>5. CASE screen # 0
  <2>1. screen \in Screen /\ screen' = 0 /\ disconnect(screen, so, stream, context)
    BY <1>5 DEF onExit, ClientInv, ClientTypeOK
  <2>2. ClientTypeOK'
    BY <1>1, <2>1 DEF disconnect, Ended, ClientInv, ClientTypeOK
  <2>3. \A r \in Screen : r # screen =>
          /\ socket'[r] = so[r] /\ stream'[r] = stream[r] /\ context'[r] = context[r]
          /\ disposed'[r] = disposed[r]
    BY <1>1, <2>1 DEF disconnect, ClientInv, ClientTypeOK
  <2>4. early \subseteq early'
    BY <2>1 DEF disconnect
  <2>5. Released'
    <3>1. ASSUME NEW r \in Screen, r # screen PROVE r \in early' \/ Quiet(r)'
      BY <1>1, <2>3, <2>4, <3>1 DEF Released, Quiet, ClientInv, ClientTypeOK
    <3>2. ASSUME NEW r \in Screen, r = screen PROVE r \in early' \/ Quiet(r)'
      BY <1>1, <1>2, <2>1, <3>2, DisconnectReleases
    <3> QED
      BY <3>1, <3>2 DEF Released
  <2>6. SocketIsLast'
    <3>1. ASSUME NEW r \in Screen, socket'[r] # "none" PROVE so[r] # "none"
      BY <1>1, <2>1, <3>1 DEF disconnect, Ended
    <3> QED
      BY <1>2, <3>1 DEF SocketIsLast
  <2>7. Untouched' /\ screen' <= started'
    BY <1>1, <1>3, <2>1, <2>3 DEF ClientInv, ClientTypeOK, Untouched
  <2> QED
    BY <2>1, <2>2, <2>5, <2>6, <2>7 DEF ClientInv, ScreenHasItsConnection
<1> QED
  BY <1>4, <1>5

LEMMA ClientStepInv == ClientInv /\ [ClientNext]_clientVars => ClientInv'
<1> SUFFICES ASSUME ClientInv, [ClientNext]_clientVars PROVE ClientInv'
  OBVIOUS
<1> USE VoiceClientAssumption
<1>0. Screen = 1 .. MAX_SCREENS
  BY DEF Screen
<1>1. ASSUME NEW handoff \in BOOLEAN, Start(handoff) PROVE ClientInv'
  BY <1>1, <1>0 DEF Start, ClientInv, ClientTypeOK, Released, Quiet, SocketIsLast, Untouched,
                    ScreenHasItsConnection
<1>2. ASSUME NEW s \in Screen, GrantMicrophone(s) PROVE ClientInv'
  BY <1>2, <1>0 DEF GrantMicrophone, ClientInv, ClientTypeOK, Released, Quiet, SocketIsLast, Untouched,
                    ScreenHasItsConnection
<1>3. ASSUME NEW s \in Screen, LoadWorklet(s) PROVE ClientInv'
  BY <1>3, <1>0 DEF LoadWorklet, ClientInv, ClientTypeOK, Released, Quiet, SocketIsLast, Untouched,
                    ScreenHasItsConnection
<1>4. ASSUME NEW s \in Screen, ConnectFails(s) PROVE ClientInv'
  BY <1>4, ExitPreserves DEF ConnectFails, ClientInv, ClientTypeOK
<1>5. ASSUME NEW s \in Screen, SocketOpens(s) PROVE ClientInv'
  BY <1>5, <1>0 DEF SocketOpens, ClientInv, ClientTypeOK, Released, Quiet, SocketIsLast, Untouched,
                    ScreenHasItsConnection
<1>6. ASSUME NEW s \in Screen, SocketDies(s) PROVE ClientInv'
  BY <1>6, ExitPreserves DEF SocketDies, ClientInv, ClientTypeOK
<1>7. ASSUME NEW s \in Screen, SocketEnds(s) PROVE ClientInv'
  BY <1>7, <1>0 DEF SocketEnds, ClientInv, ClientTypeOK, Released, Quiet, SocketIsLast, Untouched,
                    ScreenHasItsConnection
<1>8. ASSUME NEW s \in Screen, LeaveScreen(s) PROVE ClientInv'
  BY <1>8, ExitPreserves DEF LeaveScreen, ClientInv, ClientTypeOK
<1>9. ASSUME NEW s \in Screen, Finish(s) PROVE ClientInv'
  BY <1>9, <1>0 DEF Finish, connection, ClientInv, ClientTypeOK, Released, Quiet, SocketIsLast, Untouched,
                    ScreenHasItsConnection
<1>10. ASSUME NEW s \in Screen, CompletionAnswers(s) PROVE ClientInv'
  BY <1>10, ExitPreserves DEF CompletionAnswers, ClientInv, ClientTypeOK
<1>11. CASE UNCHANGED clientVars
  BY <1>11, <1>0 DEF clientVars, ClientInv, ClientTypeOK, Released, Quiet, SocketIsLast, Untouched,
                     ScreenHasItsConnection
<1> QED
  BY <1>1, <1>2, <1>3, <1>4, <1>5, <1>6, <1>7, <1>8, <1>9, <1>10, <1>11 DEF ClientNext, Event

(* Every variable keeps its type.                                          *)
THEOREM ClientTypeCorrect == ClientSpec => []ClientTypeOK
<1>1. ClientInv => ClientTypeOK
  BY DEF ClientInv
<1> QED
  BY <1>1, ClientInitInv, ClientStepInv, PTL DEF ClientSpec

(* Only a screen that was left before its socket had opened leaves a       *)
(* microphone, a context or a socket open, however many screens there are. *)
THEOREM LeakersLeftEarly == ClientSpec => []OnlyAnEarlyLeaverLeaks
<1>1. ClientInv => OnlyAnEarlyLeaverLeaks
  BY DEF ClientInv, Released, Quiet, OnlyAnEarlyLeaverLeaks
<1> QED
  BY <1>1, ClientInitInv, ClientStepInv, PTL DEF ClientSpec

(* The screen that is shown has not lost its connection.                   *)
THEOREM ConnectionOfScreen == ClientSpec => []ScreenHasItsConnection
<1>1. ClientInv => ScreenHasItsConnection
  BY DEF ClientInv
<1> QED
  BY <1>1, ClientInitInv, ClientStepInv, PTL DEF ClientSpec
=============================================================================
