---------------------------- MODULE VoiceClient ----------------------------
(***************************************************************************)
(* The voice session of the web client (web/src/voice/client.ts,           *)
(* routes/Session.tsx, App.tsx): App shows one session screen or none; a   *)
(* mounted screen has a client that acquires a microphone and a socket in  *)
(* several awaits, and unmounting disposes of it.  What was under way for  *)
(* a screen goes on after it is gone: connect() never looks at disposed,   *)
(* and every onExit, whoever calls it, closes the screen App shows then.   *)
(* The browser, the learner and the server are external.                   *)
(***************************************************************************)
EXTENDS Naturals

CONSTANT MAX_SCREENS  \* bound: sessions started

ASSUME VoiceClientAssumption == MAX_SCREENS \in Nat

Screen == 1 .. MAX_SCREENS

VARIABLES
    screen,      \* the session App shows, 0 for none
    started,     \* how many there were
    practice,    \* whether it came from a handoff
    connect,     \* how far connect() has got
    stream,      \* the microphone
    context,     \* the AudioContext
    socket,
    disposed,
    completion,  \* the state of useCompleteHandoff
    early        \* history: disposed before it had an open socket

clientVars == <<screen, started, practice, connect, stream, context, socket,
                disposed, completion, early>>
connection == <<connect, stream, context, socket>>

ClientInit ==
    /\ screen = 0 /\ started = 0
    /\ practice = [s \in Screen |-> FALSE]
    /\ connect = [s \in Screen |-> "none"]
    /\ stream = [s \in Screen |-> "none"]
    /\ context = [s \in Screen |-> "none"]
    /\ socket = [s \in Screen |-> "none"]
    /\ disposed = [s \in Screen |-> FALSE]
    /\ completion = [s \in Screen |-> "idle"]
    /\ early = {}

-----------------------------------------------------------------------------
(* Mounting and unmounting                                                 *)

Start(handoff) ==
    /\ screen = 0 /\ started < MAX_SCREENS
    /\ started' = started + 1 /\ screen' = started'
    /\ practice' = [practice EXCEPT ![started'] = handoff]
    /\ connect' = [connect EXCEPT ![started'] = "microphone"]
    /\ UNCHANGED <<stream, context, socket, disposed, completion, early>>

(* disconnect() of s, where so, t and c are its socket, stream and context *)
(* by then: only an open socket is closed, only an acquired stream stopped.*)
Ended(value, from, to) == IF value = from THEN to ELSE value

(* Mutant: a socket that has ended spares the rest.                        *)
disconnect_ReturnsEarly(s, so, t, c) ==
    /\ disposed' = [disposed EXCEPT ![s] = TRUE]
    /\ socket' = [so EXCEPT ![s] = Ended(@, "open", "closing")]
    /\ stream' = IF so[s] = "open" THEN [t EXCEPT ![s] = Ended(@, "live", "stopped")] ELSE t
    /\ context' = [c EXCEPT ![s] = Ended(@, "open", "closed")]
    /\ early' = IF so[s] \in {"none", "connecting"} /\ connect'[s] # "failed"
                THEN early \cup {s} ELSE early

disconnect(s, so, t, c) ==
    /\ disposed' = [disposed EXCEPT ![s] = TRUE]
    /\ socket' = [so EXCEPT ![s] = Ended(@, "open", "closing")]
    /\ stream' = [t EXCEPT ![s] = Ended(@, "live", "stopped")]
    /\ context' = [c EXCEPT ![s] = Ended(@, "open", "closed")]
    /\ early' = IF so[s] \in {"none", "connecting"} /\ connect'[s] # "failed"
                THEN early \cup {s} ELSE early

(* onExit: App drops its session, whichever called, and React unmounts it. *)
onExit(so, t, c) ==
    /\ screen' = 0
    /\ IF screen = 0
       THEN socket' = so /\ stream' = t /\ context' = c /\ UNCHANGED <<disposed, early>>
       ELSE disconnect(screen, so, t, c)

-----------------------------------------------------------------------------
(* connect()                                                               *)

GrantMicrophone(s) ==
    /\ connect[s] = "microphone"
    /\ connect' = [connect EXCEPT ![s] = "worklet"]
    /\ stream' = [stream EXCEPT ![s] = "live"]
    /\ context' = [context EXCEPT ![s] = "open"]
    /\ UNCHANGED <<screen, started, practice, socket, disposed, completion, early>>

(* Loaded, whether or not the context was closed in between.               *)
LoadWorklet(s) ==
    /\ connect[s] = "worklet"
    /\ connect' = [connect EXCEPT ![s] = "done"]
    /\ socket' = [socket EXCEPT ![s] = "connecting"]
    /\ UNCHANGED <<screen, started, practice, stream, context, disposed, completion, early>>

(* The permission is denied, or the worklet does not load.                 *)
ConnectFails(s) ==
    /\ connect[s] \in {"microphone", "worklet"}
    /\ connect' = [connect EXCEPT ![s] = "failed"]
    /\ onExit(socket, stream, context)
    /\ UNCHANGED <<started, practice, completion>>

-----------------------------------------------------------------------------
(* The socket                                                              *)

SocketOpens(s) ==
    /\ socket[s] = "connecting"
    /\ socket' = [socket EXCEPT ![s] = "open"]
    /\ UNCHANGED <<screen, started, practice, connect, stream, context, disposed, completion, early>>

(* Mutant: only an open socket reports its loss.                           *)
SocketDies_Open(s) ==
    /\ socket[s] \in {"connecting", "open", "closing"}
    /\ UNCHANGED <<started, practice, connect, completion>>
    /\ IF socket[s] = "open"
       THEN onExit([socket EXCEPT ![s] = "lost"], stream, context)
       ELSE socket' = [socket EXCEPT ![s] = "lost"]
            /\ UNCHANGED <<screen, stream, context, disposed, early>>

(* Refused, evicted, or lost, the closing handshake of disconnect() too:   *)
(* any code but 1000 leaves the screen.                                    *)
SocketDies(s) ==
    /\ socket[s] \in {"connecting", "open", "closing"}
    /\ UNCHANGED <<started, practice, connect, completion>>
    /\ onExit([socket EXCEPT ![s] = "lost"], stream, context)

(* A close with code 1000, of the server or of disconnect(), is ignored.   *)
SocketEnds(s) ==
    /\ socket[s] \in {"open", "closing"}
    /\ socket' = [socket EXCEPT ![s] = "ended"]
    /\ UNCHANGED <<screen, started, practice, connect, stream, context, disposed, completion, early>>

-----------------------------------------------------------------------------
(* The learner                                                             *)

LeaveScreen(s) ==
    /\ screen = s
    /\ UNCHANGED <<started, practice, connect, completion>>
    /\ onExit(socket, stream, context)

(* handleFinish: the screen stays until the request has an answer.         *)
Finish(s) ==
    /\ screen = s /\ practice[s] /\ completion[s] \notin {"sending", "done"}
    /\ completion' = [completion EXCEPT ![s] = "sending"]
    /\ UNCHANGED <<screen, started, practice, connection, disposed, early>>

(* Mutant: only a success closes.                                          *)
CompletionAnswers_Then(s) ==
    /\ completion[s] = "sending"
    /\ \E answer \in {"done", "failed"} :
         /\ completion' = [completion EXCEPT ![s] = answer]
         /\ UNCHANGED <<started, practice, connect>>
         /\ IF answer = "done" THEN onExit(socket, stream, context)
            ELSE UNCHANGED <<screen, stream, context, socket, disposed, early>>

(* Its finally runs handleClose of the screen that asked.                  *)
CompletionAnswers(s) ==
    /\ completion[s] = "sending"
    /\ \E answer \in {"done", "failed"} : completion' = [completion EXCEPT ![s] = answer]
    /\ UNCHANGED <<started, practice, connect>>
    /\ onExit(socket, stream, context)

Event(s) ==
    \/ GrantMicrophone(s) \/ LoadWorklet(s) \/ ConnectFails(s)
    \/ SocketOpens(s) \/ SocketDies(s) \/ SocketEnds(s)

ClientNext ==
    \/ \E handoff \in BOOLEAN : Start(handoff)
    \/ \E s \in Screen : Event(s) \/ LeaveScreen(s) \/ Finish(s) \/ CompletionAnswers(s)

(* Requests, permissions and handshakes end; learners and servers may not. *)
ClientFairness ==
    \A s \in Screen :
        /\ WF_clientVars(CompletionAnswers(s))
        /\ WF_clientVars(GrantMicrophone(s) \/ ConnectFails(s))
        /\ WF_clientVars(LoadWorklet(s) \/ ConnectFails(s))
        /\ WF_clientVars(SocketOpens(s) \/ (socket[s] = "connecting" /\ SocketDies(s)))
        /\ WF_clientVars(socket[s] = "closing" /\ (SocketEnds(s) \/ SocketDies(s)))

ClientSpec == ClientInit /\ [][ClientNext]_clientVars /\ ClientFairness

-----------------------------------------------------------------------------
(* Every variable has its type.                                            *)
ClientTypeOK ==
    /\ screen \in 0 .. MAX_SCREENS /\ started \in 0 .. MAX_SCREENS
    /\ practice \in [Screen -> BOOLEAN] /\ disposed \in [Screen -> BOOLEAN]
    /\ connect \in [Screen -> {"none", "microphone", "worklet", "done", "failed"}]
    /\ stream \in [Screen -> {"none", "live", "stopped"}]
    /\ context \in [Screen -> {"none", "open", "closed"}]
    /\ socket \in [Screen -> {"none", "connecting", "open", "closing", "ended", "lost"}]
    /\ completion \in [Screen -> {"idle", "sending", "done", "failed"}]
    /\ early \subseteq Screen

(* A microphone, a context or an open socket without a screen belongs to a *)
(* client that was left before its socket had opened: no other way of      *)
(* leaving, in any order with closes and answers, leaks one.               *)
OnlyAnEarlyLeaverLeaks ==
    \A s \in Screen :
        (stream[s] = "live" \/ context[s] = "open" \/ socket[s] = "open")
        => s = screen \/ s \in early

(* The screen never outlives its connection: if its connect() failed or    *)
(* its socket was lost, whoever else called onExit before, it is gone.     *)
ScreenHasItsConnection ==
    screen # 0 => /\ ~disposed[screen]
                  /\ connect[screen] # "failed" /\ socket[screen] # "lost"

(* "Terminar" ends the session, whatever La Libreta, the server or the     *)
(* learner do in between, once its request has ended.                      *)
FinishEnds ==
    \A s \in Screen : completion[s] = "sending" ~> screen # s

(* A closed session gives its microphone back for good, unless it was left *)
(* before its socket had opened.                                           *)
LeavingReleases ==
    \A s \in Screen : disposed[s] /\ s \notin early
                      ~> [](stream[s] # "live" /\ socket[s] \in {"ended", "lost", "none"})
=============================================================================
