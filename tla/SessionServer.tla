---------------------------- MODULE SessionServer ----------------------------
(***************************************************************************)
(* The handlers of /ws/session (api/routes/session.py), one asyncio task a *)
(* connection, and the one registration they share, app.state              *)
(* .active_session.  A step is the code between two awaits that can let    *)
(* another handler in; the swap lock is never held across one, so taking   *)
(* it is no step of its own.                                               *)
(*                                                                         *)
(* The PipelineTask is Pipecat's: run returns when the task is cancelled,  *)
(* when no audio came for session_idle_timeout_secs, or on an error.       *)
(* Cancelling a task that has not run yet is outside what Pipecat          *)
(* documents: here it may stop the later run, or be forgotten.             *)
(*                                                                         *)
(* Where a handler awaits start_session and end_session, this module only  *)
(* has the await; what the calls do is Leveling's StartSession and         *)
(* EndSession.                                                             *)
(***************************************************************************)
CONSTANTS
    Conn,              \* the connections clients ever open
    None,              \* no connection
    CancelMayRaise     \* may PipelineTask.cancel raise?

ASSUME SessionServerAssumption ==
    /\ None \notin Conn
    /\ CancelMayRaise \in BOOLEAN

VARIABLES
    ready,         \* app.state.ready
    phase,         \* how far each handler has got
    active,        \* app.state.active_session
    incumbent,     \* the session a handler displaced
    cancelled,     \* the pipelines Pipecat will stop
    connected,     \* the sockets that are open
    newest         \* history variable: the last connection to install itself

vars == <<ready, phase, active, incumbent, cancelled, connected, newest>>

Phases == {"new", "preparing", "evicting", "closing", "failing", "starting",
           "marking", "running", "ending", "closed"}
Evicting == {"evicting", "closing", "failing"}
Installed == Phases \ {"new", "preparing", "closed"}

Goto(c, next) == phase' = [phase EXCEPT ![c] = next]

(* The handler returns or raises, and the server closes its socket.        *)
Leave(c) ==
    /\ Goto(c, "closed")
    /\ connected' = connected \ {c}

Init ==
    /\ ready = FALSE
    /\ phase = [c \in Conn |-> "new"]
    /\ active = None
    /\ incumbent = [c \in Conn |-> None]
    /\ cancelled = {}
    /\ connected = {}
    /\ newest = None

-----------------------------------------------------------------------------
(* The lifespan has migrated the database and warmed the model up.         *)
Ready ==
    /\ ~ready
    /\ ready' = TRUE
    /\ UNCHANGED <<phase, active, incumbent, cancelled, connected, newest>>

(* A connection that comes too early or without the token.                 *)
Refuse(c) ==
    /\ phase[c] = "new"
    /\ Goto(c, "closed")
    /\ UNCHANGED <<ready, active, incumbent, cancelled, connected, newest>>

Accept(c) ==
    /\ phase[c] = "new" /\ ready
    /\ Goto(c, "preparing")
    /\ connected' = connected \cup {c}
    /\ UNCHANGED <<ready, active, incumbent, cancelled, newest>>

(* The queries behind the prompt raise: nothing was registered yet.        *)
PrepareFails(c) ==
    /\ phase[c] = "preparing"
    /\ Leave(c)
    /\ UNCHANGED <<ready, active, incumbent, cancelled, newest>>

(* Mutant: install only once the incumbent is gone.                        *)
Install_Waits(c) ==
    /\ phase[c] = "preparing" /\ active = None
    /\ incumbent' = [incumbent EXCEPT ![c] = None]
    /\ active' = c
    /\ newest' = c
    /\ Goto(c, "starting")
    /\ UNCHANGED <<ready, cancelled, connected>>

(* _install_active, and whom to evict.                                     *)
Install(c) ==
    /\ phase[c] = "preparing"
    /\ incumbent' = [incumbent EXCEPT ![c] = active]
    /\ active' = c
    /\ newest' = c
    /\ Goto(c, IF active = None THEN "starting" ELSE "evicting")
    /\ UNCHANGED <<ready, cancelled, connected>>

(* _evict: cancel the incumbent's pipeline, whatever it is doing ...       *)
CancelIncumbent(c) ==
    /\ phase[c] = "evicting"
    /\ \/ cancelled' = cancelled \cup {incumbent[c]}
       \/ phase[incumbent[c]] # "running" /\ UNCHANGED cancelled
    /\ \/ Goto(c, "closing")
       \/ CancelMayRaise /\ Goto(c, "failing")
    /\ UNCHANGED <<ready, active, incumbent, connected, newest>>

(* Mutant: no finally around the cancellation.                             *)
CloseIncumbent_NoFinally(c) ==
    /\ \/ /\ phase[c] = "closing"
          /\ Goto(c, "starting")
          /\ connected' = connected \ {incumbent[c]}
       \/ /\ phase[c] = "failing"
          /\ Goto(c, "closed")
          /\ connected' = connected \ {c}
    /\ UNCHANGED <<ready, active, incumbent, cancelled, newest>>

(* ... and close its socket, even if the cancellation raised, which then   *)
(* ends this handler.                                                      *)
CloseIncumbent(c) ==
    /\ \/ /\ phase[c] = "closing"
          /\ Goto(c, "starting")
          /\ connected' = connected \ {incumbent[c]}
       \/ /\ phase[c] = "failing"
          /\ Goto(c, "closed")
          /\ connected' = connected \ {incumbent[c], c}
    /\ UNCHANGED <<ready, active, incumbent, cancelled, newest>>

(* start_session, and mark_started for a handoff: both swallow failures.   *)
StartRow(c) ==
    /\ phase[c] = "starting"
    /\ \E next \in {"marking", "running"} : Goto(c, next)
    /\ UNCHANGED <<ready, active, incumbent, cancelled, connected, newest>>

MarkStarted(c) ==
    /\ phase[c] = "marking"
    /\ Goto(c, "running")
    /\ UNCHANGED <<ready, active, incumbent, cancelled, connected, newest>>

(* Mutant: _clear_active without the identity guard.                       *)
RunEnds_Unguarded(c) ==
    /\ phase[c] = "running"
    /\ active' = None
    /\ Goto(c, "ending")
    /\ UNCHANGED <<ready, incumbent, cancelled, connected, newest>>

(* task.run returns or raises, and _clear_active runs in the same step:    *)
(* it gives the slot up only if this session still holds it.               *)
RunEnds(c) ==
    /\ phase[c] = "running"
    /\ active' = IF active = c THEN None ELSE active
    /\ Goto(c, "ending")
    /\ UNCHANGED <<ready, incumbent, cancelled, connected, newest>>

(* end_session, whatever it raises, and the handler returns.               *)
EndSession(c) ==
    /\ phase[c] = "ending"
    /\ Leave(c)
    /\ UNCHANGED <<ready, active, incumbent, cancelled, newest>>

(* The client hangs up, or its network goes away.                          *)
ClientGone(c) ==
    /\ c \in connected
    /\ connected' = connected \ {c}
    /\ UNCHANGED <<ready, phase, active, incumbent, cancelled, newest>>

(* The process is replaced: in-memory enforcement is a clean reset.        *)
Restart ==
    /\ \E c \in Conn : phase[c] \notin {"new", "closed"}
    /\ ready' = FALSE
    /\ phase' = [c \in Conn |-> IF phase[c] = "new" THEN "new" ELSE "closed"]
    /\ active' = None
    /\ incumbent' = [c \in Conn |-> None]
    /\ cancelled' = {}
    /\ connected' = {}
    /\ newest' = None

Handler(c) ==
    \/ Install(c) \/ CancelIncumbent(c) \/ CloseIncumbent(c)
    \/ StartRow(c) \/ MarkStarted(c) \/ EndSession(c)

Next ==
    \/ \E c \in Conn :
         Refuse(c) \/ Accept(c) \/ PrepareFails(c) \/ Handler(c) \/ RunEnds(c)
           \/ ClientGone(c)
    \/ Ready \/ Restart

(* The event loop runs every handler that can run, the database answers,   *)
(* and Pipecat ends a cancelled run, and one that hears nothing any more.  *)
(* Nothing makes a talking client stop.                                    *)
Silenced(c) == c \in cancelled \/ c \notin connected

Fairness ==
    \A c \in Conn :
        /\ WF_vars(Handler(c))
        /\ WF_vars(Silenced(c) /\ RunEnds(c))

Spec == Init /\ [][Next]_vars /\ Fairness

-----------------------------------------------------------------------------
TypeOK ==
    /\ ready \in BOOLEAN
    /\ phase \in [Conn -> Phases]
    /\ active \in Conn \cup {None}
    /\ incumbent \in [Conn -> Conn \cup {None}]
    /\ \A c \in Conn : phase[c] \in Evicting => incumbent[c] \in Conn \ {c}
    /\ cancelled \subseteq Conn
    /\ connected \subseteq Conn
    /\ newest \in Conn \cup {None}

(* Newest wins: the slot belongs to the last connection that installed     *)
(* itself, from then until its own pipeline is over, however the teardowns *)
(* of the displaced ones fall (session.py:145-164).                        *)
SlotIsNewest ==
    /\ active \in {newest, None}
    /\ active = None /\ newest # None => phase[newest] \in {"ending", "closed"}

(* No pipeline goes on beside the slot holder's unnoticed: one that lost   *)
(* the slot has been cancelled, has lost its socket, or somebody is still  *)
(* at its eviction, even if that one lost the slot meanwhile               *)
(* (session.py:167-175, 273-278).                                          *)
NoPipelineIsForgotten ==
    \A c \in Conn :
        phase[c] \in Installed \ {"ending"} /\ active # c =>
            \/ Silenced(c)
            \/ \E d \in Conn : incumbent[d] = c /\ phase[d] \in Evicting

(* A connection that got past the gate is never blocked by the session it  *)
(* finds, half-open or not: its own pipeline comes to run                  *)
(* (session.py:13-15, docs/specs/016-session-auth/spec.md:76-79).          *)
NewClientIsServed ==
    \A c \in Conn : phase[c] = "preparing" ~> phase[c] \in {"running", "closed"}

(* A displaced session is over some day: its learner is levelled and its   *)
(* paid services are let go of (session.py:308-320, runner.py:149-151).    *)
DisplacedSessionEnds ==
    \A c \in Conn :
        phase[c] \in Installed /\ active # c ~> phase[c] = "closed"

(* The handlers implement the policy.                                      *)
placeOf(c) ==
    CASE phase[c] \in {"new", "preparing"} -> "waiting"
      [] phase[c] \in {"ending", "closed"} -> "over"
      [] phase[c] \in Installed \ {"ending"} ->
           IF active = c THEN "holding" ELSE "superseded"

placeBar == [c \in Conn |-> placeOf(c)]

Slot == INSTANCE SessionSlot WITH place <- placeBar
ImplementsSlot == Slot!Spec
=============================================================================
