---------------------------- MODULE SessionSystem ----------------------------
(***************************************************************************)
(* The handlers of /ws/session together with the learner they level: what  *)
(* SessionServer leaves to an await is Leveling's step, and what Leveling  *)
(* leaves to Overlap, whether one teardown runs beside another session's,  *)
(* is decided by the handlers, their evictions and the clients, if Overlap *)
(* is TRUE.                                                                *)
(*                                                                         *)
(* The audit trail explains the profile, whoever evicts whom:              *)
(* docs/specs/016-session-auth/spec.md:72-75 has it that overlapping       *)
(* sessions never corrupt each other's learner-model writes, by            *)
(* construction.  They do: the slot is given up before the teardown, and   *)
(* nothing orders two teardowns, so BandHistoryIsAChain fails here.        *)
(***************************************************************************)
EXTENDS Leveling

CONSTANT CancelMayRaise

VARIABLES ready, phase, active, incumbent, cancelled, connected, newest
VARIABLE number  \* the session of each connection, by start_session; 0 for none

server == <<ready, phase, active, incumbent, cancelled, connected, newest>>
learner == <<stage, started, turns, recorded, profile, history, seen, plan, leanings>>
systemVars == <<server, learner, number>>

Conn == 1 .. MaxSessions
None == 0

Server == INSTANCE SessionServer

SystemInit ==
    /\ Server!Init
    /\ Init
    /\ number = [c \in Conn |-> 0]

Numbered == {c \in Conn : number[c] # 0}

(* start_session has no order of its own: rows are numbered as they come.  *)
NextNumber == 1 + Cardinality(Numbered)

(* What a handler does without the learner model.                          *)
Handle(c) ==
    /\ \/ Server!Refuse(c) \/ Server!Accept(c) \/ Server!PrepareFails(c)
       \/ Server!Install(c) \/ Server!CancelIncumbent(c) \/ Server!CloseIncumbent(c)
       \/ Server!MarkStarted(c) \/ Server!RunEnds(c) \/ Server!ClientGone(c)
    /\ UNCHANGED <<learner, number>>

(* start_session, which may fail and is awaited either way.                *)
StartRow(c) ==
    /\ Server!StartRow(c)
    /\ StartSession(NextNumber)
    /\ number' = [number EXCEPT ![c] = NextNumber]

(* A turn of a pipeline that runs, though it may have lost the slot.       *)
LogTurn(c) ==
    /\ phase[c] = "running"
    /\ \E b \in TurnBands : RecordTurn(number[c], b)
    /\ UNCHANGED <<server, number>>

(* end_session, statement by statement, after the slot was given up.       *)
AwaitEndSession(c) ==
    /\ phase[c] = "ending"
    /\ Step(number[c]) \/ FailTeardown(number[c])
    /\ UNCHANGED <<server, number>>

Return(c) ==
    /\ Server!EndSession(c)
    /\ stage[number[c]] = "done"
    /\ UNCHANGED <<learner, number>>

Ready == Server!Ready /\ UNCHANGED <<learner, number>>

Restart ==
    /\ Server!Restart
    /\ IF Open = {} THEN UNCHANGED learner ELSE Crash
    /\ UNCHANGED number

SystemNext ==
    \/ \E c \in Conn :
         Handle(c) \/ StartRow(c) \/ LogTurn(c) \/ AwaitEndSession(c) \/ Return(c)
    \/ Ready \/ Restart

SystemSpec == SystemInit /\ [][SystemNext]_systemVars
=============================================================================
