----------------------------- MODULE SessionSlot -----------------------------
(***************************************************************************)
(* What the single-session policy of api/routes/session.py:9-15 promises   *)
(* its clients: one session at a time, the newest wins at once and waits   *)
(* for nobody, a session that lost its place never gets it back, and it    *)
(* does not go on forever.                                                 *)
(***************************************************************************)
CONSTANT Conn
VARIABLE place    \* where each connection stands

Places == {"waiting", "holding", "superseded", "over"}

Init == place = [c \in Conn |-> "waiting"]

(* A connection takes the slot, from whoever holds it.                     *)
Take(c) ==
    /\ place[c] = "waiting"
    /\ place' = [d \in Conn |-> IF d = c THEN "holding"
                                ELSE IF place[d] = "holding" THEN "superseded"
                                ELSE place[d]]

(* A connection is refused, or its session ends.                           *)
End(c) ==
    /\ place[c] # "over"
    /\ place' = [place EXCEPT ![c] = "over"]

(* The process restarts: every session is over, and so are some of the     *)
(* connections that were still waiting.                                    *)
Restart ==
    \E lost \in SUBSET Conn :
        place' = [c \in Conn |-> IF place[c] = "waiting" /\ c \notin lost
                                   THEN "waiting" ELSE "over"]

Next ==
    \/ \E c \in Conn : Take(c) \/ End(c)
    \/ Restart

Spec ==
    /\ Init /\ [][Next]_place
    /\ \A c \in Conn : WF_place(place[c] = "superseded" /\ End(c))
=============================================================================
