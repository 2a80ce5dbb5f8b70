----------------------------- MODULE SessionStates -----------------------------
(***************************************************************************)
(* What the server promises of a session: the state machine a client sees  *)
(* (types.SessionState and the guards of the lifecycle handlers).  A       *)
(* session is created stopped, under an id never used before; start, pause *)
(* and resume each connect two states; stop leads back to stopped; delete  *)
(* is final.                                                               *)
(***************************************************************************)
CONSTANT Sessions

VARIABLES
    state,  \* [Sessions -> {"absent", "stopped", "running", "paused"}]
    born    \* ids that have been handed out

vars == <<state, born>>

Init == state = [s \in Sessions |-> "absent"] /\ born = {}

Create(s) ==
    /\ s \notin born
    /\ born' = born \cup {s}
    /\ state' = [state EXCEPT ![s] = "stopped"]

Move(s, from, to) ==
    /\ state[s] \in from
    /\ state' = [state EXCEPT ![s] = to]
    /\ UNCHANGED born

Start(s)  == Move(s, {"stopped"}, "running")
Pause(s)  == Move(s, {"running"}, "paused")
Resume(s) == Move(s, {"paused"}, "running")
Stop(s)   == Move(s, {"running", "paused"}, "stopped")
Delete(s) == Move(s, {"stopped", "running", "paused"}, "absent")

Next == \E s \in Sessions :
    Create(s) \/ Start(s) \/ Pause(s) \/ Resume(s) \/ Stop(s) \/ Delete(s)

Spec == Init /\ [][Next]_vars

=============================================================================
