----------------------------- MODULE SessionClaims -----------------------------
(***************************************************************************)
(* What a document of the repository says of the session lifecycle and the *)
(* code does not do.                                                       *)
(***************************************************************************)
EXTENDS MCSessionLifecycle

(* docs/ARCHITECTURE.md:302, "Docker daemon errors -> 500 Internal Server  *)
(* Error + rollback": a start that failed leaves no container behind that  *)
(* the session does not know of.                                           *)
FailedStartRollsBack ==
    Idle => \A s \in Sessions :
        sessions[s].state = "stopped" /\ sessions[s].cid = 0
            => docker[s].status = "absent"

=============================================================================
