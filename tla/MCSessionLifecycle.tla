-------------------------- MODULE MCSessionLifecycle --------------------------
(* Small instances of SessionLifecycle for TLC. *)
EXTENDS SessionLifecycle, TLC

CONSTANTS s1, s2, r1, r2

OneSession == {s1}
TwoSessions == {s1, s2}
OneRequest == {r1}
TwoRequests == {r1, r2}
RequestSymmetry == Permutations(TwoRequests)

ExitOrVanish == {"exit", "vanish"}
AnyCall == {"create", "start", "inspect", "stop", "pause", "unpause",
            "remove", "save", "clone"}
(* A failed start or inspect leaves a container nobody knows, a failed save *)
(* an old store: the runs that show it take those calls in.                *)
HarmlessCalls == AnyCall \ {"start", "inspect", "save"}

=============================================================================
