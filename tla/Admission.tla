------------------------------- MODULE Admission -------------------------------
(***************************************************************************)
(* Who may add a session, under which id, over which binary: the checks of *)
(* HandleCreateSession and HandleRestoreSession, and what HandleDelete-    *)
(* Binary and HandleStartSession make of the sessions and binaries maps.   *)
(* Every check is a critical section of storeMu of its own, so what was    *)
(* checked may be stale when the session is inserted; ids are the          *)
(* millisecond the handler read, so two handlers may mint the same one.    *)
(*                                                                         *)
(* Containers and persistence are the subject of SessionLifecycle; here a  *)
(* session is its owner, its binary and whether it is active (running or   *)
(* paused), and stopping, deleting or pruning one is a single step.        *)
(***************************************************************************)
EXTENDS Naturals, FiniteSets

CONSTANTS
    Users,          \* callers with a login (OwnerTypeUser)
    Admins,         \* those of them with IsAdmin
    Anons,          \* callers with an anonymous UUID (OwnerTypeAnonymous)
    Binaries,       \* binary ids
    Requests,       \* request slots: at most this many handlers run at once
    Unidentified,   \* the zero Identity: neither login nor anonymous UUID
    NoCaller, NoBinary,
    MaxMillis       \* bound: the wall clock stops at this millisecond

Callers == Users \cup Anons \cup {Unidentified}
Ids == 0 .. MaxMillis           \* "session-<millisecond>"
maxAnonSessions == 2

ASSUME CallersAssumption ==
    /\ Users \cap Anons = {} /\ Admins \subseteq Users
    /\ Unidentified \notin Users \cup Anons /\ NoCaller \notin Callers
ASSUME BinariesAssumption == NoBinary \notin Binaries
ASSUME MillisAssumption == MaxMillis \in Nat
ASSUME RequestsAssumption == IsFiniteSet(Requests)

VARIABLES
    sessions,   \* the map handlers.sessions
    binaries,   \* the keys of the map handlers.binaries
    now,        \* the wall clock, in milliseconds
    pc, job     \* where every handler is, and what it carries

vars == <<sessions, binaries, now, pc, job>>

(* clone: made by HandleRestoreSession, or copied from such a session. *)
Session == [owner : Callers \cup {NoCaller}, binary : Binaries \cup {NoBinary},
            active : BOOLEAN, clone : BOOLEAN]
NoSession == [owner |-> NoCaller, binary |-> NoBinary,
              active |-> FALSE, clone |-> FALSE]
Job == [id : Ids, copy : Session]
NoJob == [id |-> 0, copy |-> NoSession]

Exists(i) == sessions[i] # NoSession
Owned(c) == {i \in Ids : sessions[i].owner = c}

TypeOK ==
    /\ sessions \in [Ids -> Session]
    /\ binaries \subseteq Binaries
    /\ now \in Ids
    /\ pc \in [Requests -> {"idle", "binary", "mint", "insert", "starting"}]
    /\ job \in [Requests -> Job]

Init ==
    /\ sessions = [i \in Ids |-> NoSession]
    /\ binaries = {}
    /\ now = 0
    /\ pc = [r \in Requests |-> "idle"]
    /\ job = [r \in Requests |-> NoJob]

Begin(r, next, j) ==
    /\ pc[r] = "idle"
    /\ pc' = [pc EXCEPT ![r] = next]
    /\ job' = [job EXCEPT ![r] = j]
    /\ UNCHANGED <<sessions, binaries, now>>

Return(r) ==
    /\ pc' = [pc EXCEPT ![r] = "idle"]
    /\ job' = [job EXCEPT ![r] = NoJob]

-----------------------------------------------------------------------------
(* HandleCreateSession *)

(* The quota, for callers with an anonymous UUID only: under the read      *)
(* lock, count.                                                            *)
QuotaOffByOne(c) ==         \* mutant of UnderQuota: <= for <
    c \in Anons => Cardinality(Owned(c)) <= maxAnonSessions

UnderQuota(c) == c \in Anons => Cardinality(Owned(c)) < maxAnonSessions

CheckQuota(r) ==
    \E c \in Callers, b \in Binaries :
        /\ UnderQuota(c)
        /\ Begin(r, "binary",
                 [id |-> 0, copy |-> [owner |-> c, binary |-> b,
                                      active |-> FALSE, clone |-> FALSE]])

(* The binary, under the read lock again. *)
CheckBinary(r) ==
    /\ pc[r] = "binary"
    /\ IF job[r].copy.binary \in binaries
       THEN pc' = [pc EXCEPT ![r] = "mint"] /\ UNCHANGED job
       ELSE Return(r)
    /\ UNCHANGED <<sessions, binaries, now>>

(* HandleRestoreSession: for logged-in callers, of a session they own, of  *)
(* one without owner, or of any if they are admins; the clone keeps owner  *)
(* and binary, has no running container and is subject to no quota.        *)
CanAccess(c, i) == c \in Admins \/ sessions[i].owner \in {c, Unidentified}

BeginRestore(r) ==
    \E c \in Users, i \in Ids :
        /\ Exists(i)
        /\ CanAccess(c, i)
        /\ Begin(r, "mint", [id |-> 0, copy |-> [sessions[i] EXCEPT
                                                   !.active = FALSE, !.clone = TRUE]])

(* id = "session-" + time.Now().UnixMilli() *)
MintAhead(r) ==             \* mutant of MintId: takes the next millisecond
    /\ pc[r] = "mint"
    /\ pc' = [pc EXCEPT ![r] = "insert"]
    /\ job' = [job EXCEPT ![r].id = now + 1]
    /\ UNCHANGED <<sessions, binaries, now>>

MintId(r) ==
    /\ pc[r] = "mint"
    /\ pc' = [pc EXCEPT ![r] = "insert"]
    /\ job' = [job EXCEPT ![r].id = now]
    /\ UNCHANGED <<sessions, binaries, now>>

(* storeMu.Lock(); sessions[id] = session: whatever was there is gone. *)
InsertSession(r) ==
    /\ pc[r] = "insert"
    /\ sessions' = [sessions EXCEPT ![job[r].id] = job[r].copy]
    /\ Return(r)
    /\ UNCHANGED <<binaries, now>>

-----------------------------------------------------------------------------
(* The maps change under other handlers *)

(* HandleStartSession reads session and binary together, is busy with      *)
(* Docker for as long as it takes, and writes its copy back as running.    *)
BeginStart(r) ==
    \E i \in Ids :
        /\ Exists(i) /\ ~sessions[i].active
        /\ sessions[i].binary \in binaries
        /\ Begin(r, "starting", [id |-> i, copy |-> sessions[i]])

(* Docker may refuse: nothing is written. *)
FinishStart(r) ==
    /\ pc[r] = "starting"
    /\ \/ sessions' = [sessions EXCEPT ![job[r].id] = [job[r].copy EXCEPT !.active = TRUE]]
       \/ UNCHANGED sessions
    /\ Return(r)
    /\ UNCHANGED <<binaries, now>>

(* The stop handler, or the timeout enforcer. *)
StopSession ==
    /\ \E i \in Ids :
          /\ sessions[i].active
          /\ sessions' = [sessions EXCEPT ![i].active = FALSE]
    /\ UNCHANGED <<binaries, now, pc, job>>

(* The delete handler, or the anonymous-session pruner: active or not. *)
DropSession ==
    /\ \E i \in Ids : Exists(i) /\ sessions' = [sessions EXCEPT ![i] = NoSession]
    /\ UNCHANGED <<binaries, now, pc, job>>

(* Uploads and deletions of binaries take a request slot for their step.   *)
UploadBinary(r) ==
    /\ pc[r] = "idle"
    /\ \E b \in Binaries : binaries' = binaries \cup {b}
    /\ UNCHANGED <<sessions, now, pc, job>>

(* HandleDeleteBinary: the check and the deletion are one critical section.*)
InUse(b) == \E i \in Ids : sessions[i].binary = b /\ sessions[i].active

DeleteBinary(r) ==
    /\ pc[r] = "idle"
    /\ \E b \in binaries : ~InUse(b) /\ binaries' = binaries \ {b}
    /\ UNCHANGED <<sessions, now, pc, job>>

Tick ==
    /\ now < MaxMillis
    /\ now' = now + 1
    /\ UNCHANGED <<sessions, binaries, pc, job>>

-----------------------------------------------------------------------------

Handle(r) ==
    \/ CheckQuota(r) \/ CheckBinary(r) \/ BeginRestore(r)
    \/ MintId(r) \/ InsertSession(r)
    \/ BeginStart(r) \/ FinishStart(r)
    \/ UploadBinary(r) \/ DeleteBinary(r)

Next ==
    \/ \E r \in Requests : Handle(r)
    \/ StopSession \/ DropSession \/ Tick

Spec == Init /\ [][Next]_vars

-----------------------------------------------------------------------------
(* Properties *)

(* What an anonymous caller has created itself, and the creations past the *)
(* quota check that are not yet inserted.                                  *)
Created(c) == {i \in Owned(c) : ~sessions[i].clone}
Admitted(c) == {r \in Requests : /\ pc[r] \in {"binary", "mint", "insert"}
                                 /\ job[r].copy.owner = c
                                 /\ ~job[r].copy.clone}

(* However creations race, with each other and with starts that bring a    *)
(* deleted session back, an anonymous caller overshoots the quota by at    *)
(* most one session per further handler, counting the creations that will  *)
(* still be inserted and leaving out the clones an admin has made of its   *)
(* sessions: whoever passed a stale check of handlers.go:643 was in flight *)
(* when the last one was admitted.                                         *)
OvershootBounded ==
    \A c \in Anons :
        Cardinality(Created(c)) + Cardinality(Admitted(c))
            <= maxAnonSessions + Cardinality(Requests) - 1

=============================================================================
