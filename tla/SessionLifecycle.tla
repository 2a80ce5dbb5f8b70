--------------------------- MODULE SessionLifecycle ---------------------------
(***************************************************************************)
(* The session lifecycle of the server: the in-memory session map of       *)
(* internal/handlers, the HTTP handlers that copy an entry, talk to Docker *)
(* without the lock and write the copy back, the two background workers    *)
(* (timeout enforcer, anonymous-session pruner), the state store they all  *)
(* save to, and the Docker daemon they all call.                           *)
(*                                                                         *)
(* A handler is one goroutine (a request slot of Requests); each of its    *)
(* steps is what it does between two points where another goroutine may    *)
(* run: a critical section of storeMu, a Docker call, a call into the UART *)
(* multiplexer, a SaveState.  An early return that changes nothing (404,   *)
(* 403, 409, "already running") is a request that is never accepted here.  *)
(* The wall clock is abstracted to what the workers compare it with: a     *)
(* clock of a session elapses at any time and is wound back by every write *)
(* of UpdatedAt.  Admission (quota, binaries, id collisions) is the        *)
(* subject of module Admission.                                            *)
(***************************************************************************)
EXTENDS Naturals, FiniteSets

CONSTANTS
    Sessions,       \* the session ids that can be handed out
    Requests,       \* request slots: at most this many handlers run at once
    Ops,            \* the operations clients ask for
    FaultyCalls,    \* the external calls that may fail for no reason of ours
    Elapsing,       \* the clocks that run: "timeout" (TimeoutSeconds), "ttl"
    EnvEvents,      \* what the world may do: "exit", "vanish", "crash"
    MaxContainers,  \* bound: containers created per session
    MaxEdits        \* bound: settings updates per session

Clocks == {"timeout", "ttl"}
Workers == {"enforcer", "pruner"}
Procs == Requests \cup Workers
AllOps == {"create", "update", "restore", "start", "stop", "pause", "resume",
           "delete"}

ASSUME SessionsAssumption == Sessions # {}
ASSUME RequestsAssumption == Requests \cap Workers = {}
ASSUME OpsAssumption == Ops \subseteq AllOps
ASSUME ClocksAssumption == Elapsing \subseteq Clocks
ASSUME BoundsAssumption == MaxContainers \in Nat /\ MaxEdits \in Nat

VARIABLES
    sessions,   \* the map handlers.sessions, guarded by storeMu
    minted,     \* ids ever handed out (ids are timestamps: never reused)
    docker,     \* the container named session-<id> of every id
    uart,       \* ids with backends registered in the UART multiplexer
    db,         \* the sessions collection of the state store
    pc,         \* where every goroutine is
    job,        \* operation, session id and private copy of every handler
    snap,       \* the snapshot a goroutine is about to save
    batch,      \* the sessions a worker is working on
    todo        \* the containers a worker still has to stop

vars == <<sessions, minted, docker, uart, db, pc, job, snap, batch, todo>>

-----------------------------------------------------------------------------
(* Data *)

(* types.Session, reduced to the fields the lifecycle reads and writes.    *)
(* cid is the ContainerID (0 is the empty string, n the n-th container     *)
(* created for the session); rev counts the settings updates it has had;   *)
(* elapsed are the clocks that have run out since UpdatedAt.               *)
Session == [state : {"absent", "stopped", "running", "paused"},
            anon : BOOLEAN, cid : Nat, rev : Nat, elapsed : SUBSET Clocks]

(* The value of an id that is not a key of the map. *)
NoSession == [state |-> "absent", anon |-> FALSE, cid |-> 0, rev |-> 0,
              elapsed |-> {}]

Container == [issued : Nat,
              status : {"absent", "created", "running", "paused", "exited"}]

AnyId == CHOOSE s \in Sessions : TRUE
NoJob == [op |-> "none", sid |-> AnyId, copy |-> NoSession]
Job == [op : AllOps \cup {"none"}, sid : Sessions, copy : Session]

RequestPCs == {"idle", "create", "recreate", "launch", "relaunch", "verify",
               "register", "halt", "freeze", "thaw", "clone", "forget",
               "unregister", "remove", "write", "persist", "save"}
WorkerPCs == {"idle", "stopping", "mark", "persist", "save"}

Absent(s) == sessions[s].state = "absent"
Present(s) == ~Absent(s)
IsActive(x) == x.state \in {"running", "paused"}

(* A copy or a saved record: whoever writes it back winds its clocks back, *)
(* and the record read back at a restart elapses again in its own time.    *)
Rewound(x) == [x EXCEPT !.elapsed = {}]
Stored == [s \in Sessions |-> Rewound(sessions[s])]
NoSnap == [s \in Sessions |-> NoSession]

TypeOK ==
    /\ sessions \in [Sessions -> Session]
    /\ minted \subseteq Sessions
    /\ docker \in [Sessions -> Container]
    /\ uart \subseteq Sessions
    /\ db \in [Sessions -> Session]
    /\ pc \in [Procs -> RequestPCs \cup WorkerPCs]
    /\ job \in [Requests -> Job]
    /\ snap \in [Procs -> [Sessions -> Session]]
    /\ batch \in [Workers -> SUBSET Sessions]
    /\ todo \in [Workers -> [Sessions -> Nat]]

Init ==
    /\ sessions = NoSnap
    /\ minted = {}
    /\ docker = [s \in Sessions |-> [issued |-> 0, status |-> "absent"]]
    /\ uart = {}
    /\ db = NoSnap
    /\ pc = [p \in Procs |-> "idle"]
    /\ job = [r \in Requests |-> NoJob]
    /\ snap = [p \in Procs |-> NoSnap]
    /\ batch = [w \in Workers |-> {}]
    /\ todo = [w \in Workers |-> [s \in Sessions |-> 0]]

-----------------------------------------------------------------------------
(* The Docker daemon: what a call answers and does *)

MayFail(call) == call \in FaultyCalls

(* The daemon knows container c of session s; any other id is "no such     *)
(* container".                                                             *)
Known(s, c) == c = docker[s].issued /\ docker[s].status # "absent"
StatusIn(s, c, set) == Known(s, c) /\ docker[s].status \in set

SetStatus(s, status) == docker' = [docker EXCEPT ![s].status = status]

(* Starting a container that runs already is not an error, nor is stopping *)
(* one that does not run; a paused one cannot be started, only unpaused.   *)
Startable == {"created", "exited", "running"}
StopResult(s) == IF docker[s].status \in {"running", "paused"}
                 THEN "exited" ELSE docker[s].status

(* Container names are unique: a second "session-<id>" is a name conflict. *)
CanCreate(s) == docker[s].status = "absent" /\ docker[s].issued < MaxContainers

-----------------------------------------------------------------------------
(* Steps shared by the handlers *)

Copy(r) == job[r].copy
Sid(r) == job[r].sid

(* The handler finds the session, passes its checks and keeps a copy. *)
Accept(r, o, s, next) ==
    /\ pc[r] = "idle"
    /\ o \in Ops
    /\ Present(s)
    /\ pc' = [pc EXCEPT ![r] = next]
    /\ job' = [job EXCEPT ![r] = [op |-> o, sid |-> s,
                                  copy |-> Rewound(sessions[s])]]
    /\ UNCHANGED <<sessions, minted, docker, uart, db, snap, batch, todo>>

Goto(r, next) == pc' = [pc EXCEPT ![r] = next]

(* The handler returns; its copy is garbage. *)
Finish(r) ==
    /\ pc' = [pc EXCEPT ![r] = "idle"]
    /\ job' = [job EXCEPT ![r] = NoJob]

(* storeMu.Lock(); sessions[id] = session; storeMu.Unlock() *)
WriteBackNoPersist(r) ==        \* mutant of WriteBack: forgets persistState
    /\ pc[r] = "write"
    /\ sessions' = [sessions EXCEPT ![Sid(r)] = Copy(r)]
    /\ Finish(r)
    /\ UNCHANGED <<minted, docker, uart, db, snap, batch, todo>>

WriteStateOnly(r) ==        \* mutant of WriteBack: stores nothing but the state
    /\ pc[r] = "write"
    /\ sessions' = [sessions EXCEPT ![Sid(r)].state = Copy(r).state]
    /\ Goto(r, "persist")
    /\ UNCHANGED <<minted, docker, uart, db, job, snap, batch, todo>>

WriteBack(r) ==
    /\ pc[r] = "write"
    /\ sessions' = [sessions EXCEPT ![Sid(r)] = Copy(r)]
    /\ Goto(r, "persist")
    /\ UNCHANGED <<minted, docker, uart, db, job, snap, batch, todo>>

(* persistState: copy the map under the read lock ... *)
TakeSnapshot(p) ==
    /\ pc[p] = "persist"
    /\ snap' = [snap EXCEPT ![p] = Stored]
    /\ Goto(p, "save")
    /\ UNCHANGED <<sessions, minted, docker, uart, db, job, batch, todo>>

(* ... and save it without the lock.  An error is logged and no more: the  *)
(* goroutine goes on with what comes after persistState.                   *)
AfterSave(p) ==
    CASE p = "pruner" -> "stopping"
      [] p \in Requests /\ job[p].op = "delete" /\ Copy(p).cid # 0 -> "unregister"
      [] OTHER -> "idle"

SaveState(p) ==
    /\ pc[p] = "save"
    /\ \/ db' = snap[p]
       \/ MayFail("save") /\ UNCHANGED db
    /\ snap' = [snap EXCEPT ![p] = NoSnap]
    /\ Goto(p, AfterSave(p))
    /\ job' = [r \in Requests |-> IF r = p /\ AfterSave(p) = "idle"
                                  THEN NoJob ELSE job[r]]
    /\ UNCHANGED <<sessions, minted, docker, uart, batch, todo>>

-----------------------------------------------------------------------------
(* Create, update, restore, delete *)

Fresh(s) == s \notin minted

(* HandleCreateSession, from the id on: the session enters the map stopped *)
(* and without a container.                                                *)
CreateSession(r) ==
    /\ pc[r] = "idle"
    /\ "create" \in Ops
    /\ \E s \in Sessions, anon \in BOOLEAN :
          /\ Fresh(s)
          /\ minted' = minted \cup {s}
          /\ sessions' = [sessions EXCEPT ![s] =
                            [NoSession EXCEPT !.state = "stopped", !.anon = anon]]
          /\ job' = [job EXCEPT ![r] = [op |-> "create", sid |-> s,
                                        copy |-> NoSession]]
    /\ Goto(r, "persist")
    /\ UNCHANGED <<docker, uart, db, snap, batch, todo>>

(* HandleUpdateSession: read and written in one critical section, whatever *)
(* the state of the session.                                               *)
UpdateOutsideLock(r) ==     \* mutant of UpdateSession: writes back later
    \E s \in Sessions : Accept(r, "update", s, "write")

UpdateSession(r) ==
    /\ pc[r] = "idle"
    /\ "update" \in Ops
    /\ \E s \in Sessions :
          /\ Present(s)
          /\ sessions[s].rev < MaxEdits
          /\ sessions' = [sessions EXCEPT ![s].rev = @ + 1, ![s].elapsed = {}]
          /\ job' = [job EXCEPT ![r] = [op |-> "update", sid |-> s,
                                        copy |-> NoSession]]
    /\ Goto(r, "persist")
    /\ UNCHANGED <<minted, docker, uart, db, snap, batch, todo>>

(* HandleRestoreSession: clone the volumes, then insert the clone under a  *)
(* new id, stopped and without a container.                                *)
AcceptRestore(r) == \E s \in Sessions : Accept(r, "restore", s, "clone")

InsertLiveClone(r) ==       \* mutant of InsertClone: the clone keeps its state
    /\ pc[r] = "clone"
    /\ \E s \in Sessions :
          /\ Fresh(s)
          /\ minted' = minted \cup {s}
          /\ sessions' = [sessions EXCEPT ![s] = [Copy(r) EXCEPT !.cid = 0]]
    /\ Goto(r, "persist")
    /\ UNCHANGED <<docker, uart, db, job, snap, batch, todo>>

InsertClone(r) ==
    /\ pc[r] = "clone"
    /\ \E s \in Sessions :
          /\ Fresh(s)
          /\ minted' = minted \cup {s}
          /\ sessions' = [sessions EXCEPT ![s] =
                            [Copy(r) EXCEPT !.state = "stopped", !.cid = 0]]
    /\ Goto(r, "persist")
    /\ UNCHANGED <<docker, uart, db, job, snap, batch, todo>>

CloneFails(r) ==
    /\ pc[r] = "clone"
    /\ MayFail("clone") \/ \A s \in Sessions : ~Fresh(s)
    /\ Finish(r)
    /\ UNCHANGED <<sessions, minted, docker, uart, db, snap, batch, todo>>

(* HandleDeleteSession: read, check the owner, and delete in a second      *)
(* critical section; after the save, the container of the copy goes.       *)
AcceptDelete(r) == \E s \in Sessions : Accept(r, "delete", s, "forget")

ForgetSession(r) ==
    /\ pc[r] = "forget"
    /\ sessions' = [sessions EXCEPT ![Sid(r)] = NoSession]
    /\ Goto(r, "persist")
    /\ UNCHANGED <<minted, docker, uart, db, job, snap, batch, todo>>

(* The error of RemoveContainer is dropped. *)
RemoveContainer(r) ==
    /\ pc[r] = "remove"
    /\ \/ IF Known(Sid(r), Copy(r).cid)
          THEN SetStatus(Sid(r), "absent") ELSE UNCHANGED docker
       \/ MayFail("remove") /\ UNCHANGED docker
    /\ Finish(r)
    /\ UNCHANGED <<sessions, minted, uart, db, snap, batch, todo>>

-----------------------------------------------------------------------------
(* Start: HandleStartSession *)

AcceptStart(r) ==
    \E s \in Sessions :
        /\ sessions[s].state = "stopped"
        /\ Accept(r, "start", s, IF sessions[s].cid = 0 THEN "create" ELSE "launch")

(* CreateContainer, for a session that has none or whose container is gone. *)
CreateContainer(r) ==
    /\ pc[r] \in {"create", "recreate"}
    /\ LET s == Sid(r)  n == docker[s].issued + 1 IN
       \/ /\ CanCreate(s)
          /\ docker' = [docker EXCEPT ![s] = [issued |-> n, status |-> "created"]]
          /\ job' = [job EXCEPT ![r].copy.cid = n]
          /\ Goto(r, IF pc[r] = "create" THEN "launch" ELSE "relaunch")
       \/ /\ ~CanCreate(s) \/ MayFail("create")
          /\ Finish(r)
          /\ UNCHANGED docker
    /\ UNCHANGED <<sessions, minted, uart, db, snap, batch, todo>>

(* StartContainer.  Only the first attempt recreates a missing container;  *)
(* every other error ends the handler, which has stored nothing.           *)
LaunchContainer(r) ==
    /\ pc[r] \in {"launch", "relaunch"}
    /\ LET s == Sid(r)  c == Copy(r).cid IN
       \/ /\ StatusIn(s, c, Startable)
          /\ SetStatus(s, "running")
          /\ Goto(r, "verify")
          /\ UNCHANGED job
       \/ /\ ~Known(s, c) /\ pc[r] = "launch"
          /\ Goto(r, "recreate")
          /\ UNCHANGED <<docker, job>>
       \/ /\ \/ ~Known(s, c) /\ pc[r] = "relaunch"
             \/ StatusIn(s, c, {"paused"})
             \/ MayFail("start")
          /\ Finish(r)
          /\ UNCHANGED docker
    /\ UNCHANGED <<sessions, minted, uart, db, snap, batch, todo>>

(* GetContainerStatus after 200 ms: anything but running is stored as      *)
(* stopped, with the container's id; an error stores nothing.              *)
VerifyRawStatus(r) ==       \* mutant of VerifyLaunch: stores Docker's own word
    /\ pc[r] = "verify"
    /\ LET s == Sid(r)  c == Copy(r).cid IN
       \/ /\ Known(s, c)
          /\ job' = [job EXCEPT ![r].copy.state = docker[s].status]
          /\ Goto(r, IF docker[s].status = "running" THEN "register" ELSE "write")
       \/ /\ ~Known(s, c) \/ MayFail("inspect")
          /\ Finish(r)
    /\ UNCHANGED <<sessions, minted, docker, uart, db, snap, batch, todo>>

VerifyForgets(r) ==         \* mutant of VerifyLaunch: an exited launch stores nothing
    /\ pc[r] = "verify"
    /\ LET s == Sid(r)  c == Copy(r).cid IN
       \/ /\ StatusIn(s, c, {"running"})
          /\ job' = [job EXCEPT ![r].copy.state = "running"]
          /\ Goto(r, "register")
       \/ /\ ~StatusIn(s, c, {"running"})
          /\ Finish(r)
    /\ UNCHANGED <<sessions, minted, docker, uart, db, snap, batch, todo>>

VerifyLaunch(r) ==
    /\ pc[r] = "verify"
    /\ LET s == Sid(r)  c == Copy(r).cid IN
       \/ /\ StatusIn(s, c, {"running"})
          /\ job' = [job EXCEPT ![r].copy.state = "running"]
          /\ Goto(r, "register")
       \/ /\ Known(s, c) /\ ~StatusIn(s, c, {"running"})
          /\ job' = [job EXCEPT ![r].copy.state = "stopped"]
          /\ Goto(r, "write")
       \/ /\ ~Known(s, c) \/ MayFail("inspect")
          /\ Finish(r)
    /\ UNCHANGED <<sessions, minted, docker, uart, db, snap, batch, todo>>

RegisterBackends(r) ==
    /\ pc[r] = "register"
    /\ uart' = uart \cup {Sid(r)}
    /\ Goto(r, "write")
    /\ UNCHANGED <<sessions, minted, docker, db, job, snap, batch, todo>>

-----------------------------------------------------------------------------
(* Stop, pause, resume *)

(* HandleStopSession on a session that is not stopped. *)
StopWithoutDocker(r) ==     \* mutant of AcceptStop: never stops the container
    \E s \in Sessions :
        /\ IsActive(sessions[s])
        /\ Accept(r, "stop", s, "unregister")

AcceptStop(r) ==
    \E s \in Sessions :
        /\ IsActive(sessions[s])
        /\ Accept(r, "stop", s, IF sessions[s].cid = 0 THEN "unregister" ELSE "halt")

(* On a stopped session it unregisters the backends and returns. *)
StopStopped(r) ==
    /\ pc[r] = "idle"
    /\ "stop" \in Ops
    /\ \E s \in Sessions : sessions[s].state = "stopped" /\ uart' = uart \ {s}
    /\ UNCHANGED <<sessions, minted, docker, db, pc, job, snap, batch, todo>>

(* StopContainer; an error ends the handler and the session stays as it is. *)
HaltContainer(r) ==
    /\ pc[r] = "halt"
    /\ LET s == Sid(r)  c == Copy(r).cid IN
       \/ /\ Known(s, c)
          /\ SetStatus(s, StopResult(s))
          /\ Goto(r, "unregister")
          /\ UNCHANGED job
       \/ /\ ~Known(s, c) \/ MayFail("stop")
          /\ Finish(r)
          /\ UNCHANGED docker
    /\ UNCHANGED <<sessions, minted, uart, db, snap, batch, todo>>

(* Unregistering the backends, in stop and (after the save) in delete. *)
UnregisterNothing(r) ==     \* mutant of UnregisterBackends: leaves them registered
    /\ pc[r] = "unregister"
    /\ job' = [job EXCEPT ![r].copy.state = "stopped"]
    /\ Goto(r, IF job[r].op = "stop" THEN "write" ELSE "remove")
    /\ UNCHANGED <<sessions, minted, docker, uart, db, snap, batch, todo>>

UnregisterBackends(r) ==
    /\ pc[r] = "unregister"
    /\ uart' = uart \ {Sid(r)}
    /\ job' = [job EXCEPT ![r].copy.state = "stopped"]
    /\ Goto(r, IF job[r].op = "stop" THEN "write" ELSE "remove")
    /\ UNCHANGED <<sessions, minted, docker, db, snap, batch, todo>>

(* HandlePauseSession, HandleResumeSession: a session without a container  *)
(* is a conflict.                                                          *)
AcceptPause(r) ==
    \E s \in Sessions :
        /\ sessions[s].state = "running" /\ sessions[s].cid # 0
        /\ Accept(r, "pause", s, "freeze")

AcceptResume(r) ==
    \E s \in Sessions :
        /\ sessions[s].state = "paused" /\ sessions[s].cid # 0
        /\ Accept(r, "resume", s, "thaw")

(* PauseContainer and ResumeContainer differ in the states they connect. *)
Toggle(r, at, call, from, to) ==
    /\ pc[r] = at
    /\ \/ /\ StatusIn(Sid(r), Copy(r).cid, {from})
          /\ SetStatus(Sid(r), to)
          /\ job' = [job EXCEPT ![r].copy.state = to]
          /\ Goto(r, "write")
       \/ /\ ~StatusIn(Sid(r), Copy(r).cid, {from}) \/ MayFail(call)
          /\ Finish(r)
          /\ UNCHANGED docker
    /\ UNCHANGED <<sessions, minted, uart, db, snap, batch, todo>>

PauseContainer(r) == Toggle(r, "freeze", "pause", "running", "paused")
ResumeContainer(r) == Toggle(r, "thaw", "unpause", "paused", "running")

-----------------------------------------------------------------------------
(* EnforceSessionTimeouts, one tick after another *)

Overdue(s) == sessions[s].state = "running" /\ "timeout" \in sessions[s].elapsed

(* The candidates are copied under the read lock ... *)
EnforcerScan ==
    /\ pc["enforcer"] = "idle"
    /\ LET due == {s \in Sessions : Overdue(s)} IN
       /\ due # {}
       /\ batch' = [batch EXCEPT !["enforcer"] = due]
       /\ todo' = [todo EXCEPT !["enforcer"] =
                     [s \in Sessions |-> IF s \in due THEN sessions[s].cid ELSE 0]]
    /\ Goto("enforcer", "stopping")
    /\ UNCHANGED <<sessions, minted, docker, uart, db, job, snap>>

(* ... stopped one by one without the lock, errors only logged ... *)
StopCall(s, c) ==
    \/ IF Known(s, c) THEN SetStatus(s, StopResult(s)) ELSE UNCHANGED docker
    \/ MayFail("stop") /\ UNCHANGED docker

EnforcerStop(s) ==
    /\ pc["enforcer"] = "stopping"
    /\ todo["enforcer"][s] # 0
    /\ StopCall(s, todo["enforcer"][s])
    /\ todo' = [todo EXCEPT !["enforcer"][s] = 0]
    /\ UNCHANGED <<sessions, minted, uart, db, pc, job, snap, batch>>

NothingTodo(w) == \A s \in Sessions : todo[w][s] = 0

EnforcerStopped ==
    /\ pc["enforcer"] = "stopping"
    /\ NothingTodo("enforcer")
    /\ Goto("enforcer", "mark")
    /\ UNCHANGED <<sessions, minted, docker, uart, db, job, snap, batch, todo>>

(* Mutant of Marked: whatever the scan has found. *)
MarkedUnseen == batch["enforcer"]

(* ... and marked stopped under the lock, those still present and running. *)
Marked == {s \in batch["enforcer"] : sessions[s].state = "running"}

MarkSaved ==                \* mutant of EnforcerMark: marks the saved record
    /\ pc["enforcer"] = "mark"
    /\ sessions' = [s \in Sessions |->
                      IF s \in Marked THEN [db[s] EXCEPT !.state = "stopped"]
                                      ELSE sessions[s]]
    /\ batch' = [batch EXCEPT !["enforcer"] = {}]
    /\ Goto("enforcer", IF Marked = {} THEN "idle" ELSE "persist")
    /\ UNCHANGED <<minted, docker, uart, db, job, snap, todo>>

MarkWhatStopped ==          \* mutant of EnforcerMark: only if the container stopped
    /\ pc["enforcer"] = "mark"
    /\ sessions' = [s \in Sessions |->
                      IF s \in Marked /\ docker[s].status = "exited"
                      THEN [sessions[s] EXCEPT !.state = "stopped", !.elapsed = {}]
                      ELSE sessions[s]]
    /\ batch' = [batch EXCEPT !["enforcer"] = {}]
    /\ Goto("enforcer", IF Marked = {} THEN "idle" ELSE "persist")
    /\ UNCHANGED <<minted, docker, uart, db, job, snap, todo>>

EnforcerMark ==
    /\ pc["enforcer"] = "mark"
    /\ sessions' = [s \in Sessions |->
                      IF s \in Marked
                      THEN [sessions[s] EXCEPT !.state = "stopped", !.elapsed = {}]
                      ELSE sessions[s]]
    /\ batch' = [batch EXCEPT !["enforcer"] = {}]
    /\ Goto("enforcer", IF Marked = {} THEN "idle" ELSE "persist")
    /\ UNCHANGED <<minted, docker, uart, db, job, snap, todo>>

-----------------------------------------------------------------------------
(* PruneAnonymousSessions *)

Expired(s) == Present(s) /\ sessions[s].anon /\ "ttl" \in sessions[s].elapsed

(* Expired sessions leave the map first, whatever their state ... *)
PruneStopped ==             \* mutant of PrunerDelete: spares what is not stopped
    /\ pc["pruner"] = "idle"
    /\ LET old == {s \in Sessions : Expired(s) /\ ~IsActive(sessions[s])} IN
       /\ old # {}
       /\ todo' = [todo EXCEPT !["pruner"] =
                     [s \in Sessions |-> IF s \in old THEN sessions[s].cid ELSE 0]]
       /\ sessions' = [s \in Sessions |->
                         IF s \in old THEN NoSession ELSE sessions[s]]
    /\ Goto("pruner", "persist")
    /\ UNCHANGED <<minted, docker, uart, db, job, snap, batch>>

PrunerDelete ==
    /\ pc["pruner"] = "idle"
    /\ LET old == {s \in Sessions : Expired(s)} IN
       /\ old # {}
       /\ todo' = [todo EXCEPT !["pruner"] =
                     [s \in Sessions |-> IF s \in old THEN sessions[s].cid ELSE 0]]
       /\ sessions' = [s \in Sessions |->
                         IF s \in old THEN NoSession ELSE sessions[s]]
    /\ Goto("pruner", "persist")
    /\ UNCHANGED <<minted, docker, uart, db, job, snap, batch>>

(* ... and, after the save, each of their containers is stopped and then   *)
(* removed, errors only logged.                                            *)
PrunerStop(s) ==
    /\ pc["pruner"] = "stopping"
    /\ batch["pruner"] = {}
    /\ todo["pruner"][s] # 0
    /\ StopCall(s, todo["pruner"][s])
    /\ batch' = [batch EXCEPT !["pruner"] = {s}]
    /\ UNCHANGED <<sessions, minted, uart, db, pc, job, snap, todo>>

PrunerRemove(s) ==
    /\ pc["pruner"] = "stopping"
    /\ s \in batch["pruner"]
    /\ \/ IF Known(s, todo["pruner"][s])
          THEN SetStatus(s, "absent") ELSE UNCHANGED docker
       \/ MayFail("remove") /\ UNCHANGED docker
    /\ todo' = [todo EXCEPT !["pruner"][s] = 0]
    /\ batch' = [batch EXCEPT !["pruner"] = {}]
    /\ UNCHANGED <<sessions, minted, uart, db, pc, job, snap>>

PrunerDone ==
    /\ pc["pruner"] = "stopping"
    /\ NothingTodo("pruner")
    /\ Goto("pruner", "idle")
    /\ UNCHANGED <<sessions, minted, docker, uart, db, job, snap, batch, todo>>

-----------------------------------------------------------------------------
(* The world *)

(* Time passes: the deadline of a running session, the age of an anonymous *)
(* one (no worker reads the other combinations).                           *)
Elapse(s) ==
    /\ \E c \in Elapsing :
          /\ c = "timeout" => sessions[s].state = "running"
          /\ c = "ttl" => Present(s) /\ sessions[s].anon
          /\ sessions' = [sessions EXCEPT ![s].elapsed = @ \cup {c}]
    /\ UNCHANGED <<minted, docker, uart, db, pc, job, snap, batch, todo>>

(* The emulated firmware exits on its own. *)
FirmwareExits(s) ==
    /\ "exit" \in EnvEvents
    /\ docker[s].status = "running"
    /\ SetStatus(s, "exited")
    /\ UNCHANGED <<sessions, minted, uart, db, pc, job, snap, batch, todo>>

(* A container disappears from the daemon (docker prune, host rebuilt):    *)
(* what the not-found branch of start is written for.                      *)
ContainerVanishes(s) ==
    /\ "vanish" \in EnvEvents
    /\ docker[s].status # "absent"
    /\ docker[s].issued < MaxContainers
    /\ SetStatus(s, "absent")
    /\ UNCHANGED <<sessions, minted, uart, db, pc, job, snap, batch, todo>>

(* The server dies and is started again: the containers live on, every     *)
(* goroutine and registration is gone, ConfigureStatePersistence loads the *)
(* store.  (Ids stay unique: they are timestamps.)                         *)
Restart ==
    /\ "crash" \in EnvEvents
    /\ sessions' = db
    /\ uart' = {}
    /\ pc' = [p \in Procs |-> "idle"]
    /\ job' = [r \in Requests |-> NoJob]
    /\ snap' = [p \in Procs |-> NoSnap]
    /\ batch' = [w \in Workers |-> {}]
    /\ todo' = [w \in Workers |-> [s \in Sessions |-> 0]]
    /\ UNCHANGED <<minted, docker, db>>

-----------------------------------------------------------------------------

(* What a client asks for ... *)
Arrive(r) ==
    \/ CreateSession(r) \/ UpdateSession(r) \/ StopStopped(r)
    \/ AcceptRestore(r) \/ AcceptDelete(r) \/ AcceptStart(r)
    \/ AcceptStop(r) \/ AcceptPause(r) \/ AcceptResume(r)

(* ... and the steps its handler takes to serve it. *)
Serve(r) ==
    \/ WriteBack(r) \/ TakeSnapshot(r) \/ SaveState(r)
    \/ InsertClone(r) \/ CloneFails(r)
    \/ ForgetSession(r) \/ RemoveContainer(r)
    \/ CreateContainer(r) \/ LaunchContainer(r) \/ VerifyLaunch(r)
    \/ RegisterBackends(r) \/ HaltContainer(r) \/ UnregisterBackends(r)
    \/ PauseContainer(r) \/ ResumeContainer(r)

Enforce ==
    \/ EnforcerScan \/ EnforcerStopped \/ EnforcerMark
    \/ \E s \in Sessions : EnforcerStop(s)
    \/ TakeSnapshot("enforcer") \/ SaveState("enforcer")

Prune ==
    \/ PrunerDelete \/ PrunerDone
    \/ \E s \in Sessions : PrunerStop(s) \/ PrunerRemove(s)
    \/ TakeSnapshot("pruner") \/ SaveState("pruner")

World ==
    \/ \E s \in Sessions : Elapse(s) \/ FirmwareExits(s) \/ ContainerVanishes(s)
    \/ Restart

Next ==
    \/ \E r \in Requests : Arrive(r) \/ Serve(r)
    \/ Enforce
    \/ Prune
    \/ World

(* Handlers and workers are goroutines the runtime schedules, and every    *)
(* Docker or store call they make returns; the tickers of the workers      *)
(* never stop.  Clients, clocks and the world owe nothing.                 *)
Fairness ==
    /\ \A r \in Requests : WF_vars(Serve(r))
    /\ WF_vars(Enforce)
    /\ WF_vars(Prune)

Spec == Init /\ [][Next]_vars /\ Fairness

-----------------------------------------------------------------------------
(* Properties *)

Idle == \A p \in Procs : pc[p] = "idle"

(* A session that is running or paused has a container id, in the map, in  *)
(* the store and in every copy that will be written back: whatever the     *)
(* handlers, the workers, faults and restarts do, stop, pause, resume and  *)
(* the enforcer always know which container to talk to, and the "session   *)
(* has no container" conflicts of pause and resume cannot be reached.      *)
HasContainer(x) == IsActive(x) => x.cid # 0
ActiveHasContainer ==
    /\ \A s \in Sessions : HasContainer(sessions[s]) /\ HasContainer(db[s])
    /\ \A r \in Requests : pc[r] = "write" => HasContainer(Copy(r))

(* Once the map knows a session's container it never forgets it while the  *)
(* session is there (short of a restart on an old save): no handler writes *)
(* back a copy taken before the container was created, and start saves the *)
(* id of whatever it leaves behind.                                        *)
ContainerKept ==
    [][Restart \/ \A s \in Sessions :
          sessions[s].cid # 0 =>
             sessions'[s].cid # 0 \/ sessions'[s].state = "absent"]_vars

(* With one handler at a time and status queries that are answered, a      *)
(* session the map calls stopped has no container left running (stop, and  *)
(* start's check that the firmware did not exit at once).                  *)
StoppedIsQuiet ==
    Idle => \A s \in Sessions :
        sessions[s].state = "stopped" => docker[s].status \notin {"running", "paused"}

(* ... and, if start calls do not fail, a stopped session can be started:  *)
(* either the map knows the container that holds the name, or the name is  *)
(* free (start stores the id of every container it leaves behind).         *)
StartPossible ==
    Idle => \A s \in Sessions :
        sessions[s].state = "stopped" =>
            \/ docker[s].status = "absent"
            \/ Known(s, sessions[s].cid)

(* ... UART backends are registered exactly for the sessions that are      *)
(* running or paused (start registers, stop and delete unregister).        *)
UartFollowsState ==
    Idle => uart = {s \in Sessions : IsActive(sessions[s])}

(* ... and what a handler changed is in the store when it has returned:    *)
(* every path that writes the map is followed by a save.                   *)
SavedWhenIdle == Idle => db = Stored

(* An acknowledged settings update is never taken back (short of a restart *)
(* on an old save): with one handler at a time, no copy that a worker read *)
(* before the update is written over it.                                   *)
SettingsKept ==
    [][Restart \/ \A s \in Sessions :
          sessions'[s].state = "absent" \/ sessions'[s].rev >= sessions[s].rev]_vars

(* A session that was deleted, or pruned, does not come back (short of a   *)
(* restart on an old save) except through a handler that read it before    *)
(* and still has to write its copy: no worker and no other step of a       *)
(* handler puts into the map what has left it (the `ok` of                 *)
(* auth_helpers.go:216).                                                   *)
GoneStaysGone ==
    [][Restart \/ \A s \in minted :
          Absent(s) => \/ Absent(s)'
                       \/ \E r \in Requests : pc[r] = "write" /\ Sid(r) = s]_vars

(* The enforcer does its work: a session past its deadline does not stay   *)
(* running and past its deadline, even when stopping its container fails.  *)
OverdueStops == \A s \in Sessions : Overdue(s) ~> ~Overdue(s)

(* The pruner does its work: an expired anonymous session does not stay. *)
ExpiredLeaves == \A s \in Sessions : Expired(s) ~> ~Expired(s)

Abstract == INSTANCE SessionStates WITH
                state <- [s \in Sessions |-> sessions[s].state],
                born <- minted

(* With one handler at a time and no worker, the states in the map handlers *)
(* write are those of the state machine of SessionStates: every write-back *)
(* of a copy is one of its moves or no move at all.                        *)
Refinement == Abstract!Spec

=============================================================================
