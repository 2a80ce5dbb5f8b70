------------------------- MODULE SessionLifecycleProofs -------------------------
(***************************************************************************)
(* Theorems about SessionLifecycle for any sets of sessions, requests,     *)
(* operations, faults and events; then, where handlers that race with each *)
(* other would break what is stated, for one handler at a time (Alone),    *)
(* each under the fewest further assumptions it holds with.                *)
(***************************************************************************)
EXTENDS SessionLifecycle, TLAPS

-----------------------------------------------------------------------------
(* Types *)

LEMMA SessionFacts ==
    /\ NoSession \in Session
    /\ \A x \in Session : Rewound(x) \in Session
    /\ AnyId \in Sessions
    /\ NoJob \in Job
    /\ NoSnap \in [Sessions -> Session]
  <1>1. NoSession \in Session
    BY DEF NoSession, Session
  <1>2. \A x \in Session : Rewound(x) \in Session
    BY DEF Rewound, Session
  <1>3. AnyId \in Sessions
    BY SessionsAssumption DEF AnyId
  <1>4. NoJob \in Job
    BY <1>1, <1>3 DEF NoJob, Job
  <1> QED
    BY <1>1, <1>2, <1>3, <1>4 DEF NoSnap

LEMMA TypeInit == Init => TypeOK
  BY SessionFacts DEF Init, TypeOK, Container, RequestPCs

LEMMA ProcFacts ==
    /\ Requests \subseteq Procs
    /\ Workers \subseteq Procs
    /\ "enforcer" \in Workers /\ "pruner" \in Workers
  BY DEF Procs, Workers

USE ProcFacts, SessionFacts

LEMMA TypeStored == TypeOK => Stored \in [Sessions -> Session]
  BY DEF TypeOK, Stored

LEMMA TypeArrive ==
    ASSUME TypeOK, NEW r \in Requests, Arrive(r)
    PROVE  TypeOK'
<1>1. ASSUME NEW o, NEW s \in Sessions, NEW l \in RequestPCs, Accept(r, o, s, l)
      PROVE  TypeOK'
  <2>1. pc' \in [Procs -> RequestPCs \cup WorkerPCs]
    BY <1>1 DEF Accept, TypeOK
  <2>2. [op |-> o, sid |-> s, copy |-> Rewound(sessions[s])] \in Job
    BY <1>1, OpsAssumption DEF Accept, TypeOK, Job
  <2>3. job' \in [Requests -> Job]
    BY <1>1, <2>2 DEF Accept, TypeOK
  <2> QED
    BY <1>1, <2>1, <2>3 DEF Accept, TypeOK
<1>2. CASE CreateSession(r)
  <2> PICK s \in Sessions, anon \in BOOLEAN :
          /\ minted' = minted \cup {s}
          /\ sessions' = [sessions EXCEPT ![s] =
                            [NoSession EXCEPT !.state = "stopped", !.anon = anon]]
          /\ job' = [job EXCEPT ![r] = [op |-> "create", sid |-> s,
                                        copy |-> NoSession]]
    BY <1>2 DEF CreateSession
  <2>1. [NoSession EXCEPT !.state = "stopped", !.anon = anon] \in Session
    BY DEF NoSession, Session
  <2>2. [op |-> "create", sid |-> s, copy |-> NoSession] \in Job
    BY DEF Job, AllOps
  <2> QED
    BY <1>2, <2>1, <2>2 DEF CreateSession, Goto, TypeOK, RequestPCs
<1>3. CASE UpdateSession(r)
  <2> PICK s \in Sessions :
          /\ sessions' = [sessions EXCEPT ![s].rev = @ + 1, ![s].elapsed = {}]
          /\ job' = [job EXCEPT ![r] = [op |-> "update", sid |-> s,
                                        copy |-> NoSession]]
    BY <1>3 DEF UpdateSession
  <2>1. [sessions[s] EXCEPT !.rev = @ + 1, !.elapsed = {}] \in Session
    <3>1. sessions[s] \in Session /\ sessions[s].rev + 1 \in Nat
      BY DEF TypeOK, Session
    <3>2. \A x \in Session, n \in Nat : [x EXCEPT !.rev = n, !.elapsed = {}] \in Session
      BY DEF Session
    <3> QED
      BY <3>1, <3>2
  <2>2. [op |-> "update", sid |-> s, copy |-> NoSession] \in Job
    BY DEF Job, AllOps
  <2>3. sessions' \in [Sessions -> Session]
    BY <2>1 DEF TypeOK
  <2> QED
    BY <1>3, <2>2, <2>3 DEF UpdateSession, Goto, TypeOK, RequestPCs
<1>4. CASE StopStopped(r)
  BY <1>4 DEF StopStopped, TypeOK
<1>5. CASE AcceptRestore(r)
  BY <1>5, <1>1 DEF AcceptRestore, RequestPCs
<1>6. CASE AcceptDelete(r)
  BY <1>6, <1>1 DEF AcceptDelete, RequestPCs
<1>7. CASE AcceptStart(r)
  <2> PICK s \in Sessions :
         Accept(r, "start", s, IF sessions[s].cid = 0 THEN "create" ELSE "launch")
    BY <1>7 DEF AcceptStart
  <2> QED
    BY <1>1 DEF RequestPCs
<1>8. CASE AcceptStop(r)
  <2> PICK s \in Sessions :
         Accept(r, "stop", s, IF sessions[s].cid = 0 THEN "unregister" ELSE "halt")
    BY <1>8 DEF AcceptStop
  <2> QED
    BY <1>1 DEF RequestPCs
<1>9. CASE AcceptPause(r)
  BY <1>9, <1>1 DEF AcceptPause, RequestPCs
<1>10. CASE AcceptResume(r)
  BY <1>10, <1>1 DEF AcceptResume, RequestPCs
<1> QED
  BY <1>2, <1>3, <1>4, <1>5, <1>6, <1>7, <1>8, <1>9, <1>10 DEF Arrive

(* What the handlers do to their private copies keeps them jobs. *)
LEMMA TypeCopy ==
    ASSUME TypeOK, NEW r \in Requests
    PROVE  /\ Sid(r) \in Sessions
           /\ Copy(r) \in Session
           /\ \A st \in {"stopped", "running", "paused"} :
                [job EXCEPT ![r].copy.state = st] \in [Requests -> Job]
           /\ \A n \in Nat : [job EXCEPT ![r].copy.cid = n] \in [Requests -> Job]
           /\ [job EXCEPT ![r] = NoJob] \in [Requests -> Job]
<1>1. job \in [Requests -> Job] /\ job[r] \in Job
  BY DEF TypeOK
<1>2. \A j \in Job : \A st \in {"stopped", "running", "paused"} :
        [j EXCEPT !.copy.state = st] \in Job
  BY DEF Job, Session
<1>3. \A j \in Job : \A n \in Nat : [j EXCEPT !.copy.cid = n] \in Job
  BY DEF Job, Session
<1> QED
  BY <1>1, <1>2, <1>3 DEF Sid, Copy, Job

LEMMA TypeGoto ==
    ASSUME TypeOK, NEW p \in Procs, NEW l \in RequestPCs \cup WorkerPCs, Goto(p, l)
    PROVE  pc' \in [Procs -> RequestPCs \cup WorkerPCs]
  BY DEF Goto, TypeOK

LEMMA TypeFinish ==
    ASSUME TypeOK, NEW r \in Requests, Finish(r)
    PROVE  pc' \in [Procs -> RequestPCs \cup WorkerPCs] /\ job' \in [Requests -> Job]
  BY TypeCopy DEF Finish, TypeOK, RequestPCs

LEMMA TypeStatus ==
    ASSUME TypeOK, NEW s \in Sessions,
           NEW st \in {"absent", "created", "running", "paused", "exited"},
           SetStatus(s, st)
    PROVE  docker' \in [Sessions -> Container]
<1>1. docker[s] \in Container
  BY DEF TypeOK
<1>2. [docker[s] EXCEPT !.status = st] \in Container
  BY <1>1 DEF Container
<1> QED
  BY <1>2 DEF SetStatus, TypeOK

LEMMA TypePersist ==
    ASSUME TypeOK, NEW p \in Procs, TakeSnapshot(p) \/ SaveState(p)
    PROVE  TypeOK'
<1>1. CASE TakeSnapshot(p)
  BY <1>1, TypeStored DEF TakeSnapshot, Goto, TypeOK, RequestPCs
<1>2. CASE SaveState(p)
  <2>1. AfterSave(p) \in RequestPCs \cup WorkerPCs
    BY DEF AfterSave, RequestPCs, WorkerPCs
  <2>2. pc' \in [Procs -> RequestPCs \cup WorkerPCs]
    BY <1>2, <2>1, TypeGoto DEF SaveState
  <2>3. job' \in [Requests -> Job]
    BY <1>2 DEF SaveState, TypeOK
  <2>4. db' \in [Sessions -> Session] /\ snap' \in [Procs -> [Sessions -> Session]]
    BY <1>2 DEF SaveState, TypeOK
  <2> QED
    BY <1>2, <2>2, <2>3, <2>4 DEF SaveState, TypeOK
<1> QED
  BY <1>1, <1>2

LEMMA TypeServe ==
    ASSUME TypeOK, NEW r \in Requests, Serve(r)
    PROVE  TypeOK'
<1> USE TypeCopy, TypeGoto, TypeFinish, TypeStatus
<1> DEFINE PCs == RequestPCs \cup WorkerPCs
<1>0. \A l \in {"idle", "write", "persist", "save", "remove", "launch", "relaunch",
                "verify", "register", "recreate", "unregister"} : l \in PCs
  BY DEF RequestPCs
<1>1. CASE WriteBack(r)
  BY <1>1, <1>0 DEF WriteBack, Goto, TypeOK
<1>2. CASE TakeSnapshot(r) \/ SaveState(r)
  BY <1>2, TypePersist
<1>3. CASE InsertClone(r)
  <2> PICK s \in Sessions :
          /\ minted' = minted \cup {s}
          /\ sessions' = [sessions EXCEPT ![s] =
                            [Copy(r) EXCEPT !.state = "stopped", !.cid = 0]]
    BY <1>3 DEF InsertClone
  <2>1. [Copy(r) EXCEPT !.state = "stopped", !.cid = 0] \in Session
    BY DEF Session
  <2> QED
    BY <1>3, <1>0, <2>1 DEF InsertClone, Goto, TypeOK
<1>4. CASE CloneFails(r)
  BY <1>4 DEF CloneFails, TypeOK
<1>5. CASE ForgetSession(r)
  BY <1>5, <1>0 DEF ForgetSession, Goto, TypeOK
<1>6. CASE RemoveContainer(r)
  <2>1. docker' \in [Sessions -> Container]
    BY <1>6 DEF RemoveContainer, TypeOK
  <2> QED
    BY <1>6, <2>1 DEF RemoveContainer, TypeOK
<1>7. CASE CreateContainer(r)
  <2>1. CASE /\ docker' = [docker EXCEPT ![Sid(r)] =
                             [issued |-> docker[Sid(r)].issued + 1, status |-> "created"]]
             /\ job' = [job EXCEPT ![r].copy.cid = docker[Sid(r)].issued + 1]
             /\ Goto(r, IF pc[r] = "create" THEN "launch" ELSE "relaunch")
    <3>0. docker[Sid(r)] \in Container
      BY DEF TypeOK
    <3>1. docker[Sid(r)].issued + 1 \in Nat
      BY <3>0 DEF Container
    <3>2. docker' \in [Sessions -> Container]
      BY <2>1, <3>1 DEF TypeOK, Container
    <3>3. job' \in [Requests -> Job]
      BY <2>1, <3>1
    <3> QED
      BY <1>7, <1>0, <2>1, <3>2, <3>3 DEF CreateContainer, Goto, TypeOK
  <2>2. CASE Finish(r) /\ UNCHANGED docker
    BY <1>7, <2>2 DEF CreateContainer, TypeOK
  <2> QED
    BY <1>7, <2>1, <2>2 DEF CreateContainer
<1>8. CASE LaunchContainer(r)
  <2>1. docker' \in [Sessions -> Container]
    BY <1>8 DEF LaunchContainer, TypeOK
  <2>2. job' \in [Requests -> Job] /\ pc' \in [Procs -> PCs]
    BY <1>8, <1>0 DEF LaunchContainer, TypeOK
  <2> QED
    BY <1>8, <2>1, <2>2 DEF LaunchContainer, TypeOK
<1>9. CASE VerifyLaunch(r)
  BY <1>9, <1>0 DEF VerifyLaunch, TypeOK
<1>10. CASE RegisterBackends(r)
  BY <1>10, <1>0 DEF RegisterBackends, TypeOK
<1>11. CASE HaltContainer(r)
  <2>1. StopResult(Sid(r)) \in {"absent", "created", "running", "paused", "exited"}
    BY DEF StopResult, TypeOK, Container
  <2>2. docker' \in [Sessions -> Container]
    BY <1>11, <2>1 DEF HaltContainer, TypeOK
  <2>3. job' \in [Requests -> Job] /\ pc' \in [Procs -> PCs]
    BY <1>11, <1>0 DEF HaltContainer, TypeOK
  <2> QED
    BY <1>11, <2>2, <2>3 DEF HaltContainer, TypeOK
<1>12. CASE UnregisterBackends(r)
  BY <1>12, <1>0 DEF UnregisterBackends, TypeOK
<1>13. ASSUME NEW at, NEW call, NEW from, NEW to \in {"running", "paused"},
              Toggle(r, at, call, from, to)
       PROVE  TypeOK'
  <2>1. CASE /\ SetStatus(Sid(r), to)
             /\ job' = [job EXCEPT ![r].copy.state = to]
             /\ Goto(r, "write")
    <3>1. docker' \in [Sessions -> Container]
      <4>1. to \in {"absent", "created", "running", "paused", "exited"}
        BY <1>13
      <4>2. SetStatus(Sid(r), to) /\ Sid(r) \in Sessions
        BY <2>1, TypeCopy
      <4> QED
        BY <4>1, <4>2, TypeStatus
    <3>2. job' \in [Requests -> Job]
      BY <2>1, <1>13
    <3>3. pc' \in [Procs -> PCs]
      BY <2>1, <1>0
    <3> QED
      BY <1>13, <3>1, <3>2, <3>3 DEF Toggle, TypeOK
  <2>2. CASE Finish(r) /\ UNCHANGED docker
    BY <1>13, <2>2 DEF Toggle, TypeOK
  <2> QED
    BY <1>13, <2>1, <2>2 DEF Toggle
<1>14. CASE PauseContainer(r) \/ ResumeContainer(r)
  BY <1>13, <1>14 DEF PauseContainer, ResumeContainer
<1> QED
  BY <1>1, <1>2, <1>3, <1>4, <1>5, <1>6, <1>7, <1>8, <1>9, <1>10, <1>11, <1>12,
     <1>14 DEF Serve

LEMMA TypeEnforce ==
    ASSUME TypeOK, Enforce
    PROVE  TypeOK'
<1> USE TypeGoto
<1>0. \A l \in {"idle", "stopping", "mark", "persist"} :
         l \in RequestPCs \cup WorkerPCs
  BY DEF WorkerPCs
<1>1. CASE EnforcerScan
  <2>1. \A s \in Sessions : sessions[s].cid \in Nat
    BY DEF TypeOK, Session
  <2>2. todo' \in [Workers -> [Sessions -> Nat]]
    BY <1>1, <2>1 DEF EnforcerScan, TypeOK
  <2>3. batch' \in [Workers -> SUBSET Sessions]
    BY <1>1 DEF EnforcerScan, TypeOK
  <2> QED
    BY <1>0, <1>1, <2>2, <2>3 DEF EnforcerScan, TypeOK
<1>2. ASSUME NEW s \in Sessions, EnforcerStop(s) PROVE TypeOK'
  <2>1. docker[s] \in Container
    BY DEF TypeOK
  <2>2. StopResult(s) \in {"absent", "created", "running", "paused", "exited"}
    BY <2>1 DEF StopResult, Container
  <2>3. docker' \in [Sessions -> Container]
    BY <1>2, <2>2, TypeStatus DEF EnforcerStop, StopCall, TypeOK
  <2> QED
    BY <1>2, <2>3 DEF EnforcerStop, TypeOK
<1>3. CASE EnforcerStopped
  BY <1>0, <1>3 DEF EnforcerStopped, TypeOK
<1>4. CASE EnforcerMark
  <2>1. \A x \in Session : [x EXCEPT !.state = "stopped", !.elapsed = {}] \in Session
    BY DEF Session
  <2>2. sessions' \in [Sessions -> Session]
    BY <1>4, <2>1 DEF EnforcerMark, TypeOK
  <2> QED
    BY <1>0, <1>4, <2>2 DEF EnforcerMark, TypeOK
<1>5. CASE TakeSnapshot("enforcer") \/ SaveState("enforcer")
  BY <1>5, TypePersist
<1> QED
  BY <1>1, <1>2, <1>3, <1>4, <1>5 DEF Enforce

LEMMA TypePrune ==
    ASSUME TypeOK, Prune
    PROVE  TypeOK'
<1> USE TypeGoto
<1>0. \A l \in {"idle", "stopping", "persist"} : l \in RequestPCs \cup WorkerPCs
  BY DEF WorkerPCs
<1>1. CASE PrunerDelete
  <2>1. \A s \in Sessions : sessions[s].cid \in Nat
    BY DEF TypeOK, Session
  <2>2. todo' \in [Workers -> [Sessions -> Nat]]
    BY <1>1, <2>1 DEF PrunerDelete, TypeOK
  <2>3. sessions' \in [Sessions -> Session]
    BY <1>1 DEF PrunerDelete, TypeOK
  <2> QED
    BY <1>0, <1>1, <2>2, <2>3 DEF PrunerDelete, TypeOK
<1>2. CASE PrunerDone
  BY <1>0, <1>2 DEF PrunerDone, TypeOK
<1>3. ASSUME NEW s \in Sessions, PrunerStop(s) PROVE TypeOK'
  <2>1. docker[s] \in Container
    BY DEF TypeOK
  <2>2. StopResult(s) \in {"absent", "created", "running", "paused", "exited"}
    BY <2>1 DEF StopResult, Container
  <2>3. docker' \in [Sessions -> Container]
    BY <1>3, <2>2, TypeStatus DEF PrunerStop, StopCall, TypeOK
  <2> QED
    BY <1>3, <2>3 DEF PrunerStop, TypeOK
<1>4. ASSUME NEW s \in Sessions, PrunerRemove(s) PROVE TypeOK'
  <2>1. docker' \in [Sessions -> Container]
    BY <1>4, TypeStatus DEF PrunerRemove, TypeOK
  <2> QED
    BY <1>4, <2>1 DEF PrunerRemove, TypeOK
<1>5. CASE TakeSnapshot("pruner") \/ SaveState("pruner")
  BY <1>5, TypePersist
<1> QED
  BY <1>1, <1>2, <1>3, <1>4, <1>5 DEF Prune

LEMMA TypeWorld ==
    ASSUME TypeOK, World
    PROVE  TypeOK'
<1>1. ASSUME NEW s \in Sessions, Elapse(s) PROVE TypeOK'
  <2>1. \A x \in Session, c \in Clocks : [x EXCEPT !.elapsed = x.elapsed \cup {c}] \in Session
    BY DEF Session
  <2>2. sessions' \in [Sessions -> Session]
    <3>1. PICK c \in Clocks :
             sessions' = [sessions EXCEPT ![s].elapsed = @ \cup {c}]
      BY <1>1, ClocksAssumption DEF Elapse
    <3>2. sessions[s] \in Session
      BY DEF TypeOK
    <3>3. [sessions[s] EXCEPT !.elapsed = sessions[s].elapsed \cup {c}] \in Session
      BY <2>1, <3>2
    <3> QED
      BY <3>1, <3>3 DEF TypeOK
  <2> QED
    BY <1>1, <2>2 DEF Elapse, TypeOK
<1>2. ASSUME NEW s \in Sessions, FirmwareExits(s) \/ ContainerVanishes(s)
      PROVE  TypeOK'
  <2>1. docker' \in [Sessions -> Container]
    BY <1>2, TypeStatus DEF FirmwareExits, ContainerVanishes
  <2> QED
    BY <1>2, <2>1 DEF FirmwareExits, ContainerVanishes, TypeOK
<1>3. CASE Restart
  BY <1>3 DEF Restart, TypeOK, RequestPCs
<1> QED
  BY <1>1, <1>2, <1>3 DEF World

LEMMA TypeStep == TypeOK /\ [Next]_vars => TypeOK'
<1> SUFFICES ASSUME TypeOK, [Next]_vars PROVE TypeOK'
  OBVIOUS
<1>1. CASE UNCHANGED vars
  BY <1>1 DEF vars, TypeOK
<1>2. CASE Next
  BY <1>2, TypeArrive, TypeServe, TypeEnforce, TypePrune, TypeWorld DEF Next
<1> QED
  BY <1>1, <1>2

(* Every variable keeps its type, for any number of sessions, handlers and *)
(* containers and whatever calls fail.                                     *)
THEOREM TypeCorrect == Spec => []TypeOK
  BY TypeInit, TypeStep, PTL DEF Spec

-----------------------------------------------------------------------------
(* Containers: a session that runs or is paused has one                     *)

(* The program points at which a handler's copy names a container.         *)
KnowsPCs == {"launch", "relaunch", "verify", "register", "halt", "freeze",
             "thaw", "unregister", "write"}

(* What is true of the record x of session s wherever it is kept: in the   *)
(* map, in the store, in a snapshot on its way there.                      *)
Sound(x, s) ==
    /\ HasContainer(x)
    /\ s \notin minted => x.cid = 0 /\ x.state = "absent" /\ x.rev = 0

RecordsSound ==
    \A s \in Sessions :
        /\ Sound(sessions[s], s)
        /\ Sound(db[s], s)
        /\ \A p \in Procs : Sound(snap[p][s], s)

(* What is true of a handler on the way: its session was created, and its  *)
(* copy names a container from the point on where it may be written back.  *)
HandlersSound ==
    \A r \in Requests :
        /\ pc[r] # "idle" => Sid(r) \in minted
        /\ pc[r] \in KnowsPCs => Copy(r).cid # 0

ContainerInv == TypeOK /\ RecordsSound /\ HandlersSound

LEMMA ContainerInit == Init => ContainerInv
  BY TypeInit DEF Init, ContainerInv, RecordsSound, HandlersSound, Sound,
     HasContainer, IsActive, NoSnap, NoSession, KnowsPCs

(* A step that leaves the records alone only has to keep the handlers.     *)
LEMMA SameRecords ==
    ASSUME RecordsSound, UNCHANGED <<sessions, minted, db, snap>>
    PROVE  RecordsSound'
  BY DEF RecordsSound, Sound

LEMMA SameHandlers ==
    ASSUME HandlersSound, minted \subseteq minted',
           \A r \in Requests : pc'[r] = pc[r] /\ job'[r] = job[r]
    PROVE  HandlersSound'
  BY DEF HandlersSound, Sid, Copy

(* Only one handler moves. *)
LEMMA OneHandler ==
    ASSUME TypeOK, HandlersSound, minted \subseteq minted', NEW r \in Requests,
           \A q \in Requests \ {r} : pc'[q] = pc[q] /\ job'[q] = job[q],
           pc'[r] # "idle" => job'[r].sid \in minted',
           pc'[r] \in KnowsPCs => job'[r].copy.cid # 0
    PROVE  HandlersSound'
  BY DEF HandlersSound, Sid, Copy

(* Only one record of the map changes, to a sound one. *)
LEMMA OneRecord ==
    ASSUME TypeOK, RecordsSound, minted \subseteq minted',
           NEW t \in Sessions, Sound(sessions[t], t)',
           \A s \in Sessions \ {t} : sessions'[s] = sessions[s],
           UNCHANGED <<db, snap>>
    PROVE  RecordsSound'
  BY DEF RecordsSound, Sound

LEMMA ContainerArrive ==
    ASSUME ContainerInv, NEW r \in Requests, Arrive(r)
    PROVE  RecordsSound' /\ HandlersSound'
<1> USE DEF ContainerInv
<1>1. ASSUME NEW o, NEW s \in Sessions, NEW l, Accept(r, o, s, l),
             l \in KnowsPCs => sessions[s].cid # 0
      PROVE  RecordsSound' /\ HandlersSound'
  <2>1. s \in minted
    BY <1>1 DEF Accept, Present, Absent, RecordsSound, Sound
  <2>2. /\ pc'[r] = l
        /\ job'[r].sid = s /\ job'[r].copy.cid = sessions[s].cid
        /\ \A q \in Requests \ {r} : pc'[q] = pc[q] /\ job'[q] = job[q]
    BY <1>1 DEF Accept, TypeOK, Rewound, Session
  <2>3. HandlersSound'
    BY <1>1, <2>1, <2>2, OneHandler DEF Accept
  <2> QED
    BY <1>1, <2>3, SameRecords DEF Accept
<1>2. CASE CreateSession(r)
  <2> PICK s \in Sessions, anon \in BOOLEAN :
          /\ minted' = minted \cup {s}
          /\ sessions' = [sessions EXCEPT ![s] =
                            [NoSession EXCEPT !.state = "stopped", !.anon = anon]]
          /\ job' = [job EXCEPT ![r] = [op |-> "create", sid |-> s,
                                        copy |-> NoSession]]
    BY <1>2 DEF CreateSession
  <2>1. Sound(sessions[s], s)'
    BY DEF TypeOK, Sound, HasContainer, IsActive, NoSession
  <2>2. RecordsSound'
    BY <1>2, <2>1, OneRecord DEF CreateSession, TypeOK
  <2>3. HandlersSound'
    BY <1>2, OneHandler DEF CreateSession, Goto, TypeOK, KnowsPCs
  <2> QED
    BY <2>2, <2>3
<1>3. CASE UpdateSession(r)
  <2> PICK s \in Sessions :
          /\ Present(s)
          /\ sessions' = [sessions EXCEPT ![s].rev = @ + 1, ![s].elapsed = {}]
          /\ job' = [job EXCEPT ![r] = [op |-> "update", sid |-> s,
                                        copy |-> NoSession]]
    BY <1>3 DEF UpdateSession
  <2>1. /\ sessions'[s].state = sessions[s].state
        /\ sessions'[s].cid = sessions[s].cid
        /\ \A t \in Sessions \ {s} : sessions'[t] = sessions[t]
    BY DEF TypeOK, Session
  <2>2. s \in minted
    BY DEF Present, Absent, RecordsSound, Sound
  <2>3. Sound(sessions[s], s)'
    BY <1>3, <2>1, <2>2 DEF UpdateSession, RecordsSound, Sound, HasContainer, IsActive
  <2>4. RecordsSound'
    BY <1>3, <2>1, <2>3, OneRecord DEF UpdateSession
  <2>5. HandlersSound'
    BY <1>3, <2>2, OneHandler DEF UpdateSession, Goto, TypeOK, KnowsPCs
  <2> QED
    BY <2>4, <2>5
<1>4. CASE StopStopped(r)
  BY <1>4, SameRecords, SameHandlers DEF StopStopped
<1>5. CASE AcceptRestore(r)
  BY <1>5, <1>1 DEF AcceptRestore, KnowsPCs
<1>6. CASE AcceptDelete(r)
  BY <1>6, <1>1 DEF AcceptDelete, KnowsPCs
<1>7. CASE AcceptStart(r)
  <2> PICK s \in Sessions :
         Accept(r, "start", s, IF sessions[s].cid = 0 THEN "create" ELSE "launch")
    BY <1>7 DEF AcceptStart
  <2> QED
    BY <1>1 DEF KnowsPCs
<1>8. CASE AcceptStop(r)
  <2> PICK s \in Sessions :
         /\ IsActive(sessions[s])
         /\ Accept(r, "stop", s, IF sessions[s].cid = 0 THEN "unregister" ELSE "halt")
    BY <1>8 DEF AcceptStop
  <2>1. sessions[s].cid # 0
    BY DEF RecordsSound, Sound, HasContainer
  <2> QED
    BY <1>1, <2>1
<1>9. CASE AcceptPause(r)
  BY <1>9, <1>1 DEF AcceptPause
<1>10. CASE AcceptResume(r)
  BY <1>10, <1>1 DEF AcceptResume
<1> QED
  BY <1>2, <1>3, <1>4, <1>5, <1>6, <1>7, <1>8, <1>9, <1>10 DEF Arrive

LEMMA ContainerPersist ==
    ASSUME ContainerInv, NEW p \in Procs, TakeSnapshot(p) \/ SaveState(p)
    PROVE  RecordsSound' /\ HandlersSound'
<1> USE DEF ContainerInv
<1>1. CASE TakeSnapshot(p)
  <2>1. snap' = [snap EXCEPT ![p] = Stored]
    BY <1>1 DEF TakeSnapshot
  <2>2. \A s \in Sessions : Stored[s].state = sessions[s].state
                            /\ Stored[s].cid = sessions[s].cid
                            /\ Stored[s].rev = sessions[s].rev
    BY DEF Stored, Rewound, TypeOK, Session
  <2>3. \A s \in Sessions, q \in Procs : Sound(snap'[q][s], s)
    <3>1. \A s \in Sessions : Sound(Stored[s], s)
      BY <2>2 DEF RecordsSound, Sound, HasContainer, IsActive
    <3> QED
      BY <2>1, <3>1 DEF TypeOK, RecordsSound
  <2>4. RecordsSound'
    BY <1>1, <2>3 DEF TakeSnapshot, RecordsSound, Sound
  <2>5. HandlersSound'
    BY <1>1 DEF TakeSnapshot, Goto, TypeOK, HandlersSound, Sid, Copy, KnowsPCs
  <2> QED
    BY <2>4, <2>5
<1>2. CASE SaveState(p)
  <2>1. RecordsSound'
    <3>1. \A s \in Sessions : Sound(NoSnap[s], s)
      BY DEF NoSnap, NoSession, Sound, HasContainer, IsActive
    <3>2. \A s \in Sessions, q \in Procs : Sound(snap'[q][s], s)
      BY <1>2, <3>1 DEF SaveState, TypeOK, RecordsSound
    <3>3. \A s \in Sessions : Sound(db'[s], s)
      BY <1>2 DEF SaveState, RecordsSound
    <3> QED
      BY <1>2, <3>2, <3>3 DEF SaveState, RecordsSound, Sound
  <2>2. AfterSave(p) \in KnowsPCs => p \in Requests /\ Copy(p).cid # 0
    BY DEF AfterSave, KnowsPCs
  <2>3. pc' = [pc EXCEPT ![p] = AfterSave(p)] /\ minted' = minted
    BY <1>2 DEF SaveState, Goto
  <2>4. \A r \in Requests : r # p => pc'[r] = pc[r] /\ job'[r] = job[r]
    BY <1>2, <2>3 DEF SaveState, TypeOK
  <2>5. CASE p \in Requests
    <3>1. pc'[p] = AfterSave(p) /\ (AfterSave(p) # "idle" => job'[p] = job[p])
      BY <1>2, <2>3, <2>5 DEF SaveState, TypeOK
    <3>2. pc[p] # "idle"
      BY <1>2 DEF SaveState
    <3>3. pc'[p] # "idle" => job'[p].sid \in minted'
      BY <2>3, <2>5, <3>1, <3>2 DEF HandlersSound, Sid
    <3>4. pc'[p] \in KnowsPCs => job'[p].copy.cid # 0
      <4>1. "idle" \notin KnowsPCs
        BY DEF KnowsPCs
      <4> QED
        BY <2>2, <3>1, <4>1 DEF Copy
    <3> QED
      BY <2>1, <2>3, <2>4, <2>5, <3>3, <3>4, OneHandler
  <2>6. CASE p \notin Requests
    BY <2>1, <2>3, <2>4, <2>6, SameHandlers
  <2> QED
    BY <2>5, <2>6
<1> QED
  BY <1>1, <1>2

(* Every step of a handler but an insertion into the map: it may rewrite   *)
(* the record of its own session, of which its copy names the container.   *)
LEMMA ContainerServe ==
    ASSUME ContainerInv, NEW r \in Requests, Serve(r)
    PROVE  RecordsSound' /\ HandlersSound'
<1> USE TypeCopy DEF ContainerInv
<1>0. pc[r] # "idle" => Sid(r) \in minted
  BY DEF HandlersSound
<1>1. CASE WriteBack(r)
  <2>1. Sid(r) \in minted /\ Copy(r).cid # 0
    BY <1>1 DEF WriteBack, HandlersSound, KnowsPCs
  <2>2. sessions'[Sid(r)] = Copy(r)
    BY <1>1 DEF WriteBack, TypeOK
  <2>4. \A s \in Sessions \ {Sid(r)} : sessions'[s] = sessions[s]
    BY <1>1 DEF WriteBack, TypeOK
  <2>5. RecordsSound'
    <3>2. \A s \in Sessions : Sound(sessions'[s], s)
      BY <1>1, <2>1, <2>2, <2>4 DEF RecordsSound, Sound, HasContainer
    <3> QED
      BY <1>1, <3>2 DEF WriteBack, RecordsSound, Sound
  <2>6. HandlersSound'
    BY <1>1, <2>1, OneHandler DEF WriteBack, Goto, TypeOK, KnowsPCs, Sid
  <2> QED
    BY <2>5, <2>6
<1>2. CASE TakeSnapshot(r) \/ SaveState(r)
  BY <1>2, ContainerPersist
<1>3. CASE InsertClone(r)
  <2> PICK s \in Sessions :
          /\ minted' = minted \cup {s}
          /\ sessions' = [sessions EXCEPT ![s] =
                            [Copy(r) EXCEPT !.state = "stopped", !.cid = 0]]
    BY <1>3 DEF InsertClone
  <2>1. sessions'[s].state = "stopped"
    BY DEF TypeOK, Session
  <2>2. Sound(sessions[s], s)'
    BY <2>1 DEF Sound, HasContainer, IsActive
  <2>3. RecordsSound'
    BY <1>3, <2>2, OneRecord DEF InsertClone, TypeOK
  <2>4. HandlersSound'
    BY <1>0, <1>3, OneHandler DEF InsertClone, Goto, TypeOK, KnowsPCs, Sid
  <2> QED
    BY <2>3, <2>4
<1>4. ASSUME Finish(r), UNCHANGED minted
      PROVE  HandlersSound'
  BY <1>4, OneHandler DEF Finish, TypeOK, KnowsPCs
<1>5. ASSUME NEW l, Goto(r, l), pc[r] # "idle", UNCHANGED minted,
             \A q \in Requests \ {r} : job'[q] = job[q],
             job'[r].sid = job[r].sid,
             l \in KnowsPCs => job'[r].copy.cid # 0
      PROVE  HandlersSound'
  BY <1>0, <1>5, OneHandler DEF Goto, TypeOK, Sid
<1>6. CASE CloneFails(r)
  BY <1>4, <1>6, SameRecords DEF CloneFails
<1>7. CASE ForgetSession(r)
  <2>1. RecordsSound'
    <3>1. Sound(NoSession, Sid(r))
      BY DEF Sound, NoSession, HasContainer, IsActive
    <3>2. \A s \in Sessions : Sound(sessions'[s], s)
      BY <1>7, <3>1 DEF ForgetSession, RecordsSound, TypeOK
    <3> QED
      BY <1>7, <3>2 DEF ForgetSession, RecordsSound, Sound
  <2>2. HandlersSound'
    BY <1>5, <1>7 DEF ForgetSession, KnowsPCs
  <2> QED
    BY <2>1, <2>2
<1>8. CASE RemoveContainer(r)
  BY <1>4, <1>8, SameRecords DEF RemoveContainer
<1>9. CASE CreateContainer(r)
  <2>1. RecordsSound'
    BY <1>9, SameRecords DEF CreateContainer
  <2>0. UNCHANGED minted
    BY <1>9 DEF CreateContainer
  <2>2. CASE Finish(r)
    BY <1>4, <2>0, <2>1, <2>2
  <2>3. CASE /\ job' = [job EXCEPT ![r].copy.cid = docker[Sid(r)].issued + 1]
             /\ Goto(r, IF pc[r] = "create" THEN "launch" ELSE "relaunch")
    <3>1. docker[Sid(r)] \in Container
      BY DEF TypeOK
    <3>2. docker[Sid(r)].issued \in Nat
      BY <3>1 DEF Container
    <3>3. docker[Sid(r)].issued + 1 # 0
      BY <3>2
    <3>4. \A n \in Nat : job' = [job EXCEPT ![r].copy.cid = n] =>
             /\ \A q \in Requests \ {r} : job'[q] = job[q]
             /\ job'[r].sid = job[r].sid /\ job'[r].copy.cid = n
      <4>1. job[r] \in Job /\ job[r].copy \in Session
        BY DEF TypeOK, Job
      <4> QED
        BY <4>1 DEF TypeOK, Job, Session
    <3>5. docker[Sid(r)].issued + 1 \in Nat
      BY <3>2
    <3>6. /\ \A q \in Requests \ {r} : job'[q] = job[q]
          /\ job'[r].sid = job[r].sid /\ job'[r].copy.cid # 0
      <4> DEFINE n == docker[Sid(r)].issued + 1
      <4>1. n \in Nat /\ n # 0 /\ job' = [job EXCEPT ![r].copy.cid = n]
        BY <2>3, <3>3, <3>5
      <4> HIDE DEF n
      <4> QED
        BY <3>4, <4>1
    <3> QED
      BY <1>5, <1>9, <2>1, <2>3, <3>6 DEF CreateContainer
  <2> QED
    BY <1>9, <2>1, <2>2, <2>3 DEF CreateContainer
<1>10. CASE LaunchContainer(r)
  <2>1. RecordsSound'
    BY <1>10, SameRecords DEF LaunchContainer
  <2>2. Copy(r).cid # 0
    BY <1>10 DEF LaunchContainer, HandlersSound, KnowsPCs
  <2>3. HandlersSound'
    BY <1>4, <1>5, <1>10, <2>2 DEF LaunchContainer, Copy
  <2> QED
    BY <2>1, <2>3
<1>11. ASSUME NEW st, job' = [job EXCEPT ![r].copy.state = st]
       PROVE  /\ \A q \in Requests \ {r} : job'[q] = job[q]
              /\ job'[r].sid = job[r].sid /\ job'[r].copy.cid = job[r].copy.cid
  <2>1. job[r] \in Job /\ job[r].copy \in Session
    BY DEF TypeOK, Job
  <2> QED
    BY <1>11, <2>1 DEF TypeOK, Job, Session
<1>12. CASE VerifyLaunch(r)
  <2>1. RecordsSound'
    BY <1>12, SameRecords DEF VerifyLaunch
  <2>2. Copy(r).cid # 0
    BY <1>12 DEF VerifyLaunch, HandlersSound, KnowsPCs
  <2>3. HandlersSound'
    BY <1>4, <1>5, <1>11, <1>12, <2>2 DEF VerifyLaunch, Copy
  <2> QED
    BY <2>1, <2>3
<1>13. CASE RegisterBackends(r)
  <2>1. Copy(r).cid # 0
    BY <1>13 DEF RegisterBackends, HandlersSound, KnowsPCs
  <2> QED
    BY <1>5, <1>13, <2>1, SameRecords DEF RegisterBackends, Copy
<1>14. CASE HaltContainer(r)
  <2>1. RecordsSound'
    BY <1>14, SameRecords DEF HaltContainer
  <2>2. Copy(r).cid # 0
    BY <1>14 DEF HaltContainer, HandlersSound, KnowsPCs
  <2>3. HandlersSound'
    BY <1>4, <1>5, <1>14, <2>2 DEF HaltContainer, Copy
  <2> QED
    BY <2>1, <2>3
<1>15. CASE UnregisterBackends(r)
  <2>1. Copy(r).cid # 0
    BY <1>15 DEF UnregisterBackends, HandlersSound, KnowsPCs
  <2> QED
    BY <1>5, <1>11, <1>15, <2>1, SameRecords DEF UnregisterBackends, Copy
<1>16. ASSUME NEW at \in KnowsPCs \ {"idle"}, NEW call, NEW from, NEW to,
              Toggle(r, at, call, from, to)
       PROVE  RecordsSound' /\ HandlersSound'
  <2>1. RecordsSound'
    BY <1>16, SameRecords DEF Toggle
  <2>2. Copy(r).cid # 0
    BY <1>16 DEF Toggle, HandlersSound
  <2>3. HandlersSound'
    BY <1>4, <1>5, <1>11, <1>16, <2>2 DEF Toggle, Copy
  <2> QED
    BY <2>1, <2>3
<1>17. CASE PauseContainer(r) \/ ResumeContainer(r)
  BY <1>16, <1>17 DEF PauseContainer, ResumeContainer, KnowsPCs
<1> QED
  BY <1>1, <1>2, <1>3, <1>6, <1>7, <1>8, <1>9, <1>10, <1>12, <1>13, <1>14,
     <1>15, <1>17 DEF Serve

(* A step that touches no handler keeps HandlersSound; one that only       *)
(* stops or forgets sessions keeps the records sound.                      *)
LEMMA ContainerWorkers ==
    ASSUME ContainerInv, UNCHANGED <<minted, db, snap, job>>,
           \A r \in Requests : pc'[r] = pc[r],
           \A s \in Sessions : Sound(sessions'[s], s)
    PROVE  RecordsSound' /\ HandlersSound'
<1>1. RecordsSound'
  BY DEF ContainerInv, RecordsSound, Sound
<1>2. HandlersSound'
  BY SameHandlers DEF ContainerInv
<1> QED
  BY <1>1, <1>2

LEMMA WorkerGoto ==
    ASSUME TypeOK, NEW w \in Workers, NEW l, Goto(w, l)
    PROVE  \A r \in Requests : pc'[r] = pc[r]
  BY RequestsAssumption DEF Goto, TypeOK

LEMMA ContainerEnforce ==
    ASSUME ContainerInv, Enforce
    PROVE  RecordsSound' /\ HandlersSound'
<1> USE DEF ContainerInv
<1>0. \A s \in Sessions : Sound(sessions[s], s)
  BY DEF RecordsSound
<1>1. CASE EnforcerScan
  BY <1>0, <1>1, ContainerWorkers, WorkerGoto DEF EnforcerScan
<1>2. ASSUME NEW s \in Sessions, EnforcerStop(s)
      PROVE  RecordsSound' /\ HandlersSound'
  BY <1>0, <1>2, ContainerWorkers DEF EnforcerStop
<1>3. CASE EnforcerStopped
  BY <1>0, <1>3, ContainerWorkers, WorkerGoto DEF EnforcerStopped
<1>4. CASE EnforcerMark
  <2>1. \A s \in Marked :
          /\ s \in minted
          /\ ~IsActive([sessions[s] EXCEPT !.state = "stopped", !.elapsed = {}])
    <3>1. \A s \in Sessions : sessions[s] \in Session
      BY DEF TypeOK
    <3>2. \A x \in Session : [x EXCEPT !.state = "stopped", !.elapsed = {}].state = "stopped"
      BY DEF Session
    <3>3. Marked \subseteq Sessions /\ \A s \in Marked : sessions[s].state = "running"
      BY DEF Marked, TypeOK
    <3>4. \A s \in Marked : s \in minted
      BY <1>0, <3>3 DEF Sound
    <3> QED
      BY <3>1, <3>2, <3>3, <3>4 DEF IsActive
  <2>2. \A s \in Sessions : Sound(sessions'[s], s)
    BY <1>0, <1>4, <2>1 DEF EnforcerMark, Sound, HasContainer
  <2> QED
    BY <1>4, <2>2, ContainerWorkers, WorkerGoto DEF EnforcerMark
<1>5. CASE TakeSnapshot("enforcer") \/ SaveState("enforcer")
  BY <1>5, ContainerPersist
<1> QED
  BY <1>1, <1>2, <1>3, <1>4, <1>5 DEF Enforce

LEMMA ContainerPrune ==
    ASSUME ContainerInv, Prune
    PROVE  RecordsSound' /\ HandlersSound'
<1> USE DEF ContainerInv
<1>0. \A s \in Sessions : Sound(sessions[s], s)
  BY DEF RecordsSound
<1>1. CASE PrunerDelete
  <2>1. \A s \in Sessions : Sound(NoSession, s)
    BY DEF Sound, NoSession, HasContainer, IsActive
  <2>2. \A s \in Sessions : Sound(sessions'[s], s)
    BY <1>0, <1>1, <2>1 DEF PrunerDelete
  <2> QED
    BY <1>1, <2>2, ContainerWorkers, WorkerGoto DEF PrunerDelete
<1>2. CASE PrunerDone
  BY <1>0, <1>2, ContainerWorkers, WorkerGoto DEF PrunerDone
<1>3. ASSUME NEW s \in Sessions, PrunerStop(s) \/ PrunerRemove(s)
      PROVE  RecordsSound' /\ HandlersSound'
  BY <1>0, <1>3, ContainerWorkers DEF PrunerStop, PrunerRemove
<1>4. CASE TakeSnapshot("pruner") \/ SaveState("pruner")
  BY <1>4, ContainerPersist
<1> QED
  BY <1>1, <1>2, <1>3, <1>4 DEF Prune

LEMMA ContainerWorld ==
    ASSUME ContainerInv, World
    PROVE  RecordsSound' /\ HandlersSound'
<1> USE DEF ContainerInv
<1>0. \A s \in Sessions : Sound(sessions[s], s)
  BY DEF RecordsSound
<1>1. ASSUME NEW s \in Sessions, Elapse(s) PROVE RecordsSound' /\ HandlersSound'
  <2>1. PICK c \in Elapsing :
           /\ c = "timeout" => sessions[s].state = "running"
           /\ c = "ttl" => Present(s) /\ sessions[s].anon
           /\ sessions' = [sessions EXCEPT ![s].elapsed = @ \cup {c}]
    BY <1>1 DEF Elapse
  <2>2. sessions[s] \in Session
    BY DEF TypeOK
  <2>3. \A t \in Sessions : sessions'[t].state = sessions[t].state
                            /\ sessions'[t].cid = sessions[t].cid
                            /\ sessions'[t].rev = sessions[t].rev
    BY <2>1, <2>2 DEF TypeOK, Session
  <2>4. \A t \in Sessions : Sound(sessions'[t], t)
    BY <1>0, <2>3 DEF Sound, HasContainer, IsActive
  <2> QED
    BY <1>1, <2>4, ContainerWorkers DEF Elapse
<1>2. ASSUME NEW s \in Sessions, FirmwareExits(s) \/ ContainerVanishes(s)
      PROVE  RecordsSound' /\ HandlersSound'
  BY <1>0, <1>2, ContainerWorkers DEF FirmwareExits, ContainerVanishes
<1>3. CASE Restart
  <2>1. \A s \in Sessions, p \in Procs : Sound(NoSnap[s], s)
    BY DEF NoSnap, NoSession, Sound, HasContainer, IsActive
  <2>2. RecordsSound'
    BY <1>3, <2>1 DEF Restart, RecordsSound, Sound
  <2>3. HandlersSound'
    BY <1>3 DEF Restart, HandlersSound, KnowsPCs
  <2> QED
    BY <2>2, <2>3
<1> QED
  BY <1>1, <1>2, <1>3 DEF World

LEMMA ContainerStep == ContainerInv /\ [Next]_vars => ContainerInv'
<1> SUFFICES ASSUME ContainerInv, [Next]_vars PROVE ContainerInv'
  OBVIOUS
<1>1. TypeOK'
  BY TypeStep DEF ContainerInv
<1>2. CASE UNCHANGED vars
  BY <1>1, <1>2, SameRecords, SameHandlers DEF vars, ContainerInv
<1>3. CASE Next
  BY <1>1, <1>3, ContainerArrive, ContainerServe, ContainerEnforce,
     ContainerPrune, ContainerWorld DEF Next, ContainerInv
<1> QED
  BY <1>2, <1>3

(* The inductive invariant holds of every behaviour. *)
THEOREM ContainerInvariant == Spec => []ContainerInv
  BY ContainerInit, ContainerStep, PTL DEF Spec

(* However handlers, workers, failing calls, vanishing containers and      *)
(* restarts interleave, a session recorded as running or paused - in the   *)
(* map, in the store, in a copy about to be written back - has a container *)
(* id: the "session has no container" answers of pause and resume and the  *)
(* empty-id guards of stop and the enforcer are never needed.              *)
THEOREM ActiveSessionsHaveContainers == Spec => []ActiveHasContainer
<1>1. ContainerInv => ActiveHasContainer
  BY DEF ContainerInv, RecordsSound, HandlersSound, Sound, ActiveHasContainer,
     HasContainer, KnowsPCs
<1> QED
  BY <1>1, ContainerInvariant, PTL

-----------------------------------------------------------------------------
(* Containers: a known container is not forgotten                           *)

KeepsContainer(s) ==
    sessions[s].cid # 0 => sessions'[s].cid # 0 \/ sessions'[s].state = "absent"

LEMMA KeptByArrival ==
    ASSUME ContainerInv, NEW r \in Requests, Arrive(r), NEW s \in Sessions
    PROVE  KeepsContainer(s)
<1> USE DEF ContainerInv
<1>1. CASE UNCHANGED sessions
  BY <1>1 DEF KeepsContainer
<1>2. CASE CreateSession(r)
  <2> PICK t \in Sessions, anon \in BOOLEAN :
          /\ Fresh(t)
          /\ sessions' = [sessions EXCEPT ![t] =
                            [NoSession EXCEPT !.state = "stopped", !.anon = anon]]
    BY <1>2 DEF CreateSession
  <2>1. sessions[t].cid = 0
    BY DEF Fresh, RecordsSound, Sound
  <2> QED
    BY <2>1 DEF KeepsContainer, TypeOK
<1>3. CASE UpdateSession(r)
  <2> PICK t \in Sessions :
          sessions' = [sessions EXCEPT ![t].rev = @ + 1, ![t].elapsed = {}]
    BY <1>3 DEF UpdateSession
  <2>1. sessions'[s].cid = sessions[s].cid
    BY DEF TypeOK, Session
  <2> QED
    BY <2>1 DEF KeepsContainer
<1> QED
  BY <1>1, <1>2, <1>3 DEF Arrive, StopStopped, AcceptRestore, AcceptDelete,
     AcceptStart, AcceptStop, AcceptPause, AcceptResume, Accept

LEMMA KeptByHandler ==
    ASSUME ContainerInv, NEW r \in Requests, Serve(r), NEW s \in Sessions
    PROVE  KeepsContainer(s)
<1> USE DEF ContainerInv
<1>1. CASE UNCHANGED sessions
  BY <1>1 DEF KeepsContainer
<1>2. CASE WriteBack(r)
  <2>1. Copy(r).cid # 0
    BY <1>2 DEF WriteBack, HandlersSound, KnowsPCs
  <2> QED
    BY <1>2, <2>1 DEF WriteBack, TypeOK, KeepsContainer
<1>3. CASE InsertClone(r)
  <2> PICK t \in Sessions :
          /\ Fresh(t)
          /\ sessions' = [sessions EXCEPT ![t] =
                            [Copy(r) EXCEPT !.state = "stopped", !.cid = 0]]
    BY <1>3 DEF InsertClone
  <2>1. sessions[t].cid = 0
    BY DEF Fresh, RecordsSound, Sound
  <2> QED
    BY <2>1 DEF KeepsContainer, TypeOK
<1>4. CASE ForgetSession(r)
  BY <1>4 DEF ForgetSession, NoSession, TypeOK, KeepsContainer
<1>5. CASE \/ TakeSnapshot(r) \/ SaveState(r) \/ CloneFails(r) \/ RemoveContainer(r)
           \/ LaunchContainer(r) \/ VerifyLaunch(r) \/ RegisterBackends(r)
           \/ HaltContainer(r) \/ UnregisterBackends(r) \/ PauseContainer(r)
           \/ ResumeContainer(r)
  BY <1>1, <1>5 DEF TakeSnapshot, SaveState, CloneFails, RemoveContainer,
     LaunchContainer, VerifyLaunch, RegisterBackends, HaltContainer,
     UnregisterBackends, PauseContainer, ResumeContainer, Toggle
<1>6. CASE CreateContainer(r)
  BY <1>1, <1>6 DEF CreateContainer
<1> QED
  BY <1>2, <1>3, <1>4, <1>5, <1>6 DEF Serve

LEMMA KeptByOthers ==
    ASSUME ContainerInv, Enforce \/ Prune \/ World, ~Restart, NEW s \in Sessions
    PROVE  KeepsContainer(s)
<1> USE DEF ContainerInv
<1>0. sessions[s] \in Session
  BY DEF TypeOK
<1>1. CASE UNCHANGED sessions
  BY <1>1 DEF KeepsContainer
<1>2. CASE EnforcerMark
  <2>1. [sessions[s] EXCEPT !.state = "stopped", !.elapsed = {}].cid = sessions[s].cid
    BY <1>0 DEF Session
  <2> QED
    BY <1>2, <2>1 DEF EnforcerMark, KeepsContainer
<1>3. CASE PrunerDelete
  BY <1>3 DEF PrunerDelete, NoSession, KeepsContainer
<1>4. ASSUME NEW t \in Sessions, Elapse(t) PROVE KeepsContainer(s)
  <2>1. PICK c \in Elapsing : sessions' = [sessions EXCEPT ![t].elapsed = @ \cup {c}]
    BY <1>4 DEF Elapse
  <2>2. sessions'[s].cid = sessions[s].cid
    BY <1>0, <2>1 DEF TypeOK, Session
  <2> QED
    BY <2>2 DEF KeepsContainer
<1>5. CASE \/ EnforcerScan \/ EnforcerStopped \/ PrunerDone
           \/ \E t \in Sessions : EnforcerStop(t) \/ PrunerStop(t) \/ PrunerRemove(t)
           \/ \E w \in Workers : TakeSnapshot(w) \/ SaveState(w)
           \/ \E t \in Sessions : FirmwareExits(t) \/ ContainerVanishes(t)
  BY <1>1, <1>5 DEF EnforcerScan, EnforcerStopped, PrunerDone, EnforcerStop,
     PrunerStop, PrunerRemove, TakeSnapshot, SaveState, FirmwareExits,
     ContainerVanishes
<1> QED
  BY <1>2, <1>3, <1>4, <1>5 DEF Enforce, Prune, World

(* Once the map knows a session's container it keeps one for as long as    *)
(* the session is there, whoever writes: no handler writes back a copy it  *)
(* took before start had created the container.  (A restart may load a     *)
(* save that is older than the container.)                                 *)
THEOREM KnownContainersAreKept == Spec => ContainerKept
<1>1. ContainerInv /\ [Next]_vars =>
         [Restart \/ \A s \in Sessions : KeepsContainer(s)]_vars
  BY KeptByArrival, KeptByHandler, KeptByOthers DEF Next
<1>2. ContainerInv /\ [Next]_vars =>
         [Restart \/ \A s \in Sessions :
            sessions[s].cid # 0 =>
               sessions'[s].cid # 0 \/ sessions'[s].state = "absent"]_vars
  BY <1>1 DEF KeepsContainer
<1> QED
  BY <1>2, ContainerInvariant, PTL DEF Spec, ContainerKept

-----------------------------------------------------------------------------
(* Sessions: what has left the map stays out of it                          *)

WritingBack(s) == \E r \in Requests : pc[r] = "write" /\ Sid(r) = s
StaysGone(s) == Absent(s) => Absent(s)' \/ WritingBack(s)

LEMMA GoneByArrival ==
    ASSUME TypeOK, NEW r \in Requests, Arrive(r), NEW s \in minted
    PROVE  StaysGone(s)
<1>1. CASE UNCHANGED sessions
  BY <1>1 DEF StaysGone, Absent
<1>2. CASE CreateSession(r)
  <2> PICK t \in Sessions, anon \in BOOLEAN :
          /\ Fresh(t)
          /\ sessions' = [sessions EXCEPT ![t] =
                            [NoSession EXCEPT !.state = "stopped", !.anon = anon]]
    BY <1>2 DEF CreateSession
  <2>1. t # s
    BY DEF Fresh
  <2> QED
    BY <2>1 DEF StaysGone, Absent, TypeOK
<1>3. CASE UpdateSession(r)
  <2> PICK t \in Sessions :
          /\ Present(t)
          /\ sessions' = [sessions EXCEPT ![t].rev = @ + 1, ![t].elapsed = {}]
    BY <1>3 DEF UpdateSession
  <2> QED
    BY DEF StaysGone, Present, Absent, TypeOK
<1> QED
  BY <1>1, <1>2, <1>3 DEF Arrive, StopStopped, AcceptRestore, AcceptDelete,
     AcceptStart, AcceptStop, AcceptPause, AcceptResume, Accept

LEMMA GoneByHandler ==
    ASSUME TypeOK, NEW r \in Requests, Serve(r), NEW s \in minted
    PROVE  StaysGone(s)
<1>1. CASE UNCHANGED sessions
  BY <1>1 DEF StaysGone, Absent
<1>2. CASE WriteBack(r)
  BY <1>2 DEF WriteBack, TypeOK, StaysGone, WritingBack, Absent
<1>3. CASE InsertClone(r)
  <2> PICK t \in Sessions :
          /\ Fresh(t)
          /\ sessions' = [sessions EXCEPT ![t] =
                            [Copy(r) EXCEPT !.state = "stopped", !.cid = 0]]
    BY <1>3 DEF InsertClone
  <2>1. t # s
    BY DEF Fresh
  <2> QED
    BY <2>1 DEF StaysGone, Absent, TypeOK
<1>4. CASE ForgetSession(r)
  BY <1>4 DEF ForgetSession, NoSession, TypeOK, StaysGone, Absent
<1>5. CASE \/ TakeSnapshot(r) \/ SaveState(r) \/ CloneFails(r) \/ RemoveContainer(r)
           \/ LaunchContainer(r) \/ VerifyLaunch(r) \/ RegisterBackends(r)
           \/ HaltContainer(r) \/ UnregisterBackends(r) \/ PauseContainer(r)
           \/ ResumeContainer(r) \/ CreateContainer(r)
  BY <1>1, <1>5 DEF TakeSnapshot, SaveState, CloneFails, RemoveContainer,
     LaunchContainer, VerifyLaunch, RegisterBackends, HaltContainer,
     UnregisterBackends, PauseContainer, ResumeContainer, Toggle, CreateContainer
<1> QED
  BY <1>2, <1>3, <1>4, <1>5 DEF Serve

LEMMA GoneByOthers ==
    ASSUME TypeOK, Enforce \/ Prune \/ World, ~Restart, NEW s \in minted
    PROVE  StaysGone(s)
<1>0. s \in Sessions /\ sessions[s] \in Session
  BY DEF TypeOK
<1>1. CASE UNCHANGED sessions
  BY <1>1 DEF StaysGone, Absent
<1>2. CASE EnforcerMark
  BY <1>0, <1>2 DEF EnforcerMark, Marked, StaysGone, Absent
<1>3. CASE PrunerDelete
  BY <1>0, <1>3 DEF PrunerDelete, NoSession, StaysGone, Absent
<1>4. ASSUME NEW t \in Sessions, Elapse(t) PROVE StaysGone(s)
  <2>1. PICK c \in Elapsing : sessions' = [sessions EXCEPT ![t].elapsed = @ \cup {c}]
    BY <1>4 DEF Elapse
  <2>2. sessions'[s].state = sessions[s].state
    BY <1>0, <2>1 DEF TypeOK, Session
  <2> QED
    BY <2>2 DEF StaysGone, Absent
<1>5. CASE \/ EnforcerScan \/ EnforcerStopped \/ PrunerDone
           \/ \E t \in Sessions : EnforcerStop(t) \/ PrunerStop(t) \/ PrunerRemove(t)
           \/ \E w \in Workers : TakeSnapshot(w) \/ SaveState(w)
           \/ \E t \in Sessions : FirmwareExits(t) \/ ContainerVanishes(t)
  BY <1>1, <1>5 DEF EnforcerScan, EnforcerStopped, PrunerDone, EnforcerStop,
     PrunerStop, PrunerRemove, TakeSnapshot, SaveState, FirmwareExits,
     ContainerVanishes
<1> QED
  BY <1>2, <1>3, <1>4, <1>5 DEF Enforce, Prune, World

(* A session that was deleted or pruned comes back in one way only, short  *)
(* of a restart on an old save: a handler that read it before writes its   *)
(* copy back.  For any number of handlers, and whatever calls fail.        *)
THEOREM DeletedSessionsStayGone == Spec => GoneStaysGone
<1>1. TypeOK /\ [Next]_vars => [Restart \/ \A s \in minted : StaysGone(s)]_vars
  BY GoneByArrival, GoneByHandler, GoneByOthers DEF Next
<1>2. TypeOK /\ [Next]_vars =>
         [Restart \/ \A s \in minted :
            Absent(s) => \/ Absent(s)'
                         \/ \E r \in Requests : pc[r] = "write" /\ Sid(r) = s]_vars
  BY <1>1 DEF StaysGone, WritingBack
<1> QED
  BY <1>2, TypeCorrect, PTL DEF Spec, GoneStaysGone

-----------------------------------------------------------------------------
(* One handler at a time: what a handler does to its own job                *)

(* No two handlers run at once, which is what the properties below assume: *)
(* of two handlers on one session, each with a copy of its own, the later  *)
(* write-back takes back what the earlier did.                             *)
Alone == \A r, q \in Requests : r = q

(* A handler on its way keeps its operation, its session and, of its copy, *)
(* the settings; the container id changes only where one is created, the   *)
(* state only where the copy is marked.                                    *)
SameErrand(r) ==
    /\ job'[r].op = job[r].op
    /\ job'[r].sid = job[r].sid
    /\ job'[r].copy.rev = job[r].copy.rev
    /\ job'[r].copy.elapsed = job[r].copy.elapsed

LEMMA MarkedCopy ==
    ASSUME TypeOK, NEW r \in Requests, NEW st, job' = [job EXCEPT ![r].copy.state = st]
    PROVE  /\ SameErrand(r)
           /\ job'[r].copy.state = st
           /\ job'[r].copy.cid = job[r].copy.cid
<1>1. job[r] \in Job /\ job[r].copy \in Session
  BY DEF TypeOK, Job
<1> QED
  BY <1>1 DEF TypeOK, Job, Session, SameErrand

LEMMA NumberedCopy ==
    ASSUME TypeOK, NEW r \in Requests, NEW n, job' = [job EXCEPT ![r].copy.cid = n]
    PROVE  /\ SameErrand(r)
           /\ job'[r].copy.cid = n
           /\ job'[r].copy.state = job[r].copy.state
<1>1. job[r] \in Job /\ job[r].copy \in Session
  BY DEF TypeOK, Job
<1> QED
  BY <1>1 DEF TypeOK, Job, Session, SameErrand

(* After its save only a delete that knows a container goes on. *)
LEMMA AfterRequest ==
    ASSUME NEW r \in Requests
    PROVE  AfterSave(r) = IF job[r].op = "delete" /\ Copy(r).cid # 0
                          THEN "unregister" ELSE "idle"
<1>1. r # "pruner"
  BY RequestsAssumption DEF Workers
<1> QED
  BY <1>1 DEF AfterSave

LEMMA Errand ==
    ASSUME TypeOK, NEW r \in Requests, Serve(r)
    PROVE  /\ pc[r] # "idle"
           /\ pc'[r] # "idle" => SameErrand(r)
<1>0. pc[r] # "idle"
  BY DEF Serve, WriteBack, TakeSnapshot, SaveState, InsertClone, CloneFails,
     ForgetSession, RemoveContainer, CreateContainer, LaunchContainer,
     VerifyLaunch, RegisterBackends, HaltContainer, UnregisterBackends,
     PauseContainer, ResumeContainer, Toggle
<1>1. CASE Finish(r)
  BY <1>0, <1>1 DEF Finish, TypeOK
<1>2. CASE UNCHANGED job
  BY <1>0, <1>2 DEF SameErrand
<1>3. CASE SaveState(r)
  <2>1. pc'[r] = AfterSave(r)
    BY <1>3 DEF SaveState, Goto, TypeOK
  <2>2. AfterSave(r) # "idle" => job'[r] = job[r]
    BY <1>3 DEF SaveState
  <2> QED
    BY <1>0, <2>1, <2>2 DEF SameErrand
<1>4. CASE \E st : job' = [job EXCEPT ![r].copy.state = st]
  BY <1>0, <1>4, MarkedCopy
<1>5. CASE \E n : job' = [job EXCEPT ![r].copy.cid = n]
  BY <1>0, <1>5, NumberedCopy
<1>6. CASE \/ WriteBack(r) \/ TakeSnapshot(r) \/ InsertClone(r) \/ CloneFails(r)
           \/ ForgetSession(r) \/ RemoveContainer(r) \/ LaunchContainer(r)
           \/ RegisterBackends(r) \/ HaltContainer(r)
  BY <1>1, <1>2, <1>6 DEF WriteBack, TakeSnapshot, InsertClone, CloneFails,
     ForgetSession, RemoveContainer, LaunchContainer, RegisterBackends,
     HaltContainer
<1>7. CASE \/ VerifyLaunch(r) \/ UnregisterBackends(r) \/ PauseContainer(r)
           \/ ResumeContainer(r)
  BY <1>1, <1>4, <1>7 DEF VerifyLaunch, UnregisterBackends, PauseContainer,
     ResumeContainer, Toggle
<1>8. CASE CreateContainer(r)
  BY <1>1, <1>5, <1>8 DEF CreateContainer
<1> QED
  BY <1>3, <1>6, <1>7, <1>8 DEF Serve

-----------------------------------------------------------------------------
(* One handler at a time: settings updates are not taken back               *)

(* The copy of a handler on its way is as new as the record it came from.  *)
(* (The copies of create and update are empty and never written.)          *)
Writes(r) == job[r].op \in {"create", "update"}
CopyCurrent(r) ==
    IF Writes(r) THEN pc[r] \in {"idle", "persist", "save"}
                 ELSE pc[r] # "idle" => sessions[Sid(r)].rev <= Copy(r).rev
CopiesCurrent == \A r \in Requests : CopyCurrent(r)

LEMMA CurrentArrive ==
    ASSUME ContainerInv, Alone, NEW r \in Requests, Arrive(r), CopiesCurrent
    PROVE  CopiesCurrent'
<1> USE DEF ContainerInv
<1>1. SUFFICES CopyCurrent(r)'
  BY DEF CopiesCurrent, Alone
<1>2. CASE CreateSession(r)
  BY <1>2 DEF CreateSession, Goto, TypeOK, CopyCurrent, Writes
<1>3. CASE UpdateSession(r)
  BY <1>3 DEF UpdateSession, Goto, TypeOK, CopyCurrent, Writes
<1>4. CASE StopStopped(r)
  BY <1>4 DEF StopStopped, CopiesCurrent, CopyCurrent, Writes, Sid, Copy
<1>5. ASSUME NEW o \in AllOps \ {"create", "update"}, NEW s \in Sessions, NEW l,
             Accept(r, o, s, l)
      PROVE  CopyCurrent(r)'
  <2>1. job'[r] = [op |-> o, sid |-> s, copy |-> Rewound(sessions[s])]
    BY <1>5 DEF Accept, TypeOK
  <2>2. Rewound(sessions[s]).rev = sessions[s].rev /\ sessions[s].rev \in Nat
    BY DEF Rewound, TypeOK, Session
  <2>3. sessions' = sessions
    BY <1>5 DEF Accept
  <2> QED
    BY <2>1, <2>2, <2>3 DEF CopyCurrent, Writes, Sid, Copy
<1> QED
  BY <1>2, <1>3, <1>4, <1>5 DEF Arrive, AcceptRestore, AcceptDelete, AcceptStart,
     AcceptStop, AcceptPause, AcceptResume, AllOps

LEMMA CurrentServe ==
    ASSUME ContainerInv, Alone, NEW r \in Requests, Serve(r), CopiesCurrent
    PROVE  CopiesCurrent'
<1> USE DEF ContainerInv
<1>1. SUFFICES CopyCurrent(r)'
  BY DEF CopiesCurrent, Alone
<1>2. pc[r] # "idle" /\ (pc'[r] # "idle" => SameErrand(r))
  BY Errand
<1>3. CASE Writes(r)
  <2>1. TakeSnapshot(r) \/ SaveState(r)
    BY <1>2, <1>3 DEF CopiesCurrent, CopyCurrent, Serve, WriteBack, InsertClone,
       CloneFails, ForgetSession, RemoveContainer, CreateContainer,
       LaunchContainer, VerifyLaunch, RegisterBackends, HaltContainer,
       UnregisterBackends, PauseContainer, ResumeContainer, Toggle
  <2>2. pc'[r] \in {"save", "idle"}
    <3>1. AfterSave(r) = "idle"
      BY <1>3, AfterRequest DEF Writes
    <3> QED
      BY <2>1, <3>1 DEF TakeSnapshot, SaveState, Goto, TypeOK
  <2>3. CASE pc'[r] = "idle"
    BY <2>3 DEF CopyCurrent
  <2>4. CASE pc'[r] = "save"
    BY <1>2, <1>3, <2>4 DEF CopyCurrent, Writes, SameErrand
  <2> QED
    BY <2>2, <2>3, <2>4
<1>4. CASE ~Writes(r) /\ pc'[r] # "idle"
  <2>1. Sid(r) \in Sessions /\ Copy(r) \in Session
    BY TypeCopy
  <2>2. Copy(r).rev \in Nat /\ sessions[Sid(r)].rev <= Copy(r).rev
    BY <1>2, <1>4, <2>1 DEF Session, CopiesCurrent, CopyCurrent
  <2>3. sessions'[Sid(r)].rev <= Copy(r).rev
    <3>1. CASE UNCHANGED sessions
      BY <2>2, <3>1
    <3>2. CASE WriteBack(r)
      BY <2>1, <2>2, <3>2 DEF WriteBack, TypeOK
    <3>3. CASE ForgetSession(r)
      BY <2>1, <2>2, <3>3 DEF ForgetSession, TypeOK, NoSession
    <3>4. CASE InsertClone(r)
      BY <1>2, <2>1, <2>2, <3>4 DEF InsertClone, Fresh, HandlersSound, TypeOK
    <3>5. CASE \/ TakeSnapshot(r) \/ SaveState(r) \/ CloneFails(r)
               \/ RemoveContainer(r) \/ CreateContainer(r) \/ LaunchContainer(r)
               \/ VerifyLaunch(r) \/ RegisterBackends(r) \/ HaltContainer(r)
               \/ UnregisterBackends(r) \/ PauseContainer(r) \/ ResumeContainer(r)
      BY <3>1, <3>5 DEF TakeSnapshot, SaveState, CloneFails, RemoveContainer,
         CreateContainer, LaunchContainer, VerifyLaunch, RegisterBackends,
         HaltContainer, UnregisterBackends, PauseContainer, ResumeContainer, Toggle
    <3> QED
      BY <3>2, <3>3, <3>4, <3>5 DEF Serve
  <2> QED
    BY <1>2, <1>4, <2>3 DEF SameErrand, CopyCurrent, Writes, Sid, Copy
<1> QED
  BY <1>3, <1>4 DEF CopyCurrent, Writes

(* Steps that are no handler's leave every handler where it is ...          *)
LEMMA OthersStayAway ==
    ASSUME TypeOK, Enforce \/ Prune \/ World, ~Restart, NEW r \in Requests
    PROVE  pc'[r] = pc[r] /\ job'[r] = job[r]
<1>1. \A w \in Workers : w # r
  BY RequestsAssumption
<1>2. ASSUME NEW w \in Workers, NEW l, Goto(w, l)
      PROVE  pc'[r] = pc[r]
  BY <1>1, <1>2 DEF Goto, TypeOK
<1>3. CASE \E w \in Workers : TakeSnapshot(w) \/ SaveState(w)
  BY <1>1, <1>2, <1>3 DEF TakeSnapshot, SaveState
<1>4. CASE \/ EnforcerScan \/ EnforcerStopped \/ EnforcerMark \/ PrunerDelete
           \/ PrunerDone
  BY <1>2, <1>4 DEF EnforcerScan, EnforcerStopped, EnforcerMark, PrunerDelete,
     PrunerDone
<1>5. CASE \E s \in Sessions : \/ EnforcerStop(s) \/ PrunerStop(s) \/ PrunerRemove(s)
                               \/ Elapse(s) \/ FirmwareExits(s) \/ ContainerVanishes(s)
  BY <1>5 DEF EnforcerStop, PrunerStop, PrunerRemove, Elapse, FirmwareExits,
     ContainerVanishes
<1> QED
  BY <1>3, <1>4, <1>5 DEF Enforce, Prune, World

(* ... or end it. *)
LEMMA OthersPassBy ==
    ASSUME TypeOK, Enforce \/ Prune \/ World, NEW r \in Requests
    PROVE  pc'[r] = "idle" \/ (pc'[r] = pc[r] /\ job'[r] = job[r])
<1>1. CASE Restart
  BY <1>1 DEF Restart, Procs
<1> QED
  BY <1>1, OthersStayAway

(* What the workers and the world do to the settings of a session: nothing,*)
(* unless it leaves the map or the server restarts.                        *)
LEMMA OthersKeepSettings ==
    ASSUME TypeOK, Enforce \/ Prune \/ World, ~Restart, NEW s \in Sessions
    PROVE  sessions'[s].rev = sessions[s].rev \/ sessions'[s] = NoSession
<1>0. sessions[s] \in Session
  BY DEF TypeOK
<1>1. CASE UNCHANGED sessions
  BY <1>1
<1>2. CASE EnforcerMark
  <2>1. [sessions[s] EXCEPT !.state = "stopped", !.elapsed = {}].rev = sessions[s].rev
    BY <1>0 DEF Session
  <2> QED
    BY <1>2, <2>1 DEF EnforcerMark
<1>3. CASE PrunerDelete
  BY <1>3 DEF PrunerDelete
<1>4. ASSUME NEW t \in Sessions, Elapse(t)
      PROVE  sessions'[s].rev = sessions[s].rev
  <2>1. PICK c \in Elapsing : sessions' = [sessions EXCEPT ![t].elapsed = @ \cup {c}]
    BY <1>4 DEF Elapse
  <2> QED
    BY <1>0, <2>1 DEF TypeOK, Session
<1>5. CASE \/ EnforcerScan \/ EnforcerStopped \/ PrunerDone
           \/ \E t \in Sessions : EnforcerStop(t) \/ PrunerStop(t) \/ PrunerRemove(t)
           \/ \E w \in Workers : TakeSnapshot(w) \/ SaveState(w)
           \/ \E t \in Sessions : FirmwareExits(t) \/ ContainerVanishes(t)
  BY <1>1, <1>5 DEF EnforcerScan, EnforcerStopped, PrunerDone, EnforcerStop,
     PrunerStop, PrunerRemove, TakeSnapshot, SaveState, FirmwareExits,
     ContainerVanishes
<1> QED
  BY <1>2, <1>3, <1>4, <1>5 DEF Enforce, Prune, World

LEMMA CurrentOthers ==
    ASSUME ContainerInv, Enforce \/ Prune \/ World, CopiesCurrent
    PROVE  CopiesCurrent'
<1> USE DEF ContainerInv
<1>1. SUFFICES ASSUME NEW r \in Requests PROVE CopyCurrent(r)'
  BY DEF CopiesCurrent
<1>2. CASE pc'[r] = "idle"
  BY <1>2 DEF CopyCurrent
<1>3. CASE pc'[r] # "idle"
  <2>1. pc'[r] = pc[r] /\ job'[r] = job[r]
    BY <1>3, OthersPassBy
  <2>2. ~Restart
    BY <1>3 DEF Restart, Procs
  <2>3. Sid(r) \in Sessions /\ Copy(r) \in Session
    BY TypeCopy
  <2>4. sessions'[Sid(r)].rev = sessions[Sid(r)].rev \/ sessions'[Sid(r)].rev = 0
    BY <2>2, <2>3, OthersKeepSettings DEF NoSession
  <2>5. CopyCurrent(r) /\ Copy(r).rev \in Nat
    BY <2>3 DEF CopiesCurrent, Session
  <2> QED
    BY <2>1, <2>4, <2>5 DEF CopyCurrent, Writes, Sid, Copy
<1> QED
  BY <1>2, <1>3

(* Whatever changes the map, the settings of a session in it stay or grow. *)
SettingsStay(s) == sessions'[s].state = "absent" \/ sessions'[s].rev >= sessions[s].rev

LEMMA SettingsStep ==
    ASSUME ContainerInv, CopiesCurrent, Next, ~Restart, NEW s \in Sessions
    PROVE  SettingsStay(s)
<1> USE DEF ContainerInv
<1>0. sessions[s] \in Session /\ sessions[s].rev \in Nat
  BY DEF TypeOK, Session
<1>1. CASE UNCHANGED sessions
  BY <1>0, <1>1 DEF SettingsStay
<1>2. CASE Enforce \/ Prune \/ World
  <2>1. sessions'[s].rev = sessions[s].rev \/ sessions'[s].state = "absent"
    BY <1>2, OthersKeepSettings DEF NoSession
  <2> QED
    BY <1>0, <2>1 DEF SettingsStay
<1>3. ASSUME NEW r \in Requests, Arrive(r)
      PROVE  SettingsStay(s)
  <2>1. CASE CreateSession(r)
    <3>1. PICK t \in Sessions, anon \in BOOLEAN :
            /\ Fresh(t)
            /\ sessions' = [sessions EXCEPT ![t] =
                              [NoSession EXCEPT !.state = "stopped", !.anon = anon]]
      BY <2>1 DEF CreateSession
    <3>2. sessions[t].rev = 0
      BY <3>1 DEF Fresh, RecordsSound, Sound
    <3>3. [NoSession EXCEPT !.state = "stopped", !.anon = anon].rev = 0
      BY DEF NoSession
    <3> QED
      BY <1>0, <3>1, <3>2, <3>3 DEF SettingsStay, TypeOK
  <2>2. CASE UpdateSession(r)
    <3>1. PICK t \in Sessions :
            sessions' = [sessions EXCEPT ![t].rev = @ + 1, ![t].elapsed = {}]
      BY <2>2 DEF UpdateSession
    <3>2. sessions'[s].rev = sessions[s].rev \/ sessions'[s].rev = sessions[s].rev + 1
      BY <1>0, <3>1 DEF TypeOK, Session
    <3> QED
      BY <1>0, <3>2 DEF SettingsStay
  <2> QED
    BY <1>1, <1>3, <2>1, <2>2 DEF Arrive, StopStopped, AcceptRestore,
       AcceptDelete, AcceptStart, AcceptStop, AcceptPause, AcceptResume, Accept
<1>4. ASSUME NEW r \in Requests, Serve(r)
      PROVE  SettingsStay(s)
  <2>1. CASE WriteBack(r)
    <3>1. ~Writes(r) /\ pc[r] # "idle"
      BY <2>1 DEF WriteBack, CopiesCurrent, CopyCurrent
    <3>2. sessions[Sid(r)].rev <= Copy(r).rev /\ Copy(r).rev \in Nat
      BY <3>1, TypeCopy DEF CopiesCurrent, CopyCurrent, Session
    <3> QED
      BY <1>0, <2>1, <3>2 DEF WriteBack, SettingsStay, TypeOK
  <2>2. CASE InsertClone(r)
    <3>1. PICK t \in Sessions :
            /\ Fresh(t)
            /\ sessions' = [sessions EXCEPT ![t] =
                              [Copy(r) EXCEPT !.state = "stopped", !.cid = 0]]
      BY <2>2 DEF InsertClone
    <3>2. sessions[t].rev = 0
      BY <3>1 DEF Fresh, RecordsSound, Sound
    <3>3. Copy(r) \in Session
      BY TypeCopy
    <3>4. [Copy(r) EXCEPT !.state = "stopped", !.cid = 0].rev \in Nat
      BY <3>3 DEF Session
    <3> QED
      BY <1>0, <3>1, <3>2, <3>4 DEF SettingsStay, TypeOK
  <2>3. CASE ForgetSession(r)
    BY <1>0, <2>3 DEF ForgetSession, SettingsStay, NoSession, TypeOK
  <2>4. CASE \/ TakeSnapshot(r) \/ SaveState(r) \/ CloneFails(r)
             \/ RemoveContainer(r) \/ CreateContainer(r) \/ LaunchContainer(r)
             \/ VerifyLaunch(r) \/ RegisterBackends(r) \/ HaltContainer(r)
             \/ UnregisterBackends(r) \/ PauseContainer(r) \/ ResumeContainer(r)
    BY <1>1, <2>4 DEF TakeSnapshot, SaveState, CloneFails, RemoveContainer,
       CreateContainer, LaunchContainer, VerifyLaunch, RegisterBackends,
       HaltContainer, UnregisterBackends, PauseContainer, ResumeContainer, Toggle
  <2> QED
    BY <1>4, <2>1, <2>2, <2>3, <2>4 DEF Serve
<1> QED
  BY <1>2, <1>3, <1>4 DEF Next

LEMMA CurrentStep ==
    ASSUME ContainerInv, Alone, CopiesCurrent, [Next]_vars
    PROVE  CopiesCurrent'
<1>1. CASE UNCHANGED vars
  BY <1>1 DEF vars, CopiesCurrent, CopyCurrent, Writes, Sid, Copy
<1> QED
  BY <1>1, CurrentArrive, CurrentServe, CurrentOthers DEF Next

(* With one handler at a time an acknowledged settings update is not taken *)
(* back, whatever the workers do meanwhile and whichever calls fail: the   *)
(* copy a handler writes back is as new as the record it replaces.         *)
THEOREM SettingsAreKept ==
    ASSUME Alone
    PROVE  Spec => SettingsKept
<1>1. Init => CopiesCurrent
  BY DEF Init, CopiesCurrent, CopyCurrent, Writes, NoJob, Procs
<1>2. ContainerInv /\ CopiesCurrent /\ [Next]_vars => CopiesCurrent'
  BY CurrentStep
<1>3. ContainerInv /\ CopiesCurrent /\ [Next]_vars =>
        [Restart \/ \A s \in Sessions : SettingsStay(s)]_vars
  BY SettingsStep
<1>4. ContainerInv /\ CopiesCurrent /\ [Next]_vars =>
        [Restart \/ \A s \in Sessions :
           sessions'[s].state = "absent" \/ sessions'[s].rev >= sessions[s].rev]_vars
  BY <1>3 DEF SettingsStay
<1> QED
  BY <1>1, <1>2, <1>4, ContainerInvariant, PTL DEF Spec, SettingsKept

-----------------------------------------------------------------------------
(* Clocks that do not run: the workers have nothing to do                   *)

(* No clock has elapsed anywhere and no worker has left its tick.          *)
AtRest ==
    /\ \A s \in Sessions : sessions[s].elapsed = {} /\ db[s].elapsed = {}
    /\ \A p \in Procs, s \in Sessions : snap[p][s].elapsed = {}
    /\ \A r \in Requests : Copy(r).elapsed = {}
    /\ \A w \in Workers : pc[w] = "idle"

LEMMA RestFacts ==
    /\ NoSession.elapsed = {}
    /\ NoJob.copy.elapsed = {}
    /\ \A x \in Session : Rewound(x).elapsed = {}
    /\ \A x \in Session : x.elapsed = {} => Rewound(x) = x
    /\ \A s \in Sessions : NoSnap[s].elapsed = {}
  BY DEF NoSession, NoJob, Rewound, Session, NoSnap

LEMMA RestInit == Init => AtRest
  BY RestFacts DEF Init, AtRest, Copy, Procs, Workers

LEMMA RestArrive ==
    ASSUME TypeOK, AtRest, NEW r \in Requests, Arrive(r)
    PROVE  AtRest'
<1>0. \A w \in Workers : w # r
  BY RequestsAssumption
<1>1. \A w \in Workers : pc'[w] = pc[w]
  BY <1>0 DEF Arrive, CreateSession, UpdateSession, StopStopped, AcceptRestore,
     AcceptDelete, AcceptStart, AcceptStop, AcceptPause, AcceptResume, Accept,
     Goto, TypeOK
<1>2. UNCHANGED <<db, snap>>
  BY DEF Arrive, CreateSession, UpdateSession, StopStopped, AcceptRestore,
     AcceptDelete, AcceptStart, AcceptStop, AcceptPause, AcceptResume, Accept
<1>3. \A q \in Requests : job'[q].copy.elapsed = {}
  <2>1. ASSUME NEW j, j.copy = NoSession, job' = [job EXCEPT ![r] = j]
        PROVE  \A q \in Requests : job'[q].copy.elapsed = {}
    BY <2>1, RestFacts DEF AtRest, Copy, TypeOK
  <2>2. CASE StopStopped(r)
    BY <2>2 DEF StopStopped, AtRest, Copy
  <2>3. ASSUME NEW o, NEW s \in Sessions, NEW l, Accept(r, o, s, l)
        PROVE  \A q \in Requests : job'[q].copy.elapsed = {}
    <3>1. Rewound(sessions[s]).elapsed = {}
      BY RestFacts DEF TypeOK
    <3>2. \A q \in Requests \ {r} : job'[q] = job[q]
      BY <2>3 DEF Accept, TypeOK
    <3>3. job'[r].copy = Rewound(sessions[s])
      BY <2>3 DEF Accept, TypeOK
    <3> QED
      BY <3>1, <3>2, <3>3 DEF AtRest, Copy
  <2> QED
    BY <2>1, <2>2, <2>3 DEF Arrive, CreateSession, UpdateSession, AcceptRestore,
       AcceptDelete, AcceptStart, AcceptStop, AcceptPause, AcceptResume
<1>4. \A s \in Sessions : sessions'[s].elapsed = {}
  <2>1. CASE UNCHANGED sessions
    BY <2>1 DEF AtRest
  <2>2. CASE CreateSession(r)
    <3>1. \A a \in BOOLEAN :
            [NoSession EXCEPT !.state = "stopped", !.anon = a].elapsed = {}
      BY DEF NoSession
    <3> QED
      BY <2>2, <3>1 DEF CreateSession, AtRest, TypeOK
  <2>3. CASE UpdateSession(r)
    <3>1. PICK t \in Sessions :
            sessions' = [sessions EXCEPT ![t].rev = @ + 1, ![t].elapsed = {}]
      BY <2>3 DEF UpdateSession
    <3> QED
      BY <3>1 DEF AtRest, TypeOK, Session
  <2> QED
    BY <2>1, <2>2, <2>3 DEF Arrive, StopStopped, AcceptRestore, AcceptDelete,
       AcceptStart, AcceptStop, AcceptPause, AcceptResume, Accept
<1> QED
  BY <1>1, <1>2, <1>3, <1>4 DEF AtRest, Copy

LEMMA RestServe ==
    ASSUME TypeOK, AtRest, NEW r \in Requests, Serve(r)
    PROVE  AtRest'
<1>0. \A w \in Workers : w # r
  BY RequestsAssumption
<1>1. \A w \in Workers : pc'[w] = pc[w]
  BY <1>0 DEF Serve, WriteBack, TakeSnapshot, SaveState, InsertClone, CloneFails,
     ForgetSession, RemoveContainer, CreateContainer, LaunchContainer,
     VerifyLaunch, RegisterBackends, HaltContainer, UnregisterBackends,
     PauseContainer, ResumeContainer, Toggle, Goto, Finish, TypeOK
<1>2. \A q \in Requests : job'[q].copy.elapsed = {}
  <2>1. \A q \in Requests \ {r} : job'[q] = job[q]
    BY DEF Serve, WriteBack, TakeSnapshot, SaveState, InsertClone, CloneFails,
       ForgetSession, RemoveContainer, CreateContainer, LaunchContainer,
       VerifyLaunch, RegisterBackends, HaltContainer, UnregisterBackends,
       PauseContainer, ResumeContainer, Toggle, Finish, TypeOK
  <2>2. job'[r].copy.elapsed = {}
    <3>1. CASE pc'[r] # "idle"
      BY <3>1, Errand DEF SameErrand, AtRest, Copy
    <3>2. CASE job'[r] = NoJob \/ job'[r] = job[r]
      BY <3>2, RestFacts DEF AtRest, Copy
    <3>3. CASE pc'[r] = "idle" /\ Finish(r)
      BY <3>2, <3>3 DEF Finish, TypeOK
    <3>4. CASE SaveState(r)
      BY <3>2, <3>4 DEF SaveState
    <3>5. CASE UNCHANGED job
      BY <3>2, <3>5
    <3>6. CASE \/ WriteBack(r) \/ TakeSnapshot(r) \/ InsertClone(r)
               \/ ForgetSession(r) \/ RegisterBackends(r)
      BY <3>5, <3>6 DEF WriteBack, TakeSnapshot, InsertClone, ForgetSession,
         RegisterBackends
    <3>7. ASSUME NEW l \in RequestPCs \ {"idle"}, Goto(r, l)
          PROVE  pc'[r] # "idle"
      BY <3>7 DEF Goto, TypeOK
    <3>8. CASE \/ CloneFails(r) \/ RemoveContainer(r) \/ CreateContainer(r)
               \/ LaunchContainer(r) \/ VerifyLaunch(r) \/ HaltContainer(r)
               \/ UnregisterBackends(r) \/ PauseContainer(r) \/ ResumeContainer(r)
      BY <3>1, <3>3, <3>7, <3>8 DEF CloneFails, RemoveContainer, CreateContainer,
         LaunchContainer, VerifyLaunch, HaltContainer, UnregisterBackends,
         PauseContainer, ResumeContainer, Toggle, RequestPCs
    <3> QED
      BY <3>4, <3>6, <3>8 DEF Serve
  <2> QED
    BY <2>1, <2>2 DEF AtRest, Copy
<1>3. \A s \in Sessions : sessions'[s].elapsed = {}
  <2>1. CASE UNCHANGED sessions
    BY <2>1 DEF AtRest
  <2>2. CASE WriteBack(r)
    BY <2>2 DEF WriteBack, AtRest, TypeOK
  <2>3. CASE InsertClone(r)
    <3>1. [Copy(r) EXCEPT !.state = "stopped", !.cid = 0].elapsed = {}
      BY TypeCopy DEF AtRest, Session
    <3> QED
      BY <2>3, <3>1 DEF InsertClone, AtRest, TypeOK
  <2>4. CASE ForgetSession(r)
    BY <2>4, RestFacts DEF ForgetSession, AtRest, TypeOK
  <2>5. CASE \/ TakeSnapshot(r) \/ SaveState(r) \/ CloneFails(r)
             \/ RemoveContainer(r) \/ CreateContainer(r) \/ LaunchContainer(r)
             \/ VerifyLaunch(r) \/ RegisterBackends(r) \/ HaltContainer(r)
             \/ UnregisterBackends(r) \/ PauseContainer(r) \/ ResumeContainer(r)
    BY <2>1, <2>5 DEF TakeSnapshot, SaveState, CloneFails, RemoveContainer,
       CreateContainer, LaunchContainer, VerifyLaunch, RegisterBackends,
       HaltContainer, UnregisterBackends, PauseContainer, ResumeContainer, Toggle
  <2> QED
    BY <2>2, <2>3, <2>4, <2>5 DEF Serve
<1>4. \A p \in Procs, s \in Sessions :
        db'[s].elapsed = {} /\ snap'[p][s].elapsed = {}
  <2>1. CASE UNCHANGED <<db, snap>>
    BY <2>1 DEF AtRest
  <2>2. CASE TakeSnapshot(r)
    BY <2>2, RestFacts DEF TakeSnapshot, AtRest, TypeOK, Stored
  <2>3. CASE SaveState(r)
    BY <2>3, RestFacts DEF SaveState, AtRest, TypeOK
  <2>4. CASE \/ WriteBack(r) \/ InsertClone(r) \/ ForgetSession(r) \/ CloneFails(r)
             \/ RemoveContainer(r) \/ CreateContainer(r) \/ LaunchContainer(r)
             \/ VerifyLaunch(r) \/ RegisterBackends(r) \/ HaltContainer(r)
             \/ UnregisterBackends(r) \/ PauseContainer(r) \/ ResumeContainer(r)
    BY <2>1, <2>4 DEF WriteBack, InsertClone, ForgetSession, CloneFails,
       RemoveContainer, CreateContainer, LaunchContainer, VerifyLaunch,
       RegisterBackends, HaltContainer, UnregisterBackends, PauseContainer,
       ResumeContainer, Toggle
  <2> QED
    BY <2>2, <2>3, <2>4 DEF Serve
<1> QED
  BY <1>1, <1>2, <1>3, <1>4 DEF AtRest, Copy, Procs, Workers

(* Without a clock that runs, only the world is left beside the handlers.  *)
LEMMA NobodyWorks ==
    ASSUME TypeOK, AtRest, Elapsing = {}
    PROVE  /\ ~Enforce /\ ~Prune
           /\ World => \/ Restart
                       \/ /\ UNCHANGED <<sessions, minted, uart, db, pc, job, snap,
                                         batch, todo>>
                          /\ \E s \in Sessions : FirmwareExits(s) \/ ContainerVanishes(s)
<1>1. /\ {s \in Sessions : Overdue(s)} = {}
      /\ {s \in Sessions : Expired(s)} = {}
  BY DEF AtRest, Overdue, Expired
<1>2. pc["enforcer"] = "idle" /\ pc["pruner"] = "idle"
  BY DEF AtRest
<1>3. ~Enforce
  BY <1>1, <1>2 DEF Enforce, EnforcerScan, EnforcerStopped, EnforcerMark,
     EnforcerStop, TakeSnapshot, SaveState
<1>4. ~Prune
  BY <1>1, <1>2 DEF Prune, PrunerDelete, PrunerDone, PrunerStop, PrunerRemove,
     TakeSnapshot, SaveState
<1>5. World => \/ Restart
               \/ \E s \in Sessions : FirmwareExits(s) \/ ContainerVanishes(s)
  BY DEF World, Elapse
<1> QED
  BY <1>3, <1>4, <1>5 DEF FirmwareExits, ContainerVanishes

LEMMA RestStep ==
    ASSUME TypeOK, AtRest, Elapsing = {}, [Next]_vars
    PROVE  AtRest'
<1>1. CASE UNCHANGED <<sessions, db, snap, job, pc>>
  BY <1>1 DEF AtRest, Copy
<1>2. CASE Restart
  BY <1>2, RestFacts DEF Restart, AtRest, Copy, Procs, Workers
<1> QED
  BY <1>1, <1>2, RestArrive, RestServe, NobodyWorks DEF Next, vars

LEMMA RestInvariant ==
    ASSUME Elapsing = {}
    PROVE  Spec => []AtRest
<1>1. TypeOK /\ AtRest /\ [Next]_vars => AtRest'
  BY RestStep
<1> QED
  BY <1>1, RestInit, TypeCorrect, PTL DEF Spec

-----------------------------------------------------------------------------
(* One handler at a time: what it changed is in the store when it returns   *)

(* Between its write and the end of its save a handler owes the store the  *)
(* change; what it is about to save is the map as it is.                   *)
Saved ==
    /\ (\A r \in Requests : pc[r] \notin {"persist", "save"}) => db = Stored
    /\ \A r \in Requests : pc[r] = "save" => snap[r] = Stored

LEMMA SavedArrive ==
    ASSUME TypeOK, Alone, Saved, NEW r \in Requests, Arrive(r)
    PROVE  Saved'
<1>0. \A q \in Requests : q = r
  BY DEF Alone
<1>1. CASE CreateSession(r) \/ UpdateSession(r)
  <2>1. pc'[r] = "persist"
    BY <1>1 DEF CreateSession, UpdateSession, Goto, TypeOK
  <2> QED
    BY <1>0, <2>1 DEF Saved
<1>2. CASE UNCHANGED <<sessions, db, snap>> /\ pc'[r] \notin {"persist", "save"}
           /\ pc[r] = "idle"
  <2>1. Stored' = Stored
    BY <1>2 DEF Stored
  <2> QED
    BY <1>0, <1>2, <2>1 DEF Saved
<1>3. ASSUME NEW o, NEW s \in Sessions, NEW l \in RequestPCs \ {"persist", "save"},
             Accept(r, o, s, l)
      PROVE  Saved'
  BY <1>2, <1>3 DEF Accept, TypeOK
<1>4. CASE StopStopped(r)
  BY <1>2, <1>4 DEF StopStopped
<1> QED
  BY <1>1, <1>3, <1>4 DEF Arrive, AcceptRestore, AcceptDelete, AcceptStart,
     AcceptStop, AcceptPause, AcceptResume, RequestPCs

LEMMA SavedServe ==
    ASSUME TypeOK, Alone, "save" \notin FaultyCalls, Saved,
           NEW r \in Requests, Serve(r)
    PROVE  Saved'
<1>0. \A q \in Requests : q = r
  BY DEF Alone
<1>1. CASE WriteBack(r) \/ InsertClone(r) \/ ForgetSession(r)
  <2>1. pc'[r] = "persist"
    BY <1>1 DEF WriteBack, InsertClone, ForgetSession, Goto, TypeOK
  <2> QED
    BY <1>0, <2>1 DEF Saved
<1>2. CASE TakeSnapshot(r)
  <2>1. snap'[r] = Stored /\ Stored' = Stored /\ pc'[r] = "save"
    BY <1>2 DEF TakeSnapshot, Goto, TypeOK, Stored
  <2> QED
    BY <1>0, <2>1 DEF Saved
<1>3. CASE SaveState(r)
  <2>1. db' = Stored /\ Stored' = Stored
    BY <1>3 DEF SaveState, MayFail, Saved, Stored
  <2>2. pc'[r] # "save"
    BY <1>3, AfterRequest DEF SaveState, Goto, TypeOK
  <2> QED
    BY <1>0, <2>1, <2>2 DEF Saved
<1>4. CASE /\ UNCHANGED <<sessions, db, snap>>
           /\ pc'[r] \notin {"persist", "save"}
           /\ pc[r] \notin {"persist", "save"}
  <2>1. Stored' = Stored
    BY <1>4 DEF Stored
  <2> QED
    BY <1>0, <1>4, <2>1 DEF Saved
<1>5. CASE \/ CloneFails(r) \/ RemoveContainer(r) \/ CreateContainer(r)
           \/ LaunchContainer(r) \/ VerifyLaunch(r) \/ RegisterBackends(r)
           \/ HaltContainer(r) \/ UnregisterBackends(r) \/ PauseContainer(r)
           \/ ResumeContainer(r)
  BY <1>4, <1>5 DEF CloneFails, RemoveContainer, CreateContainer, LaunchContainer,
     VerifyLaunch, RegisterBackends, HaltContainer, UnregisterBackends,
     PauseContainer, ResumeContainer, Toggle, Goto, Finish, TypeOK
<1> QED
  BY <1>1, <1>2, <1>3, <1>5 DEF Serve

LEMMA SavedStep ==
    ASSUME TypeOK, AtRest, Alone, Elapsing = {}, "save" \notin FaultyCalls,
           Saved, [Next]_vars
    PROVE  Saved'
<1>1. CASE UNCHANGED <<sessions, db, snap, pc>>
  <2>1. Stored' = Stored
    BY <1>1 DEF Stored
  <2> QED
    BY <1>1, <2>1 DEF Saved
<1>2. CASE Restart
  <2>1. \A s \in Sessions : Rewound(db[s]) = db[s]
    BY RestFacts DEF AtRest, TypeOK
  <2>2. Stored' = [s \in Sessions |-> db[s]]
    BY <1>2, <2>1 DEF Restart, Stored
  <2>3. db' = Stored'
    BY <1>2, <2>2 DEF Restart, TypeOK
  <2> QED
    BY <1>2, <2>3 DEF Restart, Saved, Procs
<1> QED
  BY <1>1, <1>2, SavedArrive, SavedServe, NobodyWorks DEF Next, vars

(* With one handler at a time and a store that does not fail, nothing a    *)
(* handler did to the map is missing in the store when it has returned,    *)
(* also after a restart: every path that writes the map saves it.          *)
THEOREM ReturnedHandlersHaveSaved ==
    ASSUME Alone, Elapsing = {}, "save" \notin FaultyCalls
    PROVE  Spec => []SavedWhenIdle
<1>1. Init => Saved
  <2>1. Init => Stored = NoSnap
    <3>1. Rewound(NoSession) = NoSession
      BY RestFacts
    <3> QED
      BY <3>1 DEF Init, Stored, NoSnap
  <2> QED
    BY <2>1 DEF Init, Saved, Procs
<1>2. TypeOK /\ AtRest /\ Saved /\ [Next]_vars => Saved'
  BY SavedStep
<1>3. Saved => SavedWhenIdle
  BY DEF Saved, SavedWhenIdle, Idle
<1> QED
  BY <1>1, <1>2, <1>3, RestInvariant, TypeCorrect, PTL DEF Spec

-----------------------------------------------------------------------------
(* One handler at a time: states and UART backends                          *)

(* The step from one state of a session to another that SessionStates has. *)
Moves(from, to) ==
    \/ from = to
    \/ from = "stopped" /\ to = "running"
    \/ from = "running" /\ to = "paused"
    \/ from = "paused" /\ to = "running"
    \/ from \in {"running", "paused"} /\ to = "stopped"

LaunchPCs == {"create", "recreate", "launch", "relaunch", "verify", "register"}

(* The handler deletes its session, which has left the map.                *)
Leaving(r) == job[r].op = "delete" /\ pc[r] \in {"persist", "save", "unregister"}

(* Where a handler is says what state its session is in, and what its copy *)
(* will make of it.                                                        *)
OnCourse(r) ==
    LET was == sessions[Sid(r)].state  will == Copy(r).state IN
    /\ pc[r] \in LaunchPCs => was = "stopped"
    /\ pc[r] = "register" => will = "running"
    /\ pc[r] = "halt" => was \in {"running", "paused"} /\ job[r].op = "stop"
    /\ pc[r] = "freeze" => was = "running"
    /\ pc[r] = "thaw" => was = "paused"
    /\ pc[r] = "write" => Moves(was, will)
    /\ pc[r] = "clone" => job[r].op = "restore"
    /\ pc[r] = "forget" => /\ was # "absent" /\ will = was
                           /\ Copy(r).cid = sessions[Sid(r)].cid
                           /\ job[r].op = "delete"
    /\ pc[r] = "unregister" => \/ job[r].op = "delete"
                               \/ job[r].op = "stop" /\ was \in {"running", "paused"}
    /\ job[r].op = "delete" =>
         pc[r] \in {"forget", "persist", "save", "unregister", "remove"}
    /\ Leaving(r) => was = "absent"

(* The backends of a session are registered exactly while it is running or *)
(* paused, except while a handler is about to say so in the map or to      *)
(* unregister what it deleted.                                             *)
UartAgrees(s) == s \in uart <=> IsActive(sessions[s])
Unsettled(r) == pc[r] = "write" \/ Leaving(r)
UartSound ==
    /\ \A s \in Sessions :
          UartAgrees(s) \/ \E r \in Requests : Sid(r) = s /\ Unsettled(r)
    /\ \A r \in Requests :
          /\ pc[r] = "write" => (Sid(r) \in uart <=> IsActive(Copy(r)))
          /\ Leaving(r) /\ Sid(r) \in uart => Copy(r).cid # 0

AllOnCourse == \A r \in Requests : OnCourse(r)

(* Where no handler is about to settle it, a session's backends are exact. *)
LEMMA Settled ==
    ASSUME Alone, UartSound, NEW r \in Requests
    PROVE  \A s \in Sessions :
              s # Sid(r) \/ ~Unsettled(r) => UartAgrees(s)
  BY DEF UartSound, Alone

LEMMA UartSettles ==
    ASSUME Alone, NEW r \in Requests, ~Unsettled(r)',
           \A s \in Sessions : UartAgrees(s)'
    PROVE  UartSound'
  BY DEF UartSound, Alone, Unsettled

LEMMA UartUnsettled ==
    ASSUME Alone, NEW r \in Requests,
           \A s \in Sessions : s = Sid(r)' \/ UartAgrees(s)',
           pc'[r] = "write" \/ Leaving(r)',
           pc'[r] = "write" => (Sid(r)' \in uart' <=> IsActive(Copy(r)')),
           Leaving(r)' /\ Sid(r)' \in uart' => Copy(r).cid' # 0
    PROVE  UartSound'
  BY DEF UartSound, Alone, Unsettled

LEMMA CourseArrive ==
    ASSUME ContainerInv, Alone, AllOnCourse, UartSound, NEW r \in Requests, Arrive(r)
    PROVE  AllOnCourse' /\ UartSound'
<1> USE DEF ContainerInv
<1>0. pc[r] = "idle"
  BY DEF Arrive, CreateSession, UpdateSession, StopStopped, AcceptRestore,
     AcceptDelete, AcceptStart, AcceptStop, AcceptPause, AcceptResume, Accept
<1>1. \A s \in Sessions : UartAgrees(s)
  BY <1>0, Settled DEF Unsettled, Leaving
<1>2. OnCourse(r)' => AllOnCourse'
  BY DEF AllOnCourse, Alone
<1>3. ASSUME NEW o \in {"create", "update"}, job'[r].op = o, pc'[r] = "persist",
             \A s \in Sessions : UartAgrees(s)'
      PROVE  AllOnCourse' /\ UartSound'
  <2>1. OnCourse(r)'
    BY <1>3 DEF OnCourse, LaunchPCs, Leaving
  <2>2. ~Unsettled(r)'
    BY <1>3 DEF Unsettled, Leaving
  <2> QED
    BY <1>2, <1>3, <2>1, <2>2, UartSettles
<1>4. CASE CreateSession(r)
  <2>1. PICK s \in Sessions, anon \in BOOLEAN :
          /\ Fresh(s)
          /\ sessions' = [sessions EXCEPT ![s] =
                            [NoSession EXCEPT !.state = "stopped", !.anon = anon]]
    BY <1>4 DEF CreateSession
  <2>2. ~IsActive(sessions[s]) /\ ~IsActive(sessions'[s])
    BY <2>1 DEF Fresh, RecordsSound, Sound, IsActive, TypeOK, NoSession
  <2>3. \A t \in Sessions : UartAgrees(t)'
    BY <1>1, <1>4, <2>1, <2>2 DEF UartAgrees, CreateSession, IsActive, TypeOK
  <2>4. job'[r].op = "create" /\ pc'[r] = "persist"
    BY <1>4 DEF CreateSession, Goto, TypeOK
  <2> QED
    BY <1>3, <2>3, <2>4
<1>5. CASE UpdateSession(r)
  <2>1. PICK s \in Sessions :
          sessions' = [sessions EXCEPT ![s].rev = @ + 1, ![s].elapsed = {}]
    BY <1>5 DEF UpdateSession
  <2>2. \A t \in Sessions : sessions'[t].state = sessions[t].state
    BY <2>1 DEF TypeOK, Session
  <2>3. \A t \in Sessions : UartAgrees(t)'
    BY <1>1, <1>5, <2>2 DEF UartAgrees, UpdateSession, IsActive
  <2>4. job'[r].op = "update" /\ pc'[r] = "persist"
    BY <1>5 DEF UpdateSession, Goto, TypeOK
  <2> QED
    BY <1>3, <2>3, <2>4
<1>6. CASE StopStopped(r)
  <2>1. UNCHANGED <<pc, job, sessions>> /\ uart' = uart
    BY <1>1, <1>6 DEF StopStopped, UartAgrees, IsActive
  <2> QED
    BY <2>1 DEF AllOnCourse, OnCourse, UartSound, UartAgrees, Unsettled, Leaving,
       Sid, Copy
<1>7. ASSUME NEW o, NEW s \in Sessions, NEW l, Accept(r, o, s, l)
      PROVE  /\ job'[r].op = o /\ job'[r].sid = s /\ pc'[r] = l
             /\ job'[r].copy.state = sessions[s].state
             /\ job'[r].copy.cid = sessions[s].cid
             /\ sessions' = sessions /\ uart' = uart
  <2>1. job'[r] = [op |-> o, sid |-> s, copy |-> Rewound(sessions[s])]
    BY <1>7 DEF Accept, TypeOK
  <2>2. /\ Rewound(sessions[s]).state = sessions[s].state
        /\ Rewound(sessions[s]).cid = sessions[s].cid
    BY DEF Rewound, TypeOK, Session
  <2> QED
    BY <1>7, <2>1, <2>2 DEF Accept, TypeOK
<1>8. ASSUME NEW o, NEW s \in Sessions, NEW l, Accept(r, o, s, l),
             l \notin {"write", "persist", "save"}, l = "unregister" => o # "delete"
      PROVE  UartSound'
  <2>1. ~Unsettled(r)'
    BY <1>7, <1>8 DEF Unsettled, Leaving
  <2>2. \A t \in Sessions : UartAgrees(t)'
    BY <1>1, <1>7, <1>8 DEF UartAgrees
  <2> QED
    BY <2>1, <2>2, UartSettles
<1>9. CASE AcceptRestore(r)
  <2>1. PICK s \in Sessions : Accept(r, "restore", s, "clone")
    BY <1>9 DEF AcceptRestore
  <2>2. OnCourse(r)'
    BY <1>7, <2>1 DEF OnCourse, LaunchPCs, Leaving
  <2> QED
    BY <1>2, <1>8, <2>1, <2>2
<1>13. CASE AcceptDelete(r)
  <2>1. PICK s \in Sessions : Accept(r, "delete", s, "forget")
    BY <1>13 DEF AcceptDelete
  <2>2. sessions[s].state # "absent"
    BY <2>1 DEF Accept, Present, Absent
  <2>3. OnCourse(r)'
    BY <1>7, <2>1, <2>2 DEF OnCourse, LaunchPCs, Leaving, Sid, Copy
  <2> QED
    BY <1>2, <1>8, <2>1, <2>3
<1>10. CASE AcceptStart(r)
  <2>1. PICK s \in Sessions, l \in {"create", "launch"} :
           sessions[s].state = "stopped" /\ Accept(r, "start", s, l)
    BY <1>10 DEF AcceptStart
  <2>2. OnCourse(r)'
    BY <1>7, <2>1 DEF OnCourse, LaunchPCs, Leaving, Sid, Copy
  <2> QED
    BY <1>2, <1>8, <2>1, <2>2
<1>11. CASE AcceptStop(r)
  <2>1. PICK s \in Sessions, l \in {"unregister", "halt"} :
           IsActive(sessions[s]) /\ Accept(r, "stop", s, l)
    BY <1>11 DEF AcceptStop
  <2>2. OnCourse(r)'
    BY <1>7, <2>1 DEF OnCourse, LaunchPCs, Leaving, Sid, Copy, IsActive
  <2> QED
    BY <1>2, <1>8, <2>1, <2>2
<1>12. CASE AcceptPause(r) \/ AcceptResume(r)
  <2>1. PICK s \in Sessions :
           \/ sessions[s].state = "running" /\ Accept(r, "pause", s, "freeze")
           \/ sessions[s].state = "paused" /\ Accept(r, "resume", s, "thaw")
    BY <1>12 DEF AcceptPause, AcceptResume
  <2>2. OnCourse(r)'
    BY <1>7, <2>1 DEF OnCourse, LaunchPCs, Leaving, Sid, Copy
  <2> QED
    BY <1>2, <1>8, <2>1, <2>2
<1> QED
  BY <1>4, <1>5, <1>6, <1>9, <1>10, <1>11, <1>12, <1>13 DEF Arrive

LEMMA CourseServe ==
    ASSUME ContainerInv, Alone, AllOnCourse, UartSound, NEW r \in Requests, Serve(r)
    PROVE  AllOnCourse' /\ UartSound'
<1> USE DEF ContainerInv
<1> PICK s \in Sessions : s = Sid(r)
  BY TypeCopy
<1>0. /\ s \in Sessions /\ Copy(r) \in Session
      /\ pc[r] # "idle" /\ s \in minted
      /\ pc'[r] # "idle" => SameErrand(r)
  BY TypeCopy, Errand DEF HandlersSound
<1>c. OnCourse(r)
  BY DEF AllOnCourse
<1>1. OnCourse(r)' => AllOnCourse'
  BY DEF AllOnCourse, Alone
<1>2. \A t \in Sessions : t # s \/ ~Unsettled(r) => UartAgrees(t)
  BY Settled
<1>3. ASSUME pc'[r] = "idle", job'[r] = NoJob,
             \A t \in Sessions : UartAgrees(t)'
      PROVE  AllOnCourse' /\ UartSound'
  <2>1. OnCourse(r)' /\ ~Unsettled(r)'
    BY <1>3 DEF OnCourse, Unsettled, Leaving, LaunchPCs, NoJob
  <2> QED
    BY <1>1, <1>3, <2>1, UartSettles
<1>4. ASSUME Finish(r), UNCHANGED <<sessions, uart>>, ~Unsettled(r)
      PROVE  AllOnCourse' /\ UartSound'
  <2>1. pc'[r] = "idle" /\ job'[r] = NoJob
    BY <1>4 DEF Finish, TypeOK
  <2>2. \A t \in Sessions : UartAgrees(t)'
    BY <1>2, <1>4 DEF UartAgrees
  <2> QED
    BY <1>3, <2>1, <2>2
<1>5. ASSUME NEW l, Goto(r, l), l # "idle"
      PROVE  pc'[r] = l /\ SameErrand(r) /\ Sid(r)' = s
  BY <1>0, <1>5 DEF Goto, TypeOK, SameErrand, Sid
(* A call that only moves the handler on towards its write. *)
<1>6. ASSUME NEW l \in LaunchPCs \cup {"unregister"}, Goto(r, l),
             UNCHANGED <<sessions, uart>>, ~Unsettled(r),
             l = "unregister" => job[r].op = "stop"
      PROVE  UartSound'
  <2>1. ~Unsettled(r)'
    BY <1>5, <1>6 DEF Unsettled, Leaving, LaunchPCs, SameErrand
  <2>2. \A t \in Sessions : UartAgrees(t)'
    BY <1>2, <1>6 DEF UartAgrees
  <2> QED
    BY <2>1, <2>2, UartSettles
(* A handler that has marked its copy and goes to write it. *)
<1>7. ASSUME Goto(r, "write"), UNCHANGED sessions, ~Unsettled(r),
             job[r].op # "delete",
             \A t \in Sessions : t # s => (t \in uart' <=> t \in uart),
             Moves(sessions[s].state, job'[r].copy.state),
             s \in uart' <=> IsActive(job'[r].copy)
      PROVE  AllOnCourse' /\ UartSound'
  <2>1. pc'[r] = "write" /\ SameErrand(r) /\ Sid(r)' = s
    BY <1>5, <1>7
  <2>2. OnCourse(r)'
    BY <1>7, <2>1 DEF OnCourse, LaunchPCs, Leaving, SameErrand, Copy
  <2>3. ~Leaving(r)'
    BY <2>1 DEF Leaving
  <2>4. \A t \in Sessions : t = Sid(r)' \/ UartAgrees(t)'
    BY <1>2, <1>7, <2>1 DEF UartAgrees
  <2>5. Sid(r)' \in uart' <=> IsActive(Copy(r)')
    BY <1>7, <2>1 DEF Copy
  <2> QED
    BY <1>1, <2>1, <2>2, <2>3, <2>4, <2>5, UartUnsettled
<1>8. CASE WriteBack(r)
  <2>1. /\ pc[r] = "write" /\ Goto(r, "persist") /\ UNCHANGED <<job, uart>>
        /\ sessions'[s] = Copy(r)
        /\ \A t \in Sessions \ {s} : sessions'[t] = sessions[t]
    BY <1>0, <1>8 DEF WriteBack, TypeOK
  <2>2. pc'[r] = "persist" /\ Sid(r)' = s /\ SameErrand(r)
    BY <1>5, <2>1
  <2>3. job[r].op # "delete"
    BY <1>c, <2>1 DEF OnCourse
  <2>4. OnCourse(r)' /\ ~Unsettled(r)'
    BY <2>2, <2>3 DEF OnCourse, LaunchPCs, Leaving, Unsettled, SameErrand
  <2>5. UartAgrees(s)'
    BY <2>1 DEF UartSound, UartAgrees
  <2>6. \A t \in Sessions : UartAgrees(t)'
    BY <1>2, <2>1, <2>5 DEF UartAgrees
  <2> QED
    BY <1>1, <2>4, <2>6, UartSettles
<1>9. CASE TakeSnapshot(r)
  <2>1. pc[r] = "persist" /\ Goto(r, "save") /\ UNCHANGED <<job, uart, sessions>>
    BY <1>9 DEF TakeSnapshot
  <2>2. pc'[r] = "save" /\ Sid(r)' = s
    BY <1>5, <2>1
  <2>3. OnCourse(r)'
    BY <1>c, <2>1, <2>2 DEF OnCourse, LaunchPCs, Leaving, Sid, Copy
  <2>4. UartSound'
    BY <2>1, <2>2 DEF UartSound, Alone, UartAgrees, Unsettled, Leaving, Sid, Copy
  <2> QED
    BY <1>1, <2>3, <2>4
<1>10. CASE SaveState(r)
  <2>1. /\ pc[r] = "save" /\ UNCHANGED <<uart, sessions>>
        /\ Goto(r, AfterSave(r))
        /\ job'[r] = IF AfterSave(r) = "idle" THEN NoJob ELSE job[r]
    BY <1>10 DEF SaveState, TypeOK
  <2>2. CASE AfterSave(r) = "unregister"
    <3>1. pc'[r] = "unregister" /\ job'[r] = job[r] /\ job[r].op = "delete"
      BY <2>1, <2>2, AfterRequest DEF Goto, TypeOK
    <3>2. OnCourse(r)'
      BY <1>c, <2>1, <3>1 DEF OnCourse, LaunchPCs, Leaving, Sid, Copy
    <3>3. UartSound'
      BY <2>1, <3>1 DEF UartSound, Alone, UartAgrees, Unsettled, Leaving, Sid, Copy
    <3> QED
      BY <1>1, <3>2, <3>3
  <2>3. CASE AfterSave(r) # "unregister"
    <3>1. pc'[r] = "idle" /\ job'[r] = NoJob
      BY <2>1, <2>3, AfterRequest DEF Goto, TypeOK
    <3>2. UartAgrees(s)
      <4>1. CASE Leaving(r)
        <5>1. Copy(r).cid = 0 /\ sessions[s].state = "absent"
          BY <1>c, <2>3, <4>1, AfterRequest DEF Leaving, OnCourse
        <5> QED
          BY <4>1, <5>1 DEF UartSound, UartAgrees, IsActive
      <4>2. CASE ~Leaving(r)
        BY <1>0, <1>2, <2>1, <4>2 DEF Unsettled
      <4> QED
        BY <4>1, <4>2
    <3>3. \A t \in Sessions : UartAgrees(t)'
      BY <1>2, <2>1, <3>2 DEF UartAgrees
    <3> QED
      BY <1>3, <3>1, <3>3
  <2> QED
    BY <2>2, <2>3
<1>11. CASE InsertClone(r)
  <2>1. PICK t \in Sessions :
          /\ Fresh(t)
          /\ sessions' = [sessions EXCEPT ![t] =
                            [Copy(r) EXCEPT !.state = "stopped", !.cid = 0]]
    BY <1>11 DEF InsertClone
  <2>2. pc[r] = "clone" /\ Goto(r, "persist") /\ UNCHANGED <<job, uart>>
    BY <1>11 DEF InsertClone
  <2>3. pc'[r] = "persist" /\ SameErrand(r)
    BY <1>5, <2>2
  <2>4. job[r].op = "restore"
    BY <1>c, <2>2 DEF OnCourse
  <2>5. OnCourse(r)' /\ ~Unsettled(r)'
    BY <2>3, <2>4 DEF OnCourse, LaunchPCs, Leaving, Unsettled, SameErrand
  <2>6. ~IsActive(sessions[t]) /\ ~IsActive(sessions'[t])
    <3>1. [Copy(r) EXCEPT !.state = "stopped", !.cid = 0].state = "stopped"
      BY <1>0 DEF Session
    <3> QED
      BY <2>1, <3>1 DEF Fresh, RecordsSound, Sound, IsActive, TypeOK
  <2>7. ~Unsettled(r)
    BY <2>2, <2>4 DEF Unsettled, Leaving
  <2>8. \A u \in Sessions : UartAgrees(u)'
    BY <1>2, <2>1, <2>2, <2>6, <2>7 DEF UartAgrees, TypeOK
  <2> QED
    BY <1>1, <2>5, <2>8, UartSettles
<1>12. CASE ForgetSession(r)
  <2>1. /\ pc[r] = "forget" /\ Goto(r, "persist") /\ UNCHANGED <<job, uart>>
        /\ sessions'[s] = NoSession
        /\ \A t \in Sessions \ {s} : sessions'[t] = sessions[t]
    BY <1>0, <1>12 DEF ForgetSession, TypeOK
  <2>2. pc'[r] = "persist" /\ Sid(r)' = s /\ SameErrand(r)
    BY <1>5, <2>1
  <2>3. job[r].op = "delete" /\ Copy(r).cid = sessions[s].cid /\ ~Unsettled(r)
    BY <1>c, <2>1 DEF OnCourse, Unsettled, Leaving
  <2>4. OnCourse(r)'
    BY <2>1, <2>2, <2>3 DEF OnCourse, LaunchPCs, Leaving, NoSession, SameErrand
  <2>5. s \in uart => Copy(r).cid # 0
    BY <1>0, <1>2, <2>3 DEF UartAgrees, RecordsSound, Sound, HasContainer
  <2>6. \A t \in Sessions : t = Sid(r)' \/ UartAgrees(t)'
    BY <1>2, <2>1, <2>2 DEF UartAgrees
  <2>7. Leaving(r)' /\ pc'[r] # "write"
    BY <2>2, <2>3 DEF Leaving, SameErrand
  <2>8. Sid(r)' \in uart' => Copy(r)'.cid # 0
    BY <2>1, <2>2, <2>5 DEF Copy
  <2> QED
    BY <1>1, <2>4, <2>6, <2>7, <2>8, UartUnsettled
<1>13. CASE CloneFails(r) \/ RemoveContainer(r)
  <2>1. Finish(r) /\ UNCHANGED <<sessions, uart>> /\ pc[r] \in {"clone", "remove"}
    BY <1>13 DEF CloneFails, RemoveContainer
  <2>2. ~Unsettled(r)
    BY <2>1 DEF Unsettled, Leaving
  <2> QED
    BY <1>4, <2>1, <2>2
<1>14. CASE CreateContainer(r) \/ LaunchContainer(r)
  <2>1. /\ UNCHANGED <<sessions, uart>>
        /\ pc[r] \in LaunchPCs /\ pc[r] # "register"
    BY <1>14 DEF CreateContainer, LaunchContainer, LaunchPCs
  <2>2. ~Unsettled(r) /\ job[r].op # "delete" /\ sessions[s].state = "stopped"
    BY <1>c, <2>1 DEF Unsettled, Leaving, LaunchPCs, OnCourse
  <2>3. ASSUME NEW l \in LaunchPCs \ {"register"}, Goto(r, l)
        PROVE  AllOnCourse' /\ UartSound'
    <3>1. pc'[r] = l /\ SameErrand(r) /\ Sid(r)' = s
      BY <1>5, <2>3 DEF LaunchPCs
    <3>2. OnCourse(r)'
      BY <2>1, <2>2, <2>3, <3>1 DEF OnCourse, LaunchPCs, Leaving, SameErrand
    <3> QED
      BY <1>1, <1>6, <2>1, <2>2, <2>3, <3>2 DEF LaunchPCs
  <2>4. \/ Finish(r)
        \/ \E l \in LaunchPCs \ {"register"} : Goto(r, l)
    BY <1>14 DEF CreateContainer, LaunchContainer, LaunchPCs
  <2> QED
    BY <1>4, <2>1, <2>2, <2>3, <2>4
<1>15. CASE VerifyLaunch(r)
  <2>1. UNCHANGED <<sessions, uart>> /\ pc[r] = "verify"
    BY <1>15 DEF VerifyLaunch
  <2>2. ~Unsettled(r) /\ job[r].op # "delete" /\ sessions[s].state = "stopped"
    BY <1>c, <2>1 DEF Unsettled, Leaving, LaunchPCs, OnCourse
  <2>3. CASE job' = [job EXCEPT ![r].copy.state = "running"] /\ Goto(r, "register")
    <3>1. pc'[r] = "register" /\ SameErrand(r) /\ Sid(r)' = s
      BY <1>5, <2>3
    <3>2. job'[r].copy.state = "running"
      BY <2>3, MarkedCopy
    <3>3. OnCourse(r)'
      BY <2>1, <2>2, <3>1, <3>2 DEF OnCourse, LaunchPCs, Leaving, SameErrand, Copy
    <3> QED
      BY <1>1, <1>6, <2>1, <2>2, <2>3, <3>3 DEF LaunchPCs
  <2>4. CASE job' = [job EXCEPT ![r].copy.state = "stopped"] /\ Goto(r, "write")
    <3>1. job'[r].copy.state = "stopped"
      BY <2>4, MarkedCopy
    <3>2. s \notin uart
      BY <1>0, <1>2, <2>2 DEF UartAgrees, IsActive
    <3>3. Moves(sessions[s].state, job'[r].copy.state)
      BY <2>2, <3>1 DEF Moves
    <3>4. ~IsActive(job'[r].copy)
      BY <3>1 DEF IsActive
    <3> QED
      BY <1>7, <2>1, <2>2, <2>4, <3>2, <3>3, <3>4
  <2> QED
    BY <1>4, <1>15, <2>1, <2>2, <2>3, <2>4 DEF VerifyLaunch
<1>16. CASE RegisterBackends(r)
  <2>1. /\ pc[r] = "register" /\ Goto(r, "write") /\ UNCHANGED <<sessions, job>>
        /\ uart' = uart \cup {s}
    BY <1>16 DEF RegisterBackends
  <2>2. /\ sessions[s].state = "stopped" /\ Copy(r).state = "running"
        /\ ~Unsettled(r) /\ job[r].op # "delete"
    BY <1>c, <2>1 DEF OnCourse, LaunchPCs, Unsettled, Leaving
  <2>3. Moves(sessions[s].state, job'[r].copy.state) /\ IsActive(job'[r].copy)
    BY <2>1, <2>2 DEF Moves, IsActive, Copy
  <2> QED
    BY <1>7, <2>1, <2>2, <2>3
<1>17. CASE HaltContainer(r)
  <2>1. /\ pc[r] = "halt" /\ UNCHANGED <<sessions, uart>>
        /\ Goto(r, "unregister") \/ Finish(r)
    BY <1>17 DEF HaltContainer
  <2>2. ~Unsettled(r) /\ job[r].op = "stop" /\ sessions[s].state \in {"running", "paused"}
    BY <1>c, <2>1 DEF OnCourse, Unsettled, Leaving
  <2>3. CASE Goto(r, "unregister")
    <3>1. pc'[r] = "unregister" /\ SameErrand(r) /\ Sid(r)' = s
      BY <1>5, <2>3
    <3>2. OnCourse(r)'
      BY <2>1, <2>2, <3>1 DEF OnCourse, LaunchPCs, Leaving, SameErrand
    <3> QED
      BY <1>1, <1>6, <2>1, <2>2, <2>3, <3>2
  <2> QED
    BY <1>4, <2>1, <2>2, <2>3
<1>18. CASE UnregisterBackends(r)
  <2>1. /\ pc[r] = "unregister" /\ UNCHANGED sessions
        /\ uart' = uart \ {s}
        /\ job' = [job EXCEPT ![r].copy.state = "stopped"]
        /\ Goto(r, IF job[r].op = "stop" THEN "write" ELSE "remove")
    BY <1>18 DEF UnregisterBackends
  <2>2. job'[r].copy.state = "stopped"
    BY <2>1, MarkedCopy
  <2>3. CASE job[r].op = "stop"
    <3>1. ~Unsettled(r) /\ sessions[s].state \in {"running", "paused"}
      BY <1>c, <2>1, <2>3 DEF OnCourse, Unsettled, Leaving
    <3>2. Moves(sessions[s].state, job'[r].copy.state) /\ ~IsActive(job'[r].copy)
      BY <2>2, <3>1 DEF Moves, IsActive
    <3> QED
      BY <1>7, <2>1, <2>3, <3>1, <3>2
  <2>4. CASE job[r].op # "stop"
    <3>1. job[r].op = "delete" /\ sessions[s].state = "absent"
      BY <1>c, <2>1, <2>4 DEF OnCourse, Leaving
    <3>2. pc'[r] = "remove" /\ SameErrand(r) /\ Sid(r)' = s
      BY <1>5, <2>1, <2>4
    <3>3. OnCourse(r)' /\ ~Unsettled(r)'
      BY <2>1, <3>1, <3>2 DEF OnCourse, LaunchPCs, Leaving, Unsettled, SameErrand
    <3>4. \A t \in Sessions : UartAgrees(t)'
      BY <1>2, <2>1, <3>1 DEF UartAgrees, IsActive
    <3> QED
      BY <1>1, <3>3, <3>4, UartSettles
  <2> QED
    BY <2>3, <2>4
<1>19. ASSUME NEW at, NEW call, NEW from, NEW to, Toggle(r, at, call, from, to),
              \/ at = "freeze" /\ from = "running" /\ to = "paused"
              \/ at = "thaw" /\ from = "paused" /\ to = "running"
       PROVE  AllOnCourse' /\ UartSound'
  <2>1. /\ pc[r] = at /\ UNCHANGED <<sessions, uart>>
        /\ \/ job' = [job EXCEPT ![r].copy.state = to] /\ Goto(r, "write")
           \/ Finish(r)
    BY <1>19 DEF Toggle
  <2>2. ~Unsettled(r) /\ job[r].op # "delete" /\ sessions[s].state = from
    BY <1>19, <1>c, <2>1 DEF OnCourse, Unsettled, Leaving
  <2>3. CASE job' = [job EXCEPT ![r].copy.state = to] /\ Goto(r, "write")
    <3>1. job'[r].copy.state = to
      BY <2>3, MarkedCopy
    <3>2. Moves(sessions[s].state, job'[r].copy.state) /\ IsActive(job'[r].copy)
      BY <1>19, <2>2, <3>1 DEF Moves, IsActive
    <3>3. s \in uart
      BY <1>0, <1>2, <1>19, <2>2 DEF UartAgrees, IsActive
    <3> QED
      BY <1>7, <2>1, <2>2, <2>3, <3>2, <3>3
  <2> QED
    BY <1>4, <2>1, <2>2, <2>3
<1>20. CASE PauseContainer(r) \/ ResumeContainer(r)
  BY <1>19, <1>20 DEF PauseContainer, ResumeContainer
<1> QED
  BY <1>8, <1>9, <1>10, <1>11, <1>12, <1>13, <1>14, <1>15, <1>16, <1>17, <1>18,
     <1>20 DEF Serve

LEMMA CourseInit == Init => AllOnCourse /\ UartSound
  BY DEF Init, AllOnCourse, OnCourse, UartSound, UartAgrees, Unsettled, Leaving,
     LaunchPCs, IsActive, NoSnap, NoSession, NoJob, Procs

LEMMA CourseStep ==
    ASSUME ContainerInv, AtRest, Alone, Elapsing = {}, "crash" \notin EnvEvents,
           AllOnCourse, UartSound, [Next]_vars
    PROVE  AllOnCourse' /\ UartSound'
<1>1. CASE UNCHANGED <<sessions, uart, pc, job>>
  BY <1>1 DEF AllOnCourse, OnCourse, UartSound, UartAgrees, Unsettled, Leaving,
     Sid, Copy
<1>2. ~Restart
  BY DEF Restart
<1> QED
  BY <1>1, <1>2, CourseArrive, CourseServe, NobodyWorks DEF Next, vars, ContainerInv

(* One handler at a time, no clock that runs and no restart: then a        *)
(* handler is always on course and the backends are accounted for.         *)
LEMMA CourseInvariant ==
    ASSUME Alone, Elapsing = {}, "crash" \notin EnvEvents
    PROVE  Spec => [](AllOnCourse /\ UartSound)
<1>1. ContainerInv /\ AtRest /\ AllOnCourse /\ UartSound /\ [Next]_vars
        => AllOnCourse' /\ UartSound'
  BY CourseStep
<1> QED
  BY <1>1, CourseInit, ContainerInvariant, RestInvariant, PTL DEF Spec

(* With one handler at a time, and whichever calls fail, the UART backends *)
(* of a session are registered exactly while it is running or paused: no   *)
(* early return of a handler leaves them behind or takes them too soon.    *)
THEOREM BackendsFollowState ==
    ASSUME Alone, Elapsing = {}, "crash" \notin EnvEvents
    PROVE  Spec => []UartFollowsState
<1>1. TypeOK /\ UartSound => UartFollowsState
  BY DEF UartFollowsState, UartSound, UartAgrees, Unsettled, Leaving, Idle, TypeOK,
     Procs
<1> QED
  BY <1>1, CourseInvariant, TypeCorrect, PTL

-----------------------------------------------------------------------------
(* One handler at a time: the map implements the state machine of a session *)

(* One session of the map changes its state, as SessionStates says.        *)
LEMMA StateMoves ==
    ASSUME TypeOK, NEW s \in Sessions, minted' = minted,
           \A t \in Sessions \ {s} : sessions'[t].state = sessions[t].state,
           \/ Moves(sessions[s].state, sessions'[s].state)
           \/ sessions[s].state # "absent" /\ sessions'[s].state = "absent"
    PROVE  [Abstract!Next]_(Abstract!vars)
<1> DEFINE abs == [t \in Sessions |-> sessions[t].state]
<1> DEFINE new == [t \in Sessions |-> sessions'[t].state]
<1>1. new = [abs EXCEPT ![s] = sessions'[s].state]
  OBVIOUS
<1>2. abs[s] = sessions[s].state
  OBVIOUS
<1>3. sessions[s].state \in {"absent", "stopped", "running", "paused"}
  BY DEF TypeOK, Session
<1>4. CASE sessions'[s].state = sessions[s].state
  <2>1. new = abs
    BY <1>1, <1>4
  <2> QED
    BY <2>1 DEF Abstract!vars
<1>5. CASE sessions'[s].state # sessions[s].state
  <2>1. \/ Abstract!Start(s) \/ Abstract!Pause(s) \/ Abstract!Resume(s)
        \/ Abstract!Stop(s) \/ Abstract!Delete(s)
    BY <1>1, <1>2, <1>3, <1>5 DEF Moves, Abstract!Start, Abstract!Pause,
       Abstract!Resume, Abstract!Stop, Abstract!Delete, Abstract!Move
  <2> QED
    BY <2>1 DEF Abstract!Next
<1> QED
  BY <1>4, <1>5

(* A session enters the map under a new id. *)
LEMMA StateBorn ==
    ASSUME TypeOK, NEW s \in Sessions, Fresh(s), minted' = minted \cup {s},
           \A t \in Sessions \ {s} : sessions'[t].state = sessions[t].state,
           sessions'[s].state = "stopped"
    PROVE  [Abstract!Next]_(Abstract!vars)
<1> DEFINE abs == [t \in Sessions |-> sessions[t].state]
<1> DEFINE new == [t \in Sessions |-> sessions'[t].state]
<1>1. new = [abs EXCEPT ![s] = "stopped"]
  OBVIOUS
<1>2. Abstract!Create(s)
  BY <1>1 DEF Abstract!Create, Fresh
<1> QED
  BY <1>2 DEF Abstract!Next

LEMMA StatesStay ==
    ASSUME TypeOK, minted' = minted,
           \A t \in Sessions : sessions'[t].state = sessions[t].state
    PROVE  [Abstract!Next]_(Abstract!vars)
<1>1. PICK s \in Sessions : TRUE
  BY SessionsAssumption
<1>2. Moves(sessions[s].state, sessions'[s].state)
  BY DEF Moves
<1> QED
  BY <1>2, StateMoves

LEMMA StepMaps ==
    ASSUME ContainerInv, AtRest, AllOnCourse, Elapsing = {},
           "crash" \notin EnvEvents, [Next]_vars
    PROVE  [Abstract!Next]_(Abstract!vars)
<1> USE DEF ContainerInv
<1>1. CASE UNCHANGED <<sessions, minted>>
  BY <1>1, StatesStay
<1>2. ASSUME NEW r \in Requests, Arrive(r)
      PROVE  [Abstract!Next]_(Abstract!vars)
  <2>1. CASE CreateSession(r)
    <3>1. PICK s \in Sessions, anon \in BOOLEAN :
            /\ Fresh(s) /\ minted' = minted \cup {s}
            /\ sessions' = [sessions EXCEPT ![s] =
                              [NoSession EXCEPT !.state = "stopped", !.anon = anon]]
      BY <2>1 DEF CreateSession
    <3>2. /\ sessions'[s].state = "stopped"
          /\ \A t \in Sessions \ {s} : sessions'[t].state = sessions[t].state
      BY <3>1 DEF TypeOK, NoSession
    <3> QED
      BY <3>1, <3>2, StateBorn
  <2>2. CASE UpdateSession(r)
    <3>1. PICK s \in Sessions :
            sessions' = [sessions EXCEPT ![s].rev = @ + 1, ![s].elapsed = {}]
      BY <2>2 DEF UpdateSession
    <3>2. \A t \in Sessions : sessions'[t].state = sessions[t].state
      BY <3>1 DEF TypeOK, Session
    <3> QED
      BY <2>2, <3>2, StatesStay DEF UpdateSession
  <2> QED
    BY <1>1, <1>2, <2>1, <2>2 DEF Arrive, StopStopped, AcceptRestore,
       AcceptDelete, AcceptStart, AcceptStop, AcceptPause, AcceptResume, Accept
<1>3. ASSUME NEW r \in Requests, Serve(r)
      PROVE  [Abstract!Next]_(Abstract!vars)
  <2>0. Sid(r) \in Sessions /\ Copy(r) \in Session /\ OnCourse(r)
    BY TypeCopy DEF AllOnCourse
  <2>1. CASE WriteBack(r)
    <3>1. /\ sessions'[Sid(r)] = Copy(r) /\ pc[r] = "write" /\ minted' = minted
          /\ \A t \in Sessions \ {Sid(r)} : sessions'[t] = sessions[t]
      BY <2>0, <2>1 DEF WriteBack, TypeOK
    <3>2. Moves(sessions[Sid(r)].state, sessions'[Sid(r)].state)
      BY <2>0, <3>1 DEF OnCourse
    <3>3. PICK s \in Sessions : s = Sid(r)
      BY <2>0
    <3> QED
      BY <3>1, <3>2, <3>3, StateMoves
  <2>2. CASE InsertClone(r)
    <3>1. PICK s \in Sessions :
            /\ Fresh(s) /\ minted' = minted \cup {s}
            /\ sessions' = [sessions EXCEPT ![s] =
                              [Copy(r) EXCEPT !.state = "stopped", !.cid = 0]]
      BY <2>2 DEF InsertClone
    <3>2. [Copy(r) EXCEPT !.state = "stopped", !.cid = 0].state = "stopped"
      BY <2>0 DEF Session
    <3>3. /\ sessions'[s].state = "stopped"
          /\ \A t \in Sessions \ {s} : sessions'[t].state = sessions[t].state
      BY <3>1, <3>2 DEF TypeOK
    <3> QED
      BY <3>1, <3>3, StateBorn
  <2>3. CASE ForgetSession(r)
    <3>1. /\ sessions'[Sid(r)] = NoSession /\ pc[r] = "forget" /\ minted' = minted
          /\ \A t \in Sessions \ {Sid(r)} : sessions'[t] = sessions[t]
      BY <2>0, <2>3 DEF ForgetSession, TypeOK
    <3>2. sessions[Sid(r)].state # "absent" /\ sessions'[Sid(r)].state = "absent"
      BY <2>0, <3>1 DEF OnCourse, NoSession
    <3>3. PICK s \in Sessions : s = Sid(r)
      BY <2>0
    <3> QED
      BY <3>1, <3>2, <3>3, StateMoves
  <2>4. CASE \/ TakeSnapshot(r) \/ SaveState(r) \/ CloneFails(r)
             \/ RemoveContainer(r) \/ CreateContainer(r) \/ LaunchContainer(r)
             \/ VerifyLaunch(r) \/ RegisterBackends(r) \/ HaltContainer(r)
             \/ UnregisterBackends(r) \/ PauseContainer(r) \/ ResumeContainer(r)
    BY <1>1, <2>4 DEF TakeSnapshot, SaveState, CloneFails, RemoveContainer,
       CreateContainer, LaunchContainer, VerifyLaunch, RegisterBackends,
       HaltContainer, UnregisterBackends, PauseContainer, ResumeContainer, Toggle
  <2> QED
    BY <1>3, <2>1, <2>2, <2>3, <2>4 DEF Serve
<1>4. ~Restart
  BY DEF Restart
<1> QED
  BY <1>1, <1>2, <1>3, <1>4, NobodyWorks DEF Next, vars

(* With one handler at a time the map implements SessionStates, whichever  *)
(* calls fail: a session is created stopped under a new id, every          *)
(* write-back of a copy is one of the moves a client is told of or none at *)
(* all, and a deleted session does not return.                             *)
THEOREM MapImplementsSessionStates ==
    ASSUME Alone, Elapsing = {}, "crash" \notin EnvEvents
    PROVE  Spec => Refinement
<1>1. Init => Abstract!Init
  BY DEF Init, Abstract!Init, NoSnap, NoSession
<1>2. ContainerInv /\ AtRest /\ AllOnCourse /\ [Next]_vars
        => [Abstract!Next]_(Abstract!vars)
  BY StepMaps
<1> QED
  BY <1>1, <1>2, CourseInvariant, ContainerInvariant, RestInvariant, PTL
     DEF Spec, Refinement, Abstract!Spec

-----------------------------------------------------------------------------
(* One handler at a time: the containers behind the sessions                *)

(* No container of the session has ever run but the one x names (a start   *)
(* that fails may leave one nobody knows), and a record that says stopped  *)
(* has none that runs.                                                     *)
Tame(s, x) == docker[s].status \in {"absent", "created"} \/ docker[s].issued = x.cid
Quiet(s) == docker[s].status \notin {"running", "paused"}
Calm(s, x) == Tame(s, x) /\ (x.state = "stopped" => Quiet(s))

(* From its launch to its write a handler is ahead of the map.             *)
AheadPCs == {"launch", "relaunch", "verify", "register", "write"}
Ahead(s) == \E r \in Requests : Sid(r) = s /\ pc[r] \in AheadPCs

(* What a handler knows of its container at every point.                   *)
InTouch(r) ==
    LET s == Sid(r) IN
    /\ pc[r] \in {"launch", "relaunch"} =>
         Tame(s, Copy(r)) /\ Tame(s, sessions[s]) /\ Quiet(s)
    /\ pc[r] = "verify" =>
         Tame(s, Copy(r)) /\ docker[s].status \in {"running", "exited", "absent"}
    /\ pc[r] = "register" => Tame(s, Copy(r))
    /\ pc[r] = "write" => Calm(s, Copy(r))
    /\ pc[r] \in {"halt", "freeze", "thaw"} => Copy(r).cid = sessions[s].cid
    /\ pc[r] = "unregister" /\ job[r].op = "stop" =>
         Copy(r).cid = sessions[s].cid /\ Quiet(s)

DockerSound ==
    /\ \A s \in Sessions : s \notin minted => docker[s].status = "absent"
    /\ \A s \in Sessions : Present(s) => Calm(s, sessions[s]) \/ Ahead(s)
    /\ \A r \in Requests : InTouch(r)

(* Only the handler r moves: what is to be shown of it and of the sessions.*)
LEMMA DockerFrame ==
    ASSUME Alone, NEW r \in Requests,
           \A t \in Sessions : t \notin minted' => docker'[t].status = "absent",
           \A t \in Sessions : Present(t)' =>
              Calm(t, sessions[t])' \/ (t = Sid(r)' /\ pc'[r] \in AheadPCs),
           InTouch(r)'
    PROVE  DockerSound'
  BY DEF DockerSound, Ahead, Alone

LEMMA CalmUnless ==
    ASSUME Alone, DockerSound, NEW r \in Requests
    PROVE  \A t \in Sessions :
              Present(t) /\ (t # Sid(r) \/ pc[r] \notin AheadPCs) =>
                 Calm(t, sessions[t])
  BY DEF DockerSound, Ahead, Alone

(* The steps after which a handler knows nothing of its container. *)
LEMMA OutOfTouch ==
    ASSUME NEW r \in Requests,
           \/ pc'[r] \in {"idle", "create", "recreate", "clone", "forget", "remove",
                          "persist", "save"}
           \/ pc'[r] = "unregister" /\ job'[r].op # "stop"
    PROVE  InTouch(r)' /\ pc'[r] \notin AheadPCs
  BY DEF InTouch, AheadPCs

LEMMA DockerInit == Init => DockerSound
  BY DEF Init, DockerSound, InTouch, Present, Absent, NoSnap, NoSession, Procs

LEMMA DockerArrive ==
    ASSUME ContainerInv, Alone, DockerSound, NEW r \in Requests, Arrive(r)
    PROVE  DockerSound'
<1> USE DEF ContainerInv
<1>0. pc[r] = "idle"
  BY DEF Arrive, CreateSession, UpdateSession, StopStopped, AcceptRestore,
     AcceptDelete, AcceptStart, AcceptStop, AcceptPause, AcceptResume, Accept
<1>1. \A t \in Sessions : Present(t) => Calm(t, sessions[t])
  BY <1>0, CalmUnless DEF AheadPCs
<1>2. \A t \in Sessions : t \notin minted => docker[t].status = "absent"
  BY DEF DockerSound
<1>3. CASE CreateSession(r)
  <2>1. PICK s \in Sessions, anon \in BOOLEAN :
          /\ Fresh(s) /\ minted' = minted \cup {s}
          /\ sessions' = [sessions EXCEPT ![s] =
                            [NoSession EXCEPT !.state = "stopped", !.anon = anon]]
    BY <1>3 DEF CreateSession
  <2>2. pc'[r] = "persist" /\ docker' = docker
    BY <1>3 DEF CreateSession, Goto, TypeOK
  <2>3. Calm(s, sessions[s])'
    BY <1>2, <2>1, <2>2 DEF Fresh, Calm, Tame, Quiet
  <2>4. \A t \in Sessions : Present(t)' => Calm(t, sessions[t])'
    BY <1>1, <2>1, <2>2, <2>3 DEF Calm, Tame, Quiet, Present, Absent, TypeOK
  <2>5. InTouch(r)'
    BY <2>2, OutOfTouch
  <2> QED
    BY <1>2, <2>1, <2>2, <2>4, <2>5, DockerFrame
<1>4. CASE UpdateSession(r)
  <2>1. PICK s \in Sessions :
          sessions' = [sessions EXCEPT ![s].rev = @ + 1, ![s].elapsed = {}]
    BY <1>4 DEF UpdateSession
  <2>2. pc'[r] = "persist" /\ docker' = docker /\ minted' = minted
    BY <1>4 DEF UpdateSession, Goto, TypeOK
  <2>3. \A t \in Sessions : /\ sessions'[t].state = sessions[t].state
                            /\ sessions'[t].cid = sessions[t].cid
    BY <2>1 DEF TypeOK, Session
  <2>4. \A t \in Sessions : Present(t)' => Calm(t, sessions[t])'
    BY <1>1, <2>2, <2>3 DEF Calm, Tame, Quiet, Present, Absent
  <2>5. InTouch(r)'
    BY <2>2, OutOfTouch
  <2> QED
    BY <1>2, <2>2, <2>4, <2>5, DockerFrame
<1>5. CASE StopStopped(r)
  BY <1>5 DEF StopStopped, DockerSound, InTouch, Ahead, Calm, Tame, Quiet,
     Present, Absent, Sid, Copy
<1>6. ASSUME NEW o, NEW s \in Sessions, NEW l, Accept(r, o, s, l),
             /\ l \in {"clone", "forget", "create", "launch", "halt", "freeze", "thaw"}
             /\ l = "launch" => sessions[s].state = "stopped"
      PROVE  DockerSound'
  <2>1. job'[r] = [op |-> o, sid |-> s, copy |-> Rewound(sessions[s])]
    BY <1>6 DEF Accept, TypeOK
  <2>2. Rewound(sessions[s]).cid = sessions[s].cid
    BY DEF Rewound, TypeOK, Session
  <2>3. Sid(r)' = s /\ Copy(r)'.cid = sessions[s].cid /\ pc'[r] = l
    BY <1>6, <2>1, <2>2 DEF Accept, TypeOK, Sid, Copy
  <2>4. UNCHANGED <<sessions, docker, minted>> /\ Present(s)
    BY <1>6 DEF Accept
  <2>5. \A t \in Sessions : Present(t)' => Calm(t, sessions[t])'
    BY <1>1, <2>4 DEF Calm, Tame, Quiet, Present, Absent
  <2>6. l = "launch" => Tame(s, Copy(r))' /\ Tame(s, sessions[s])' /\ Quiet(s)'
    BY <1>1, <1>6, <2>3, <2>4 DEF Calm, Tame, Quiet
  <2>7. InTouch(r)'
    BY <1>6, <2>3, <2>4, <2>6 DEF InTouch
  <2> QED
    BY <1>2, <2>4, <2>5, <2>7, DockerFrame
<1>7. CASE AcceptStart(r)
  <2>1. PICK s \in Sessions :
          /\ sessions[s].state = "stopped"
          /\ Accept(r, "start", s, IF sessions[s].cid = 0 THEN "create" ELSE "launch")
    BY <1>7 DEF AcceptStart
  <2> QED
    BY <1>6, <2>1
<1>8. CASE AcceptStop(r)
  <2>1. PICK s \in Sessions :
          /\ IsActive(sessions[s])
          /\ Accept(r, "stop", s, IF sessions[s].cid = 0 THEN "unregister" ELSE "halt")
    BY <1>8 DEF AcceptStop
  <2>2. sessions[s].cid # 0
    BY <2>1 DEF RecordsSound, Sound, HasContainer
  <2> QED
    BY <1>6, <2>1, <2>2
<1>9. CASE AcceptRestore(r) \/ AcceptDelete(r) \/ AcceptPause(r) \/ AcceptResume(r)
  BY <1>6, <1>9 DEF AcceptRestore, AcceptDelete, AcceptPause, AcceptResume
<1> QED
  BY <1>3, <1>4, <1>5, <1>7, <1>8, <1>9 DEF Arrive

(* A handler talks to the daemon about the container of its session only. *)
LEMMA OneContainer ==
    ASSUME TypeOK, NEW r \in Requests, Serve(r), NEW t \in Sessions, t # Sid(r)
    PROVE  docker'[t] = docker[t]
<1>1. CASE UNCHANGED docker
  BY <1>1
<1>2. \A st : SetStatus(Sid(r), st) => docker'[t] = docker[t]
  BY DEF SetStatus, TypeOK
<1>3. CASE CreateContainer(r)
  BY <1>3 DEF CreateContainer, TypeOK
<1>4. CASE \/ RemoveContainer(r) \/ LaunchContainer(r) \/ HaltContainer(r)
           \/ PauseContainer(r) \/ ResumeContainer(r)
  BY <1>1, <1>2, <1>4 DEF RemoveContainer, LaunchContainer, HaltContainer,
     PauseContainer, ResumeContainer, Toggle
<1>5. CASE \/ WriteBack(r) \/ TakeSnapshot(r) \/ SaveState(r) \/ InsertClone(r)
           \/ CloneFails(r) \/ ForgetSession(r) \/ VerifyLaunch(r)
           \/ RegisterBackends(r) \/ UnregisterBackends(r)
  BY <1>1, <1>5 DEF WriteBack, TakeSnapshot, SaveState, InsertClone, CloneFails,
     ForgetSession, VerifyLaunch, RegisterBackends, UnregisterBackends
<1> QED
  BY <1>3, <1>4, <1>5 DEF Serve

LEMMA NewStatus ==
    ASSUME TypeOK, NEW s \in Sessions, NEW st, SetStatus(s, st)
    PROVE  docker'[s].status = st /\ docker'[s].issued = docker[s].issued
<1>1. docker[s] \in Container
  BY DEF TypeOK
<1> QED
  BY <1>1 DEF SetStatus, TypeOK, Container

LEMMA DockerServe ==
    ASSUME ContainerInv, Alone, AllOnCourse, DockerSound,
           "inspect" \notin FaultyCalls,
           NEW r \in Requests, Serve(r)
    PROVE  DockerSound'
<1> USE DEF ContainerInv
<1> PICK s \in Sessions : s = Sid(r)
  BY TypeCopy
<1>0. /\ Copy(r) \in Session /\ docker[s] \in Container
      /\ pc[r] # "idle" /\ s \in minted
      /\ pc'[r] # "idle" => SameErrand(r)
      /\ OnCourse(r) /\ InTouch(r)
  BY TypeCopy, Errand DEF HandlersSound, AllOnCourse, DockerSound, TypeOK
<1>1. \A t \in Sessions : t # s => docker'[t] = docker[t]
  BY OneContainer
<1>2. \A t \in Sessions :
        Present(t) /\ (t # s \/ pc[r] \notin AheadPCs) => Calm(t, sessions[t])
  BY CalmUnless
<1>3. \A t \in Sessions : t \notin minted => docker[t].status = "absent"
  BY DEF DockerSound
<1>4. \A st : SetStatus(s, st) =>
         docker'[s].status = st /\ docker'[s].issued = docker[s].issued
  BY NewStatus
<1>5. ASSUME NEW l, Goto(r, l), l # "idle"
      PROVE  pc'[r] = l /\ SameErrand(r) /\ Sid(r)' = s
  BY <1>0, <1>5 DEF Goto, TypeOK, SameErrand, Sid
<1>6. Finish(r) => pc'[r] = "idle"
  BY DEF Finish, TypeOK
(* The map stays: only the container of s, and what is known of it, moves. *)
<1>7. ASSUME UNCHANGED <<sessions, minted>>, InTouch(r)',
             \/ Sid(r)' = s /\ pc'[r] \in AheadPCs
             \/ Present(s) => Calm(s, sessions[s])'
      PROVE  DockerSound'
  <2>1. \A t \in Sessions : t # s /\ Present(t) => Calm(t, sessions[t])'
    BY <1>1, <1>2, <1>7 DEF Calm, Tame, Quiet
  <2>2. \A t \in Sessions : Present(t)' =>
           Calm(t, sessions[t])' \/ (t = Sid(r)' /\ pc'[r] \in AheadPCs)
    BY <1>7, <2>1 DEF Present, Absent
  <2>3. \A t \in Sessions : t \notin minted' => docker'[t].status = "absent"
    BY <1>0, <1>1, <1>3, <1>7
  <2> QED
    BY <1>7, <2>2, <2>3, DockerFrame
(* The handler ends, or goes on, without a claim on its container. *)
<1>8. ASSUME UNCHANGED <<sessions, minted>>,
             \/ pc'[r] \in {"idle", "create", "recreate", "clone", "forget",
                            "remove", "persist", "save"}
             \/ pc'[r] = "unregister" /\ job'[r].op # "stop",
             \/ docker' = docker /\ (pc[r] \notin AheadPCs \/ Calm(s, sessions[s]))
             \/ docker'[s].status = "absent"
      PROVE  DockerSound'
  <2>1. InTouch(r)'
    BY <1>8, OutOfTouch
  <2>2. Present(s) => Calm(s, sessions[s])'
    BY <1>2, <1>8 DEF Calm, Tame, Quiet
  <2> QED
    BY <1>7, <1>8, <2>1, <2>2
(* The handler goes on to write its copy. *)
<1>9. ASSUME Goto(r, "write"), UNCHANGED <<sessions, minted>>,
             docker'[s].status \in {"absent", "created"} \/ docker'[s].issued = job'[r].copy.cid,
             job'[r].copy.state = "stopped" =>
                docker'[s].status \notin {"running", "paused"}
      PROVE  DockerSound'
  <2>1. pc'[r] = "write" /\ Sid(r)' = s
    BY <1>5, <1>9
  <2>2. InTouch(r)'
    BY <1>9, <2>1 DEF InTouch, Calm, Tame, Quiet, Copy
  <2> QED
    BY <1>7, <1>9, <2>1, <2>2 DEF AheadPCs
<1>10. CASE WriteBack(r)
  <2>1. /\ pc[r] = "write" /\ pc'[r] = "persist" /\ UNCHANGED <<minted, docker>>
        /\ sessions'[s] = Copy(r)
        /\ \A t \in Sessions \ {s} : sessions'[t] = sessions[t]
    BY <1>10 DEF WriteBack, Goto, TypeOK
  <2>2. Calm(s, Copy(r))
    BY <1>0, <2>1 DEF InTouch
  <2>3. \A t \in Sessions : Present(t)' => Calm(t, sessions[t])'
    BY <1>2, <2>1, <2>2 DEF Calm, Tame, Quiet, Present, Absent
  <2>4. InTouch(r)'
    BY <2>1, OutOfTouch
  <2> QED
    BY <1>3, <2>1, <2>3, <2>4, DockerFrame
<1>11. CASE TakeSnapshot(r) \/ SaveState(r)
  <2>1. /\ UNCHANGED <<sessions, minted, docker>>
        /\ pc[r] \in {"persist", "save"}
    BY <1>11 DEF TakeSnapshot, SaveState
  <2>2. \/ pc'[r] \in {"idle", "save"}
        \/ pc'[r] = "unregister" /\ job'[r].op # "stop"
    BY <1>11, AfterRequest DEF TakeSnapshot, SaveState, Goto, TypeOK
  <2> QED
    BY <1>8, <2>1, <2>2 DEF AheadPCs
<1>12. CASE InsertClone(r)
  <2>1. PICK t \in Sessions :
          /\ Fresh(t) /\ minted' = minted \cup {t}
          /\ sessions' = [sessions EXCEPT ![t] =
                            [Copy(r) EXCEPT !.state = "stopped", !.cid = 0]]
    BY <1>12 DEF InsertClone
  <2>2. pc[r] = "clone" /\ pc'[r] = "persist" /\ docker' = docker
    BY <1>12 DEF InsertClone, Goto, TypeOK
  <2>3. Calm(t, sessions[t])'
    BY <1>3, <2>1, <2>2 DEF Fresh, Calm, Tame, Quiet
  <2>4. \A u \in Sessions : Present(u)' => Calm(u, sessions[u])'
    BY <1>2, <2>1, <2>2, <2>3 DEF Calm, Tame, Quiet, Present, Absent, TypeOK, AheadPCs
  <2>5. InTouch(r)'
    BY <2>2, OutOfTouch
  <2> QED
    BY <1>3, <2>1, <2>2, <2>4, <2>5, DockerFrame
<1>13. CASE CloneFails(r)
  <2>1. /\ UNCHANGED <<sessions, minted, docker>>
        /\ pc[r] = "clone" /\ pc'[r] = "idle"
    BY <1>6, <1>13 DEF CloneFails
  <2> QED
    BY <1>8, <2>1 DEF AheadPCs
<1>14. CASE ForgetSession(r)
  <2>1. /\ pc[r] = "forget" /\ pc'[r] = "persist" /\ UNCHANGED <<minted, docker>>
        /\ sessions'[s] = NoSession
        /\ \A t \in Sessions \ {s} : sessions'[t] = sessions[t]
    BY <1>14 DEF ForgetSession, Goto, TypeOK
  <2>2. \A t \in Sessions : Present(t)' => Calm(t, sessions[t])'
    BY <1>2, <2>1 DEF Calm, Tame, Quiet, Present, Absent, NoSession
  <2>3. InTouch(r)'
    BY <2>1, OutOfTouch
  <2> QED
    BY <1>3, <2>1, <2>2, <2>3, DockerFrame
<1>15. CASE RemoveContainer(r)
  <2>1. /\ UNCHANGED <<sessions, minted>>
        /\ pc[r] = "remove" /\ pc'[r] = "idle"
        /\ docker' = docker \/ SetStatus(s, "absent")
    BY <1>6, <1>15 DEF RemoveContainer
  <2> QED
    BY <1>4, <1>8, <2>1 DEF AheadPCs
<1>16. CASE CreateContainer(r)
  <2>1. UNCHANGED <<sessions, minted>> /\ pc[r] \in {"create", "recreate"}
    BY <1>16 DEF CreateContainer
  <2>2. CASE Finish(r) /\ docker' = docker
    BY <1>6, <1>8, <2>1, <2>2 DEF AheadPCs
  <2>3. ASSUME ~(Finish(r) /\ docker' = docker)
        PROVE  DockerSound'
    <3>1. PICK n \in Nat, l \in {"launch", "relaunch"} :
            /\ docker' = [docker EXCEPT ![s] = [issued |-> n, status |-> "created"]]
            /\ job' = [job EXCEPT ![r].copy.cid = n]
            /\ Goto(r, l)
      <4>1. docker[s].issued + 1 \in Nat
        BY <1>0 DEF Container
      <4> QED
        BY <1>16, <2>3, <4>1 DEF CreateContainer
    <3>2. docker'[s].issued = n /\ docker'[s].status = "created"
      BY <3>1 DEF TypeOK
    <3>3. job'[r].copy.cid = n
      BY <3>1, NumberedCopy
    <3>4. pc'[r] = l /\ Sid(r)' = s
      BY <1>5, <3>1
    <3>5. InTouch(r)'
      BY <3>1, <3>2, <3>3, <3>4 DEF InTouch, Tame, Quiet, Copy
    <3> QED
      BY <1>7, <2>1, <3>1, <3>4, <3>5 DEF AheadPCs
  <2> QED
    BY <2>2, <2>3
<1>17. CASE LaunchContainer(r)
  <2>1. /\ UNCHANGED <<sessions, minted>> /\ pc[r] \in {"launch", "relaunch"}
        /\ Tame(s, Copy(r)) /\ Tame(s, sessions[s]) /\ Quiet(s)
    BY <1>0, <1>17 DEF LaunchContainer, InTouch
  <2>2. CASE /\ StatusIn(s, Copy(r).cid, Startable) /\ SetStatus(s, "running")
             /\ Goto(r, "verify") /\ UNCHANGED job
    <3>1. docker'[s].status = "running" /\ docker'[s].issued = Copy(r).cid
      BY <1>4, <2>2 DEF StatusIn, Known
    <3>2. pc'[r] = "verify" /\ Sid(r)' = s /\ Copy(r)' = Copy(r)
      BY <1>5, <2>2 DEF Copy
    <3>3. InTouch(r)'
      BY <3>1, <3>2 DEF InTouch, Tame
    <3> QED
      BY <1>7, <2>1, <3>2, <3>3 DEF AheadPCs
  <2>3. CASE docker' = docker /\ (Goto(r, "recreate") \/ Finish(r))
    <3>1. pc'[r] \in {"recreate", "idle"}
      BY <1>5, <1>6, <2>3
    <3> QED
      BY <1>8, <2>1, <2>3, <3>1 DEF Calm
  <2> QED
    BY <1>17, <2>2, <2>3 DEF LaunchContainer
<1>18. CASE VerifyLaunch(r)
  <2>1. /\ UNCHANGED <<sessions, minted, docker>> /\ pc[r] = "verify"
        /\ Tame(s, Copy(r)) /\ docker[s].status \in {"running", "exited", "absent"}
    BY <1>0, <1>18 DEF VerifyLaunch, InTouch
  <2>2. CASE /\ StatusIn(s, Copy(r).cid, {"running"})
             /\ job' = [job EXCEPT ![r].copy.state = "running"]
             /\ Goto(r, "register")
    <3>1. pc'[r] = "register" /\ Sid(r)' = s
      BY <1>5, <2>2
    <3>2. job'[r].copy.cid = Copy(r).cid
      BY <2>2, MarkedCopy DEF Copy
    <3>3. InTouch(r)'
      BY <2>1, <3>1, <3>2 DEF InTouch, Tame, Copy
    <3> QED
      BY <1>7, <2>1, <3>1, <3>3 DEF AheadPCs
  <2>3. CASE /\ Known(s, Copy(r).cid) /\ ~StatusIn(s, Copy(r).cid, {"running"})
             /\ job' = [job EXCEPT ![r].copy.state = "stopped"]
             /\ Goto(r, "write")
    <3>1. docker[s].status = "exited" /\ docker[s].issued = Copy(r).cid
      BY <2>1, <2>3 DEF StatusIn, Known
    <3>2. job'[r].copy.cid = Copy(r).cid
      BY <2>3, MarkedCopy DEF Copy
    <3> QED
      BY <1>9, <2>1, <2>3, <3>1, <3>2
  <2>4. CASE ~Known(s, Copy(r).cid) /\ Finish(r)
    <3>1. docker'[s].status = "absent"
      BY <2>1, <2>4 DEF Known, Tame
    <3> QED
      BY <1>6, <1>8, <2>1, <2>4, <3>1
  <2>5. ~MayFail("inspect")
    BY DEF MayFail
  <2> QED
    BY <1>18, <2>2, <2>3, <2>4, <2>5 DEF VerifyLaunch
<1>19. CASE RegisterBackends(r)
  <2>1. /\ UNCHANGED <<sessions, minted, docker, job>> /\ pc[r] = "register"
        /\ Goto(r, "write")
        /\ Tame(s, Copy(r)) /\ Copy(r).state = "running"
    BY <1>0, <1>19 DEF RegisterBackends, InTouch, OnCourse
  <2> QED
    BY <1>9, <2>1 DEF Tame, Copy
<1>20. CASE HaltContainer(r)
  <2>1. /\ UNCHANGED <<sessions, minted>> /\ pc[r] = "halt"
        /\ Copy(r).cid = sessions[s].cid
        /\ sessions[s].state \in {"running", "paused"}
    BY <1>0, <1>20 DEF HaltContainer, InTouch, OnCourse
  <2>2. Calm(s, sessions[s])
    BY <1>2, <2>1 DEF AheadPCs, Present, Absent
  <2>3. CASE Finish(r) /\ docker' = docker
    BY <1>6, <1>8, <2>1, <2>3 DEF AheadPCs
  <2>4. CASE SetStatus(s, StopResult(s)) /\ Goto(r, "unregister") /\ UNCHANGED job
    <3>1. /\ docker'[s].status = StopResult(s)
          /\ docker'[s].issued = docker[s].issued
      BY <1>4, <2>4
    <3>2. /\ docker'[s].status \notin {"running", "paused"}
          /\ docker[s].status \in {"absent", "created"} =>
                docker'[s].status = docker[s].status
      BY <3>1 DEF StopResult
    <3>3. Calm(s, sessions[s])'
      BY <2>1, <2>2, <3>1, <3>2 DEF Calm, Tame, Quiet
    <3>4. pc'[r] = "unregister" /\ Sid(r)' = s /\ Copy(r)' = Copy(r)
      BY <1>5, <2>4 DEF Copy
    <3>5. InTouch(r)'
      BY <2>1, <3>2, <3>4 DEF InTouch, Quiet
    <3> QED
      BY <1>7, <2>1, <3>3, <3>5
  <2> QED
    BY <1>20, <2>3, <2>4 DEF HaltContainer
<1>21. CASE UnregisterBackends(r)
  <2>1. /\ UNCHANGED <<sessions, minted, docker>> /\ pc[r] = "unregister"
        /\ job' = [job EXCEPT ![r].copy.state = "stopped"]
        /\ Goto(r, IF job[r].op = "stop" THEN "write" ELSE "remove")
    BY <1>21 DEF UnregisterBackends
  <2>2. CASE job[r].op = "stop"
    <3>1. /\ Copy(r).cid = sessions[s].cid /\ Quiet(s)
          /\ sessions[s].state \in {"running", "paused"}
      BY <1>0, <2>1, <2>2 DEF InTouch, OnCourse
    <3>2. Tame(s, sessions[s])
      BY <1>2, <2>1, <3>1 DEF AheadPCs, Present, Absent, Calm
    <3>3. job'[r].copy.cid = Copy(r).cid
      BY <2>1, MarkedCopy DEF Copy
    <3> QED
      BY <1>9, <2>1, <2>2, <3>1, <3>2, <3>3 DEF Tame, Quiet
  <2>3. CASE job[r].op # "stop"
    <3>1. pc'[r] = "remove"
      BY <1>5, <2>1, <2>3
    <3> QED
      BY <1>8, <2>1, <3>1 DEF AheadPCs
  <2> QED
    BY <2>2, <2>3
<1>22. ASSUME NEW at \in {"freeze", "thaw"}, NEW call, NEW from,
              NEW to \in {"running", "paused"}, Toggle(r, at, call, from, to)
       PROVE  DockerSound'
  <2>1. UNCHANGED <<sessions, minted>> /\ pc[r] \in {"freeze", "thaw"}
    BY <1>22 DEF Toggle
  <2>2. CASE Finish(r) /\ docker' = docker
    BY <1>6, <1>8, <2>1, <2>2 DEF AheadPCs
  <2>3. CASE /\ StatusIn(s, Copy(r).cid, {from}) /\ SetStatus(s, to)
             /\ job' = [job EXCEPT ![r].copy.state = to]
             /\ Goto(r, "write")
    <3>1. docker'[s].issued = Copy(r).cid
      BY <1>4, <2>3 DEF StatusIn, Known
    <3>2. job'[r].copy.cid = Copy(r).cid /\ job'[r].copy.state = to
      BY <2>3, MarkedCopy DEF Copy
    <3> QED
      BY <1>9, <2>1, <2>3, <3>1, <3>2
  <2> QED
    BY <1>22, <2>2, <2>3 DEF Toggle
<1>23. CASE PauseContainer(r) \/ ResumeContainer(r)
  BY <1>22, <1>23 DEF PauseContainer, ResumeContainer
<1> QED
  BY <1>10, <1>11, <1>12, <1>13, <1>14, <1>15, <1>16, <1>17, <1>18, <1>19, <1>20,
     <1>21, <1>23 DEF Serve

(* The firmware exits, or the container is gone: no claim is hurt. *)
LEMMA DockerWorld ==
    ASSUME TypeOK, DockerSound, NEW s \in Sessions,
           FirmwareExits(s) \/ ContainerVanishes(s)
    PROVE  DockerSound'
<1>1. /\ UNCHANGED <<sessions, minted, pc, job>>
      /\ \A t \in Sessions \ {s} : docker'[t] = docker[t]
      /\ docker'[s].issued = docker[s].issued
      /\ \/ docker[s].status = "running" /\ docker'[s].status = "exited"
         \/ docker'[s].status = "absent"
  <2>1. \A st : SetStatus(s, st) =>
           /\ \A t \in Sessions \ {s} : docker'[t] = docker[t]
           /\ docker'[s].status = st /\ docker'[s].issued = docker[s].issued
    BY NewStatus DEF SetStatus, TypeOK
  <2> QED
    BY <2>1 DEF FirmwareExits, ContainerVanishes
<1>2. \A t \in Sessions : /\ Tame(t, sessions[t]) => Tame(t, sessions[t])'
                          /\ Quiet(t) => Quiet(t)'
  BY <1>1 DEF Tame, Quiet
<1>3. \A t \in Sessions :
        /\ docker[t].status = "absent" => docker'[t].status = "absent"
        /\ \A set \in {{"absent", "created"}, {"running", "exited", "absent"}} :
              docker[t].status \in set => docker'[t].status \in set
  BY <1>1
<1>4. \A r \in Requests : InTouch(r)'
  <2> TAKE r \in Requests
  <2>1. /\ InTouch(r) /\ Sid(r) \in Sessions
        /\ Sid(r)' = Sid(r) /\ Copy(r)' = Copy(r) /\ pc'[r] = pc[r]
    BY <1>1, TypeCopy DEF DockerSound, Sid, Copy
  <2> QED
    BY <1>1, <1>3, <2>1 DEF InTouch, Tame, Quiet, Calm
<1>5. \A t \in Sessions : Present(t)' => Calm(t, sessions[t])' \/ Ahead(t)'
  BY <1>1, <1>2 DEF DockerSound, Present, Absent, Calm, Tame, Quiet, Ahead, Sid
<1>6. \A t \in Sessions : t \notin minted' => docker'[t].status = "absent"
  BY <1>1, <1>3 DEF DockerSound
<1> QED
  BY <1>4, <1>5, <1>6 DEF DockerSound

LEMMA DockerStep ==
    ASSUME ContainerInv, AtRest, AllOnCourse, DockerSound, Alone, Elapsing = {},
           "crash" \notin EnvEvents, "inspect" \notin FaultyCalls,
           [Next]_vars
    PROVE  DockerSound'
<1>1. CASE UNCHANGED vars
  BY <1>1 DEF vars, DockerSound, InTouch, Ahead, Calm, Tame, Quiet, Present,
     Absent, Sid, Copy
<1>2. ~Restart
  BY DEF Restart
<1> QED
  BY <1>1, <1>2, DockerArrive, DockerServe, DockerWorld, NobodyWorks
     DEF Next, ContainerInv

LEMMA DockerInvariant ==
    ASSUME Alone, Elapsing = {}, "crash" \notin EnvEvents,
           "inspect" \notin FaultyCalls
    PROVE  Spec => []DockerSound
<1>1. ContainerInv /\ AtRest /\ AllOnCourse /\ DockerSound /\ [Next]_vars
        => DockerSound'
  BY DockerStep
<1> QED
  BY <1>1, DockerInit, CourseInvariant, ContainerInvariant, RestInvariant, PTL
     DEF Spec

LEMMA CalmWhenIdle ==
    ASSUME TypeOK, DockerSound, Idle, NEW s \in Sessions,
           sessions[s].state = "stopped"
    PROVE  Calm(s, sessions[s])
  BY DEF DockerSound, Idle, Ahead, AheadPCs, Present, Absent

(* With one handler at a time, and status queries that do not fail by      *)
(* themselves, a session the map calls stopped has no container left       *)
(* running, whichever other calls fail, containers vanish and firmware     *)
(* exits.                                                                  *)
THEOREM StoppedSessionsAreQuiet ==
    ASSUME Alone, Elapsing = {}, "crash" \notin EnvEvents,
           "inspect" \notin FaultyCalls
    PROVE  Spec => []StoppedIsQuiet
<1>1. TypeOK /\ DockerSound => StoppedIsQuiet
  BY CalmWhenIdle DEF StoppedIsQuiet, Calm, Quiet
<1> QED
  BY <1>1, DockerInvariant, TypeCorrect, PTL

-----------------------------------------------------------------------------
(* One handler at a time, and the workers: the names of the containers      *)

(* The daemon holds no container for the session but the one x names.      *)
Fits(s, x) == docker[s].status = "absent" \/ docker[s].issued = x.cid

(* The workers stop and remove containers and take sessions out of the map,*)
(* but no container id changes under a handler: where it holds a copy that *)
(* it may write, the copy fits; a launch that finds the container paused   *)
(* has not created it, so that the map still fits.                         *)
HoldPCs == AheadPCs \cup {"halt", "freeze", "thaw"}
Holding(r) ==
    LET s == Sid(r) IN
    /\ pc[r] \in HoldPCs \/ (pc[r] = "unregister" /\ job[r].op = "stop") =>
         Fits(s, Copy(r))
    /\ pc[r] \in {"launch", "relaunch"} /\ docker[s].status = "paused" /\ Present(s) =>
         Fits(s, sessions[s])

FitSound ==
    /\ \A s \in Sessions : s \notin minted => docker[s].status = "absent"
    /\ \A s \in Sessions : Present(s) => Fits(s, sessions[s]) \/ Ahead(s)
    /\ \A r \in Requests : Holding(r)

LEMMA FitFrame ==
    ASSUME Alone, NEW r \in Requests,
           \A t \in Sessions : t \notin minted' => docker'[t].status = "absent",
           \A t \in Sessions : Present(t)' =>
              Fits(t, sessions[t])' \/ (t = Sid(r)' /\ pc'[r] \in AheadPCs),
           Holding(r)'
    PROVE  FitSound'
  BY DEF FitSound, Ahead, Alone

LEMMA FitUnless ==
    ASSUME Alone, FitSound, NEW r \in Requests
    PROVE  \A t \in Sessions :
              Present(t) /\ (t # Sid(r) \/ pc[r] \notin AheadPCs) =>
                 Fits(t, sessions[t])
  BY DEF FitSound, Ahead, Alone

(* The steps after which a handler holds no copy it may write. *)
LEMMA LetGo ==
    ASSUME NEW r \in Requests,
           \/ pc'[r] \in {"idle", "create", "recreate", "clone", "forget", "remove",
                          "persist", "save"}
           \/ pc'[r] = "unregister" /\ job'[r].op # "stop"
    PROVE  Holding(r)' /\ pc'[r] \notin AheadPCs
  BY DEF Holding, HoldPCs, AheadPCs

LEMMA FitInit == Init => FitSound
  BY DEF Init, FitSound, Holding, HoldPCs, AheadPCs, Present, Absent, NoSnap,
     NoSession, Procs

LEMMA FitArrive ==
    ASSUME TypeOK, Alone, FitSound, NEW r \in Requests, Arrive(r)
    PROVE  FitSound'
<1>0. pc[r] = "idle"
  BY DEF Arrive, CreateSession, UpdateSession, StopStopped, AcceptRestore,
     AcceptDelete, AcceptStart, AcceptStop, AcceptPause, AcceptResume, Accept
<1>1. \A t \in Sessions : Present(t) => Fits(t, sessions[t])
  BY <1>0, FitUnless DEF AheadPCs
<1>2. \A t \in Sessions : t \notin minted => docker[t].status = "absent"
  BY DEF FitSound
<1>3. CASE CreateSession(r)
  <2>1. PICK s \in Sessions, anon \in BOOLEAN :
          /\ Fresh(s) /\ minted' = minted \cup {s}
          /\ sessions' = [sessions EXCEPT ![s] =
                            [NoSession EXCEPT !.state = "stopped", !.anon = anon]]
    BY <1>3 DEF CreateSession
  <2>2. pc'[r] = "persist" /\ docker' = docker
    BY <1>3 DEF CreateSession, Goto, TypeOK
  <2>3. \A t \in Sessions : Present(t)' => Fits(t, sessions[t])'
    BY <1>1, <1>2, <2>1, <2>2 DEF Fresh, Fits, Present, Absent, TypeOK
  <2>4. Holding(r)'
    BY <2>2, LetGo
  <2> QED
    BY <1>2, <2>1, <2>2, <2>3, <2>4, FitFrame
<1>4. CASE UpdateSession(r)
  <2>1. PICK s \in Sessions :
          sessions' = [sessions EXCEPT ![s].rev = @ + 1, ![s].elapsed = {}]
    BY <1>4 DEF UpdateSession
  <2>2. pc'[r] = "persist" /\ docker' = docker /\ minted' = minted
    BY <1>4 DEF UpdateSession, Goto, TypeOK
  <2>3. \A t \in Sessions : /\ sessions'[t].state = sessions[t].state
                            /\ sessions'[t].cid = sessions[t].cid
    BY <2>1 DEF TypeOK, Session
  <2>4. \A t \in Sessions : Present(t)' => Fits(t, sessions[t])'
    BY <1>1, <2>2, <2>3 DEF Fits, Present, Absent
  <2>5. Holding(r)'
    BY <2>2, LetGo
  <2> QED
    BY <1>2, <2>2, <2>4, <2>5, FitFrame
<1>5. CASE StopStopped(r)
  BY <1>5 DEF StopStopped, FitSound, Holding, Ahead, Fits, Present, Absent, Sid, Copy
<1>6. ASSUME NEW o, NEW s \in Sessions, NEW l, Accept(r, o, s, l)
      PROVE  FitSound'
  <2>1. job'[r] = [op |-> o, sid |-> s, copy |-> Rewound(sessions[s])]
    BY <1>6 DEF Accept, TypeOK
  <2>2. Rewound(sessions[s]).cid = sessions[s].cid
    BY DEF Rewound, TypeOK, Session
  <2>3. Sid(r)' = s /\ Copy(r)'.cid = sessions[s].cid
    BY <2>1, <2>2 DEF Sid, Copy
  <2>4. UNCHANGED <<sessions, docker, minted>> /\ Present(s)
    BY <1>6 DEF Accept
  <2>5. \A t \in Sessions : Present(t)' => Fits(t, sessions[t])'
    BY <1>1, <2>4 DEF Fits, Present, Absent
  <2>6. Fits(s, Copy(r))' /\ Fits(s, sessions[s])'
    BY <1>1, <2>3, <2>4 DEF Fits
  <2>7. Holding(r)'
    BY <2>3, <2>6 DEF Holding
  <2> QED
    BY <1>2, <2>4, <2>5, <2>7, FitFrame
<1> QED
  BY <1>3, <1>4, <1>5, <1>6 DEF Arrive, AcceptRestore, AcceptDelete, AcceptStart,
     AcceptStop, AcceptPause, AcceptResume

LEMMA FitServe ==
    ASSUME ContainerInv, Alone, FitSound, {"start", "inspect"} \cap FaultyCalls = {},
           NEW r \in Requests, Serve(r)
    PROVE  FitSound'
<1> USE DEF ContainerInv
<1> PICK s \in Sessions : s = Sid(r)
  BY TypeCopy
<1>0. /\ Copy(r) \in Session /\ docker[s] \in Container
      /\ pc[r] # "idle" /\ s \in minted
      /\ pc'[r] # "idle" => SameErrand(r)
      /\ Holding(r)
  BY TypeCopy, Errand DEF HandlersSound, FitSound, TypeOK
<1>1. \A t \in Sessions : t # s => docker'[t] = docker[t]
  BY OneContainer
<1>2. \A t \in Sessions :
        Present(t) /\ (t # s \/ pc[r] \notin AheadPCs) => Fits(t, sessions[t])
  BY FitUnless
<1>3. \A t \in Sessions : t \notin minted => docker[t].status = "absent"
  BY DEF FitSound
<1>4. \A st : SetStatus(s, st) =>
         docker'[s].status = st /\ docker'[s].issued = docker[s].issued
  BY NewStatus
<1>5. ASSUME NEW l, Goto(r, l), l # "idle"
      PROVE  pc'[r] = l /\ SameErrand(r) /\ Sid(r)' = s
  BY <1>0, <1>5 DEF Goto, TypeOK, SameErrand, Sid
<1>6. Finish(r) => pc'[r] = "idle"
  BY DEF Finish, TypeOK
(* The map stays: only the container of s, and what is held of it, moves. *)
<1>7. ASSUME UNCHANGED <<sessions, minted>>, Holding(r)',
             \/ Sid(r)' = s /\ pc'[r] \in AheadPCs
             \/ Present(s) => Fits(s, sessions[s])'
      PROVE  FitSound'
  <2>1. \A t \in Sessions : t # s /\ Present(t) => Fits(t, sessions[t])'
    BY <1>1, <1>2, <1>7 DEF Fits
  <2>2. \A t \in Sessions : Present(t)' =>
           Fits(t, sessions[t])' \/ (t = Sid(r)' /\ pc'[r] \in AheadPCs)
    BY <1>7, <2>1 DEF Present, Absent
  <2>3. \A t \in Sessions : t \notin minted' => docker'[t].status = "absent"
    BY <1>0, <1>1, <1>3, <1>7
  <2> QED
    BY <1>7, <2>2, <2>3, FitFrame
(* The handler ends, or goes on, without a copy it may write. *)
<1>8. ASSUME UNCHANGED <<sessions, minted>>,
             \/ pc'[r] \in {"idle", "create", "recreate", "clone", "forget",
                            "remove", "persist", "save"}
             \/ pc'[r] = "unregister" /\ job'[r].op # "stop",
             \/ /\ docker' = docker
                /\ pc[r] \notin AheadPCs \/ (Present(s) => Fits(s, sessions[s]))
             \/ docker'[s].status = "absent"
      PROVE  FitSound'
  <2>1. Holding(r)'
    BY <1>8, LetGo
  <2>2. Present(s) => Fits(s, sessions[s])'
    BY <1>2, <1>8 DEF Fits
  <2> QED
    BY <1>7, <1>8, <2>1, <2>2
(* The handler goes on with its copy; its container is the one it was. *)
<1>9. ASSUME NEW l \in {"verify", "register", "write", "unregister"}, Goto(r, l),
             UNCHANGED <<sessions, minted>>, job'[r].copy.cid = Copy(r).cid,
             docker'[s].issued = docker[s].issued,
             docker[s].status = "absent" => docker'[s].status = "absent",
             Fits(s, Copy(r)), l \in AheadPCs \/ pc[r] \notin AheadPCs
      PROVE  FitSound'
  <2>1. pc'[r] = l /\ Sid(r)' = s
    BY <1>5, <1>9
  <2>2. Holding(r)'
    BY <1>9, <2>1 DEF Holding, Fits, Copy
  <2>3. l \in AheadPCs \/ (Present(s) => Fits(s, sessions[s])')
    BY <1>2, <1>9 DEF Fits
  <2> QED
    BY <1>7, <1>9, <2>1, <2>2, <2>3
<1>10. CASE WriteBack(r)
  <2>1. /\ pc[r] = "write" /\ pc'[r] = "persist" /\ UNCHANGED <<minted, docker>>
        /\ sessions'[s] = Copy(r)
        /\ \A t \in Sessions \ {s} : sessions'[t] = sessions[t]
    BY <1>10 DEF WriteBack, Goto, TypeOK
  <2>2. Fits(s, Copy(r))
    BY <1>0, <2>1 DEF Holding, HoldPCs, AheadPCs
  <2>3. \A t \in Sessions : Present(t)' => Fits(t, sessions[t])'
    BY <1>2, <2>1, <2>2 DEF Fits, Present, Absent
  <2>4. Holding(r)'
    BY <2>1, LetGo
  <2> QED
    BY <1>3, <2>1, <2>3, <2>4, FitFrame
<1>11. CASE TakeSnapshot(r) \/ SaveState(r)
  <2>1. /\ UNCHANGED <<sessions, minted, docker>>
        /\ pc[r] \in {"persist", "save"}
    BY <1>11 DEF TakeSnapshot, SaveState
  <2>2. \/ pc'[r] \in {"idle", "save"}
        \/ pc'[r] = "unregister" /\ job'[r].op # "stop"
    <3>1. CASE TakeSnapshot(r)
      BY <3>1 DEF TakeSnapshot, Goto, TypeOK
    <3>2. CASE SaveState(r)
      <4>1. pc'[r] = AfterSave(r) /\ (AfterSave(r) # "idle" => job'[r] = job[r])
        BY <3>2 DEF SaveState, Goto, TypeOK
      <4> QED
        BY <4>1, AfterRequest
    <3> QED
      BY <1>11, <3>1, <3>2
  <2> QED
    BY <1>8, <2>1, <2>2 DEF AheadPCs
<1>12. CASE InsertClone(r)
  <2>1. PICK t \in Sessions :
          /\ Fresh(t) /\ minted' = minted \cup {t}
          /\ sessions' = [sessions EXCEPT ![t] =
                            [Copy(r) EXCEPT !.state = "stopped", !.cid = 0]]
    BY <1>12 DEF InsertClone
  <2>2. pc[r] = "clone" /\ pc'[r] = "persist" /\ docker' = docker
    BY <1>12 DEF InsertClone, Goto, TypeOK
  <2>3. \A u \in Sessions : Present(u)' => Fits(u, sessions[u])'
    BY <1>2, <1>3, <2>1, <2>2 DEF Fresh, Fits, Present, Absent, TypeOK, AheadPCs
  <2>4. Holding(r)'
    BY <2>2, LetGo
  <2> QED
    BY <1>3, <2>1, <2>2, <2>3, <2>4, FitFrame
<1>13. CASE CloneFails(r)
  <2>1. /\ UNCHANGED <<sessions, minted, docker>>
        /\ pc[r] = "clone" /\ pc'[r] = "idle"
    BY <1>6, <1>13 DEF CloneFails
  <2> QED
    BY <1>8, <2>1 DEF AheadPCs
<1>14. CASE ForgetSession(r)
  <2>1. /\ pc[r] = "forget" /\ pc'[r] = "persist" /\ UNCHANGED <<minted, docker>>
        /\ sessions'[s] = NoSession
        /\ \A t \in Sessions \ {s} : sessions'[t] = sessions[t]
    BY <1>14 DEF ForgetSession, Goto, TypeOK
  <2>2. \A t \in Sessions : Present(t)' => Fits(t, sessions[t])'
    BY <1>2, <2>1 DEF Fits, Present, Absent, NoSession
  <2>3. Holding(r)'
    BY <2>1, LetGo
  <2> QED
    BY <1>3, <2>1, <2>2, <2>3, FitFrame
<1>15. CASE RemoveContainer(r)
  <2>1. /\ UNCHANGED <<sessions, minted>>
        /\ pc[r] = "remove" /\ pc'[r] = "idle"
        /\ docker' = docker \/ SetStatus(s, "absent")
    BY <1>6, <1>15 DEF RemoveContainer
  <2> QED
    BY <1>4, <1>8, <2>1 DEF AheadPCs
<1>16. CASE CreateContainer(r)
  <2>1. UNCHANGED <<sessions, minted>> /\ pc[r] \in {"create", "recreate"}
    BY <1>16 DEF CreateContainer
  <2>2. CASE Finish(r) /\ docker' = docker
    BY <1>6, <1>8, <2>1, <2>2 DEF AheadPCs
  <2>3. ASSUME ~(Finish(r) /\ docker' = docker)
        PROVE  FitSound'
    <3>1. PICK n \in Nat, l \in {"launch", "relaunch"} :
            /\ docker' = [docker EXCEPT ![s] = [issued |-> n, status |-> "created"]]
            /\ job' = [job EXCEPT ![r].copy.cid = n]
            /\ Goto(r, l)
      <4>1. docker[s].issued + 1 \in Nat
        BY <1>0 DEF Container
      <4> QED
        BY <1>16, <2>3, <4>1 DEF CreateContainer
    <3>2. docker'[s].issued = n /\ docker'[s].status = "created"
      BY <3>1 DEF TypeOK
    <3>3. job'[r].copy.cid = n
      BY <3>1, NumberedCopy
    <3>4. pc'[r] = l /\ Sid(r)' = s
      BY <1>5, <3>1
    <3>5. Holding(r)'
      BY <3>1, <3>2, <3>3, <3>4 DEF Holding, Fits, Copy
    <3> QED
      BY <1>7, <2>1, <3>1, <3>4, <3>5 DEF AheadPCs
  <2> QED
    BY <2>2, <2>3
<1>17. CASE LaunchContainer(r)
  <2>1. /\ UNCHANGED <<sessions, minted>> /\ pc[r] \in {"launch", "relaunch"}
        /\ Fits(s, Copy(r))
        /\ docker[s].status = "paused" /\ Present(s) => Fits(s, sessions[s])
    BY <1>0, <1>17 DEF LaunchContainer, Holding, HoldPCs, AheadPCs
  <2>2. CASE /\ StatusIn(s, Copy(r).cid, Startable) /\ SetStatus(s, "running")
             /\ Goto(r, "verify") /\ UNCHANGED job
    <3>1. docker'[s].issued = docker[s].issued /\ docker[s].status # "absent"
      BY <1>4, <2>2 DEF StatusIn, Known
    <3> QED
      BY <1>9, <2>1, <2>2, <3>1 DEF Copy, AheadPCs
  <2>3. CASE /\ ~Known(s, Copy(r).cid) /\ docker' = docker
             /\ Goto(r, "recreate") \/ Finish(r)
    <3>1. docker'[s].status = "absent"
      BY <2>1, <2>3 DEF Known, Fits
    <3>2. pc'[r] \in {"recreate", "idle"}
      BY <1>5, <1>6, <2>3
    <3> QED
      BY <1>8, <2>1, <3>1, <3>2
  <2>4. CASE /\ StatusIn(s, Copy(r).cid, {"paused"}) /\ docker' = docker
             /\ Finish(r)
    BY <1>6, <1>8, <2>1, <2>4 DEF StatusIn
  <2>5. ~MayFail("start")
    BY DEF MayFail
  <2> QED
    BY <1>17, <2>2, <2>3, <2>4, <2>5 DEF LaunchContainer
<1>18. CASE VerifyLaunch(r)
  <2>1. /\ UNCHANGED <<sessions, minted, docker>> /\ pc[r] = "verify"
        /\ Fits(s, Copy(r))
    BY <1>0, <1>18 DEF VerifyLaunch, Holding, HoldPCs, AheadPCs
  <2>2. ASSUME NEW st, NEW l \in {"register", "write"}, Goto(r, l),
               job' = [job EXCEPT ![r].copy.state = st]
        PROVE  FitSound'
    <3>1. job'[r].copy.cid = Copy(r).cid
      BY <2>2, MarkedCopy DEF Copy
    <3> QED
      BY <1>9, <2>1, <2>2, <3>1 DEF AheadPCs
  <2>3. CASE ~Known(s, Copy(r).cid) /\ Finish(r)
    <3>1. docker'[s].status = "absent"
      BY <2>1, <2>3 DEF Known, Fits
    <3> QED
      BY <1>6, <1>8, <2>1, <2>3, <3>1
  <2>4. ~MayFail("inspect")
    BY DEF MayFail
  <2> QED
    BY <1>18, <2>2, <2>3, <2>4 DEF VerifyLaunch
<1>19. CASE RegisterBackends(r)
  <2>1. /\ UNCHANGED <<sessions, minted, docker, job>> /\ pc[r] = "register"
        /\ Goto(r, "write")
        /\ Fits(s, Copy(r))
    BY <1>0, <1>19 DEF RegisterBackends, Holding, HoldPCs, AheadPCs
  <2> QED
    BY <1>9, <2>1 DEF Copy, AheadPCs
<1>20. CASE HaltContainer(r)
  <2>1. /\ UNCHANGED <<sessions, minted>> /\ pc[r] = "halt"
        /\ Fits(s, Copy(r))
    BY <1>0, <1>20 DEF HaltContainer, Holding, HoldPCs
  <2>2. CASE Finish(r) /\ docker' = docker
    BY <1>6, <1>8, <2>1, <2>2 DEF AheadPCs
  <2>3. CASE SetStatus(s, StopResult(s)) /\ Goto(r, "unregister") /\ UNCHANGED job
    <3>1. /\ docker'[s].issued = docker[s].issued
          /\ docker[s].status = "absent" => docker'[s].status = "absent"
      BY <1>4, <2>3 DEF StopResult
    <3> QED
      BY <1>9, <2>1, <2>3, <3>1 DEF Copy, AheadPCs
  <2> QED
    BY <1>20, <2>2, <2>3 DEF HaltContainer
<1>21. CASE UnregisterBackends(r)
  <2>1. /\ UNCHANGED <<sessions, minted, docker>> /\ pc[r] = "unregister"
        /\ job' = [job EXCEPT ![r].copy.state = "stopped"]
        /\ Goto(r, IF job[r].op = "stop" THEN "write" ELSE "remove")
    BY <1>21 DEF UnregisterBackends
  <2>2. CASE job[r].op = "stop"
    <3>1. Fits(s, Copy(r))
      BY <1>0, <2>1, <2>2 DEF Holding
    <3>2. job'[r].copy.cid = Copy(r).cid
      BY <2>1, MarkedCopy DEF Copy
    <3> QED
      BY <1>9, <2>1, <2>2, <3>1, <3>2 DEF AheadPCs
  <2>3. CASE job[r].op # "stop"
    <3>1. pc'[r] = "remove"
      BY <1>5, <2>1, <2>3
    <3> QED
      BY <1>8, <2>1, <3>1 DEF AheadPCs
  <2> QED
    BY <2>2, <2>3
<1>22. ASSUME NEW at \in {"freeze", "thaw"}, NEW call, NEW from \in {"running", "paused"},
              NEW to, Toggle(r, at, call, from, to)
       PROVE  FitSound'
  <2>1. /\ UNCHANGED <<sessions, minted>> /\ pc[r] \in {"freeze", "thaw"}
        /\ Fits(s, Copy(r))
    BY <1>0, <1>22 DEF Toggle, Holding, HoldPCs
  <2>2. CASE Finish(r) /\ docker' = docker
    BY <1>6, <1>8, <2>1, <2>2 DEF AheadPCs
  <2>3. CASE /\ StatusIn(s, Copy(r).cid, {from}) /\ SetStatus(s, to)
             /\ job' = [job EXCEPT ![r].copy.state = to]
             /\ Goto(r, "write")
    <3>1. docker'[s].issued = docker[s].issued /\ docker[s].status # "absent"
      BY <1>4, <2>3 DEF StatusIn, Known
    <3>2. job'[r].copy.cid = Copy(r).cid
      BY <2>3, MarkedCopy DEF Copy
    <3> QED
      BY <1>9, <2>1, <2>3, <3>1, <3>2 DEF AheadPCs
  <2> QED
    BY <1>22, <2>2, <2>3 DEF Toggle
<1>23. CASE PauseContainer(r) \/ ResumeContainer(r)
  BY <1>22, <1>23 DEF PauseContainer, ResumeContainer
<1> QED
  BY <1>10, <1>11, <1>12, <1>13, <1>14, <1>15, <1>16, <1>17, <1>18, <1>19, <1>20,
     <1>21, <1>23 DEF Serve

(* What the workers and the world leave a session of its container. *)
LEMMA OthersKeepContainers ==
    ASSUME TypeOK, Enforce \/ Prune \/ World, ~Restart, NEW s \in Sessions
    PROVE  /\ minted' = minted
           /\ Present(s)' => Present(s) /\ sessions'[s].cid = sessions[s].cid
           /\ docker'[s].issued = docker[s].issued
           /\ docker'[s].status \in {docker[s].status, "exited", "absent"}
           /\ docker[s].status = "absent" => docker'[s].status = "absent"
<1>0. sessions[s] \in Session /\ docker[s] \in Container
  BY DEF TypeOK
<1>1. ASSUME NEW t \in Sessions, NEW st \in {"absent", StopResult(t), "exited"},
             SetStatus(t, st), st = "exited" => docker[t].status # "absent"
      PROVE  /\ docker'[s].issued = docker[s].issued
             /\ docker'[s].status \in {docker[s].status, "exited", "absent"}
             /\ docker[s].status = "absent" => docker'[s].status = "absent"
  <2>1. CASE s = t
    BY <1>1, <2>1, NewStatus DEF StopResult
  <2>2. CASE s # t
    BY <1>0, <1>1, <2>2 DEF SetStatus, TypeOK
  <2> QED
    BY <2>1, <2>2
<1>2. ASSUME UNCHANGED docker
      PROVE  /\ docker'[s].issued = docker[s].issued
             /\ docker'[s].status \in {docker[s].status, "exited", "absent"}
             /\ docker[s].status = "absent" => docker'[s].status = "absent"
  BY <1>2
<1>3. ASSUME UNCHANGED sessions
      PROVE  Present(s)' => Present(s) /\ sessions'[s].cid = sessions[s].cid
  BY <1>3 DEF Present, Absent
<1>4. CASE \/ EnforcerScan \/ EnforcerStopped \/ PrunerDone
           \/ \E w \in Workers : TakeSnapshot(w) \/ SaveState(w)
  BY <1>2, <1>3, <1>4 DEF EnforcerScan, EnforcerStopped, PrunerDone, TakeSnapshot,
     SaveState
<1>5. CASE \E t \in Sessions : EnforcerStop(t) \/ PrunerStop(t) \/ PrunerRemove(t)
  <2>1. UNCHANGED <<sessions, minted>>
    BY <1>5 DEF EnforcerStop, PrunerStop, PrunerRemove
  <2>2. \/ UNCHANGED docker
        \/ \E t \in Sessions : SetStatus(t, StopResult(t)) \/ SetStatus(t, "absent")
    BY <1>5 DEF EnforcerStop, PrunerStop, PrunerRemove, StopCall
  <2> QED
    BY <1>1, <1>2, <1>3, <2>1, <2>2 DEF StopResult
<1>6. CASE \E t \in Sessions : FirmwareExits(t) \/ ContainerVanishes(t)
  <2>1. UNCHANGED <<sessions, minted>>
    BY <1>6 DEF FirmwareExits, ContainerVanishes
  <2>2. \E t \in Sessions :
          \/ docker[t].status = "running" /\ SetStatus(t, "exited")
          \/ SetStatus(t, "absent")
    BY <1>6 DEF FirmwareExits, ContainerVanishes
  <2> QED
    BY <1>1, <1>3, <2>1, <2>2
<1>7. CASE EnforcerMark
  <2>1. UNCHANGED <<docker, minted>>
    BY <1>7 DEF EnforcerMark
  <2>2. [sessions[s] EXCEPT !.state = "stopped", !.elapsed = {}].cid = sessions[s].cid
    BY <1>0 DEF Session
  <2>3. Present(s)' => Present(s) /\ sessions'[s].cid = sessions[s].cid
    BY <1>7, <2>2 DEF EnforcerMark, Marked, Present, Absent
  <2> QED
    BY <1>2, <2>1, <2>3
<1>8. CASE PrunerDelete
  <2>1. UNCHANGED <<docker, minted>>
    BY <1>8 DEF PrunerDelete
  <2>2. Present(s)' => Present(s) /\ sessions'[s].cid = sessions[s].cid
    BY <1>8 DEF PrunerDelete, Present, Absent, NoSession
  <2> QED
    BY <1>2, <2>1, <2>2
<1>9. ASSUME NEW t \in Sessions, Elapse(t)
      PROVE  /\ UNCHANGED <<docker, minted>>
             /\ Present(s)' => Present(s) /\ sessions'[s].cid = sessions[s].cid
  <2>1. PICK c \in Elapsing : sessions' = [sessions EXCEPT ![t].elapsed = @ \cup {c}]
    BY <1>9 DEF Elapse
  <2>2. sessions'[s].state = sessions[s].state /\ sessions'[s].cid = sessions[s].cid
    BY <1>0, <2>1 DEF TypeOK, Session
  <2> QED
    BY <1>9, <2>2 DEF Elapse, Present, Absent
<1> QED
  BY <1>2, <1>4, <1>5, <1>6, <1>7, <1>8, <1>9 DEF Enforce, Prune, World

LEMMA FitOthers ==
    ASSUME TypeOK, FitSound, Enforce \/ Prune \/ World, ~Restart
    PROVE  FitSound'
<1>1. \A t \in Sessions :
        /\ minted' = minted
        /\ Present(t)' => Present(t) /\ sessions'[t].cid = sessions[t].cid
        /\ docker'[t].issued = docker[t].issued
        /\ docker'[t].status \in {docker[t].status, "exited", "absent"}
        /\ docker[t].status = "absent" => docker'[t].status = "absent"
  BY OthersKeepContainers
<1>2. \A t \in Sessions : t \notin minted' => docker'[t].status = "absent"
  BY <1>1 DEF FitSound
<1>3. \A r \in Requests : pc'[r] = pc[r] /\ job'[r] = job[r]
  BY OthersStayAway
<1>4. \A t \in Sessions : Present(t)' => Fits(t, sessions[t])' \/ Ahead(t)'
  BY <1>1, <1>3 DEF FitSound, Fits, Ahead, Sid
<1>5. \A r \in Requests : Holding(r)'
  <2> TAKE r \in Requests
  <2>1. /\ Holding(r) /\ Sid(r) \in Sessions
        /\ Sid(r)' = Sid(r) /\ Copy(r)' = Copy(r)
        /\ pc'[r] = pc[r] /\ job'[r].op = job[r].op
    BY <1>3, TypeCopy DEF FitSound, Sid, Copy
  <2> QED
    BY <1>1, <2>1 DEF Holding, Fits
<1> QED
  BY <1>2, <1>4, <1>5 DEF FitSound

LEMMA FitStep ==
    ASSUME ContainerInv, Alone, FitSound, "crash" \notin EnvEvents,
           {"start", "inspect"} \cap FaultyCalls = {}, [Next]_vars
    PROVE  FitSound'
<1>1. CASE UNCHANGED vars
  BY <1>1 DEF vars, FitSound, Holding, Ahead, Fits, Present, Absent, Sid, Copy
<1>2. ~Restart
  BY DEF Restart
<1> QED
  BY <1>1, <1>2, FitArrive, FitServe, FitOthers DEF Next, ContainerInv

(* With one handler at a time, and whatever the workers do meanwhile, a    *)
(* stopped session can be started again: the daemon holds no container     *)
(* under its name but the one the map knows, as long as no start or status *)
(* query fails by itself.                                                  *)
THEOREM StoppedSessionsCanStart ==
    ASSUME Alone, "crash" \notin EnvEvents, {"start", "inspect"} \cap FaultyCalls = {}
    PROVE  Spec => []StartPossible
<1>1. ContainerInv /\ FitSound /\ [Next]_vars => FitSound'
  BY FitStep
<1>2. FitSound => StartPossible
  BY DEF FitSound, StartPossible, Idle, Ahead, AheadPCs, Present, Absent, Fits, Known
<1> QED
  BY <1>1, <1>2, FitInit, ContainerInvariant, PTL DEF Spec

=============================================================================
