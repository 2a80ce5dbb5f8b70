----------------------------- MODULE HostNetwork -----------------------------
(***************************************************************************)
(* The network interfaces sessions make on the host: container/network.go  *)
(* and the order in which CreateContainer and the handlers call it.        *)
(*                                                                         *)
(* Interfaces are claimed by name, outside every lock, by a row of `ip`    *)
(* commands each of which may fail; what was done before is undone by more *)
(* `ip` commands.  Bound: of the handlers and workers that change one      *)
(* session, one runs at a time (their races are the subject of             *)
(* SessionLifecycle); those of different sessions run at once and meet on  *)
(* the names of interfaces and bridges.                                    *)
(***************************************************************************)
EXTENDS Naturals, Sequences

CONSTANTS
    Sessions,       \* session ids
    Taps,           \* names of TAP interfaces
    Bridges,        \* names a configuration gives as bridge_interface
    Nics,           \* those of them that are interfaces of another kind
    NoIf,           \* no interface name
    NoOne,          \* no session
    Configs,        \* bound: the tap_interfaces clients send
    Faults          \* bound: what may fail (see CanFail)

ASSUME NamesAssumption ==
    Nics \subseteq Bridges /\ Taps \cap Bridges = {} /\ NoIf \notin Taps \cup Bridges
ASSUME SessionsAssumption == NoOne \notin Sessions

(* bridge = NoIf stands for enable_bridge = false; auto is the field       *)
(* bridge_auto_created, which a client may send like any other.            *)
TapConfig == [host : Taps \cup {NoIf}, bridge : Bridges \cup {NoIf},
              pasta : BOOLEAN, uart : BOOLEAN, auto : BOOLEAN]

ASSUME ConfigsAssumption == Configs \subseteq Seq(TapConfig)

VARIABLES
    link,       \* the interfaces of the host
    sessions,   \* the map handlers.sessions
    minted,     \* the ids handed out
    there,      \* the sessions whose container (by name) Docker has
    pc, job,    \* where the handler of every session is, and what it carries
    maker,      \* history: the session whose `ip tuntap add` made the TAP
    excused,    \* history: TAPs a path without clean-up has left
    stolen      \* history: <<s, t>> when another session took down the t s made,
                \* or its bridge, or put it on another bridge

ghosts == <<maker, excused, stolen>>
vars == <<link, sessions, minted, there, pc, job, maker, excused, stolen>>

Link == [on : BOOLEAN, up : BOOLEAN, master : Bridges \cup {NoIf}]
Off == [on |-> FALSE, up |-> FALSE, master |-> NoIf]
On(n) == link[n].on
IsBridge(b) == On(b) /\ b \notin Nics

(* cid: a container id is known.  wired: history, the start of this run    *)
(* created the container and the settings are still those it used.         *)
Session == [state : {"absent", "stopped", "running"}, cid : BOOLEAN,
            taps : Configs \cup {<<>>}, wired : BOOLEAN]
NoSession == [state |-> "absent", cid |-> FALSE, taps |-> <<>>, wired |-> FALSE]

(* i, n: the turn and the last turn of a loop over copy.taps; fresh: this  *)
(* start created the container; again: because it had gone; after: where   *)
(* the clean-up returns to; made: history, the TAPs this start has made.   *)
Job == [copy : Session, i : Nat, n : Nat, fresh : BOOLEAN, again : BOOLEAN,
        after : {"failed", "store", "end"}, made : SUBSET Taps]
NoJob == [copy |-> NoSession, i |-> 1, n |-> 0, fresh |-> FALSE, again |-> FALSE,
          after |-> "failed", made |-> {}]

Phases == {"idle", "clone", "add", "up", "look", "newbridge", "attach", "undo",
           "device", "create", "launch", "verify", "store", "halt", "forget",
           "remove", "clean", "members", "dropbridge"}

TypeOK ==
    /\ link \in [Taps \cup Bridges -> Link]
    /\ sessions \in [Sessions -> Session]
    /\ minted \subseteq Sessions /\ there \subseteq Sessions
    /\ pc \in [Sessions -> Phases]
    /\ job \in [Sessions -> Job]
    /\ maker \in [Taps -> Sessions \cup {NoOne}]
    /\ excused \subseteq Taps /\ stolen \subseteq Sessions \X Taps

Init ==
    /\ link = [n \in Taps \cup Bridges |->
                 IF n \in Nics THEN [Off EXCEPT !.on = TRUE, !.up = TRUE] ELSE Off]
    /\ sessions = [s \in Sessions |-> NoSession]
    /\ minted = {} /\ there = {}
    /\ pc = [s \in Sessions |-> "idle"]
    /\ job = [s \in Sessions |-> NoJob]
    /\ maker = [t \in Taps |-> NoOne]
    /\ excused = {} /\ stolen = {}

Idle(s) == pc[s] = "idle"
Present(s) == sessions[s].state # "absent"
Goto(s, next) == pc' = [pc EXCEPT ![s] = next]
Return(s) == Goto(s, "idle") /\ job' = [job EXCEPT ![s] = NoJob]
CanFail(what) == what \in Faults

Copy(s) == job[s].copy
Loop(s) == job[s].i <= job[s].n         \* a turn is left
Tap(s) == Copy(s).taps[job[s].i]
Names(c) == {c[i].host : i \in DOMAIN c} \ {NoIf}
Kernel(c) == {c[i] : i \in {j \in DOMAIN c : ~c[j].uart}}
Pasta(c) == \E i \in DOMAIN c : c[i].pasta
NextTurn(s) == job' = [job EXCEPT ![s].i = @ + 1]
Rewind(s, n) == job' = [job EXCEPT ![s].i = 1, ![s].n = n]

(* History: s has no interfaces it relies on any more; it returns and      *)
(* leaves those of its configuration that it made to nobody.               *)
Others(s) == {p \in stolen : p[1] # s}
Left(s) == {t \in Names(Copy(s).taps) : On(t) /\ maker[t] = s}
GiveUp(s) ==
    /\ Return(s)
    /\ excused' = excused \cup Left(s) /\ stolen' = Others(s) /\ UNCHANGED maker

Withdraw(s) == Return(s) /\ stolen' = Others(s) /\ UNCHANGED <<maker, excused>>

-----------------------------------------------------------------------------
(* RemoveTapInterface: link down, then delete.  The first fails when there *)
(* is no such interface; when the second does, the interface stays down.   *)
(* Bound: a removal fails only while no TAP is left behind yet.            *)

RelyingOn(t) == {s \in Sessions : maker[t] = s /\ (sessions[s].wired \/ t \in job[s].made)}
Robbed(s, ts) == stolen' = stolen \cup UNION {(RelyingOn(t) \ {s}) \X {t} : t \in ts}

RemoveTap(s, t) ==
    \/ /\ t \in Taps /\ On(t)
       /\ link' = [link EXCEPT ![t] = Off]
       /\ maker' = [maker EXCEPT ![t] = NoOne]
       /\ excused' = excused \ {t}
       /\ Robbed(s, {t})
    \/ /\ t \in Taps /\ On(t) /\ CanFail("clean") /\ excused = {}
       /\ link' \in {link, [link EXCEPT ![t].up = FALSE]}
       /\ excused' = excused \cup {t}
       /\ Robbed(s, {t})
       /\ UNCHANGED maker
    \/ /\ t \in Taps => ~On(t)
       /\ UNCHANGED <<link, ghosts>>

-----------------------------------------------------------------------------
(* createTapMounts, in CreateContainer *)

(* The volume or CAN devices that come first cannot be mounted. *)
MountsFail(s) ==
    /\ pc[s] = "add" /\ job[s].i = 1
    /\ CanFail("mounts")
    /\ GiveUp(s)
    /\ UNCHANGED <<link, sessions, minted, there>>

(* Mutant of UndoTurns: the undo includes the turn that failed. *)
UndoThisTurnToo(s) == Goto(s, "undo") /\ Rewind(s, job[s].i)

(* The loop `for j := 0; j < i; j++` of an error branch begins. *)
UndoTurns(s) == Goto(s, "undo") /\ Rewind(s, job[s].i - 1)

(* One turn of the loop: InterfaceByName, `ip tuntap add`.  On an error    *)
(* the interfaces of the turns before are removed; a missing UART device   *)
(* returns without that.                                                   *)
AddTap(s) ==
    /\ pc[s] = "add"
    /\ \/ /\ ~Loop(s)
          /\ Goto(s, "device")
          /\ UNCHANGED <<link, job, ghosts>>
       \/ /\ Loop(s) /\ Tap(s).uart
          /\ \/ NextTurn(s) /\ UNCHANGED <<pc, ghosts>>
             \/ CanFail("uart") /\ GiveUp(s)
          /\ UNCHANGED link
       \/ /\ Loop(s) /\ ~Tap(s).uart
          /\ On(Tap(s).host) \/ CanFail("add")
          /\ UndoTurns(s)
          /\ UNCHANGED <<link, ghosts>>
       \/ LET t == Tap(s).host IN
          /\ Loop(s) /\ ~Tap(s).uart /\ ~On(t)
          /\ link' = [link EXCEPT ![t].on = TRUE]
          /\ maker' = [maker EXCEPT ![t] = s]
          /\ stolen' = stolen \ {<<s, t>>}
          /\ job' = [job EXCEPT ![s].made = @ \cup {t}]
          /\ Goto(s, "up")
          /\ UNCHANGED excused
    /\ UNCHANGED <<sessions, minted, there>>

(* Mutant of DropTap: the new interface is not among those undone. *)
KeepTap(s) == UndoTurns(s) /\ UNCHANGED <<link, ghosts>>

(* A later command failed: delete the new interface, whatever comes of it. *)
DropTap(s) == UndoTurns(s) /\ RemoveTap(s, Tap(s).host)

(* `ip link set up`, `ip addr add`; in pasta mode nothing follows. *)
UpTap(s) ==
    /\ pc[s] = "up"
    /\ \/ /\ On(Tap(s).host)
          /\ link' = [link EXCEPT ![Tap(s).host].up = TRUE]
          /\ IF Tap(s).bridge = NoIf
             THEN Goto(s, "add") /\ NextTurn(s)
             ELSE Goto(s, "look") /\ UNCHANGED job
          /\ UNCHANGED ghosts
       \/ (On(Tap(s).host) => CanFail("up")) /\ DropTap(s)
    /\ UNCHANGED <<sessions, minted, there>>

(* ensureBridgeInterface: reuse a bridge, refuse any other interface ...   *)
LookBridge(s) ==
    /\ pc[s] = "look"
    /\ LET b == Tap(s).bridge IN
       \/ /\ IsBridge(b) \/ ~On(b)
          /\ Goto(s, IF On(b) THEN "attach" ELSE "newbridge")
          /\ UNCHANGED <<link, job, ghosts>>
       \/ On(b) /\ (IsBridge(b) => CanFail("bridge")) /\ DropTap(s)
    /\ UNCHANGED <<sessions, minted, there>>

(* ... or make one: add and up, undone when the second fails.  That it did *)
(* is noted in the loop's copy of the configuration, and lost with it.     *)
AddBridge(s) ==
    /\ pc[s] = "newbridge"
    /\ LET b == Tap(s).bridge IN
       \/ /\ ~On(b)
          /\ link' = [link EXCEPT ![b] = [Off EXCEPT !.on = TRUE, !.up = TRUE]]
          /\ Goto(s, "attach")
          /\ UNCHANGED <<job, ghosts>>
       \/ (On(b) \/ CanFail("bridge")) /\ DropTap(s)
    /\ UNCHANGED <<sessions, minted, there>>

(* The interface is found by its name: it can be one another session has   *)
(* made in the place of this one, and is then taken off its bridge.        *)
Attach(s, t, b) ==
    /\ link' = [link EXCEPT ![t].master = b]
    /\ IF link[t].master \in {NoIf, b} THEN UNCHANGED stolen ELSE Robbed(s, {t})
    /\ UNCHANGED <<maker, excused>>

(* Mutant of AttachTap: the error of `ip link set master` is dropped. *)
AttachTapUnchecked(s) ==
    /\ pc[s] = "attach"
    /\ LET t == Tap(s).host
           b == Tap(s).bridge IN
       \/ /\ IsBridge(b) /\ On(t)
          /\ Attach(s, t, b)
          /\ Goto(s, "add") /\ NextTurn(s)
       \/ /\ IsBridge(b) /\ On(t) => CanFail("bridge")
          /\ Goto(s, "add") /\ NextTurn(s)
          /\ UNCHANGED <<link, ghosts>>
    /\ UNCHANGED <<sessions, minted, there>>

(* bridgeTapToInterface *)
AttachTap(s) ==
    /\ pc[s] = "attach"
    /\ LET t == Tap(s).host
           b == Tap(s).bridge IN
       \/ /\ IsBridge(b) /\ On(t)
          /\ Attach(s, t, b)
          /\ Goto(s, "add") /\ NextTurn(s)
       \/ (IsBridge(b) /\ On(t) => CanFail("bridge")) /\ DropTap(s)
    /\ UNCHANGED <<sessions, minted, there>>

(* Remove what the turns before have made, and return the error.  (A       *)
(* container made anew meets the interfaces of the one before, which stay.)*)
UndoTap(s) ==
    /\ pc[s] = "undo"
    /\ IF Loop(s)
       THEN RemoveTap(s, Tap(s).host) /\ NextTurn(s) /\ UNCHANGED pc
       ELSE /\ IF job[s].again THEN GiveUp(s) ELSE Withdraw(s)
            /\ UNCHANGED link
    /\ UNCHANGED <<sessions, minted, there>>

(* CreateTapDeviceMounts, or createPastaMounts, whose error alone returns  *)
(* with the interfaces in place; without a kernel TAP neither is called.   *)
MountTunDevice(s) ==
    /\ pc[s] = "device"
    /\ \/ Goto(s, "create") /\ UNCHANGED <<job, ghosts>>
       \/ /\ CanFail("tun") /\ Kernel(Copy(s).taps) # {}
          /\ IF Pasta(Copy(s).taps)
             THEN GiveUp(s)
             ELSE /\ Goto(s, "undo") /\ Rewind(s, Len(Copy(s).taps))
                  /\ UNCHANGED ghosts
    /\ UNCHANGED <<link, sessions, minted, there>>

-----------------------------------------------------------------------------
(* The rest of CreateContainer, and HandleStartSession around it *)

AcceptStart(s) ==
    /\ Idle(s)
    /\ sessions[s].state = "stopped"
    /\ Goto(s, IF sessions[s].cid THEN "launch" ELSE "add")
    /\ job' = [job EXCEPT ![s] = [NoJob EXCEPT !.copy = sessions[s],
                                               !.n = Len(sessions[s].taps)]]
    /\ UNCHANGED <<link, sessions, minted, there, ghosts>>

(* Bluetooth and UART mounts return their error before the clean-up is     *)
(* deferred, a failing copy of the binary is an err of its own: neither    *)
(* cleans up.  FIFOs and ContainerCreate (also when the name is taken) do. *)
CreateContainer(s) ==
    /\ pc[s] = "create"
    /\ \/ /\ s \notin there
          /\ there' = there \cup {s}
          /\ job' = [job EXCEPT ![s].copy.cid = TRUE, ![s].fresh = TRUE]
          /\ Goto(s, "launch")
          /\ UNCHANGED ghosts
       \/ /\ s \in there \/ CanFail("create")
          /\ Goto(s, "clean") /\ Rewind(s, Len(Copy(s).taps))
          /\ UNCHANGED <<there, ghosts>>
       \/ /\ CanFail("late") \/ (CanFail("copy") /\ s \notin there)
          /\ GiveUp(s)
          /\ UNCHANGED there
    /\ UNCHANGED <<link, sessions, minted>>

(* An error return: the id of a container this start created is forgotten. *)
FailStart(s) ==
    IF job[s].fresh THEN GiveUp(s) ELSE Withdraw(s)

(* StartContainer; a container that is not found is created anew, once. *)
LaunchContainer(s) ==
    /\ pc[s] = "launch"
    /\ \/ s \in there /\ Goto(s, "verify") /\ UNCHANGED <<job, ghosts>>
       \/ /\ s \notin there /\ ~job[s].again
          /\ Goto(s, "add")
          /\ job' = [job EXCEPT ![s].again = TRUE, ![s].i = 1,
                                ![s].n = Len(Copy(s).taps)]
          /\ UNCHANGED ghosts
       \/ (IF s \in there THEN CanFail("start") ELSE job[s].again)
          /\ FailStart(s)
    /\ UNCHANGED <<link, sessions, minted, there>>

(* Mutant of Settled: the status Docker reports is stored as it is. *)
RawStatus == {"running", "exited"}

(* The firmware is up, or has exited at once. *)
Settled == {"running", "stopped"}

(* GetContainerStatus *)
VerifyLaunch(s) ==
    /\ pc[s] = "verify"
    /\ \/ /\ \E state \in Settled :
                job' = [job EXCEPT ![s].copy.state = state,
                          ![s].copy.wired = job[s].fresh /\ state = "running"]
          /\ Goto(s, "store")
          /\ UNCHANGED ghosts
       \/ CanFail("start") /\ FailStart(s)
    /\ UNCHANGED <<link, sessions, minted, there>>

(* sessions[id] = session *)
WriteBack(s) ==
    /\ pc[s] = "store"
    /\ sessions' = [sessions EXCEPT ![s] = Copy(s)]
    /\ IF Copy(s).wired THEN Return(s) /\ UNCHANGED ghosts ELSE Withdraw(s)
    /\ UNCHANGED <<link, minted, there>>

-----------------------------------------------------------------------------
(* CleanupTapInterfaces: every interface and its bridge, whatever fails *)

CleanTap(s) ==
    /\ pc[s] = "clean"
    /\ IF Loop(s)
       THEN /\ RemoveTap(s, Tap(s).host)
            /\ IF Tap(s).auto /\ Tap(s).bridge # NoIf
               THEN Goto(s, "members") /\ UNCHANGED job
               ELSE NextTurn(s) /\ UNCHANGED pc
       ELSE /\ IF job[s].after = "store"
               THEN Goto(s, "store") /\ UNCHANGED <<job, ghosts>>
               ELSE Withdraw(s)
            /\ UNCHANGED link
    /\ UNCHANGED <<sessions, minted, there>>

(* removeBridgeIfAutoCreatedAndEmpty: look for members ... *)
Members(b) == {t \in Taps : link[t].master = b}
LookMembers(s) ==
    /\ pc[s] = "members"
    /\ IF Members(Tap(s).bridge) = {} /\ On(Tap(s).bridge)
       THEN Goto(s, "dropbridge") /\ UNCHANGED job
       ELSE Goto(s, "clean") /\ NextTurn(s)
    /\ UNCHANGED <<link, sessions, minted, there, ghosts>>

(* ... and delete the bridge (of another interface: only take it down).    *)
DropBridge(s) ==
    /\ pc[s] = "dropbridge"
    /\ LET b == Tap(s).bridge IN
       \/ /\ link' = [n \in DOMAIN link |->
                        IF n = b /\ b \notin Nics THEN Off
                        ELSE IF n = b THEN [link[n] EXCEPT !.up = FALSE]
                        ELSE IF link[n].master = b THEN [link[n] EXCEPT !.master = NoIf]
                        ELSE link[n]]
          /\ Robbed(s, Members(b))
       \/ (On(b) => CanFail("bridge")) /\ UNCHANGED <<link, stolen>>
    /\ Goto(s, "clean") /\ NextTurn(s)
    /\ UNCHANGED <<sessions, minted, there, maker, excused>>

-----------------------------------------------------------------------------
(* The other handlers *)

(* validateTapInterfaces, validatePastaModeRequirements *)
ValidTaps(c) ==
    /\ \A i \in DOMAIN c :
          IF c[i].uart THEN c[i].bridge = NoIf /\ ~c[i].pasta
          ELSE c[i].host # NoIf /\ (c[i].pasta => c[i].bridge = NoIf)
    /\ \A i, j \in DOMAIN c :
          i # j /\ ~c[i].uart /\ ~c[j].uart => c[i].host # c[j].host

(* HandleCreateSession *)
CreateSession(s) ==
    /\ s \notin minted /\ Idle(s)
    /\ minted' = minted \cup {s}
    /\ sessions' = [sessions EXCEPT ![s] = [NoSession EXCEPT !.state = "stopped"]]
    /\ UNCHANGED <<link, there, pc, job, ghosts>>

(* HandleUpdateSession: in any state; interfaces of the configuration that *)
(* is replaced stay where they are.                                        *)
UpdateSession(s) ==
    \E c \in Configs :
        /\ Idle(s) /\ Present(s)
        /\ ValidTaps(c)
        /\ sessions' = [sessions EXCEPT ![s].taps = c, ![s].wired = FALSE]
        /\ excused' = excused \cup {t \in Names(sessions[s].taps) \ Names(c) :
                                      On(t) /\ maker[t] = s}
        /\ stolen' = Others(s)
        /\ UNCHANGED <<link, minted, there, pc, job, maker>>

(* HandleRestoreSession: the clone claims the same interfaces. *)
AcceptRestore(s) ==
    \E old \in Sessions :
        /\ Present(old)
        /\ s \notin minted /\ Idle(s)
        /\ minted' = minted \cup {s}
        /\ job' = [job EXCEPT ![s] = [NoJob EXCEPT !.copy =
                     [sessions[old] EXCEPT !.state = "stopped", !.cid = FALSE,
                                           !.wired = FALSE]]]
        /\ Goto(s, "store")
        /\ UNCHANGED <<link, sessions, there, ghosts>>

(* HandleStopSession *)
AcceptStop(s) ==
    /\ Idle(s)
    /\ sessions[s].state = "running"
    /\ Goto(s, "halt")
    /\ job' = [job EXCEPT ![s] = [NoJob EXCEPT
                 !.copy = [sessions[s] EXCEPT !.state = "stopped", !.wired = FALSE],
                 !.n = Len(sessions[s].taps), !.after = "store"]]
    /\ UNCHANGED <<link, sessions, minted, there, ghosts>>

HaltContainer(s) ==
    /\ pc[s] = "halt"
    /\ \/ s \in there /\ Goto(s, "clean") /\ UNCHANGED job
       \/ (s \in there => CanFail("stop")) /\ Return(s)
    /\ UNCHANGED <<link, sessions, minted, there, ghosts>>

(* HandleDeleteSession: in any state, started before or not. *)
AcceptDelete(s) ==
    /\ Idle(s) /\ Present(s)
    /\ Goto(s, "forget")
    /\ job' = [job EXCEPT ![s] = [NoJob EXCEPT !.copy = sessions[s],
                 !.n = Len(sessions[s].taps), !.after = "end"]]
    /\ UNCHANGED <<link, sessions, minted, there, ghosts>>

ForgetSession(s) ==
    /\ pc[s] = "forget"
    /\ sessions' = [sessions EXCEPT ![s] = NoSession]
    /\ stolen' = Others(s)
    /\ Goto(s, "remove")
    /\ UNCHANGED <<link, minted, there, job, maker, excused>>

RemoveContainer(s) ==
    /\ pc[s] = "remove"
    /\ there' = IF Copy(s).cid THEN there \ {s} ELSE there
    /\ Goto(s, "clean")
    /\ UNCHANGED <<link, sessions, minted, job, ghosts>>

-----------------------------------------------------------------------------
(* Workers and the host *)

(* EnforceSessionTimeouts stops without touching interfaces, *)
EnforceTimeout(s) ==
    /\ Idle(s)
    /\ sessions[s].state = "running"
    /\ sessions' = [sessions EXCEPT ![s].state = "stopped", ![s].wired = FALSE]
    /\ stolen' = Others(s)
    /\ UNCHANGED <<link, minted, there, pc, job, maker, excused>>

(* and so does PruneAnonymousSessions forget sessions. *)
PruneSession(s) ==
    /\ Idle(s) /\ Present(s)
    /\ sessions' = [sessions EXCEPT ![s] = NoSession]
    /\ there' = IF sessions[s].cid THEN there \ {s} ELSE there
    /\ excused' = excused \cup {t \in Names(sessions[s].taps) : On(t) /\ maker[t] = s}
    /\ stolen' = Others(s)
    /\ UNCHANGED <<link, minted, pc, job, maker>>

(* Bound: the container of a stopped session, between two handlers. *)
ContainerVanishes(s) ==
    /\ CanFail("vanish")
    /\ Idle(s) /\ sessions[s].state = "stopped" /\ sessions[s].cid
    /\ s \in there
    /\ there' = there \ {s}
    /\ UNCHANGED <<link, sessions, minted, pc, job, ghosts>>

(* HandleSetupHostNetwork makes a missing bridge. *)
SetupBridge(b) ==
    /\ ~On(b)
    /\ link' = [link EXCEPT ![b] = [Off EXCEPT !.on = TRUE, !.up = TRUE]]
    /\ UNCHANGED <<sessions, minted, there, pc, job, ghosts>>

-----------------------------------------------------------------------------

Start(s) ==
    \/ AcceptStart(s) \/ MountsFail(s) \/ AddTap(s) \/ UpTap(s) \/ LookBridge(s)
    \/ AddBridge(s) \/ AttachTap(s) \/ UndoTap(s) \/ MountTunDevice(s)
    \/ CreateContainer(s) \/ LaunchContainer(s) \/ VerifyLaunch(s)

Handle(s) ==
    \/ CreateSession(s) \/ UpdateSession(s) \/ AcceptRestore(s)
    \/ AcceptStop(s) \/ HaltContainer(s)
    \/ AcceptDelete(s) \/ ForgetSession(s) \/ RemoveContainer(s)
    \/ CleanTap(s) \/ LookMembers(s) \/ DropBridge(s) \/ WriteBack(s)

Next ==
    \/ \E s \in Sessions :
          Start(s) \/ Handle(s)
          \/ EnforceTimeout(s) \/ PruneSession(s) \/ ContainerVanishes(s)
    \/ \E b \in Bridges : SetupBridge(b)

Spec == Init /\ [][Next]_vars

-----------------------------------------------------------------------------
(* Properties *)

(* Between handlers, every TAP on the host was made by a session that is   *)
(* in the map, has it in its configuration and knows a container for it,   *)
(* so that a delete will remove it and no start will trip over it: whatever*)
(* command of createTapMounts or CreateContainer fails after interfaces    *)
(* were made, they are undone.  The exceptions are the paths named above:  *)
(* a clean-up command that fails itself, a configuration replaced, the     *)
(* pruner, and the error returns without clean-up.                         *)
Accounted ==
    (\A s \in Sessions : Idle(s)) =>
        \A t \in Taps \ excused : On(t) =>
            \E s \in {maker[t]} :
                Present(s) /\ sessions[s].cid /\ t \in Names(sessions[s].taps)

(* A start that fails takes down only interfaces its own `ip tuntap add`   *)
(* has made: one it found, because another session configures the same     *)
(* name and runs on it, is left alone (except where a TUN-over-UART entry  *)
(* names it, which nothing validates).                                     *)
Starting(s) ==
    \/ pc[s] \in {"add", "up", "look", "newbridge", "attach", "undo", "device", "create"}
    \/ pc[s] = "clean" /\ job[s].after = "failed"
FailedStartHarmless ==
    [][\A s \in Sessions :
          Starting(s) /\ <<pc[s], job[s]>>' # <<pc[s], job[s]>> =>
             \A t \in Taps : On(t) /\ ~On(t)' =>
                t \in job[s].made
                \/ \E i \in DOMAIN Copy(s).taps :
                      Copy(s).taps[i].uart /\ Copy(s).taps[i].host = t]_vars

(* A session that runs since its container was created, with the settings  *)
(* it was created from, has every TAP of its configuration, up and on its  *)
(* bridge, unless another session has taken that TAP or bridge down or put *)
(* the TAP on another bridge: no failed command of its start, and no       *)
(* failed start of another session with the same interface or bridge,      *)
(* leaves it with less.                                                    *)
Connected(e) ==
    /\ On(e.host) /\ link[e.host].up
    /\ e.bridge # NoIf => link[e.host].master = e.bridge /\ IsBridge(e.bridge)
RunningIsConnected ==
    \A s \in Sessions :
        Idle(s) /\ sessions[s].state = "running" /\ sessions[s].wired =>
            \A e \in Kernel(sessions[s].taps) :
                Connected(e) \/ <<s, e.host>> \in stolen

=============================================================================
