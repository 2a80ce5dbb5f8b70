------------------------------- MODULE Captures -------------------------------
(***************************************************************************)
(* The PCAP files sessions leave on the host: made by firmware that was    *)
(* started with capturing on, removed by HandleDeleteSession, PruneAnony-  *)
(* mousSessions and PruneOrphanedPCAPArtifacts.  A file is named by the id *)
(* of the session that was created with it; a restored session points to   *)
(* the file of the one it was cloned from.                                 *)
(*                                                                         *)
(* Names differ from those of Uploads, so that both modules can be         *)
(* extended.  Bounds: ids do not collide (Admission), an insertion and its *)
(* save are one step (StateStore), and the server crashes MaxCrashes times.*)
(***************************************************************************)
EXTENDS Naturals

CONSTANTS
    Ids,            \* session ids; also the names of capture files
    Handlers,       \* request slots
    NoCapture,      \* PCAPFilePath of no session
    MaxCrashes

ASSUME NoCaptureAssumption == NoCapture \notin Ids
ASSUME CrashesAssumption == MaxCrashes \in Nat

VARIABLES
    captures,       \* the .pcap files there are
    aged,           \* those of them not written to within PCAP_RETENTION
    holder,         \* the map handlers.sessions: the PCAPFilePath of each
    store,          \* the same, in the snapshot store
    minted,         \* the ids handed out
    at, carried,    \* where every handler is, and the session it carries
    pruner,         \* PruneAnonymousSessions: where it is, its pcapPaths
    sweeper,        \* PruneOrphanedPCAPArtifacts: entries and activePaths
    crashes,
    dropped         \* history: captures of which a holder was deleted

capVars == <<captures, aged, holder, store, minted, at, carried,
             pruner, sweeper, crashes, dropped>>

Holders == [Ids -> Ids \cup {NoCapture}]
Carried == [id : Ids \cup {NoCapture}, file : Ids \cup {NoCapture}]
Nothing == [id |-> NoCapture, file |-> NoCapture]
Resting == [at |-> "idle", paths |-> {}]
Swept == [at |-> "idle", entries |-> {}, active |-> {}]

CapturesTypeOK ==
    /\ captures \subseteq Ids /\ aged \subseteq captures
    /\ holder \in Holders /\ store \in Holders
    /\ minted \subseteq Ids
    /\ at \in [Handlers -> {"idle", "insert", "start", "forget", "save", "clean"}]
    /\ carried \in [Handlers -> Carried]
    /\ pruner \in [at : {"idle", "save", "clean"}, paths : SUBSET Ids]
    /\ sweeper \in [at : {"idle", "active", "remove"},
                    entries : SUBSET Ids, active : SUBSET Ids]
    /\ crashes \in 0 .. MaxCrashes
    /\ dropped \subseteq Ids

CapturesInit ==
    /\ captures = {} /\ aged = {}
    /\ holder = [i \in Ids |-> NoCapture] /\ store = holder
    /\ minted = {}
    /\ at = [h \in Handlers |-> "idle"]
    /\ carried = [h \in Handlers |-> Nothing]
    /\ pruner = Resting /\ sweeper = Swept
    /\ crashes = 0
    /\ dropped = {}

Held(p) == \E i \in Ids : holder[i] = p
Proceed(h, next) == at' = [at EXCEPT ![h] = next]
Done(h) == Proceed(h, "idle") /\ carried' = [carried EXCEPT ![h] = Nothing]
Carry(h, next, i, p) ==
    /\ at[h] = "idle"
    /\ Proceed(h, next)
    /\ carried' = [carried EXCEPT ![h] = [id |-> i, file |-> p]]

(* sessions[id] = copy, and the save that follows *)
Write(h) ==
    /\ holder' = [holder EXCEPT ![carried[h].id] = carried[h].file]
    /\ store' = holder'
    /\ Done(h)

(* cleanupPCAPArtifact *)
Discard(ps) == captures' = captures \ ps /\ aged' = aged \ ps

-----------------------------------------------------------------------------
(* Handlers *)

(* HandleCreateSession and HandleRestoreSession mint an id; the file is    *)
(* the session's own, or that of the session restored.                     *)
AcceptNew(h) ==
    \E i \in Ids \ minted :
        /\ Carry(h, "insert", i, i)
        /\ minted' = minted \cup {i}
        /\ UNCHANGED <<captures, aged, holder, store, pruner, sweeper, crashes, dropped>>

AcceptClone(h) ==
    \E i \in Ids \ minted, old \in Ids :
        /\ holder[old] # NoCapture
        /\ Carry(h, "insert", i, holder[old])
        /\ minted' = minted \cup {i}
        /\ UNCHANGED <<captures, aged, holder, store, pruner, sweeper, crashes, dropped>>

Insert(h) ==
    /\ at[h] = "insert"
    /\ Write(h)
    /\ UNCHANGED <<captures, aged, minted, pruner, sweeper, crashes, dropped>>

(* HandleStartSession works on a copy of the session, *)
ReadForStart(h) ==
    \E i \in Ids :
        /\ holder[i] # NoCapture
        /\ Carry(h, "start", i, holder[i])
        /\ UNCHANGED <<captures, aged, holder, store, minted, pruner, sweeper,
                       crashes, dropped>>

(* firmware opens the file if pcap_enabled was set when its container was  *)
(* created, and the copy is written back, also over a deletion, unless the *)
(* start fails.                                                            *)
LaunchCapture(h) ==
    /\ at[h] = "start"
    /\ \/ /\ captures' = captures \cup {carried[h].file}
          /\ aged' = aged \ {carried[h].file}
       \/ UNCHANGED <<captures, aged>>
    /\ \/ Write(h)
       \/ Done(h) /\ UNCHANGED <<holder, store>>
    /\ UNCHANGED <<minted, pruner, sweeper, crashes, dropped>>

(* HandleDeleteSession: read, forget, save, and remove container and file. *)
ReadForDelete(h) ==
    \E i \in Ids :
        /\ holder[i] # NoCapture
        /\ Carry(h, "forget", i, holder[i])
        /\ UNCHANGED <<captures, aged, holder, store, minted, pruner, sweeper,
                       crashes, dropped>>

Forget(h) ==
    /\ at[h] = "forget"
    /\ holder' = [holder EXCEPT ![carried[h].id] = NoCapture]
    /\ dropped' = dropped \cup {carried[h].file}
    /\ Proceed(h, "save")
    /\ UNCHANGED <<captures, aged, store, minted, carried, pruner, sweeper, crashes>>

SaveForgotten(h) ==
    /\ at[h] = "save"
    /\ store' = holder
    /\ Proceed(h, "clean")
    /\ UNCHANGED <<captures, aged, holder, minted, carried, pruner, sweeper,
                   crashes, dropped>>

CleanCapture(h) ==
    /\ at[h] = "clean"
    /\ Discard({carried[h].file})
    /\ Done(h)
    /\ UNCHANGED <<holder, store, minted, pruner, sweeper, crashes, dropped>>

-----------------------------------------------------------------------------
(* PruneAnonymousSessions: any sessions may have expired. *)

PruneForget ==
    \E expired \in SUBSET {i \in Ids : holder[i] # NoCapture} :
        /\ pruner.at = "idle" /\ expired # {}
        /\ pruner' = [at |-> "save", paths |-> {holder[i] : i \in expired}]
        /\ dropped' = dropped \cup pruner'.paths
        /\ holder' = [i \in Ids |-> IF i \in expired THEN NoCapture ELSE holder[i]]
        /\ UNCHANGED <<captures, aged, store, minted, at, carried, sweeper, crashes>>

PruneSave ==
    /\ pruner.at = "save"
    /\ store' = holder
    /\ pruner' = [pruner EXCEPT !.at = "clean"]
    /\ UNCHANGED <<captures, aged, holder, minted, at, carried, sweeper, crashes, dropped>>

PruneClean ==
    /\ pruner.at = "clean"
    /\ Discard(pruner.paths)
    /\ pruner' = Resting
    /\ UNCHANGED <<holder, store, minted, at, carried, sweeper, crashes, dropped>>

-----------------------------------------------------------------------------
(* PruneOrphanedPCAPArtifacts *)

SweepList ==
    /\ sweeper.at = "idle"
    /\ sweeper' = [Swept EXCEPT !.at = "active", !.entries = captures]
    /\ UNCHANGED <<captures, aged, holder, store, minted, at, carried, pruner,
                   crashes, dropped>>

(* Mutant of ActivePaths: empty paths are not left out. *)
EveryPath == {holder[i] : i \in Ids}

ActivePaths == {holder[i] : i \in Ids} \ {NoCapture}

SweepActive ==
    /\ sweeper.at = "active"
    /\ sweeper' = [sweeper EXCEPT !.at = "remove",
                                  !.active = ActivePaths]
    /\ UNCHANGED <<captures, aged, holder, store, minted, at, carried, pruner,
                   crashes, dropped>>

(* Mutant of Candidates: the directory is read after the sessions. *)
CandidatesNow == captures \ sweeper.active

Candidates == sweeper.entries \ sweeper.active

(* Mutant of Stale: the comparison with the cutoff is the wrong way round. *)
StillFresh(p) == p \in captures \ aged

(* entry.Info() is asked for only now; a file that is gone is skipped. *)
Stale(p) == p \in aged

SweepFile ==
    /\ sweeper.at = "remove"
    /\ IF Candidates = {}
       THEN sweeper' = Swept /\ UNCHANGED <<captures, aged>>
       ELSE \E p \in Candidates :
               /\ Discard(IF Stale(p) THEN {p} ELSE {})
               /\ sweeper' = [sweeper EXCEPT !.active = @ \cup {p}]
    /\ UNCHANGED <<holder, store, minted, at, carried, pruner, crashes, dropped>>

Sweep == SweepList \/ SweepActive \/ SweepFile

-----------------------------------------------------------------------------
(* Time passes over every file, and a crash ends whatever is in flight. *)

Age ==
    /\ aged # captures
    /\ aged' = captures
    /\ UNCHANGED <<captures, holder, store, minted, at, carried, pruner, sweeper,
                   crashes, dropped>>

CrashServer ==
    /\ crashes < MaxCrashes
    /\ crashes' = crashes + 1
    /\ holder' = store
    /\ at' = [h \in Handlers |-> "idle"]
    /\ carried' = [h \in Handlers |-> Nothing]
    /\ pruner' = Resting /\ sweeper' = Swept
    /\ UNCHANGED <<captures, aged, store, minted, dropped>>

-----------------------------------------------------------------------------

Handler(h) ==
    \/ AcceptNew(h) \/ AcceptClone(h) \/ Insert(h)
    \/ ReadForStart(h) \/ LaunchCapture(h)
    \/ ReadForDelete(h) \/ Forget(h) \/ SaveForgotten(h) \/ CleanCapture(h)

CapturesNext ==
    \/ \E h \in Handlers : Handler(h)
    \/ PruneForget \/ PruneSave \/ PruneClean
    \/ Sweep \/ Age \/ CrashServer

(* runPCAPArtifactPruner sweeps on every tick of its ticker, the pruner    *)
(* and the sweep are goroutines, and time passes.                          *)
CapturesFairness == WF_capVars(Sweep) /\ WF_capVars(Age)

CapturesSpec == CapturesInit /\ [][CapturesNext]_capVars /\ CapturesFairness

-----------------------------------------------------------------------------
(* Properties *)

(* A capture is removed under a session that points to it only after       *)
(* another session pointing to it was deleted or pruned: the sweep of old  *)
(* files, which decides from two snapshots, never takes one that a session *)
(* has had all the time.                                                   *)
CaptureKept ==
    [][\A p \in captures : Held(p) /\ p \notin captures' => p \in dropped]_capVars

(* A capture no session points to goes, whatever handler or crash has left *)
(* it: docs/OPERATIONS.md:126, "Orphaned artifacts are pruned on interval".*)
OrphanGoes ==
    \A p \in Ids : p \in captures /\ ~Held(p) ~> p \notin captures \/ Held(p)

=============================================================================
