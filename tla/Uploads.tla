------------------------------- MODULE Uploads -------------------------------
(***************************************************************************)
(* The files of uploaded firmware and the records that point to them:      *)
(* HandleUploadBinary, HandleDeleteBinary, and the copy into the container *)
(* by which a start turns a record back into its file.                     *)
(*                                                                         *)
(* Files are changed outside every lock, records under storeMu, the store  *)
(* after it.  Bounds: every upload has contents of its own and is sent     *)
(* once; saves succeed and finish in order (StateStore drops that); what   *)
(* else a start can fail at is the subject of SessionLifecycle.            *)
(***************************************************************************)
EXTENDS Naturals

CONSTANTS
    Uploads,        \* uploads, each also its contents
    Deletes,        \* slots for requests that delete a binary
    Sessions,       \* session ids
    Names,          \* the file names clients give
    MaxMillis,      \* bound: the wall clock stops at this millisecond
    NoFile, Partial, Mixed,     \* what else is found at a path
    Faults          \* bound: what may fail (see CanFail)

ASSUME MillisAssumption == MaxMillis \in Nat \ {0}
ASSUME ContentsAssumption ==
    /\ {NoFile, Partial, Mixed} \cap Uploads = {}
    /\ NoFile # Partial /\ NoFile # Mixed /\ Partial # Mixed
ASSUME RequestsAssumption ==
    Uploads \cap Deletes = {} /\ Uploads \cap Sessions = {} /\ Deletes \cap Sessions = {}

(* <<n, 0>> is the name as it came, <<n, ms>> "base-<ms>.ext"; a path is   *)
(* also the id of the binary at it.                                        *)
Paths == Names \X (0 .. MaxMillis)
NoPath == <<>>
Whole == Uploads \cup {Mixed}   \* Mixed: two uploads wrote over each other

VARIABLES
    file,           \* what is at every path of /tmp/binaries
    binaries,       \* the map handlers.binaries: the checksum of a record
    saved,          \* the records in the store
    sessions,       \* session -> its binary, container and state
    now,            \* the wall clock, in milliseconds
    pc, job,        \* where every request is, and what it carries
    raced,          \* history: paths two uploads have chosen
    litter,         \* history: paths a failed upload or a crash has left
    gone            \* history: sessions whose binary was deleted since the
                    \* start that made their container read its record

ghosts == <<raced, litter, gone>>
vars == <<file, binaries, saved, sessions, now, pc, job, ghosts>>

Records == [Paths -> Whole \cup {NoFile}]
Session == [bin : Paths \cup {NoPath}, cid : BOOLEAN, running : BOOLEAN,
            sum : Whole \cup {NoFile},
            firmware : Whole \cup {Partial, NoFile}]
NoSession == [bin |-> NoPath, cid |-> FALSE, running |-> FALSE,
              sum |-> NoFile, firmware |-> NoFile]

(* linked: the file opened is still the one at the path. *)
Job == [path : Paths \cup {NoPath}, linked : BOOLEAN, sum : Whole \cup {NoFile}]
NoJob == [path |-> NoPath, linked |-> FALSE, sum |-> NoFile]

Requests == Uploads \cup Deletes \cup Sessions

TypeOK ==
    /\ file \in [Paths -> Whole \cup {Partial, NoFile}]
    /\ binaries \in Records /\ saved \in Records
    /\ sessions \in [Sessions -> Session]
    /\ now \in 1 .. MaxMillis
    /\ pc \in [Requests -> {"idle", "create", "write", "analyze", "insert", "save",
                            "savedel", "remove", "open", "copy", "launch", "done"}]
    /\ job \in [Requests -> Job]
    /\ raced \subseteq Paths /\ litter \subseteq Paths /\ gone \subseteq Sessions

Init ==
    /\ file = [p \in Paths |-> NoFile]
    /\ binaries = [p \in Paths |-> NoFile] /\ saved = binaries
    /\ sessions = [s \in Sessions |-> NoSession]
    /\ now = 1
    /\ pc = [r \in Requests |-> "idle"]
    /\ job = [r \in Requests |-> NoJob]
    /\ raced = {} /\ litter = {} /\ gone = {}

On(p) == file[p] # NoFile
Recorded(p) == binaries[p] # NoFile
Path(r) == job[r].path
Goto(r, next) == pc' = [pc EXCEPT ![r] = next]
End(r, last) == Goto(r, last) /\ job' = [job EXCEPT ![r] = NoJob]
CanFail(what) == what \in Faults

-----------------------------------------------------------------------------
(* HandleUploadBinary *)

(* Mutant of FreePath: the name is taken as it came. *)
AnyPath(n) == <<n, 0>>

(* os.Stat: a name in use gets the millisecond; that this name is free is  *)
(* not looked up.                                                          *)
FreePath(n) == IF On(<<n, 0>>) THEN <<n, now>> ELSE <<n, 0>>

ChooseName(u) ==
    \E n \in Names :
        LET p == FreePath(n) IN
        /\ pc[u] = "idle"
        /\ Goto(u, "create")
        /\ job' = [job EXCEPT ![u].path = p]
        /\ raced' = IF \/ \E v \in Uploads : Path(v) = p
                       \/ p[2] = now /\ On(p)
                    THEN raced \cup {p} ELSE raced
        /\ UNCHANGED <<file, binaries, saved, sessions, now, litter, gone>>

(* os.Create truncates the file there is. *)
CreateFile(u) ==
    /\ pc[u] = "create"
    /\ \/ /\ file' = [file EXCEPT ![Path(u)] = Partial]
          /\ Goto(u, "write")
          /\ job' = [job EXCEPT ![u].linked = TRUE]
       \/ CanFail("create") /\ End(u, "done") /\ UNCHANGED file
    /\ UNCHANGED <<binaries, saved, sessions, now, ghosts>>

(* An error return leaves the file. *)
FailUpload(u) ==
    /\ End(u, "done")
    /\ litter' = litter \cup {Path(u)}
    /\ UNCHANGED <<raced, gone>>

(* dst.ReadFrom: over what another upload has written in between, too. *)
WriteFile(u) ==
    LET p == Path(u) IN
    /\ pc[u] = "write"
    /\ \/ /\ IF ~job[u].linked THEN UNCHANGED file
             ELSE \E c \in {u} \cup (IF file[p] = Partial THEN {} ELSE {Mixed}) :
                     file' = [file EXCEPT ![p] = c]
          /\ Goto(u, "analyze") /\ job' = [job EXCEPT ![u].linked = FALSE]
          /\ UNCHANGED ghosts
       \/ CanFail("write") /\ FailUpload(u) /\ UNCHANGED file
    /\ UNCHANGED <<binaries, saved, sessions, now>>

(* Mutant of Parses: half an ELF file will do. *)
HalfParses(p) == On(p)

Parses(p) == file[p] \in Whole

(* Analyze reads the file by its path: an ELF file, or not. *)
AnalyzeFile(u) ==
    /\ pc[u] = "analyze"
    /\ \/ /\ Parses(Path(u))
          /\ Goto(u, "insert")
          /\ job' = [job EXCEPT ![u].sum = file[Path(u)]]
          /\ UNCHANGED ghosts
       \/ FailUpload(u)
    /\ UNCHANGED <<file, binaries, saved, sessions, now>>

InsertRecord(u) ==
    /\ pc[u] = "insert"
    /\ binaries' = [binaries EXCEPT ![Path(u)] = job[u].sum]
    /\ Goto(u, "save")
    /\ UNCHANGED <<file, saved, sessions, now, job, ghosts>>

SaveUpload(u) ==
    /\ pc[u] = "save"
    /\ saved' = binaries
    /\ End(u, "done")
    /\ UNCHANGED <<file, binaries, sessions, now, ghosts>>

-----------------------------------------------------------------------------
(* HandleDeleteBinary: refused while a session with it is not stopped; the *)
(* record goes under the lock, the file after the save.                    *)

DeleteRecord(d) ==
    \E p \in Paths :
        /\ pc[d] = "idle" /\ Recorded(p)
        /\ ~\E s \in Sessions : sessions[s].bin = p /\ sessions[s].running
        /\ binaries' = [binaries EXCEPT ![p] = NoFile]
        /\ gone' = gone \cup {s \in Sessions : sessions[s].bin = p}
        /\ Goto(d, "savedel")
        /\ job' = [job EXCEPT ![d].path = p]
        /\ UNCHANGED <<file, saved, sessions, now, raced, litter>>

SaveDelete(d) ==
    /\ pc[d] = "savedel"
    /\ saved' = binaries
    /\ Goto(d, "remove")
    /\ UNCHANGED <<file, binaries, sessions, now, job, ghosts>>

(* Mutant of Unlink: the file is forgotten. *)
KeepFile(p) == file

(* os.Remove unlinks the path; who has the file open keeps it. *)
Unlink(p) == [file EXCEPT ![p] = NoFile]

RemoveFile(d) ==
    /\ pc[d] = "remove"
    /\ file' = Unlink(Path(d))
    /\ Goto(d, "idle")
    /\ job' = [r \in Requests |->
                 IF r = d THEN NoJob
                 ELSE IF Path(r) = Path(d) THEN [job[r] EXCEPT !.linked = FALSE]
                 ELSE job[r]]
    /\ litter' = litter \ {Path(d)}
    /\ UNCHANGED <<binaries, saved, sessions, now, raced, gone>>

-----------------------------------------------------------------------------
(* Sessions; of the handlers of one session, one runs at a time. *)

(* HandleCreateSession: the binary is looked up, the session inserted in a *)
(* later critical section (Admission has the steps).                       *)
CreateSession(s) ==
    \E p \in Paths :
        /\ pc[s] = "idle" /\ sessions[s].bin = NoPath
        /\ Recorded(p)
        /\ sessions' = [sessions EXCEPT ![s].bin = p]
        /\ UNCHANGED <<file, binaries, saved, now, pc, job, ghosts>>

(* HandleStartSession reads session and record together; a session that    *)
(* has a container is launched with the firmware that is in it.            *)
BeginStart(s) ==
    LET p == sessions[s].bin IN
    /\ pc[s] = "idle" /\ p # NoPath /\ ~sessions[s].running
    /\ Recorded(p)
    /\ IF sessions[s].cid
       THEN /\ Goto(s, "launch")
            /\ UNCHANGED <<job, gone>>
       ELSE /\ Goto(s, "open")
            /\ job' = [job EXCEPT ![s] = [NoJob EXCEPT !.path = p, !.sum = binaries[p]]]
            /\ gone' = gone \ {s}
    /\ UNCHANGED <<file, binaries, saved, sessions, now, raced, litter>>

(* copyBinaryIntoContainer: os.Open, *)
OpenFirmware(s) ==
    /\ pc[s] = "open"
    /\ IF On(Path(s))
       THEN Goto(s, "copy") /\ job' = [job EXCEPT ![s].linked = TRUE]
       ELSE End(s, "idle")
    /\ UNCHANGED <<file, binaries, saved, sessions, now, ghosts>>

(* then os.Stat of the path for the size, and the copy.  Of a file that    *)
(* has taken the path since, the size may cut the firmware short.          *)
Copied(s, firmware) ==
    /\ sessions' = [sessions EXCEPT ![s].cid = TRUE, ![s].sum = job[s].sum,
                                    ![s].firmware = firmware]
    /\ Goto(s, "launch")
    /\ job' = [job EXCEPT ![s] = NoJob]

(* Mutant of CopyFailed: the error is dropped, the container kept. *)
CopyDropped(s) == Copied(s, NoFile)

(* ContainerRemove, and the error return. *)
CopyFailed(s) == End(s, "idle") /\ UNCHANGED sessions

CopyFirmware(s) ==
    /\ pc[s] = "copy"
    /\ \/ job[s].linked /\ Copied(s, file[Path(s)])
       \/ /\ ~job[s].linked /\ On(Path(s))
          /\ \E firmware \in {Partial, job[s].sum} : Copied(s, firmware)
       \/ (On(Path(s)) => CanFail("copy") \/ ~job[s].linked) /\ CopyFailed(s)
    /\ UNCHANGED <<file, binaries, saved, now, ghosts>>

(* The container runs, and the handler writes its copy of the session. *)
LaunchFirmware(s) ==
    /\ pc[s] = "launch"
    /\ sessions' = [sessions EXCEPT ![s].running = TRUE]
    /\ Goto(s, "idle")
    /\ UNCHANGED <<file, binaries, saved, now, job, ghosts>>

StopSession(s) ==
    /\ pc[s] = "idle" /\ sessions[s].running
    /\ sessions' = [sessions EXCEPT ![s].running = FALSE]
    /\ UNCHANGED <<file, binaries, saved, now, pc, job, ghosts>>

DeleteSession(s) ==
    /\ pc[s] = "idle" /\ sessions[s].bin # NoPath
    /\ sessions' = [sessions EXCEPT ![s] = NoSession]
    /\ gone' = gone \ {s}
    /\ UNCHANGED <<file, binaries, saved, now, pc, job, raced, litter>>

-----------------------------------------------------------------------------
(* Every request ends, the records are those of the store, the files stay. *)
(* Bound: no start is in flight.                                           *)
Crash ==
    /\ \A s \in Sessions : pc[s] = "idle"
    /\ binaries' = saved
    /\ pc' = [r \in Requests |->
                IF r \in Uploads /\ pc[r] # "idle" THEN "done" ELSE "idle"]
    /\ job' = [r \in Requests |-> NoJob]
    /\ litter' = litter \cup {p \in Paths : /\ On(p) /\ saved[p] = NoFile
                                           /\ \E r \in Requests : Path(r) = p}
    /\ UNCHANGED <<file, saved, sessions, now, raced, gone>>

Tick ==
    /\ now < MaxMillis
    /\ now' = now + 1
    /\ UNCHANGED <<file, binaries, saved, sessions, pc, job, ghosts>>

-----------------------------------------------------------------------------

Upload(u) ==
    \/ ChooseName(u) \/ CreateFile(u) \/ WriteFile(u) \/ AnalyzeFile(u)
    \/ InsertRecord(u) \/ SaveUpload(u)

Delete(d) == DeleteRecord(d) \/ SaveDelete(d) \/ RemoveFile(d)

Run(s) ==
    \/ CreateSession(s) \/ BeginStart(s) \/ OpenFirmware(s) \/ CopyFirmware(s)
    \/ LaunchFirmware(s) \/ StopSession(s) \/ DeleteSession(s)

Next ==
    \/ \E u \in Uploads : Upload(u)
    \/ \E d \in Deletes : Delete(d)
    \/ \E s \in Sessions : Run(s)
    \/ Crash \/ Tick

Spec == Init /\ [][Next]_vars

-----------------------------------------------------------------------------
(* Properties *)

(* The file of every record is there and holds what was analysed, in the   *)
(* server's memory and after a crash: an upload never writes over the file *)
(* of a record, and a deletion removes the file when no record points to   *)
(* it any more, in memory or in the store.  Except at a path two uploads   *)
(* have chosen: os.Stat and os.Create are not one step (handlers.go:450).  *)
RecordHasFile ==
    \A p \in Paths \ raced : Recorded(p) => file[p] = binaries[p]

(* A session runs one whole firmware, that of the record its start has     *)
(* read: an error between the record and the container never leaves it     *)
(* with less.  Except when the binary was deleted since (the check of      *)
(* handlers.go:583 does not see a start in flight), and at a raced path.   *)
FirmwareIsRecorded ==
    \A s \in Sessions \ gone :
        sessions[s].running /\ sessions[s].bin \notin raced =>
            sessions[s].firmware \in Uploads /\ sessions[s].firmware = sessions[s].sum

(* When no upload and no deletion is in flight, every file has a record,   *)
(* or a failed upload, or a crash has left it: nothing else uses up the    *)
(* directory, and a name deleted is free again.                            *)
FilesAccounted ==
    (\A r \in Uploads \cup Deletes : pc[r] \in {"idle", "done"}) =>
        \A p \in Paths \ (raced \cup litter) : On(p) => Recorded(p)

=============================================================================
