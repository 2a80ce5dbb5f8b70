------------------------------ MODULE StateStore ------------------------------
(***************************************************************************)
(* How the in-memory maps get into PocketBase and back: persistState and   *)
(* SnapshotStore.SaveState, which writes a snapshot record by record, once *)
(* per collection, and ConfigureStatePersistence, which loads the records  *)
(* at start and falls back to the legacy JSON file.  SessionLifecycle      *)
(* takes a save as one step; here every record operation is one, so savers *)
(* overlap and the process may die between any two.                        *)
(*                                                                         *)
(* A binary or a session is its version (0: not in the map).               *)
(***************************************************************************)
EXTENDS Naturals, FiniteSets

CONSTANTS
    Binaries, Sessions, \* the ids of the two maps
    Legacy,             \* the ids in the legacy JSON file (at version 1)
    Rows,               \* the record ids PocketBase hands out
    NoRow, Nothing,     \* no record id; the content of a free record id
    Savers,             \* request slots: handlers that change and save at once
    Faults,             \* "record": a record operation fails; "crash"
    MaxVersion          \* bound: versions of an item

Items == Binaries \cup Sessions
Versions == 0 .. MaxVersion
Procs == Savers \cup {"boot"}
Record == [item : Items, version : 1 .. MaxVersion]

ASSUME ItemsAssumption == Binaries \cap Sessions = {} /\ Legacy \subseteq Items
ASSUME RowsAssumption == NoRow \notin Rows /\ Nothing \notin Record
ASSUME SaversAssumption ==
    "boot" \notin Savers /\ Savers # {} /\ IsFiniteSet(Savers)
ASSUME VersionAssumption == MaxVersion \in Nat \ {0}

VARIABLES
    mem,        \* the maps handlers.binaries and handlers.sessions
    minted,     \* ids ever used (never reused)
    rows,       \* the records of both collections
    up,         \* the server serves requests
    pc,         \* where every saver is
    snap,       \* the snapshot it saves
    row,        \* existingByRuntimeID: the record it found for every id
    todo,       \* the ids it still has to save, in the current collection
    overlapped  \* savers that have ever shared the store with another

saverVars == <<pc, snap, row, todo, overlapped>>
vars == <<mem, minted, rows, up, saverVars>>

NoItems == [i \in Items |-> 0]
NoRows == [i \in Items |-> NoRow]
LegacyState == [i \in Items |-> IF i \in Legacy THEN 1 ELSE 0]

TypeOK ==
    /\ mem \in [Items -> Versions]
    /\ minted \subseteq Items
    /\ rows \in [Rows -> Record \cup {Nothing}]
    /\ up \in BOOLEAN
    /\ pc \in [Procs -> {"idle", "persist", "binaries", "saveBinaries",
                         "sessions", "saveSessions"}]
    /\ snap \in [Procs -> [Items -> Versions]]
    /\ row \in [Procs -> [Items -> Rows \cup {NoRow}]]
    /\ todo \in [Procs -> SUBSET Items]
    /\ overlapped \subseteq Procs

Init ==
    /\ mem = NoItems /\ minted = {}
    /\ rows = [k \in Rows |-> Nothing]
    /\ up = FALSE
    /\ pc = [p \in Procs |-> "idle"]
    /\ snap = [p \in Procs |-> NoItems]
    /\ row = [p \in Procs |-> NoRows]
    /\ todo = [p \in Procs |-> {}]
    /\ overlapped = {}

-----------------------------------------------------------------------------
(* PocketBase: one table for both collections, records under random ids    *)

RowsOf(i) == {k \in Rows : rows[k] # Nothing /\ rows[k].item = i}

(* A record id is not handed out again while a saver remembers it. *)
Free(k) == rows[k] = Nothing /\ \A p \in Procs, i \in Items : row[p][i] # k

Put(k, i, v) == rows' = [rows EXCEPT ![k] = [item |-> i, version |-> v]]

(* What LoadState may make of the records: of two with the same id the     *)
(* later in the (unspecified) order of the query wins.                     *)
Loads(m) ==
    \A i \in Items : IF RowsOf(i) = {} THEN m[i] = 0
                     ELSE \E k \in RowsOf(i) : m[i] = rows[k].version

-----------------------------------------------------------------------------
(* A handler changes the map under the lock and calls persistState *)

ChangeItem(p) ==
    /\ up /\ pc[p] = "idle"
    /\ \E i \in Items :
          \/ /\ i \notin minted \/ mem[i] # 0
             /\ mem[i] < MaxVersion
             /\ mem' = [mem EXCEPT ![i] = @ + 1]
          \/ /\ mem[i] # 0
             /\ mem' = [mem EXCEPT ![i] = 0]
    /\ minted' = minted \cup {i \in Items : mem'[i] # 0}
    /\ pc' = [pc EXCEPT ![p] = "persist"]
    /\ UNCHANGED <<rows, up, snap, row, todo, overlapped>>

Saving == {p \in Procs : pc[p] \notin {"idle", "persist"}}

TakeSnapshot(p) ==
    /\ pc[p] = "persist"
    /\ snap' = [snap EXCEPT ![p] = mem]
    /\ pc' = [pc EXCEPT ![p] = "binaries"]
    /\ overlapped' = overlapped \cup (IF Saving = {} THEN {} ELSE Saving \cup {p})
    /\ UNCHANGED <<mem, minted, rows, up, row, todo>>

-----------------------------------------------------------------------------
(* SaveState: syncBinaries, then syncSessions *)

Part(p) == IF pc[p] \in {"binaries", "saveBinaries"} THEN Binaries ELSE Sessions

Abort(p) ==
    /\ "record" \in Faults
    /\ pc' = [pc EXCEPT ![p] = "idle"]
    /\ snap' = [snap EXCEPT ![p] = NoItems]
    /\ row' = [row EXCEPT ![p] = NoRows]
    /\ todo' = [todo EXCEPT ![p] = {}]
    /\ UNCHANGED <<mem, minted, rows, up, overlapped>>

SaveAll(p) == Part(p)       \* mutant of ToSave: also what is not in the snapshot

ToSave(p) == {i \in Part(p) : snap[p][i] # 0}

(* FindAllRecords, into a map by runtime id: one record of each. *)
ListRecords(p) ==
    /\ pc[p] \in {"binaries", "sessions"}
    /\ \E f \in [Part(p) -> Rows \cup {NoRow}] :
          /\ \A i \in Part(p) : IF RowsOf(i) = {} THEN f[i] = NoRow
                                                  ELSE f[i] \in RowsOf(i)
          /\ row' = [row EXCEPT ![p] =
                       [i \in Items |-> IF i \in Part(p) THEN f[i] ELSE NoRow]]
    /\ todo' = [todo EXCEPT ![p] = ToSave(p)]
    /\ pc' = [pc EXCEPT ![p] = IF pc[p] = "binaries" THEN "saveBinaries"
                                                     ELSE "saveSessions"]
    /\ UNCHANGED <<mem, minted, rows, up, snap, overlapped>>

AtSave(p) == pc[p] \in {"saveBinaries", "saveSessions"}

Insert(p, i) == \E k \in Rows : Free(k) /\ Put(k, i, snap[p][i])

(* An id that has a record is updated (no record is affected if another    *)
(* saver has deleted it), a new id is inserted.                            *)
Upsert(p, i) ==
    \/ row[p][i] = NoRow /\ Insert(p, i)
    \/ row[p][i] \in RowsOf(i) /\ Put(row[p][i], i, snap[p][i])
    \/ row[p][i] \in Rows \ RowsOf(i) /\ UNCHANGED rows

(* The snapshot is walked in any order. *)
SaveRecord(p, i) ==
    /\ AtSave(p) /\ i \in todo[p]
    /\ Upsert(p, i)
    /\ todo' = [todo EXCEPT ![p] = @ \ {i}]
    /\ row' = [row EXCEPT ![p][i] = NoRow]
    /\ UNCHANGED <<mem, minted, up, pc, snap, overlapped>>

(* The records left in the map belong to ids that are gone. *)
DeleteNothing(p, i) ==      \* mutant of DeleteStale: leaves the record
    /\ AtSave(p) /\ todo[p] = {} /\ row[p][i] # NoRow
    /\ row' = [row EXCEPT ![p][i] = NoRow]
    /\ UNCHANGED <<mem, minted, rows, up, pc, snap, todo, overlapped>>

DeleteStale(p, i) ==
    /\ AtSave(p) /\ todo[p] = {} /\ row[p][i] # NoRow
    /\ rows' = [rows EXCEPT ![row[p][i]] = Nothing]
    /\ row' = [row EXCEPT ![p][i] = NoRow]
    /\ UNCHANGED <<mem, minted, up, pc, snap, todo, overlapped>>

Synced(p) == AtSave(p) /\ todo[p] = {} /\ row[p] = NoRows

NextCollection(p) ==
    /\ pc[p] = "saveBinaries" /\ Synced(p)
    /\ pc' = [pc EXCEPT ![p] = "sessions"]
    /\ UNCHANGED <<mem, minted, rows, up, snap, row, todo, overlapped>>

EndSave(p) ==
    /\ pc[p] = "saveSessions" /\ Synced(p)
    /\ pc' = [pc EXCEPT ![p] = "idle"]
    /\ snap' = [snap EXCEPT ![p] = NoItems]
    /\ up' = TRUE
    /\ UNCHANGED <<mem, minted, rows, row, todo, overlapped>>

-----------------------------------------------------------------------------
(* ConfigureStatePersistence: the server starts, for the first time, after *)
(* a crash, or after a start that failed                                   *)

Starts ==
    /\ "crash" \in Faults \/ (~up /\ pc["boot"] = "idle")
    /\ row' = [p \in Procs |-> NoRows]
    /\ todo' = [p \in Procs |-> {}]
    /\ UNCHANGED <<rows, overlapped>>

Always == TRUE              \* mutant of Empty: the file is always read

Empty == \A k \in Rows : rows[k] = Nothing

(* The external store is authoritative, unless it is empty ... *)
StartFromStore ==
    /\ Starts
    /\ ~Empty \/ Legacy = {}
    /\ mem' \in [Items -> Versions] /\ Loads(mem')
    /\ pc' = [p \in Procs |-> "idle"]
    /\ snap' = [p \in Procs |-> NoItems]
    /\ up' = TRUE
    /\ UNCHANGED minted

(* ... then the legacy file is loaded and saved, before requests are       *)
(* served; if that save fails the server does not start.                   *)
StartFromFile ==
    /\ Starts
    /\ Empty /\ Legacy # {}
    /\ mem' = LegacyState
    /\ minted' = minted \cup Legacy
    /\ pc' = [p \in Procs |-> IF p = "boot" THEN "binaries" ELSE "idle"]
    /\ snap' = [p \in Procs |-> IF p = "boot" THEN LegacyState ELSE NoItems]
    /\ up' = FALSE

-----------------------------------------------------------------------------

Save(p) ==
    \/ ListRecords(p)
    \/ \E i \in Items : SaveRecord(p, i) \/ DeleteStale(p, i)
    \/ NextCollection(p) \/ EndSave(p)
    \/ p \in Saving /\ Abort(p)

Next ==
    \/ \E p \in Savers : ChangeItem(p) \/ TakeSnapshot(p)
    \/ \E p \in Procs : Save(p)
    \/ StartFromStore \/ StartFromFile

Spec == Init /\ [][Next]_vars

-----------------------------------------------------------------------------
(* Properties *)

Idle == \A p \in Procs : pc[p] = "idle"

(* As long as no two savers have overlapped, a save that succeeds leaves    *)
(* exactly its snapshot, whatever earlier saves that failed or died        *)
(* half-way left behind: the store heals, and what a restart loads is what *)
(* was saved (the step SaveState of SessionLifecycle).                     *)
SaveHeals ==
    [][\A p \in Procs : EndSave(p) /\ overlapped = {} => Loads(snap[p])]_vars

(* ... and the store never goes back in time: the version stored for an id *)
(* only grows, across failed saves, crashes and restarts.                  *)
NeverOlder ==
    [][\A i \in Items, k \in Rows, l \in Rows :
          overlapped = {} /\ k \in RowsOf(i) /\ l \in RowsOf(i)'
             => rows'[l].version >= rows[k].version]_vars

(* Savers that overlap may insert the same id twice, for none of them      *)
(* found it; but an id never gets more records than there are savers at    *)
(* once, and with one saver it has one.                                    *)
RecordsBounded == \A i \in Items : Cardinality(RowsOf(i)) <= Cardinality(Savers)

=============================================================================
