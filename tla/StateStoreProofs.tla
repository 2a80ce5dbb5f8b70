--------------------------- MODULE StateStoreProofs ---------------------------
(***************************************************************************)
(* Theorems about StateStore, for any collections, any finite number of    *)
(* savers, any record ids and whatever record operations fail.             *)
(***************************************************************************)
EXTENDS StateStore, FiniteSetTheorems, TLAPS

-----------------------------------------------------------------------------
(* The state of the savers.  What a saver still has to save is in its      *)
(* snapshot, and it remembers records only while it saves; the save that   *)
(* follows the legacy file is done before any handler runs.                *)

WorkSound ==
    \A p \in Procs :
        /\ ~AtSave(p) => row[p] = NoRows /\ todo[p] = {}
        /\ \A i \in todo[p] : snap[p][i] # 0
BootAlone ==
    /\ up => pc["boot"] = "idle"
    /\ ~up => \A p \in Savers : pc[p] = "idle"

(* Savers that found no record of an id and will insert one. *)
Inserters(i) == {p \in Procs : AtSave(p) /\ i \in todo[p] /\ row[p][i] = NoRow}
Bounded(i) ==
    /\ IsFiniteSet(RowsOf(i))
    /\ Cardinality(RowsOf(i)) + Cardinality(Inserters(i)) <= Cardinality(Savers)
SaversInv == TypeOK /\ WorkSound /\ BootAlone /\ \A i \in Items : Bounded(i)

(* As long as no two savers have overlapped: the one that saves is alone,  *)
(* an id has one record at most, which is no newer than the snapshot, which*)
(* is no newer than the map, unless the id has left the map for good; the  *)
(* saver knows the records as they are, and what it is done with is as in  *)
(* its snapshot.                                                           *)
Exact(p, i) == IF snap[p][i] = 0 THEN RowsOf(i) = {}
               ELSE \E k \in RowsOf(i) : rows[k].version = snap[p][i]
OneRecord == \A i \in Items : \A k, l \in RowsOf(i) : k = l
MapAhead ==
    \A i \in Items :
        /\ mem[i] # 0 => i \in minted
        /\ \A k \in RowsOf(i) :
              i \in minted /\ (mem[i] # 0 => rows[k].version <= mem[i])
SnapBetween(p) ==
    \A i \in Items : snap[p][i] # 0 =>
        /\ i \in minted
        /\ mem[i] # 0 => snap[p][i] <= mem[i]
        /\ \A k \in RowsOf(i) : rows[k].version <= snap[p][i]
Informed(p, i) ==
    /\ i \notin Part(p) => row[p][i] = NoRow /\ i \notin todo[p]
    /\ i \in Part(p) /\ i \in todo[p] =>
          IF RowsOf(i) = {} THEN row[p][i] = NoRow ELSE row[p][i] \in RowsOf(i)
    /\ i \in Part(p) /\ i \notin todo[p] =>
          IF row[p][i] = NoRow THEN Exact(p, i)
          ELSE snap[p][i] = 0 /\ row[p][i] \in RowsOf(i)
Saves(p) ==
    /\ \A q \in Saving : q = p
    /\ SnapBetween(p)
    /\ AtSave(p) => \A i \in Items : Informed(p, i)
    /\ pc[p] \in {"sessions", "saveSessions"} => \A i \in Binaries : Exact(p, i)
SoloInv == overlapped = {} =>
              OneRecord /\ MapAhead /\ \A p \in Saving : Saves(p)

-----------------------------------------------------------------------------
(* Types *)

WorkInv == TypeOK /\ WorkSound /\ BootAlone

LEMMA BlankTyped ==
    /\ NoItems \in [Items -> Versions]
    /\ NoRows \in [Items -> Rows \cup {NoRow}]
    /\ LegacyState \in [Items -> Versions]
  BY VersionAssumption DEF NoItems, NoRows, LegacyState, Versions

LEMMA WorkInit == Init => WorkInv
<1> SUFFICES ASSUME Init PROVE WorkInv
  OBVIOUS
<1>1. TypeOK
  BY BlankTyped DEF Init, TypeOK
<1>2. WorkSound
  BY DEF Init, WorkSound
<1>3. BootAlone
  BY DEF Init, BootAlone, Procs
<1> QED
  BY <1>1, <1>2, <1>3 DEF WorkInv

LEMMA WorkHandler ==
    ASSUME WorkInv, NEW p \in Savers, ChangeItem(p) \/ TakeSnapshot(p)
    PROVE  WorkInv'
<1> USE DEF WorkInv
<1>1. p \in Procs /\ p # "boot" /\ "boot" \in Procs
  BY SaversAssumption DEF Procs
<1>2. CASE ChangeItem(p)
  <2>1. mem' \in [Items -> Versions]
    <3> PICK i \in Items :
          \/ mem[i] < MaxVersion /\ mem' = [mem EXCEPT ![i] = @ + 1]
          \/ mem' = [mem EXCEPT ![i] = 0]
      BY <1>2 DEF ChangeItem
    <3>1. mem[i] \in Versions
      BY DEF TypeOK
    <3>2. mem[i] < MaxVersion => mem[i] + 1 \in Versions
      BY <3>1, VersionAssumption DEF Versions
    <3>3. 0 \in Versions
      BY VersionAssumption DEF Versions
    <3> QED
      BY <3>2, <3>3 DEF TypeOK
  <2>2. TypeOK'
    BY <1>1, <1>2, <2>1 DEF ChangeItem, TypeOK
  <2>3. \A q \in Procs : AtSave(q)' => AtSave(q)
    BY <1>1, <1>2 DEF ChangeItem, AtSave, TypeOK
  <2>4. \A q \in Procs : AtSave(q) => AtSave(q)'
    BY <1>1, <1>2 DEF ChangeItem, AtSave, TypeOK
  <2>5. WorkSound'
    BY <1>2, <2>3, <2>4 DEF ChangeItem, WorkSound
  <2>6. BootAlone'
    BY <1>1, <1>2 DEF ChangeItem, BootAlone, TypeOK
  <2> QED
    BY <2>2, <2>5, <2>6
<1>3. CASE TakeSnapshot(p)
  <2>1. up
    BY <1>3 DEF TakeSnapshot, BootAlone
  <2>2. overlapped' \subseteq Procs
    BY <1>1, <1>3 DEF TakeSnapshot, Saving, TypeOK
  <2>3. TypeOK'
    BY <1>1, <1>3, <2>2 DEF TakeSnapshot, TypeOK
  <2>4. ~AtSave(p)
    BY <1>3 DEF TakeSnapshot, AtSave
  <2>5. \A q \in Procs : AtSave(q)' <=> AtSave(q)
    BY <1>1, <1>3 DEF TakeSnapshot, AtSave, TypeOK
  <2>6. \A q \in Procs : snap'[q] = snap[q] \/ todo[q] = {}
    BY <1>1, <1>3, <2>4 DEF TakeSnapshot, WorkSound, TypeOK
  <2>7. WorkSound'
    BY <1>3, <2>5, <2>6 DEF TakeSnapshot, WorkSound
  <2>8. BootAlone'
    BY <1>1, <1>3, <2>1 DEF TakeSnapshot, BootAlone, TypeOK
  <2> QED
    BY <2>3, <2>7, <2>8
<1> QED
  BY <1>2, <1>3

LEMMA WorkSave ==
    ASSUME WorkInv, NEW p \in Procs, Save(p)
    PROVE  WorkInv'
<1> USE DEF WorkInv
<1>1. /\ "boot" \in Procs /\ Savers \subseteq Procs /\ "boot" \notin Savers
      /\ Procs = Savers \cup {"boot"}
  BY SaversAssumption DEF Procs
<1>2. /\ rows \in [Rows -> Record \cup {Nothing}] /\ snap \in [Procs -> [Items -> Versions]]
      /\ row \in [Procs -> [Items -> Rows \cup {NoRow}]]
      /\ todo \in [Procs -> SUBSET Items]
      /\ pc \in [Procs -> {"idle", "persist", "binaries", "saveBinaries",
                           "sessions", "saveSessions"}]
  BY DEF TypeOK
<1>3. BootAlone /\ pc[p] # "idle" => IF p = "boot" THEN ~up ELSE up /\ p \in Savers
  BY <1>1 DEF BootAlone
<1>4. CASE ListRecords(p)
  <2> PICK f \in [Part(p) -> Rows \cup {NoRow}] :
        row' = [row EXCEPT ![p] = [i \in Items |-> IF i \in Part(p) THEN f[i] ELSE NoRow]]
    BY <1>4 DEF ListRecords
  <2>1. [i \in Items |-> IF i \in Part(p) THEN f[i] ELSE NoRow] \in [Items -> Rows \cup {NoRow}]
    OBVIOUS
  <2>2. row' \in [Procs -> [Items -> Rows \cup {NoRow}]]
    BY <1>2, <2>1
  <2>3. ToSave(p) \in SUBSET Items
    BY DEF ToSave, Part, Items
  <2>4. todo' \in [Procs -> SUBSET Items]
    BY <1>2, <1>4, <2>3 DEF ListRecords
  <2>5. TypeOK'
    BY <1>4, <2>2, <2>4 DEF ListRecords, TypeOK
  <2>6. /\ pc'[p] \in {"saveBinaries", "saveSessions"}
        /\ todo'[p] = ToSave(p) /\ snap' = snap
        /\ \A q \in Procs \ {p} : pc'[q] = pc[q] /\ row'[q] = row[q] /\ todo'[q] = todo[q]
    BY <1>2, <1>4 DEF ListRecords
  <2>7. WorkSound'
    <3> SUFFICES ASSUME NEW q \in Procs
                 PROVE  /\ ~AtSave(q)' => row'[q] = NoRows /\ todo'[q] = {}
                        /\ \A i \in todo'[q] : snap'[q][i] # 0
      BY DEF WorkSound, NoRows
    <3>1. CASE q = p
      BY <2>6, <3>1 DEF AtSave, ToSave
    <3>2. CASE q # p
      BY <2>6, <3>2 DEF AtSave, WorkSound
    <3> QED
      BY <3>1, <3>2
  <2>8. BootAlone'
    BY <1>1, <1>2, <1>4 DEF ListRecords, BootAlone
  <2> QED
    BY <2>5, <2>7, <2>8
<1>5. ASSUME NEW i \in Items, SaveRecord(p, i)
      PROVE  WorkInv'
  <2>1. /\ AtSave(p) /\ i \in todo[p] /\ snap[p][i] \in 1 .. MaxVersion
    BY <1>2, <1>5, VersionAssumption DEF SaveRecord, WorkSound, Versions
  <2>2. [item |-> i, version |-> snap[p][i]] \in Record
    BY <2>1 DEF Record
  <2>3. rows' \in [Rows -> Record \cup {Nothing}]
    BY <1>2, <1>5, <2>2 DEF SaveRecord, Upsert, Insert, Put, RowsOf
  <2>4. row' \in [Procs -> [Items -> Rows \cup {NoRow}]]
    BY <1>2, <1>5 DEF SaveRecord
  <2>5. todo' \in [Procs -> SUBSET Items] /\ \A q \in Procs : todo'[q] \subseteq todo[q]
    BY <1>2, <1>5 DEF SaveRecord
  <2>6. TypeOK'
    BY <1>5, <2>3, <2>4, <2>5 DEF SaveRecord, TypeOK
  <2>7. \A q \in Procs : ~AtSave(q) => row'[q] = row[q]
    BY <1>2, <1>5, <2>1 DEF SaveRecord
  <2>8. WorkSound'
    BY <1>5, <2>5, <2>7 DEF SaveRecord, WorkSound, AtSave, NoRows
  <2>9. BootAlone'
    BY <1>5 DEF SaveRecord, BootAlone
  <2> QED
    BY <2>6, <2>8, <2>9
<1>6. ASSUME NEW i \in Items, DeleteStale(p, i)
      PROVE  WorkInv'
  <2>1. rows' \in [Rows -> Record \cup {Nothing}]
    BY <1>2, <1>6 DEF DeleteStale
  <2>2. row' \in [Procs -> [Items -> Rows \cup {NoRow}]]
    BY <1>2, <1>6 DEF DeleteStale
  <2>3. TypeOK'
    BY <1>6, <2>1, <2>2 DEF DeleteStale, TypeOK
  <2>4. \A q \in Procs : ~AtSave(q) => row'[q] = row[q]
    BY <1>2, <1>6 DEF DeleteStale
  <2>5. WorkSound'
    BY <1>6, <2>4 DEF DeleteStale, WorkSound, AtSave, NoRows
  <2>6. BootAlone'
    BY <1>6 DEF DeleteStale, BootAlone
  <2> QED
    BY <2>3, <2>5, <2>6
<1>7. CASE NextCollection(p) \/ EndSave(p)
  <2>1. /\ row[p] = NoRows /\ todo[p] = {} /\ pc[p] # "idle"
        /\ row' = row /\ todo' = todo /\ rows' = rows
    BY <1>7 DEF NextCollection, EndSave, Synced
  <2>2. \A q \in Procs \ {p} : pc'[q] = pc[q] /\ snap'[q] = snap[q]
    BY <1>2, <1>7 DEF NextCollection, EndSave
  <2>3. WorkSound'
    BY <2>1, <2>2 DEF WorkSound, AtSave, NoRows
  <2>4. TypeOK'
    BY <1>7, BlankTyped DEF NextCollection, EndSave, TypeOK
  <2>5. BootAlone'
    BY <1>1, <1>2, <1>3, <1>7, <2>2 DEF NextCollection, EndSave, BootAlone
  <2> QED
    BY <2>3, <2>4, <2>5
<1>8. CASE p \in Saving /\ Abort(p)
  <2>1. TypeOK'
    BY <1>8, BlankTyped DEF Abort, TypeOK
  <2>2. /\ row'[p] = NoRows /\ todo'[p] = {} /\ pc'[p] = "idle"
        /\ \A q \in Procs \ {p} : /\ pc'[q] = pc[q] /\ snap'[q] = snap[q]
                                  /\ row'[q] = row[q] /\ todo'[q] = todo[q]
    BY <1>2, <1>8 DEF Abort
  <2>3. WorkSound'
    BY <2>2 DEF WorkSound, AtSave, NoRows
  <2>4. BootAlone'
    BY <1>1, <1>2, <1>8, <2>2 DEF Abort, BootAlone
  <2> QED
    BY <2>1, <2>3, <2>4
<1> QED
  BY <1>4, <1>5, <1>6, <1>7, <1>8 DEF Save

LEMMA WorkStart ==
    ASSUME WorkInv, StartFromStore \/ StartFromFile
    PROVE  WorkInv'
<1> USE DEF WorkInv
<1>1. /\ row' = [p \in Procs |-> NoRows] /\ todo' = [p \in Procs |-> {}]
      /\ UNCHANGED <<rows, overlapped>>
  BY DEF StartFromStore, StartFromFile, Starts
<1>2. "boot" \in Procs /\ Savers \subseteq Procs /\ "boot" \notin Savers
  BY SaversAssumption DEF Procs
<1>3. WorkSound'
  BY <1>1 DEF WorkSound, NoRows
<1>4. CASE StartFromStore
  <2>1. TypeOK'
    BY <1>1, <1>4, BlankTyped DEF StartFromStore, TypeOK
  <2>2. BootAlone'
    BY <1>2, <1>4 DEF StartFromStore, BootAlone
  <2> QED
    BY <1>3, <2>1, <2>2
<1>5. CASE StartFromFile
  <2>1. minted' \subseteq Items
    BY <1>5, ItemsAssumption DEF StartFromFile, TypeOK
  <2>2. TypeOK'
    BY <1>1, <1>5, <2>1, BlankTyped DEF StartFromFile, TypeOK
  <2>3. BootAlone'
    BY <1>2, <1>5 DEF StartFromFile, BootAlone
  <2> QED
    BY <1>3, <2>2, <2>3
<1> QED
  BY <1>4, <1>5

LEMMA WorkStep == WorkInv /\ [Next]_vars => WorkInv'
<1>1. CASE UNCHANGED vars
  BY <1>1 DEF vars, saverVars, WorkInv, TypeOK, WorkSound, BootAlone, AtSave, NoRows
<1> QED
  BY <1>1, WorkHandler, WorkSave, WorkStart DEF Next

(* Every reachable state of StateStore is well typed. *)
THEOREM StoreTypeCorrect == Spec => []TypeOK
<1>1. WorkInv => TypeOK
  BY DEF WorkInv
<1> QED
  BY <1>1, WorkInit, WorkStep, PTL DEF Spec

-----------------------------------------------------------------------------
(* How many records an id can have: as many as there are savers that have  *)
(* found none, and those are no more than there are savers at once.        *)

LEMMA InsertersFinite ==
    ASSUME NEW i
    PROVE  IsFiniteSet(Inserters(i)) /\ Cardinality(Inserters(i)) \in Nat
<1>1. IsFiniteSet(Procs)
  BY SaversAssumption, FS_AddElement DEF Procs
<1>2. Inserters(i) \subseteq Procs
  BY DEF Inserters
<1> QED
  BY <1>1, <1>2, FS_Subset, FS_CardinalityType

LEMMA FewerRecords ==
    ASSUME NEW i, Bounded(i), RowsOf(i)' \subseteq RowsOf(i),
           Inserters(i)' \subseteq Inserters(i)
    PROVE  Bounded(i)'
<1>1. /\ IsFiniteSet(RowsOf(i)) /\ IsFiniteSet(Inserters(i))
      /\ Cardinality(RowsOf(i)) \in Nat /\ Cardinality(Inserters(i)) \in Nat
  BY InsertersFinite, FS_CardinalityType DEF Bounded
<1>2. /\ IsFiniteSet(RowsOf(i)') /\ Cardinality(RowsOf(i)') <= Cardinality(RowsOf(i))
      /\ Cardinality(RowsOf(i)') \in Nat
  BY <1>1, FS_Subset, FS_CardinalityType
<1>3. /\ Cardinality(Inserters(i)') <= Cardinality(Inserters(i))
      /\ Cardinality(Inserters(i)') \in Nat
  BY <1>1, FS_Subset, FS_CardinalityType
<1>4. Cardinality(Savers) \in Nat
  BY SaversAssumption, FS_CardinalityType
<1>5. Cardinality(RowsOf(i)') + Cardinality(Inserters(i)') <= Cardinality(Savers)
  BY <1>1, <1>2, <1>3, <1>4 DEF Bounded
<1> QED
  BY <1>2, <1>5 DEF Bounded

(* The legacy file is saved while no handler runs, handlers save when it   *)
(* has been: either way there are no more inserters than savers.           *)
LEMMA SaversAtMost ==
    ASSUME NEW S, S \subseteq Savers \/ S \subseteq {"boot"}
    PROVE  Cardinality(S) \in Nat /\ Cardinality(S) <= Cardinality(Savers)
<1>1. IsFiniteSet(Savers) /\ Cardinality(Savers) \in Nat /\ Cardinality(Savers) # 0
  BY SaversAssumption, FS_CardinalityType, FS_EmptySet
<1>2. CASE S \subseteq Savers
  BY <1>1, <1>2, FS_Subset, FS_CardinalityType
<1>3. CASE S \subseteq {"boot"}
  <2>1. IsFiniteSet({"boot"}) /\ Cardinality({"boot"}) = 1
    BY FS_Singleton
  <2>2. Cardinality(S) \in Nat /\ Cardinality(S) <= 1
    BY <1>3, <2>1, FS_Subset, FS_CardinalityType
  <2> QED
    BY <1>1, <2>2
<1> QED
  BY <1>2, <1>3

LEMMA BoundedSave ==
    ASSUME SaversInv, NEW p \in Procs, Save(p), NEW j \in Items
    PROVE  Bounded(j)'
<1>1. WorkInv /\ WorkInv' /\ Bounded(j)
  BY WorkSave DEF SaversInv, WorkInv
<1>2. /\ rows \in [Rows -> Record \cup {Nothing}]
      /\ row \in [Procs -> [Items -> Rows \cup {NoRow}]]
      /\ todo \in [Procs -> SUBSET Items]
      /\ pc \in [Procs -> {"idle", "persist", "binaries", "saveBinaries",
                           "sessions", "saveSessions"}]
  BY <1>1 DEF WorkInv, TypeOK
<1>3. CASE ListRecords(p)
  <2>1. RowsOf(j)' = RowsOf(j)
    BY <1>3 DEF ListRecords, RowsOf
  <2>2. CASE RowsOf(j) = {}
    <3>1. /\ Cardinality(RowsOf(j)') = 0 /\ IsFiniteSet(RowsOf(j)')
      BY <2>1, <2>2, FS_EmptySet
    <3>2. Inserters(j)' \subseteq Savers \/ Inserters(j)' \subseteq {"boot"}
      BY <1>1 DEF WorkInv, TypeOK, BootAlone, Inserters, AtSave, Procs
    <3>3. Cardinality(Inserters(j)') \in Nat
          /\ Cardinality(Inserters(j)') <= Cardinality(Savers)
      BY <3>2, SaversAtMost
    <3> QED
      BY <3>1, <3>3 DEF Bounded
  <2>3. CASE RowsOf(j) # {}
    <3>1. p \notin Inserters(j)'
      BY <1>2, <1>3, <2>3, RowsAssumption DEF ListRecords, Inserters, ToSave, RowsOf
    <3>2. Inserters(j)' \subseteq Inserters(j)
      BY <1>2, <1>3, <3>1 DEF ListRecords, Inserters, AtSave
    <3> QED
      BY <1>1, <2>1, <3>2, FewerRecords
  <2> QED
    BY <2>2, <2>3
<1>4. ASSUME NEW i \in Items, SaveRecord(p, i)
      PROVE  Bounded(j)'
  <2>1. /\ AtSave(p) /\ i \in todo[p] /\ Upsert(p, i) /\ pc' = pc
        /\ todo' = [todo EXCEPT ![p] = @ \ {i}]
        /\ row' = [row EXCEPT ![p][i] = NoRow]
    BY <1>4 DEF SaveRecord
  <2>2. Inserters(j)' \subseteq Inserters(j) \ (IF i = j THEN {p} ELSE {})
    BY <1>2, <2>1 DEF Inserters, AtSave
  <2>3. ASSUME NEW k \in Rows, k \in RowsOf(i), Put(k, i, snap[p][i])
        PROVE  RowsOf(j)' \subseteq RowsOf(j)
    BY <1>2, <2>3 DEF Put, RowsOf
  <2>4. CASE row[p][i] # NoRow
    <3>1. RowsOf(j)' \subseteq RowsOf(j)
      BY <2>1, <2>3, <2>4 DEF Upsert, RowsOf
    <3> QED
      BY <1>1, <2>2, <3>1, FewerRecords
  <2>5. CASE row[p][i] = NoRow
    <3> PICK k \in Rows : Free(k) /\ Put(k, i, snap[p][i])
      BY <2>1, <2>5, RowsAssumption DEF Upsert, Insert, RowsOf
    <3>1. CASE i # j
      <4>1. RowsOf(j)' \subseteq RowsOf(j)
        BY <1>2, <3>1 DEF Free, Put, RowsOf
      <4> QED
        BY <1>1, <2>2, <4>1, FewerRecords
    <3>2. CASE i = j
      <4>1. p \in Inserters(j)
        BY <2>1, <2>5, <3>2 DEF Inserters
      <4>2. RowsOf(j)' \subseteq RowsOf(j) \cup {k}
        BY <1>2 DEF Put, RowsOf
      <4>3. /\ Cardinality(Inserters(j)') <= Cardinality(Inserters(j)) - 1
            /\ Cardinality(Inserters(j)') \in Nat
        <5>1. IsFiniteSet(Inserters(j) \ {p})
              /\ Cardinality(Inserters(j) \ {p}) = Cardinality(Inserters(j)) - 1
          BY <4>1, InsertersFinite, FS_RemoveElement
        <5>2. Inserters(j)' \subseteq Inserters(j) \ {p}
          BY <2>2, <3>2
        <5> QED
          BY <5>1, <5>2, FS_Subset, FS_CardinalityType
      <4>4. IsFiniteSet(RowsOf(j) \cup {k})
            /\ Cardinality(RowsOf(j) \cup {k}) <= Cardinality(RowsOf(j)) + 1
            /\ Cardinality(RowsOf(j)) \in Nat
            /\ Cardinality(RowsOf(j) \cup {k}) \in Nat
        <5>1. IsFiniteSet(RowsOf(j)) /\ Cardinality(RowsOf(j)) \in Nat
          BY <1>1, FS_CardinalityType DEF Bounded
        <5>2. IsFiniteSet(RowsOf(j) \cup {k})
              /\ Cardinality(RowsOf(j) \cup {k}) = IF k \in RowsOf(j)
                                                   THEN Cardinality(RowsOf(j))
                                                   ELSE Cardinality(RowsOf(j)) + 1
          BY <5>1, FS_AddElement
        <5> QED
          BY <5>1, <5>2
      <4>5. /\ IsFiniteSet(RowsOf(j)')
            /\ Cardinality(RowsOf(j)') <= Cardinality(RowsOf(j) \cup {k})
            /\ Cardinality(RowsOf(j)') \in Nat
        BY <4>2, <4>4, FS_Subset, FS_CardinalityType
      <4>6. Cardinality(Inserters(j)) \in Nat
        BY InsertersFinite
      <4>7. Cardinality(Savers) \in Nat
        BY SaversAssumption, FS_CardinalityType
      <4>8. Cardinality(RowsOf(j)') + Cardinality(Inserters(j)') <= Cardinality(Savers)
        BY <1>1, <4>3, <4>4, <4>5, <4>6, <4>7 DEF Bounded
      <4> QED
        BY <4>5, <4>8 DEF Bounded
    <3> QED
      BY <3>1, <3>2
  <2> QED
    BY <2>4, <2>5
<1>5. ASSUME NEW i \in Items, DeleteStale(p, i)
      PROVE  Bounded(j)'
  <2>1. RowsOf(j)' \subseteq RowsOf(j)
    BY <1>2, <1>5 DEF DeleteStale, RowsOf
  <2>2. \A q \in Procs : q # p => row'[q] = row[q]
    BY <1>2, <1>5 DEF DeleteStale
  <2>3. Inserters(j)' \subseteq Inserters(j)
    BY <1>2, <1>5, <2>2 DEF DeleteStale, Inserters, AtSave
  <2> QED
    BY <1>1, <2>1, <2>3, FewerRecords
<1>6. CASE NextCollection(p) \/ EndSave(p) \/ (p \in Saving /\ Abort(p))
  <2>1. RowsOf(j)' = RowsOf(j)
    BY <1>6 DEF NextCollection, EndSave, Abort, RowsOf
  <2>2. /\ pc'[p] \notin {"saveBinaries", "saveSessions"}
        /\ \A q \in Procs \ {p} : pc'[q] = pc[q] /\ row'[q] = row[q] /\ todo'[q] = todo[q]
    BY <1>2, <1>6 DEF NextCollection, EndSave, Abort
  <2>3. Inserters(j)' \subseteq Inserters(j)
    BY <2>2 DEF Inserters, AtSave
  <2> QED
    BY <1>1, <2>1, <2>3, FewerRecords
<1> QED
  BY <1>3, <1>4, <1>5, <1>6 DEF Save

LEMMA SaversStep == SaversInv /\ [Next]_vars => SaversInv'
<1> SUFFICES ASSUME SaversInv, [Next]_vars, NEW j \in Items PROVE Bounded(j)'
  BY WorkStep DEF SaversInv, WorkInv
<1>1. WorkInv /\ Bounded(j)
  BY DEF SaversInv, WorkInv
<1>2. pc \in [Procs -> {"idle", "persist", "binaries", "saveBinaries",
                       "sessions", "saveSessions"}]
  BY <1>1 DEF WorkInv, TypeOK
<1>3. CASE \E p \in Procs : Save(p)
  BY <1>3, BoundedSave
<1>4. CASE \E p \in Savers : ChangeItem(p) \/ TakeSnapshot(p)
  <2> PICK p \in Savers : ChangeItem(p) \/ TakeSnapshot(p)
    BY <1>4
  <2>1. UNCHANGED <<rows, row, todo>> /\ \A q \in Procs : AtSave(q)' => AtSave(q)
    BY <1>2 DEF ChangeItem, TakeSnapshot, AtSave, Procs
  <2>2. RowsOf(j)' = RowsOf(j) /\ Inserters(j)' \subseteq Inserters(j)
    BY <2>1 DEF RowsOf, Inserters
  <2> QED
    BY <1>1, <2>2, FewerRecords
<1>5. CASE StartFromStore \/ StartFromFile
  <2>1. rows' = rows /\ \A p \in Procs : ~AtSave(p)'
    BY <1>5 DEF StartFromStore, StartFromFile, Starts, AtSave
  <2>2. RowsOf(j)' = RowsOf(j) /\ Inserters(j)' \subseteq Inserters(j)
    BY <2>1 DEF RowsOf, Inserters
  <2> QED
    BY <1>1, <2>2, FewerRecords
<1>6. CASE UNCHANGED vars
  <2>1. RowsOf(j)' = RowsOf(j) /\ Inserters(j)' = Inserters(j)
    BY <1>6 DEF vars, saverVars, RowsOf, Inserters, AtSave
  <2> QED
    BY <1>1, <2>1, FewerRecords
<1> QED
  BY <1>3, <1>4, <1>5, <1>6 DEF Next

LEMMA SaversInit == Init => SaversInv
<1> SUFFICES ASSUME Init, NEW i \in Items PROVE Bounded(i)
  BY WorkInit DEF SaversInv, WorkInv
<1>1. RowsOf(i) = {} /\ Inserters(i) = {}
  BY DEF Init, RowsOf, Inserters
<1>2. IsFiniteSet({}) /\ Cardinality({}) = 0
  BY FS_EmptySet
<1>3. Cardinality(Savers) \in Nat
  BY SaversAssumption, FS_CardinalityType
<1> QED
  BY <1>1, <1>2, <1>3 DEF Bounded

(* However many savers overlap, fail or die, an id never has more records  *)
(* than there are savers; with one saver it has one.                       *)
THEOREM RecordsStayBounded == Spec => []RecordsBounded
<1>1. SaversInv => RecordsBounded
  <2> SUFFICES ASSUME SaversInv, NEW i \in Items
               PROVE  Cardinality(RowsOf(i)) <= Cardinality(Savers)
    BY DEF RecordsBounded
  <2>1. Cardinality(RowsOf(i)) \in Nat
    BY FS_CardinalityType DEF SaversInv, Bounded
  <2>2. Cardinality(Savers) \in Nat
    BY SaversAssumption, FS_CardinalityType
  <2> QED
    BY <2>1, <2>2, InsertersFinite DEF SaversInv, Bounded
<1> QED
  BY <1>1, SaversInit, SaversStep, PTL DEF Spec

-----------------------------------------------------------------------------
(* One saver at a time: what it leaves is its snapshot                      *)

LEMMA SoloInit == Init => SoloInv
<1> SUFFICES ASSUME Init PROVE OneRecord /\ MapAhead /\ Saving = {}
  BY DEF SoloInv
<1>1. \A i \in Items : RowsOf(i) = {} /\ mem[i] = 0
  BY DEF Init, RowsOf, NoItems
<1> QED
  BY <1>1 DEF Init, OneRecord, MapAhead, Saving

(* Numbers the prover may compare. *)
LEMMA VersionsTyped ==
    ASSUME TypeOK
    PROVE  /\ \A i \in Items : mem[i] \in Nat
           /\ \A p \in Procs, i \in Items : snap[p][i] \in Nat
           /\ \A i \in Items : \A k \in RowsOf(i) : rows[k].version \in Nat
<1> USE VersionAssumption DEF TypeOK, Versions
<1>1. \A i \in Items : mem[i] \in Nat
  OBVIOUS
<1>2. \A p \in Procs, i \in Items : snap[p][i] \in Nat
  OBVIOUS
<1>3. \A i \in Items : \A k \in RowsOf(i) : rows[k] \in Record
  BY DEF RowsOf
<1>4. \A i \in Items : \A k \in RowsOf(i) : rows[k].version \in Nat
  BY <1>3 DEF Record
<1> QED
  BY <1>1, <1>2, <1>4

(* The premises of what follows: nobody has overlapped, now or before. *)
Solo == WorkInv /\ OneRecord /\ MapAhead /\ \A p \in Saving : Saves(p)

LEMMA SoloChange ==
    ASSUME Solo, NEW q \in Savers, ChangeItem(q)
    PROVE  OneRecord' /\ MapAhead' /\ \A p \in Saving' : Saves(p)'
<1> USE DEF Solo
<1>0. TypeOK
  BY DEF WorkInv
<1>1. /\ UNCHANGED <<rows, snap, row, todo>>
      /\ minted' = minted \cup {i \in Items : mem'[i] # 0}
      /\ pc[q] = "idle" /\ pc' = [pc EXCEPT ![q] = "persist"]
  BY DEF ChangeItem
<1>2. \A i \in Items : RowsOf(i)' = RowsOf(i)
  BY <1>1 DEF RowsOf
<1>3. \A i \in Items : i \in minted /\ mem'[i] # 0 => mem[i] # 0 /\ mem'[i] >= mem[i]
  <2> PICK i \in Items :
        \/ (i \notin minted \/ mem[i] # 0) /\ mem' = [mem EXCEPT ![i] = @ + 1]
        \/ mem[i] # 0 /\ mem' = [mem EXCEPT ![i] = 0]
    BY DEF ChangeItem
  <2>1. \A j \in Items : mem[j] \in Nat
    BY <1>0, VersionsTyped
  <2> QED
    BY <1>0, <2>1 DEF TypeOK
<1>4. \A i \in Items, v \in Nat : /\ i \in minted
                                  /\ mem[i] # 0 => v <= mem[i]
                                  /\ mem'[i] # 0
                                  => v <= mem'[i]
  <2> SUFFICES ASSUME NEW i \in Items, NEW v \in Nat, i \in minted,
                      mem[i] # 0 => v <= mem[i], mem'[i] # 0
               PROVE  v <= mem'[i]
    OBVIOUS
  <2>1. mem[i] \in Nat /\ mem'[i] >= mem[i] /\ mem[i] # 0
    BY <1>0, <1>3, VersionsTyped
  <2>2. mem'[i] \in Nat
    BY WorkHandler, VersionAssumption DEF WorkInv, TypeOK, Versions
  <2> QED
    BY <2>1, <2>2
<1>5. OneRecord'
  BY <1>1, <1>2 DEF OneRecord
<1>6. MapAhead'
  BY <1>0, <1>1, <1>2, <1>4, VersionsTyped DEF MapAhead
<1>7. \A p \in Procs : /\ p \in Saving' <=> p \in Saving
                       /\ p \in Saving => pc'[p] = pc[p]
  BY <1>0, <1>1 DEF Saving, TypeOK
<1>8. \A p \in Saving' : Saves(p)'
  <2> SUFFICES ASSUME NEW p \in Saving PROVE Saves(p)'
    BY <1>7 DEF Saving
  <2>1. p \in Procs /\ pc'[p] = pc[p] /\ Saves(p)
    BY <1>7 DEF Saving
  <2>2. SnapBetween(p)'
    BY <1>0, <1>1, <1>2, <1>4, <2>1, VersionsTyped DEF Saves, SnapBetween
  <2>3. \A q1 \in Saving' : q1 = p
    BY <1>7, <2>1 DEF Saves, Saving
  <2>4. \A i \in Items : Exact(p, i)' <=> Exact(p, i)
    BY <1>1, <1>2 DEF Exact
  <2>5. (AtSave(p) => \A i \in Items : Informed(p, i))'
    BY <1>1, <1>2, <2>1, <2>4 DEF Saves, AtSave, Informed, Part
  <2>6. (pc[p] \in {"sessions", "saveSessions"} => \A i \in Binaries : Exact(p, i))'
    BY <2>1, <2>4 DEF Saves, Items
  <2> QED
    BY <2>2, <2>3, <2>5, <2>6 DEF Saves
<1> QED
  BY <1>5, <1>6, <1>8

LEMMA SoloSnapshot ==
    ASSUME Solo, NEW q \in Savers, TakeSnapshot(q), overlapped' = {}
    PROVE  OneRecord' /\ MapAhead' /\ \A p \in Saving' : Saves(p)'
<1> USE DEF Solo
<1>0. TypeOK /\ q \in Procs
  BY DEF WorkInv, Procs
<1>1. /\ UNCHANGED <<mem, minted, rows>> /\ Saving = {}
      /\ snap' = [snap EXCEPT ![q] = mem]
      /\ pc' = [pc EXCEPT ![q] = "binaries"]
  BY DEF TakeSnapshot
<1>2. \A i \in Items : RowsOf(i)' = RowsOf(i)
  BY <1>1 DEF RowsOf
<1>3. OneRecord' /\ MapAhead'
  BY <1>1, <1>2 DEF OneRecord, MapAhead
<1>4. Saving' = {q} /\ pc'[q] = "binaries" /\ snap'[q] = mem
  BY <1>0, <1>1 DEF Saving, TypeOK
<1>5. SnapBetween(q)'
  <2> SUFFICES ASSUME NEW i \in Items, mem[i] # 0
               PROVE  /\ i \in minted /\ mem[i] <= mem[i]
                      /\ \A k \in RowsOf(i) : rows[k].version <= mem[i]
    BY <1>1, <1>2, <1>4 DEF SnapBetween
  <2> QED
    BY <1>0, VersionsTyped DEF MapAhead
<1> QED
  BY <1>3, <1>4, <1>5 DEF Saves, AtSave

(* The saver lists the records of a collection. *)
LEMMA SoloList ==
    ASSUME Solo, NEW p \in Saving, ListRecords(p)
    PROVE  Saves(p)'
<1> USE DEF Solo
<1>0. TypeOK /\ p \in Procs /\ Saves(p)
  BY DEF WorkInv, Saving
<1>1. /\ UNCHANGED <<mem, minted, rows, snap>>
      /\ todo' = [todo EXCEPT ![p] = ToSave(p)]
      /\ pc[p] \in {"binaries", "sessions"}
      /\ pc' = [pc EXCEPT ![p] = IF pc[p] = "binaries" THEN "saveBinaries"
                                                      ELSE "saveSessions"]
  BY DEF ListRecords
<1> PICK f \in [Part(p) -> Rows \cup {NoRow}] :
       /\ \A i \in Part(p) : IF RowsOf(i) = {} THEN f[i] = NoRow ELSE f[i] \in RowsOf(i)
       /\ row' = [row EXCEPT ![p] = [i \in Items |-> IF i \in Part(p) THEN f[i] ELSE NoRow]]
  BY DEF ListRecords
<1>2. \A i \in Items : RowsOf(i)' = RowsOf(i)
  BY <1>1 DEF RowsOf
<1>3. /\ todo'[p] = ToSave(p)
      /\ \A i \in Items : row'[p][i] = IF i \in Part(p) THEN f[i] ELSE NoRow
      /\ pc[p] = "binaries" => pc'[p] = "saveBinaries"
      /\ pc[p] = "sessions" => pc'[p] = "saveSessions"
      /\ \A q \in Procs : q # p => pc'[q] = pc[q]
  BY <1>0, <1>1 DEF TypeOK
<1>4. Part(p)' = Part(p) /\ \A q \in Saving' : q = p
  BY <1>0, <1>1, <1>3 DEF Part, Saves, Saving
<1>5. SnapBetween(p)'
  BY <1>0, <1>1, <1>2 DEF Saves, SnapBetween
<1>6. \A i \in Items : Exact(p, i)' <=> Exact(p, i)
  BY <1>1, <1>2 DEF Exact
<1>7. ASSUME NEW i \in Items
      PROVE  Informed(p, i)'
  <2>1. CASE i \notin Part(p)
    BY <1>3, <1>4, <2>1 DEF Informed, ToSave
  <2>2. CASE i \in Part(p) /\ snap[p][i] # 0
    BY <1>2, <1>3, <1>4, <2>2 DEF Informed, ToSave
  <2>3. CASE i \in Part(p) /\ snap[p][i] = 0
    <3>1. i \notin todo'[p] /\ snap'[p][i] = 0 /\ row'[p][i] = f[i]
      BY <1>1, <1>3, <2>3 DEF ToSave
    <3>2. CASE RowsOf(i) = {}
      BY <1>2, <1>4, <2>3, <3>1, <3>2 DEF Informed, Exact
    <3>3. CASE RowsOf(i) # {}
      <4>1. row'[p][i] \in RowsOf(i) /\ row'[p][i] # NoRow
        BY <2>3, <3>1, <3>3, RowsAssumption DEF RowsOf
      <4> QED
        BY <1>2, <1>4, <2>3, <3>1, <4>1 DEF Informed
    <3> QED
      BY <3>2, <3>3
  <2> QED
    BY <2>1, <2>2, <2>3
<1>8. (pc[p] \in {"sessions", "saveSessions"} => \A i \in Binaries : Exact(p, i))'
  BY <1>0, <1>1, <1>3, <1>6 DEF Saves, Items
<1> QED
  BY <1>4, <1>5, <1>7, <1>8 DEF Saves

(* What it does to the records of one item leaves the others alone. *)
LEMMA SoloOthers ==
    ASSUME Solo, NEW p \in Saving, NEW i \in Items, AtSave(p),
           UNCHANGED <<mem, minted, pc, snap>>,
           row' = [row EXCEPT ![p][i] = NoRow],
           \A j \in Items \ {i} : /\ RowsOf(j)' = RowsOf(j)
                                  /\ \A k \in RowsOf(j) : rows'[k] = rows[k]
                                  /\ j \in todo'[p] <=> j \in todo[p],
           i \in Part(p), i \notin todo'[p], Exact(p, i)',
           \A k, l \in RowsOf(i)' : k = l,
           \A k \in RowsOf(i)' : snap[p][i] # 0 /\ rows'[k].version = snap[p][i]
    PROVE  OneRecord' /\ MapAhead' /\ Saves(p)'
<1> USE DEF Solo
<1>0. TypeOK /\ p \in Procs /\ Saves(p) /\ snap[p][i] \in Nat
  BY VersionsTyped DEF WorkInv, Saving
<1>1. OneRecord'
  BY DEF OneRecord
<1>2. MapAhead'
  BY <1>0 DEF MapAhead, Saves, SnapBetween
<1>3. SnapBetween(p)'
  BY <1>0 DEF Saves, SnapBetween
<1>4. Part(p)' = Part(p) /\ (AtSave(p)' <=> AtSave(p)) /\ Saving' = Saving
  BY DEF Part, AtSave, Saving
<1>5. \A j \in Items \ {i} : Exact(p, j)' <=> Exact(p, j)
  BY DEF Exact
<1>6. row'[p][i] = NoRow /\ \A j \in Items \ {i} : row'[p][j] = row[p][j]
  BY <1>0 DEF TypeOK
<1>7. ASSUME NEW j \in Items
      PROVE  Informed(p, j)'
  <2>1. CASE j = i
    BY <1>4, <1>6, <2>1 DEF Informed
  <2>2. CASE j # i
    BY <1>0, <1>4, <1>5, <1>6, <2>2 DEF Informed, Saves
  <2> QED
    BY <2>1, <2>2
<1>8. (pc[p] \in {"sessions", "saveSessions"} => \A j \in Binaries : Exact(p, j))'
  BY <1>0, <1>5 DEF Saves, Items
<1> QED
  BY <1>0, <1>1, <1>2, <1>3, <1>4, <1>7, <1>8 DEF Saves

LEMMA SoloRecord ==
    ASSUME Solo, NEW p \in Saving, NEW i \in Items, SaveRecord(p, i)
    PROVE  /\ OneRecord' /\ MapAhead' /\ Saves(p)'
           /\ \A j \in Items : \A k \in RowsOf(j) : \A l \in RowsOf(j)' :
                 rows'[l].version >= rows[k].version
<1> USE DEF Solo
<1>0. TypeOK /\ p \in Procs /\ Saves(p)
  BY DEF WorkInv, Saving
<1>1. /\ AtSave(p) /\ i \in todo[p] /\ Upsert(p, i)
      /\ todo' = [todo EXCEPT ![p] = @ \ {i}]
      /\ row' = [row EXCEPT ![p][i] = NoRow]
      /\ UNCHANGED <<mem, minted, pc, snap>>
  BY DEF SaveRecord
<1>2. i \in Part(p) /\ Informed(p, i) /\ snap[p][i] # 0 /\ snap[p][i] \in Nat
  BY <1>0, <1>1, VersionsTyped DEF Saves, Informed, WorkInv, WorkSound
<1>3. /\ i \notin todo'[p]
      /\ \A j \in Items \ {i} : j \in todo'[p] <=> j \in todo[p]
  BY <1>0, <1>1 DEF TypeOK
<1>4. PICK k \in Rows : /\ Put(k, i, snap[p][i])
                       /\ \/ RowsOf(i) = {} /\ rows[k] = Nothing
                          \/ RowsOf(i) = {k}
  <2>1. CASE RowsOf(i) = {}
    <3>1. row[p][i] = NoRow
      BY <1>1, <1>2, <2>1 DEF Informed
    <3> QED
      BY <1>1, <2>1, <3>1, RowsAssumption DEF Upsert, Insert, Free
  <2>2. CASE RowsOf(i) # {}
    <3>1. row[p][i] \in RowsOf(i)
      BY <1>1, <1>2, <2>2 DEF Informed
    <3>2. row[p][i] # NoRow /\ row[p][i] \in Rows
      BY <3>1, RowsAssumption DEF RowsOf
    <3>3. Put(row[p][i], i, snap[p][i])
      BY <1>1, <3>1, <3>2 DEF Upsert
    <3>4. RowsOf(i) = {row[p][i]}
      BY <3>1 DEF OneRecord
    <3> QED
      BY <3>2, <3>3, <3>4
  <2> QED
    BY <2>1, <2>2
<1>5. [item |-> i, version |-> snap[p][i]] # Nothing
  BY <1>0, <1>2, VersionAssumption, RowsAssumption DEF TypeOK, Versions, Record
<1>6. /\ rows'[k] = [item |-> i, version |-> snap[p][i]]
      /\ \A l \in Rows \ {k} : rows'[l] = rows[l]
  BY <1>0, <1>4 DEF Put, TypeOK
<1>7. RowsOf(i)' = {k}
  BY <1>4, <1>5, <1>6 DEF RowsOf
<1>8. \A j \in Items \ {i} : k \notin RowsOf(j)
  BY <1>4 DEF RowsOf
<1>9. \A j \in Items \ {i} : RowsOf(j)' = RowsOf(j)
  BY <1>6, <1>8 DEF RowsOf
<1>10. \A j \in Items \ {i} : \A l \in RowsOf(j) : rows'[l] = rows[l]
  BY <1>6, <1>8 DEF RowsOf
<1>11. Exact(p, i)'
  BY <1>1, <1>2, <1>6, <1>7 DEF Exact
<1>12. OneRecord' /\ MapAhead' /\ Saves(p)'
  <2>1. \A j \in Items \ {i} : /\ RowsOf(j)' = RowsOf(j)
                               /\ \A l \in RowsOf(j) : rows'[l] = rows[l]
                               /\ j \in todo'[p] <=> j \in todo[p]
    BY <1>3, <1>9, <1>10
  <2>2. \A l \in RowsOf(i)' : snap[p][i] # 0 /\ rows'[l].version = snap[p][i]
    BY <1>2, <1>6, <1>7
  <2>3. \A l, m \in RowsOf(i)' : l = m
    BY <1>7
  <2> QED
    BY <1>1, <1>2, <1>3, <1>11, <2>1, <2>2, <2>3, SoloOthers
<1>13. ASSUME NEW j \in Items, NEW m \in RowsOf(j), NEW l \in RowsOf(j)'
       PROVE  rows'[l].version >= rows[m].version
  <2>1. rows[m].version \in Nat
    BY <1>0, VersionsTyped
  <2>2. CASE j = i
    <3>1. m = k /\ l = k
      BY <1>4, <1>7, <2>2
    <3> QED
      BY <1>0, <1>2, <1>6, <2>1, <2>2, <3>1 DEF Saves, SnapBetween
  <2>3. CASE j # i
    <3>1. l = m /\ rows'[m] = rows[m]
      BY <1>9, <1>10, <2>3 DEF OneRecord
    <3> QED
      BY <2>1, <3>1
  <2> QED
    BY <2>2, <2>3
<1> QED
  BY <1>12, <1>13

LEMMA SoloDelete ==
    ASSUME Solo, NEW p \in Saving, NEW i \in Items, DeleteStale(p, i)
    PROVE  OneRecord' /\ MapAhead' /\ Saves(p)'
<1> USE DEF Solo
<1>0. TypeOK /\ p \in Procs /\ Saves(p)
  BY DEF WorkInv, Saving
<1>1. /\ AtSave(p) /\ todo[p] = {} /\ row[p][i] # NoRow
      /\ rows' = [rows EXCEPT ![row[p][i]] = Nothing]
      /\ row' = [row EXCEPT ![p][i] = NoRow]
      /\ UNCHANGED <<mem, minted, pc, snap, todo>>
  BY DEF DeleteStale
<1>2. i \in Part(p) /\ snap[p][i] = 0 /\ row[p][i] \in RowsOf(i)
  BY <1>0, <1>1 DEF Saves, Informed
<1>3. RowsOf(i)' = {}
  <2>1. \A l \in RowsOf(i) : l = row[p][i]
    BY <1>2 DEF OneRecord
  <2> QED
    BY <1>0, <1>1, <1>2, <2>1 DEF RowsOf, TypeOK
<1>4. \A j \in Items \ {i} : row[p][i] \notin RowsOf(j)
  BY <1>2 DEF RowsOf
<1>5. \A j \in Items \ {i} : RowsOf(j)' = RowsOf(j)
  BY <1>0, <1>1, <1>4 DEF RowsOf, TypeOK
<1>6. \A j \in Items \ {i} : \A l \in RowsOf(j) : rows'[l] = rows[l]
  BY <1>0, <1>1, <1>4 DEF RowsOf, TypeOK
<1>7. Exact(p, i)'
  BY <1>1, <1>2, <1>3 DEF Exact
<1> QED
  BY <1>1, <1>2, <1>3, <1>5, <1>6, <1>7, SoloOthers

LEMMA SoloNext ==
    ASSUME Solo, NEW p \in Saving, NextCollection(p)
    PROVE  Saves(p)'
<1> USE DEF Solo
<1>0. TypeOK /\ p \in Procs /\ Saves(p)
  BY DEF WorkInv, Saving
<1>1. /\ pc[p] = "saveBinaries" /\ AtSave(p) /\ todo[p] = {} /\ row[p] = NoRows
      /\ pc' = [pc EXCEPT ![p] = "sessions"]
      /\ UNCHANGED <<mem, minted, rows, snap, row, todo>>
  BY DEF NextCollection, Synced
<1>2. pc'[p] = "sessions" /\ \A q \in Procs \ {p} : pc'[q] = pc[q]
  BY <1>0, <1>1 DEF TypeOK
<1>3. \A i \in Binaries : Exact(p, i)
  BY <1>0, <1>1 DEF Saves, Informed, Part, NoRows, Items
<1>4. \A i \in Items : (Exact(p, i)' <=> Exact(p, i)) /\ RowsOf(i)' = RowsOf(i)
  BY <1>1 DEF Exact, RowsOf
<1>5. SnapBetween(p)'
  BY <1>0, <1>1, <1>4 DEF Saves, SnapBetween
<1>6. \A q \in Saving' : q = p
  BY <1>0, <1>2 DEF Saves, Saving
<1> QED
  BY <1>2, <1>3, <1>4, <1>5, <1>6 DEF Saves, AtSave, Items

LEMMA SoloStart ==
    ASSUME Solo, StartFromStore \/ StartFromFile
    PROVE  OneRecord' /\ MapAhead' /\ \A p \in Saving' : Saves(p)'
<1> USE DEF Solo
<1>0. TypeOK /\ rows' = rows /\ "boot" \in Procs
  BY DEF WorkInv, StartFromStore, StartFromFile, Starts, Procs
<1>1. \A i \in Items : RowsOf(i)' = RowsOf(i)
  BY <1>0 DEF RowsOf
<1>2. OneRecord'
  BY <1>0, <1>1 DEF OneRecord
<1>3. CASE StartFromStore
  <2>1. Saving' = {} /\ minted' = minted /\ Loads(mem')
    BY <1>3 DEF StartFromStore, Saving
  <2>2. MapAhead'
    <3> SUFFICES ASSUME NEW i \in Items
                 PROVE  /\ mem'[i] # 0 => i \in minted
                        /\ \A k \in RowsOf(i) :
                              i \in minted /\ (mem'[i] # 0 => rows[k].version <= mem'[i])
      BY <1>0, <1>1, <2>1 DEF MapAhead
    <3>1. CASE RowsOf(i) = {}
      BY <2>1, <3>1 DEF Loads
    <3>2. CASE RowsOf(i) # {}
      <4> PICK l \in RowsOf(i) : mem'[i] = rows[l].version
        BY <2>1, <3>2 DEF Loads
      <4> QED
        BY <1>0, VersionsTyped DEF MapAhead, OneRecord
    <3> QED
      BY <3>1, <3>2
  <2> QED
    BY <1>2, <2>1, <2>2
<1>4. CASE StartFromFile
  <2>1. /\ Saving' = {"boot"} /\ mem' = LegacyState /\ minted' = minted \cup Legacy
        /\ snap'["boot"] = LegacyState /\ pc'["boot"] = "binaries"
    BY <1>0, <1>4 DEF StartFromFile, Saving
  <2>2. \A i \in Items : RowsOf(i) = {}
    BY <1>4 DEF StartFromFile, Empty, RowsOf
  <2>3. \A i \in Items : LegacyState[i] # 0 => i \in Legacy /\ LegacyState[i] = 1
    BY DEF LegacyState
  <2>4. MapAhead'
    BY <1>1, <2>1, <2>2, <2>3 DEF MapAhead
  <2>5. SnapBetween("boot")'
    BY <1>1, <2>1, <2>2, <2>3 DEF SnapBetween
  <2>6. Saves("boot")'
    BY <2>1, <2>5 DEF Saves, AtSave
  <2> QED
    BY <1>2, <2>1, <2>4, <2>6
<1> QED
  BY <1>3, <1>4

(* What a save does to the store while nobody has overlapped. *)
LEMMA SoloSave ==
    ASSUME Solo, NEW p \in Procs, Save(p)
    PROVE  OneRecord' /\ MapAhead' /\ \A q \in Saving' : Saves(q)'
<1> USE DEF Solo
<1>0. TypeOK /\ p \in Saving /\ Saves(p) /\ pc[p] # "idle"
  BY DEF WorkInv, Save, ListRecords, SaveRecord, DeleteStale, NextCollection, EndSave,
         Synced, AtSave, Saving
<1>1. Saving' \subseteq {p} /\ \A q \in Procs \ {p} : q \notin Saving'
  <2>1. \A q \in Procs \ {p} : pc'[q] = pc[q]
    BY <1>0 DEF Save, ListRecords, SaveRecord, DeleteStale, NextCollection, EndSave,
                Abort, TypeOK
  <2>2. \A q \in Procs \ {p} : q \notin Saving
    BY <1>0 DEF Saves
  <2> QED
    BY <2>1, <2>2 DEF Saving
<1>2. ASSUME UNCHANGED <<mem, minted, rows>> PROVE OneRecord' /\ MapAhead'
  BY <1>2 DEF OneRecord, MapAhead, RowsOf
<1>3. CASE ListRecords(p)
  BY <1>0, <1>1, <1>2, <1>3, SoloList DEF ListRecords
<1>4. CASE \E i \in Items : SaveRecord(p, i)
  BY <1>0, <1>1, <1>4, SoloRecord
<1>5. CASE \E i \in Items : DeleteStale(p, i)
  BY <1>0, <1>1, <1>5, SoloDelete
<1>6. CASE NextCollection(p)
  BY <1>0, <1>1, <1>2, <1>6, SoloNext DEF NextCollection
<1>7. CASE EndSave(p) \/ Abort(p)
  <2>1. pc'[p] = "idle" /\ UNCHANGED <<mem, minted, rows>>
    BY <1>0, <1>7 DEF EndSave, Abort, TypeOK
  <2>2. Saving' = {}
    BY <1>1, <2>1 DEF Saving
  <2> QED
    BY <1>2, <2>1, <2>2
<1> QED
  BY <1>3, <1>4, <1>5, <1>6, <1>7 DEF Save

StoreInv == WorkInv /\ SoloInv

LEMMA StoreStep == StoreInv /\ [Next]_vars => StoreInv'
<1> SUFFICES ASSUME StoreInv, [Next]_vars, overlapped' = {}
             PROVE  OneRecord' /\ MapAhead' /\ \A p \in Saving' : Saves(p)'
  BY WorkStep DEF StoreInv, SoloInv
<1>1. overlapped = {}
  BY DEF Next, vars, saverVars, ChangeItem, TakeSnapshot, Save, ListRecords, SaveRecord,
         DeleteStale, NextCollection, EndSave, Abort, StartFromStore, StartFromFile, Starts
<1>2. Solo
  BY <1>1 DEF StoreInv, SoloInv, Solo
<1>3. CASE UNCHANGED vars
  <2>1. Saving' = Saving /\ \A i \in Items : RowsOf(i)' = RowsOf(i)
    BY <1>3 DEF vars, saverVars, Saving, RowsOf
  <2>2. OneRecord' /\ MapAhead'
    BY <1>2, <1>3, <2>1 DEF vars, Solo, OneRecord, MapAhead
  <2>3. ASSUME NEW p \in Saving PROVE Saves(p)'
    BY <1>2, <1>3, <2>1 DEF vars, saverVars, Solo, Saves, SnapBetween, Informed, Exact,
                            AtSave, Part, Saving, RowsOf
  <2> QED
    BY <2>1, <2>2, <2>3
<1> QED
  BY <1>2, <1>3, SoloChange, SoloSnapshot, SoloSave, SoloStart DEF Next

(* The inductive invariant: until two savers have overlapped, what a saver *)
(* has done of its save tells exactly which records the store holds.       *)
THEOREM StoreInvariant == Spec => []StoreInv
  BY WorkInit, SoloInit, StoreStep, PTL DEF Spec, StoreInv

(* However saves fail and die, one that succeeds leaves exactly its        *)
(* snapshot, as long as no two savers have ever shared the store: what     *)
(* the step SaveState of SessionLifecycle takes for granted.               *)
THEOREM SavesHeal == Spec => SaveHeals
<1>1. ASSUME StoreInv, NEW p \in Procs, EndSave(p), overlapped = {}
      PROVE  Loads(snap[p])
  <2>1. Solo
    BY <1>1 DEF StoreInv, SoloInv, Solo
  <2>2. Saves(p) /\ pc[p] = "saveSessions" /\ todo[p] = {} /\ row[p] = NoRows /\ AtSave(p)
    BY <1>1, <2>1 DEF Solo, EndSave, Synced, AtSave, Saving
  <2>3. \A i \in Items : Exact(p, i)
    <3> SUFFICES ASSUME NEW i \in Items, i \notin Binaries PROVE Exact(p, i)
      BY <2>2 DEF Saves
    <3>1. i \in Part(p) /\ row[p][i] = NoRow
      BY <2>2 DEF Part, Items, NoRows
    <3> QED
      BY <2>2, <3>1 DEF Saves, Informed
  <2>4. ASSUME NEW i \in Items
        PROVE  IF RowsOf(i) = {} THEN snap[p][i] = 0
               ELSE \E k \in RowsOf(i) : snap[p][i] = rows[k].version
    BY <2>3 DEF Exact
  <2> QED
    BY <2>4 DEF Loads
<1>2. StoreInv /\ [Next]_vars =>
        [\A p \in Procs : EndSave(p) /\ overlapped = {} => Loads(snap[p])]_vars
  BY <1>1
<1> QED
  BY <1>2, StoreInvariant, PTL DEF Spec, SaveHeals

(* ... and the version stored for an id only grows, whatever dies between  *)
(* two record operations.                                                  *)
THEOREM StoreNeverGoesBack == Spec => NeverOlder
<1>1. ASSUME StoreInv, [Next]_vars, overlapped = {}, NEW i \in Items,
             NEW k \in RowsOf(i), NEW l \in RowsOf(i)'
      PROVE  rows'[l].version >= rows[k].version
  <2>1. Solo
    BY <1>1 DEF StoreInv, SoloInv, Solo
  <2>2. rows[k].version \in Nat
    BY <2>1, VersionsTyped DEF Solo, WorkInv
  <2>3. CASE \E p \in Procs, j \in Items : SaveRecord(p, j)
    <3> PICK p \in Procs, j \in Items : SaveRecord(p, j)
      BY <2>3
    <3>1. p \in Saving
      BY DEF SaveRecord, AtSave, Saving
    <3> QED
      BY <2>1, <3>1, SoloRecord
  <2>4. CASE ~\E p \in Procs, j \in Items : SaveRecord(p, j)
    <3>1. l \in RowsOf(i) /\ rows'[l] = rows[l]
      <4>1. \/ rows' = rows
            \/ \E p \in Procs, j \in Items : DeleteStale(p, j)
        BY <1>1, <2>4 DEF Next, vars, ChangeItem, TakeSnapshot, Save, ListRecords,
           NextCollection, EndSave, Abort, StartFromStore, StartFromFile, Starts
      <4>2. CASE rows' = rows
        BY <4>2 DEF RowsOf
      <4>3. ASSUME NEW p \in Procs, NEW j \in Items, DeleteStale(p, j)
            PROVE  l \in RowsOf(i) /\ rows'[l] = rows[l]
        BY <2>1, <4>3 DEF DeleteStale, RowsOf, Solo, WorkInv, TypeOK
      <4> QED
        BY <4>1, <4>2, <4>3
    <3>2. l = k
      BY <2>1, <3>1 DEF Solo, OneRecord
    <3> QED
      BY <2>2, <3>1, <3>2
  <2> QED
    BY <2>3, <2>4
<1>2. ASSUME StoreInv, [Next]_vars, NEW i \in Items, NEW k \in Rows, NEW l \in Rows,
             overlapped = {} /\ k \in RowsOf(i) /\ l \in RowsOf(i)'
      PROVE  rows'[l].version >= rows[k].version
  BY <1>1, <1>2
<1>3. StoreInv /\ [Next]_vars =>
        [\A i \in Items, k \in Rows, l \in Rows :
            overlapped = {} /\ k \in RowsOf(i) /\ l \in RowsOf(i)'
               => rows'[l].version >= rows[k].version]_vars
  BY <1>2
<1> QED
  BY <1>3, StoreInvariant, PTL DEF Spec, NeverOlder

=============================================================================
