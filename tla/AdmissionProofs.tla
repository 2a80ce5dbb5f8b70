---------------------------- MODULE AdmissionProofs ----------------------------
(***************************************************************************)
(* Theorems about Admission, for any callers, any finite set of request    *)
(* slots and any number of milliseconds.                                   *)
(***************************************************************************)
EXTENDS Admission, FiniteSetTheorems, TLAPS

-----------------------------------------------------------------------------
(* Types *)

LEMMA AdmissionTypeInit == Init => TypeOK
<1>1. NoSession \in Session
  BY DEF NoSession, Session
<1>2. 0 \in Ids
  BY MillisAssumption DEF Ids
<1>3. NoJob \in Job
  BY <1>1, <1>2 DEF NoJob, Job
<1> QED
  BY <1>1, <1>2, <1>3 DEF Init, TypeOK

(* What a handler takes up, and what it leaves when it returns. *)
LEMMA BeginTyped ==
    ASSUME TypeOK, NEW r \in Requests, NEW j \in Job,
           NEW next \in {"binary", "mint", "starting"}, Begin(r, next, j)
    PROVE  TypeOK'
  BY DEF TypeOK, Begin

LEMMA ReturnTyped ==
    ASSUME TypeOK, NEW r \in Requests, Return(r)
    PROVE  /\ pc' \in [Requests -> {"idle", "binary", "mint", "insert", "starting"}]
           /\ job' \in [Requests -> Job]
<1>1. NoJob \in Job
  BY MillisAssumption DEF NoJob, Job, NoSession, Session, Ids
<1> QED
  BY <1>1 DEF TypeOK, Return

LEMMA HandleTyped ==
    ASSUME TypeOK, NEW r \in Requests, Handle(r)
    PROVE  TypeOK'
<1>1. /\ sessions \in [Ids -> Session] /\ binaries \subseteq Binaries /\ now \in Ids
      /\ job \in [Requests -> Job] /\ job[r].id \in Ids /\ job[r].copy \in Session
      /\ pc \in [Requests -> {"idle", "binary", "mint", "insert", "starting"}]
  BY DEF TypeOK, Job
<1>2. 0 \in Ids
  BY MillisAssumption DEF Ids
<1>3. CASE CheckQuota(r)
  <2> PICK c \in Callers, b \in Binaries :
        Begin(r, "binary", [id |-> 0, copy |-> [owner |-> c, binary |-> b,
                                                active |-> FALSE, clone |-> FALSE]])
    BY <1>3 DEF CheckQuota
  <2>1. [id |-> 0, copy |-> [owner |-> c, binary |-> b,
                             active |-> FALSE, clone |-> FALSE]] \in Job
    BY <1>2 DEF Job, Session
  <2> QED
    BY <2>1, BeginTyped
<1>4. CASE CheckBinary(r)
  BY <1>1, <1>4, ReturnTyped DEF CheckBinary, TypeOK
<1>5. CASE BeginRestore(r)
  <2> PICK c \in Users, i \in Ids :
        Begin(r, "mint", [id |-> 0, copy |-> [sessions[i] EXCEPT
                                                !.active = FALSE, !.clone = TRUE]])
    BY <1>5 DEF BeginRestore
  <2>1. [sessions[i] EXCEPT !.active = FALSE, !.clone = TRUE] \in Session
    BY <1>1 DEF Session
  <2>2. [id |-> 0, copy |-> [sessions[i] EXCEPT !.active = FALSE, !.clone = TRUE]] \in Job
    BY <1>2, <2>1 DEF Job
  <2> QED
    BY <2>2, BeginTyped
<1>6. CASE MintId(r)
  <2>1. job' \in [Requests -> Job]
    BY <1>1, <1>6 DEF MintId, Job
  <2> QED
    BY <1>1, <1>6, <2>1 DEF MintId, TypeOK
<1>7. CASE InsertSession(r)
  BY <1>1, <1>7, ReturnTyped DEF InsertSession, TypeOK
<1>8. CASE BeginStart(r)
  <2> PICK i \in Ids : Begin(r, "starting", [id |-> i, copy |-> sessions[i]])
    BY <1>8 DEF BeginStart
  <2>1. [id |-> i, copy |-> sessions[i]] \in Job
    BY <1>1 DEF Job
  <2> QED
    BY <2>1, BeginTyped
<1>9. CASE FinishStart(r)
  <2>1. [job[r].copy EXCEPT !.active = TRUE] \in Session
    BY <1>1 DEF Session
  <2> QED
    BY <1>1, <1>9, <2>1, ReturnTyped DEF FinishStart, TypeOK
<1>10. CASE UploadBinary(r) \/ DeleteBinary(r)
  BY <1>1, <1>10 DEF UploadBinary, DeleteBinary, TypeOK
<1> QED
  BY <1>3, <1>4, <1>5, <1>6, <1>7, <1>8, <1>9, <1>10 DEF Handle

LEMMA AdmissionTypeStep == TypeOK /\ [Next]_vars => TypeOK'
<1> SUFFICES ASSUME TypeOK, [Next]_vars PROVE TypeOK'
  OBVIOUS
<1>1. sessions \in [Ids -> Session] /\ now \in Ids
  BY DEF TypeOK
<1>2. CASE StopSession
  <2> PICK i \in Ids : sessions' = [sessions EXCEPT ![i].active = FALSE]
    BY <1>2 DEF StopSession
  <2>1. sessions' \in [Ids -> Session]
    BY <1>1 DEF Session
  <2> QED
    BY <1>2, <2>1 DEF StopSession, TypeOK
<1>3. CASE DropSession
  <2>1. NoSession \in Session
    BY DEF NoSession, Session
  <2> QED
    BY <1>1, <1>3, <2>1 DEF DropSession, TypeOK
<1>4. CASE Tick
  <2>1. now' \in Ids
    BY <1>1, <1>4, MillisAssumption DEF Tick, Ids
  <2> QED
    BY <1>4, <2>1 DEF Tick, TypeOK
<1>5. CASE UNCHANGED vars
  BY <1>5 DEF vars, TypeOK
<1> QED
  BY <1>2, <1>3, <1>4, <1>5, HandleTyped DEF Next

(* Every reachable state of Admission is well typed. *)
THEOREM AdmissionTypeCorrect == Spec => []TypeOK
  BY AdmissionTypeInit, AdmissionTypeStep, PTL DEF Spec

-----------------------------------------------------------------------------
(* The quota.  A start in flight can bring a session its caller has since  *)
(* deleted back, so what a caller occupies is what it has and what is being*)
(* started; the bound holds of that, and of the creations in flight.       *)

Starters(c) == {r \in Requests : /\ pc[r] = "starting"
                                 /\ job[r].copy.owner = c
                                 /\ ~job[r].copy.clone}
StartIds(c) == {job[r].id : r \in Starters(c)}
Occupied(c) == Created(c) \cup StartIds(c)

Bounded(c) == Cardinality(Occupied(c)) + Cardinality(Admitted(c))
                 <= maxAnonSessions + Cardinality(Requests) - 1
QuotaInv == TypeOK /\ \A c \in Anons : Bounded(c)

LEMMA FiniteSlots ==
    ASSUME TypeOK, NEW c
    PROVE  /\ IsFiniteSet(Occupied(c)) /\ Cardinality(Occupied(c)) \in Nat
           /\ IsFiniteSet(Created(c)) /\ Cardinality(Created(c)) \in Nat
           /\ IsFiniteSet(StartIds(c)) /\ Cardinality(StartIds(c)) \in Nat
           /\ IsFiniteSet(Owned(c)) /\ Cardinality(Owned(c)) \in Nat
           /\ IsFiniteSet(Admitted(c)) /\ Cardinality(Admitted(c)) \in Nat
           /\ IsFiniteSet(Starters(c)) /\ Cardinality(Starters(c)) \in Nat
           /\ Cardinality(Requests) \in Nat
<1>1. IsFiniteSet(Ids)
  BY FS_Interval, MillisAssumption DEF Ids
<1>2. Created(c) \subseteq Ids /\ StartIds(c) \subseteq Ids /\ Owned(c) \subseteq Ids
  BY DEF Created, Owned, StartIds, Starters, TypeOK, Job
<1>3. Occupied(c) \subseteq Ids
  BY <1>2 DEF Occupied
<1>4. Admitted(c) \subseteq Requests /\ Starters(c) \subseteq Requests
  BY DEF Admitted, Starters
<1>5. /\ IsFiniteSet(Occupied(c)) /\ IsFiniteSet(Created(c)) /\ IsFiniteSet(StartIds(c))
      /\ IsFiniteSet(Owned(c))
  BY <1>1, <1>2, <1>3, FS_Subset
<1>6. IsFiniteSet(Admitted(c)) /\ IsFiniteSet(Starters(c))
  BY <1>4, FS_Subset, RequestsAssumption
<1> QED
  BY <1>5, <1>6, FS_CardinalityType, RequestsAssumption

LEMMA QuotaInit == Init => QuotaInv
<1> SUFFICES ASSUME Init, NEW c \in Anons PROVE Bounded(c)
  BY AdmissionTypeInit DEF QuotaInv
<1>1. TypeOK
  BY AdmissionTypeInit
<1>2. c # NoCaller
  BY CallersAssumption DEF Callers
<1>3. Created(c) = {} /\ StartIds(c) = {} /\ Admitted(c) = {}
  BY <1>2 DEF Init, Created, Owned, StartIds, Starters, Admitted, NoSession
<1>4. Occupied(c) = {}
  BY <1>3 DEF Occupied
<1>5. Cardinality({}) = 0
  BY FS_EmptySet
<1>6. Cardinality(Requests) \in Nat
  BY <1>1, FiniteSlots
<1> QED
  BY <1>3, <1>4, <1>5, <1>6 DEF Bounded, maxAnonSessions

(* A step that takes up nothing keeps the bound. *)
LEMMA FewerSlots ==
    ASSUME TypeOK, TypeOK', NEW c, Bounded(c),
           Occupied(c)' \subseteq Occupied(c), Admitted(c)' \subseteq Admitted(c)
    PROVE  Bounded(c)'
<1>1. Cardinality(Occupied(c)') <= Cardinality(Occupied(c))
  BY FiniteSlots, FS_Subset
<1>2. Cardinality(Admitted(c)') <= Cardinality(Admitted(c))
  BY FiniteSlots, FS_Subset
<1>3. Cardinality(Occupied(c)') \in Nat /\ Cardinality(Admitted(c)') \in Nat
  BY FiniteSlots, FS_Subset, FS_CardinalityType
<1>4. Cardinality(Occupied(c)') + Cardinality(Admitted(c)')
         <= maxAnonSessions + Cardinality(Requests) - 1
  BY <1>1, <1>2, <1>3, FiniteSlots DEF Bounded, maxAnonSessions
<1> QED
  BY <1>4 DEF Bounded

(* Handlers that start sessions and handlers that create them are disjoint.*)
LEMMA HandlersApart ==
    ASSUME TypeOK, NEW c, NEW r \in Requests, pc[r] = "idle"
    PROVE  Cardinality(StartIds(c)) + Cardinality(Admitted(c) \cup {r})
              <= Cardinality(Requests)
<1> DEFINE id == [q \in Starters(c) |-> job[q].id]
<1>1. id \in Surjection(Starters(c), StartIds(c))
  BY DEF StartIds, Surjection
<1>2. Cardinality(StartIds(c)) <= Cardinality(Starters(c))
  BY <1>1, FiniteSlots, FS_Surjection
<1> DEFINE Creators == Admitted(c) \cup {r}
<1>3. Starters(c) \cap Creators = {} /\ Starters(c) \cup Creators \subseteq Requests
  BY DEF Starters, Admitted
<1>4. IsFiniteSet(Creators) /\ Cardinality(Creators) \in Nat
  BY FiniteSlots, FS_AddElement, FS_CardinalityType
<1> HIDE DEF Creators
<1>5. Cardinality(Starters(c) \cup Creators)
         = Cardinality(Starters(c)) + Cardinality(Creators)
  <2>1. Cardinality(Starters(c) \cup Creators)
           = Cardinality(Starters(c)) + Cardinality(Creators)
               - Cardinality(Starters(c) \cap Creators)
    BY <1>4, FiniteSlots, FS_Union
  <2>2. Cardinality(Starters(c) \cap Creators) = 0
    BY <1>3, FS_EmptySet
  <2> QED
    BY <1>4, <2>1, <2>2, FiniteSlots
<1>6. Cardinality(Starters(c) \cup Creators) <= Cardinality(Requests)
  BY <1>3, FS_Subset, RequestsAssumption
<1>7. Cardinality(StartIds(c)) + Cardinality(Creators) <= Cardinality(Requests)
  BY <1>2, <1>4, <1>5, <1>6, FiniteSlots
<1> QED
  BY <1>7 DEF Creators

LEMMA QuotaHandle ==
    ASSUME QuotaInv, TypeOK', NEW r \in Requests, Handle(r), NEW c \in Anons
    PROVE  Bounded(c)'
<1>1. TypeOK /\ Bounded(c) /\ c # NoCaller
  BY CallersAssumption DEF QuotaInv, Callers
<1>2. /\ sessions \in [Ids -> Session] /\ job \in [Requests -> Job]
      /\ job[r].id \in Ids /\ job[r].copy \in Session
      /\ pc \in [Requests -> {"idle", "binary", "mint", "insert", "starting"}]
  BY <1>1 DEF TypeOK, Job
<1>3. ASSUME sessions' = sessions, job' = job, pc' = pc
      PROVE  Bounded(c)'
  BY <1>1, <1>3, FewerSlots DEF Occupied, Created, Owned, StartIds, Starters, Admitted
<1>4. CASE CheckQuota(r)
  <2> PICK d \in Callers, b \in Binaries :
        /\ UnderQuota(d)
        /\ Begin(r, "binary", [id |-> 0, copy |-> [owner |-> d, binary |-> b,
                                                   active |-> FALSE, clone |-> FALSE]])
    BY <1>4 DEF CheckQuota
  <2>1. /\ pc[r] = "idle" /\ sessions' = sessions
        /\ pc' = [pc EXCEPT ![r] = "binary"]
        /\ job' = [job EXCEPT ![r] = [id |-> 0, copy |-> [owner |-> d, binary |-> b,
                                                   active |-> FALSE, clone |-> FALSE]]]
    BY DEF Begin
  <2>2. Created(c)' = Created(c)
    BY <2>1 DEF Created, Owned
  <2>3. Starters(c)' = Starters(c) /\ \A q \in Starters(c) : job'[q] = job[q]
    BY <1>2, <2>1 DEF Starters
  <2>4. StartIds(c)' = StartIds(c)
    BY <2>3 DEF StartIds
  <2>5. Occupied(c)' = Occupied(c)
    BY <2>2, <2>4 DEF Occupied
  <2>6. CASE d # c
    <3>1. Admitted(c)' \subseteq Admitted(c)
      BY <1>2, <2>1, <2>6 DEF Admitted
    <3> QED
      BY <1>1, <2>5, <3>1, FewerSlots
  <2>7. CASE d = c
    <3>1. Admitted(c)' = Admitted(c) \cup {r}
      BY <1>2, <2>1, <2>7 DEF Admitted
    <3>2. Cardinality(Owned(c)) <= 1
      BY <1>1, <2>7, FiniteSlots DEF UnderQuota, maxAnonSessions
    <3>3. Cardinality(Created(c)) <= 1
      <4>1. Created(c) \subseteq Owned(c)
        BY DEF Created
      <4> QED
        BY <1>1, <3>2, <4>1, FiniteSlots, FS_Subset
    <3>4. Cardinality(Occupied(c)) <= Cardinality(Created(c)) + Cardinality(StartIds(c))
      <4>1. /\ IsFiniteSet(Created(c) \cap StartIds(c))
            /\ Cardinality(Created(c) \cap StartIds(c)) \in Nat
        BY <1>1, FiniteSlots, FS_Subset, FS_CardinalityType
      <4>2. Cardinality(Occupied(c)) = Cardinality(Created(c)) + Cardinality(StartIds(c))
                                         - Cardinality(Created(c) \cap StartIds(c))
        BY <1>1, FiniteSlots, FS_Union DEF Occupied
      <4> QED
        BY <1>1, <4>1, <4>2, FiniteSlots
    <3>5. Cardinality(StartIds(c)) + Cardinality(Admitted(c) \cup {r})
             <= Cardinality(Requests)
      BY <1>1, <2>1, HandlersApart
    <3>6. Cardinality(Admitted(c) \cup {r}) \in Nat
      BY <1>1, FiniteSlots, FS_AddElement, FS_CardinalityType
    <3>7. Cardinality(Occupied(c)) + Cardinality(Admitted(c) \cup {r})
             <= maxAnonSessions + Cardinality(Requests) - 1
      BY <1>1, <3>3, <3>4, <3>5, <3>6, FiniteSlots DEF maxAnonSessions
    <3> QED
      BY <2>5, <3>1, <3>7 DEF Bounded
  <2> QED
    BY <2>6, <2>7
<1>5. CASE CheckBinary(r) \/ MintId(r)
  <2>1. /\ pc[r] \in {"binary", "mint"} /\ sessions' = sessions
        /\ \A q \in Requests \ {r} : pc'[q] = pc[q] /\ job'[q] = job[q]
        /\ \/ pc'[r] = "idle"
           \/ job'[r].copy = job[r].copy /\ pc'[r] \in {"mint", "insert"}
    <3>1. CASE CheckBinary(r)
      <4>1. pc[r] = "binary" /\ sessions' = sessions
        BY <3>1 DEF CheckBinary
      <4>2. CASE pc' = [pc EXCEPT ![r] = "mint"] /\ job' = job
        BY <1>2, <4>1, <4>2
      <4>3. CASE Return(r)
        BY <1>2, <4>1, <4>3 DEF Return
      <4> QED
        BY <3>1, <4>2, <4>3 DEF CheckBinary
    <3>2. CASE MintId(r)
      <4>1. job'[r].copy = job[r].copy /\ pc'[r] = "insert"
        BY <1>2, <3>2 DEF MintId, Job
      <4> QED
        BY <1>2, <3>2, <4>1 DEF MintId
    <3> QED
      BY <1>5, <3>1, <3>2
  <2>2. Admitted(c)' \subseteq Admitted(c)
    BY <2>1 DEF Admitted
  <2>3. Starters(c)' \subseteq Starters(c) \ {r}
    BY <2>1 DEF Starters
  <2>4. StartIds(c)' \subseteq StartIds(c)
    BY <2>1, <2>3 DEF StartIds, Starters
  <2>5. Created(c)' = Created(c)
    BY <2>1 DEF Created, Owned
  <2> QED
    BY <1>1, <2>2, <2>4, <2>5, FewerSlots DEF Occupied
<1>6. CASE BeginRestore(r)
  <2> PICK d \in Users, i \in Ids :
        Begin(r, "mint", [id |-> 0, copy |-> [sessions[i] EXCEPT
                                                !.active = FALSE, !.clone = TRUE]])
    BY <1>6 DEF BeginRestore
  <2>1. /\ pc[r] = "idle" /\ sessions' = sessions
        /\ \A q \in Requests \ {r} : pc'[q] = pc[q] /\ job'[q] = job[q]
        /\ pc'[r] = "mint" /\ job'[r].copy.clone
    BY <1>2 DEF Begin, Session
  <2>2. Admitted(c)' \subseteq Admitted(c)
    BY <2>1 DEF Admitted
  <2>3. Starters(c)' \subseteq Starters(c) \ {r}
    BY <2>1 DEF Starters
  <2>4. StartIds(c)' \subseteq StartIds(c)
    BY <2>1, <2>3 DEF StartIds, Starters
  <2>5. Created(c)' = Created(c)
    BY <2>1 DEF Created, Owned
  <2> QED
    BY <1>1, <2>2, <2>4, <2>5, FewerSlots DEF Occupied
<1>7. CASE InsertSession(r)
  <2>1. /\ pc[r] = "insert" /\ pc'[r] = "idle"
        /\ sessions' = [sessions EXCEPT ![job[r].id] = job[r].copy]
        /\ \A q \in Requests \ {r} : pc'[q] = pc[q] /\ job'[q] = job[q]
    BY <1>2, <1>7 DEF InsertSession, Return
  <2>2. Admitted(c)' = Admitted(c) \ {r}
    BY <2>1 DEF Admitted
  <2>3. Starters(c)' = Starters(c)
    BY <2>1 DEF Starters
  <2>4. StartIds(c)' = StartIds(c)
    BY <2>1, <2>3 DEF StartIds, Starters
  <2>5. CASE r \in Admitted(c)
    <3>1. Created(c)' \subseteq Created(c) \cup {job[r].id}
      BY <1>2, <2>1 DEF Created, Owned
    <3>2. Occupied(c)' \subseteq Occupied(c) \cup {job[r].id}
      BY <2>4, <3>1 DEF Occupied
    <3>3. /\ Cardinality(Occupied(c)') \in Nat
          /\ Cardinality(Occupied(c)') <= Cardinality(Occupied(c)) + 1
      <4> DEFINE More == Occupied(c) \cup {job[r].id}
      <4>1. IsFiniteSet(More) /\ Cardinality(More) <= Cardinality(Occupied(c)) + 1
        <5>1. IsFiniteSet(Occupied(c)) /\ Cardinality(Occupied(c)) \in Nat
          BY <1>1, FiniteSlots
        <5>2. /\ IsFiniteSet(More)
              /\ Cardinality(More) = IF job[r].id \in Occupied(c)
                                     THEN Cardinality(Occupied(c))
                                     ELSE Cardinality(Occupied(c)) + 1
          BY <5>1, FS_AddElement
        <5> QED
          BY <5>1, <5>2
      <4>2. Cardinality(More) \in Nat
        BY <4>1, FS_CardinalityType
      <4> HIDE DEF More
      <4>3. Occupied(c)' \in SUBSET More
        BY <3>2 DEF More
      <4>4. Cardinality(Occupied(c)') \in Nat /\ Cardinality(Occupied(c)') <= Cardinality(More)
        BY <4>1, <4>3, FS_Subset, FS_CardinalityType
      <4> QED
        BY <1>1, <4>1, <4>2, <4>4, FiniteSlots
    <3>4. Cardinality(Admitted(c)') = Cardinality(Admitted(c)) - 1
      BY <1>1, <2>2, <2>5, FiniteSlots, FS_RemoveElement
    <3>5. Cardinality(Occupied(c)') + Cardinality(Admitted(c)')
             <= maxAnonSessions + Cardinality(Requests) - 1
      BY <1>1, <3>3, <3>4, FiniteSlots DEF Bounded, maxAnonSessions
    <3> QED
      BY <3>5 DEF Bounded
  <2>6. CASE r \notin Admitted(c)
    <3>1. job[r].copy.owner # c \/ job[r].copy.clone
      BY <2>1, <2>6 DEF Admitted
    <3>2. Created(c)' \subseteq Created(c)
      BY <1>2, <2>1, <3>1 DEF Created, Owned
    <3> QED
      BY <1>1, <2>2, <2>4, <3>2, FewerSlots DEF Occupied
  <2> QED
    BY <2>5, <2>6
<1>8. CASE BeginStart(r)
  <2> PICK i \in Ids : Begin(r, "starting", [id |-> i, copy |-> sessions[i]])
    BY <1>8 DEF BeginStart
  <2>1. /\ pc[r] = "idle" /\ sessions' = sessions
        /\ \A q \in Requests \ {r} : pc'[q] = pc[q] /\ job'[q] = job[q]
        /\ pc'[r] = "starting" /\ job'[r].id = i /\ job'[r].copy = sessions[i]
    BY <1>2 DEF Begin
  <2>2. Admitted(c)' \subseteq Admitted(c)
    BY <2>1 DEF Admitted
  <2>3. r \in Starters(c)' => i \in Created(c)
    BY <2>1 DEF Starters, Created, Owned
  <2>4. Starters(c)' \subseteq Starters(c) \cup {r}
    BY <2>1 DEF Starters
  <2>5. StartIds(c)' \subseteq StartIds(c) \cup Created(c)
    BY <2>1, <2>3, <2>4 DEF StartIds, Starters
  <2>6. Created(c)' = Created(c)
    BY <2>1 DEF Created, Owned
  <2> QED
    BY <1>1, <2>2, <2>5, <2>6, FewerSlots DEF Occupied
<1>9. CASE FinishStart(r)
  <2>1. /\ pc[r] = "starting" /\ pc'[r] = "idle"
        /\ \/ sessions' = [sessions EXCEPT ![job[r].id] = [job[r].copy EXCEPT !.active = TRUE]]
           \/ sessions' = sessions
        /\ \A q \in Requests \ {r} : pc'[q] = pc[q] /\ job'[q] = job[q]
    BY <1>2, <1>9 DEF FinishStart, Return
  <2>2. Admitted(c)' \subseteq Admitted(c)
    BY <2>1 DEF Admitted
  <2>3. Starters(c)' = Starters(c) \ {r}
    BY <2>1 DEF Starters
  <2>4. StartIds(c)' \subseteq StartIds(c)
    BY <2>1, <2>3 DEF StartIds, Starters
  <2>5. [job[r].copy EXCEPT !.active = TRUE].owner = job[r].copy.owner
        /\ [job[r].copy EXCEPT !.active = TRUE].clone = job[r].copy.clone
    BY <1>2 DEF Session
  <2>6. job[r].copy.owner = c /\ ~job[r].copy.clone => job[r].id \in StartIds(c)
    BY <2>1 DEF StartIds, Starters
  <2>7. Created(c)' \subseteq Created(c) \cup StartIds(c)
    BY <1>2, <2>1, <2>5, <2>6 DEF Created, Owned
  <2> QED
    BY <1>1, <2>2, <2>4, <2>7, FewerSlots DEF Occupied
<1>10. CASE UploadBinary(r) \/ DeleteBinary(r)
  BY <1>3, <1>10 DEF UploadBinary, DeleteBinary
<1> QED
  BY <1>4, <1>5, <1>6, <1>7, <1>8, <1>9, <1>10 DEF Handle

LEMMA QuotaStep == QuotaInv /\ [Next]_vars => QuotaInv'
<1> SUFFICES ASSUME QuotaInv, [Next]_vars, NEW c \in Anons PROVE Bounded(c)'
  BY AdmissionTypeStep DEF QuotaInv
<1>1. TypeOK /\ TypeOK' /\ Bounded(c) /\ c # NoCaller
  BY AdmissionTypeStep, CallersAssumption DEF QuotaInv, Callers
<1>2. sessions \in [Ids -> Session]
  BY <1>1 DEF TypeOK
<1>3. CASE \E r \in Requests : Handle(r)
  BY <1>1, <1>3, QuotaHandle
<1>4. CASE StopSession \/ DropSession \/ Tick \/ UNCHANGED vars
  <2>1. pc' = pc /\ job' = job
    BY <1>4 DEF StopSession, DropSession, Tick, vars
  <2>2. Admitted(c)' = Admitted(c) /\ StartIds(c)' = StartIds(c)
    BY <2>1 DEF Admitted, StartIds, Starters
  <2>3. \A i \in Ids : \/ sessions'[i] = NoSession
                       \/ /\ sessions'[i].owner = sessions[i].owner
                          /\ sessions'[i].clone = sessions[i].clone
    BY <1>2, <1>4 DEF StopSession, DropSession, Tick, vars, Session
  <2>4. Created(c)' \subseteq Created(c)
    BY <1>1, <2>3 DEF Created, Owned, NoSession
  <2> QED
    BY <1>1, <2>2, <2>4, FewerSlots DEF Occupied
<1> QED
  BY <1>3, <1>4 DEF Next

(* However creations race with each other and with starts that bring back  *)
(* deleted sessions, an anonymous caller exceeds the quota by at most one  *)
(* session per further request slot, for any number of them.               *)
THEOREM QuotaOvershootIsBounded == Spec => []OvershootBounded
<1>1. QuotaInv => OvershootBounded
  <2> SUFFICES ASSUME QuotaInv, NEW c \in Anons
               PROVE  Cardinality(Created(c)) + Cardinality(Admitted(c))
                         <= maxAnonSessions + Cardinality(Requests) - 1
    BY DEF OvershootBounded
  <2>1. TypeOK /\ Bounded(c) /\ Created(c) \subseteq Occupied(c)
    BY DEF QuotaInv, Occupied
  <2>2. Cardinality(Created(c)) <= Cardinality(Occupied(c))
    BY <2>1, FiniteSlots, FS_Subset
  <2> QED
    BY <2>1, <2>2, FiniteSlots DEF Bounded, maxAnonSessions
<1> QED
  BY <1>1, QuotaInit, QuotaStep, PTL DEF Spec

=============================================================================
