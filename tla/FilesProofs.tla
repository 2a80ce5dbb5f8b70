------------------------------ MODULE FilesProofs ------------------------------
(***************************************************************************)
(* Theorems about Captures and Uploads, for any sets of sessions, uploads, *)
(* handlers and faults.                                                    *)
(***************************************************************************)
EXTENDS Uploads, Captures, TLAPS

-----------------------------------------------------------------------------
(* Captures: types.  A handler that is busy carries a session and a file.  *)

CarriesFile == \A h \in Handlers : at[h] # "idle" => carried[h] \in [id : Ids, file : Ids]
CapturesTyped == CapturesTypeOK /\ CarriesFile

LEMMA CapturesTypedInit == CapturesInit => CapturesTyped
<1> USE DEF CapturesInit, Holders, Carried, Nothing, Resting, Swept
<1>1. CapturesInit => CarriesFile
  BY DEF CarriesFile
<1>2. CapturesInit => CapturesTypeOK
  BY CrashesAssumption DEF CapturesTypeOK
<1> QED
  BY <1>1, <1>2 DEF CapturesTyped

(* What a handler takes up keeps the types. *)
LEMMA CarryTyped ==
    ASSUME CapturesTyped, NEW h \in Handlers, NEW i \in Ids, NEW p \in Ids,
           NEW next \in {"insert", "start", "forget"}, Carry(h, next, i, p)
    PROVE  /\ at' \in [Handlers -> {"idle", "insert", "start", "forget", "save", "clean"}]
           /\ carried' \in [Handlers -> Carried]
           /\ CarriesFile'
  BY DEF CapturesTyped, CapturesTypeOK, CarriesFile, Carry, Proceed, Carried

LEMMA DoneTyped ==
    ASSUME CapturesTyped, NEW h \in Handlers, Done(h)
    PROVE  /\ at' \in [Handlers -> {"idle", "insert", "start", "forget", "save", "clean"}]
           /\ carried' \in [Handlers -> Carried]
           /\ CarriesFile'
  BY DEF CapturesTyped, CapturesTypeOK, CarriesFile, Done, Proceed, Carried, Nothing

LEMMA WriteTyped ==
    ASSUME CapturesTyped, NEW h \in Handlers, Write(h)
    PROVE  holder' \in Holders /\ store' \in Holders
  BY DEF CapturesTyped, CapturesTypeOK, Write, Carried, Holders

LEMMA DiscardTyped ==
    ASSUME CapturesTyped, NEW ps, Discard(ps)
    PROVE  captures' \subseteq Ids /\ aged' \subseteq captures'
  BY DEF CapturesTyped, CapturesTypeOK, Discard

LEMMA HandlerTyped ==
    ASSUME CapturesTyped, NEW h \in Handlers, Handler(h)
    PROVE  CapturesTyped'
<1> USE DEF CapturesTyped, CapturesTypeOK
<1>1. ASSUME NEW i \in Ids, holder[i] # NoCapture
      PROVE  holder[i] \in Ids
  BY <1>1 DEF Holders
<1>2. CASE AcceptNew(h)
  BY <1>2, CarryTyped DEF AcceptNew
<1>3. CASE AcceptClone(h)
  BY <1>3, <1>1, CarryTyped DEF AcceptClone
<1>4. CASE Insert(h)
  BY <1>4, WriteTyped, DoneTyped DEF Insert, Write
<1>5. CASE ReadForStart(h)
  BY <1>5, <1>1, CarryTyped DEF ReadForStart
<1>6. CASE LaunchCapture(h)
  <2>1. carried[h].file \in Ids
    BY <1>6 DEF LaunchCapture, CarriesFile
  <2>2. captures' \subseteq Ids /\ aged' \subseteq captures'
    BY <1>6, <2>1 DEF LaunchCapture
  <2>3. holder' \in Holders /\ store' \in Holders
    BY <1>6, WriteTyped DEF LaunchCapture
  <2>4. Done(h)
    BY <1>6 DEF LaunchCapture, Write
  <2> QED
    BY <1>6, <2>2, <2>3, <2>4, DoneTyped DEF LaunchCapture
<1>7. CASE ReadForDelete(h)
  BY <1>7, <1>1, CarryTyped DEF ReadForDelete
<1>8. CASE Forget(h)
  <2>1. carried[h].file \in Ids
    BY <1>8 DEF Forget, CarriesFile
  <2> QED
    BY <1>8, <2>1 DEF Forget, Proceed, Holders, CarriesFile
<1>9. CASE SaveForgotten(h)
  BY <1>9 DEF SaveForgotten, Proceed, CarriesFile
<1>10. CASE CleanCapture(h)
  BY <1>10, DiscardTyped, DoneTyped DEF CleanCapture
<1> QED
  BY <1>2, <1>3, <1>4, <1>5, <1>6, <1>7, <1>8, <1>9, <1>10 DEF Handler

LEMMA WorkerTyped ==
    ASSUME CapturesTyped,
           PruneForget \/ PruneSave \/ PruneClean \/ Sweep \/ Age \/ CrashServer
    PROVE  CapturesTyped'
<1> USE DEF CapturesTyped, CapturesTypeOK
<1>1. CASE PruneForget
  <2> PICK expired \in SUBSET {i \in Ids : holder[i] # NoCapture} :
        /\ pruner' = [at |-> "save", paths |-> {holder[i] : i \in expired}]
        /\ dropped' = dropped \cup pruner'.paths
        /\ holder' = [i \in Ids |-> IF i \in expired THEN NoCapture ELSE holder[i]]
    BY <1>1 DEF PruneForget
  <2>1. {holder[i] : i \in expired} \subseteq Ids
    BY DEF Holders
  <2> QED
    BY <1>1, <2>1 DEF PruneForget, Holders, CarriesFile
<1>2. CASE PruneSave
  BY <1>2 DEF PruneSave, CarriesFile
<1>3. CASE PruneClean
  BY <1>3, DiscardTyped DEF PruneClean, CarriesFile, Resting
<1>4. CASE SweepList
  BY <1>4 DEF SweepList, Swept, CarriesFile
<1>5. CASE SweepActive
  <2>1. ActivePaths \in SUBSET Ids
    BY DEF ActivePaths, Holders
  <2> QED
    BY <1>5, <2>1 DEF SweepActive, CarriesFile
<1>6. CASE SweepFile
  <2>1. captures' \subseteq Ids /\ aged' \subseteq captures'
    BY <1>6, DiscardTyped DEF SweepFile
  <2>2. sweeper' \in [at : {"idle", "active", "remove"},
                      entries : SUBSET Ids, active : SUBSET Ids]
    <3>1. CASE Candidates = {}
      BY <1>6, <3>1 DEF SweepFile, Swept
    <3>2. CASE Candidates # {}
      <4> PICK p \in Candidates : sweeper' = [sweeper EXCEPT !.active = @ \cup {p}]
        BY <1>6, <3>2 DEF SweepFile
      <4>1. sweeper.active \cup {p} \in SUBSET Ids
        BY DEF Candidates
      <4> QED
        BY <4>1
    <3> QED
      BY <3>1, <3>2
  <2> QED
    BY <1>6, <2>1, <2>2 DEF SweepFile, CarriesFile
<1>7. CASE Age
  BY <1>7 DEF Age, CarriesFile
<1>8. CASE CrashServer
  <2>1. crashes' \in 0 .. MaxCrashes
    BY <1>8, CrashesAssumption DEF CrashServer
  <2>2. at' = [h \in Handlers |-> "idle"] /\ carried' = [h \in Handlers |-> Nothing]
    BY <1>8 DEF CrashServer
  <2>3. Nothing \in Carried
    BY DEF Nothing, Carried
  <2>4. CarriesFile'
    BY <2>2 DEF CarriesFile
  <2>5. at' \in [Handlers -> {"idle", "insert", "start", "forget", "save", "clean"}]
    BY <2>2
  <2>6. carried' \in [Handlers -> Carried]
    BY <2>2, <2>3
  <2> QED
    BY <1>8, <2>1, <2>4, <2>5, <2>6 DEF CrashServer, Resting, Swept
<1> QED
  BY <1>1, <1>2, <1>3, <1>4, <1>5, <1>6, <1>7, <1>8 DEF Sweep

LEMMA CapturesTypedStep ==
    CapturesTyped /\ [CapturesNext]_capVars => CapturesTyped'
<1>1. CASE UNCHANGED capVars
  BY <1>1 DEF capVars, CapturesTyped, CapturesTypeOK, CarriesFile
<1> QED
  BY <1>1, HandlerTyped, WorkerTyped DEF CapturesNext

(* Every reachable state of Captures is well typed. *)
THEOREM CapturesTypeCorrect == CapturesSpec => []CapturesTypeOK
<1>1. CapturesTyped => CapturesTypeOK
  BY DEF CapturesTyped
<1> QED
  BY <1>1, CapturesTypedInit, CapturesTypedStep, PTL DEF CapturesSpec

-----------------------------------------------------------------------------
(* Captures: the sweep.  A capture is accounted for when a session points  *)
(* to it or one that did was deleted; what is accounted for stays so, since *)
(* a crash brings sessions back but loses none (Kept), and a write-back or *)
(* deletion finds under its id the file it carries or nothing (Agrees).    *)

Accountable(p) == Held(p) \/ p \in dropped

Kept == \A i \in Ids : holder[i] # NoCapture => store[i] = holder[i]

Minted ==
    /\ \A i \in Ids : holder[i] # NoCapture \/ store[i] # NoCapture => i \in minted
    /\ \A h \in Handlers : at[h] # "idle" => carried[h].id \in minted

(* The id a handler is about to insert is new to everybody else. *)
New ==
    \A h \in Handlers : at[h] = "insert" =>
        /\ holder[carried[h].id] = NoCapture
        /\ \A g \in Handlers \ {h} : at[g] # "idle" => carried[g].id # carried[h].id

Agrees ==
    \A h \in Handlers : at[h] # "idle" =>
        /\ holder[carried[h].id] \in {carried[h].file, NoCapture}
        /\ \A g \in Handlers : at[g] # "idle" /\ carried[g].id = carried[h].id
                                 => carried[g].file = carried[h].file

(* Nothing is in the directory, or on its way out of it, that is not       *)
(* accounted for.                                                          *)
Accounts ==
    /\ \A p \in captures : Accountable(p)
    /\ \A h \in Handlers :
          /\ at[h] = "start" => Accountable(carried[h].file)
          /\ at[h] \in {"save", "clean"} => carried[h].file \in dropped
    /\ pruner.at # "idle" => pruner.paths \subseteq dropped
    /\ sweeper.at = "active" => \A p \in sweeper.entries : Accountable(p)
    /\ sweeper.at = "remove" => sweeper.entries \ sweeper.active \subseteq dropped

KeptInv == CapturesTyped /\ Kept /\ Minted /\ New /\ Agrees /\ Accounts

LEMMA KeptInit == CapturesInit => KeptInv
<1> SUFFICES ASSUME CapturesInit PROVE KeptInv
  OBVIOUS
<1>1. CapturesTyped
  BY CapturesTypedInit
<1> QED
  BY <1>1 DEF CapturesInit, KeptInv, Kept, Minted, New, Agrees, Accounts, Resting, Swept

(* Reading a session, or minting the id of a new one, changes neither map. *)
LEMMA KeptCarry ==
    ASSUME KeptInv, NEW h \in Handlers, NEW i \in Ids, NEW p \in Ids,
           NEW next \in {"insert", "start", "forget"}, Carry(h, next, i, p),
           minted' \in {minted, minted \cup {i}},
           UNCHANGED <<captures, holder, store, pruner, sweeper, dropped>>,
           \/ next = "insert" /\ i \notin minted /\ i \in minted'
           \/ next # "insert" /\ holder[i] = p
    PROVE  Kept' /\ Minted' /\ New' /\ Agrees' /\ Accounts'
<1> USE DEF KeptInv
<1>1. /\ at \in [Handlers -> {"idle", "insert", "start", "forget", "save", "clean"}]
      /\ carried \in [Handlers -> Carried]
      /\ holder \in [Ids -> Ids \cup {NoCapture}]
  BY DEF CapturesTyped, CapturesTypeOK, Holders
<1>2. /\ at[h] = "idle" /\ at' = [at EXCEPT ![h] = next]
      /\ carried' = [carried EXCEPT ![h] = [id |-> i, file |-> p]]
  BY DEF Carry, Proceed
<1>3. /\ \A g \in Handlers \ {h} : at'[g] = at[g] /\ carried'[g] = carried[g]
      /\ at'[h] = next /\ carried'[h].id = i /\ carried'[h].file = p
  BY <1>1, <1>2
<1>4. i \in minted' /\ minted \subseteq minted'
  BY NoCaptureAssumption DEF Minted
<1>5. \A g \in Handlers : at[g] # "idle" => carried[g].id \in Ids
  BY DEF CapturesTyped, CarriesFile
<1>6. i \notin minted =>
         /\ holder[i] = NoCapture
         /\ \A g \in Handlers : at[g] # "idle" => carried[g].id # i
  BY DEF Minted
<1>7. holder[i] = p =>
         \A g \in Handlers : at[g] # "idle" /\ carried[g].id = i =>
            at[g] # "insert" /\ carried[g].file = p
  BY NoCaptureAssumption DEF New, Agrees
<1>8. Kept'
  BY DEF Kept
<1>9. Minted'
  BY <1>3, <1>4 DEF Minted
<1>10. New'
  BY <1>3, <1>5, <1>6, <1>7 DEF New
<1>11. Agrees'
  BY <1>3, <1>5, <1>6, <1>7 DEF Agrees
<1>12. Accounts'
  <2>1. \A q : Accountable(q)' <=> Accountable(q)
    BY DEF Accountable, Held
  <2>2. next = "start" => Accountable(p)
    BY DEF Accountable, Held
  <2> QED
    BY <1>3, <2>1, <2>2 DEF Accounts
<1> QED
  BY <1>8, <1>9, <1>10, <1>11, <1>12

(* A write-back puts under its id the file it carries, over nothing else,  *)
(* and the store takes the map.                                            *)
LEMMA KeptWrite ==
    ASSUME KeptInv, NEW h \in Handlers, at[h] \in {"insert", "start"}, Write(h)
    PROVE  /\ Kept' /\ (minted' = minted => Minted') /\ New' /\ Agrees'
           /\ \A p \in Ids : Held(p) => Held(p)'
           /\ at' = [at EXCEPT ![h] = "idle"]
<1> USE DEF KeptInv
<1>1. /\ at \in [Handlers -> {"idle", "insert", "start", "forget", "save", "clean"}]
      /\ carried \in [Handlers -> Carried]
      /\ holder \in [Ids -> Ids \cup {NoCapture}]
      /\ carried[h].id \in Ids /\ carried[h].file \in Ids
  BY DEF CapturesTyped, CapturesTypeOK, CarriesFile, Holders
<1>2. /\ holder' = [holder EXCEPT ![carried[h].id] = carried[h].file]
      /\ store' = holder'
      /\ at' = [at EXCEPT ![h] = "idle"]
      /\ carried' = [carried EXCEPT ![h] = Nothing]
  BY DEF Write, Done, Proceed
<1>3. \A g \in Handlers \ {h} : at'[g] = at[g] /\ carried'[g] = carried[g]
  BY <1>1, <1>2
<1>4. at'[h] = "idle"
  BY <1>1, <1>2
<1>5. holder[carried[h].id] \in {carried[h].file, NoCapture}
  BY DEF Agrees
<1>6. \A g \in Handlers \ {h} : at[g] # "idle" /\ carried[g].id = carried[h].id
         => at[g] # "insert" /\ carried[g].file = carried[h].file
  BY DEF New, Agrees
<1>7. \A j \in Ids : j # carried[h].id => holder'[j] = holder[j]
  BY <1>1, <1>2
<1>8. holder'[carried[h].id] = carried[h].file
  BY <1>1, <1>2
<1>9. Kept'
  BY <1>2 DEF Kept
<1>10. minted' = minted => Minted'
  BY <1>2, <1>3, <1>4, <1>7, <1>8 DEF Minted
<1>11. \A g \in Handlers : at[g] # "idle" => carried[g].id \in Ids
  BY DEF CapturesTyped, CarriesFile
<1>12. New'
  BY <1>3, <1>4, <1>6, <1>7, <1>11 DEF New
<1>13. Agrees'
  BY <1>3, <1>4, <1>6, <1>7, <1>8, <1>11 DEF Agrees
<1>14. \A p \in Ids : Held(p) => Held(p)'
  BY <1>1, <1>5, <1>7, <1>8, NoCaptureAssumption DEF Held
<1> QED
  BY <1>2, <1>9, <1>10, <1>12, <1>13, <1>14

LEMMA KeptHandler ==
    ASSUME KeptInv, NEW h \in Handlers, Handler(h)
    PROVE  Kept' /\ Minted' /\ New' /\ Agrees' /\ Accounts'
<1> USE DEF KeptInv
<1>1. /\ at \in [Handlers -> {"idle", "insert", "start", "forget", "save", "clean"}]
      /\ carried \in [Handlers -> Carried]
      /\ holder \in [Ids -> Ids \cup {NoCapture}]
      /\ captures \subseteq Ids /\ minted \subseteq Ids
      /\ \A g \in Handlers : at[g] # "idle" => carried[g].id \in Ids /\ carried[g].file \in Ids
  BY DEF CapturesTyped, CapturesTypeOK, CarriesFile, Holders
<1>2. CASE AcceptNew(h)
  BY <1>2, KeptCarry DEF AcceptNew
<1>3. CASE AcceptClone(h)
  <2> PICK i \in Ids \ minted, old \in Ids :
         /\ holder[old] # NoCapture
         /\ Carry(h, "insert", i, holder[old])
         /\ minted' = minted \cup {i}
    BY <1>3 DEF AcceptClone
  <2>1. holder[old] \in Ids
    BY <1>1
  <2> QED
    BY <1>3, <2>1, KeptCarry DEF AcceptClone
<1>4. CASE ReadForStart(h)
  <2> PICK i \in Ids : holder[i] # NoCapture /\ Carry(h, "start", i, holder[i])
    BY <1>4 DEF ReadForStart
  <2>1. holder[i] \in Ids
    BY <1>1
  <2> QED
    BY <1>4, <2>1, KeptCarry DEF ReadForStart
<1>5. CASE ReadForDelete(h)
  <2> PICK i \in Ids : holder[i] # NoCapture /\ Carry(h, "forget", i, holder[i])
    BY <1>5 DEF ReadForDelete
  <2>1. holder[i] \in Ids
    BY <1>1
  <2> QED
    BY <1>5, <2>1, KeptCarry DEF ReadForDelete
<1>6. CASE Insert(h)
  <2>1. /\ Kept' /\ Minted' /\ New' /\ Agrees'
        /\ \A p \in Ids : Held(p) => Held(p)'
        /\ at' = [at EXCEPT ![h] = "idle"]
    BY <1>6, KeptWrite DEF Insert
  <2>2. \A p \in Ids : Accountable(p) => Accountable(p)'
    BY <1>6, <2>1 DEF Insert, Accountable
  <2>3. \A g \in Handlers : at'[g] # "idle" => at'[g] = at[g] /\ carried'[g] = carried[g]
    BY <1>1, <1>6, <2>1 DEF Insert, Write, Done
  <2>4. sweeper.entries \subseteq Ids
    BY DEF CapturesTyped, CapturesTypeOK
  <2>5. Accounts'
    BY <1>1, <1>6, <2>2, <2>3, <2>4 DEF Insert, Accounts
  <2> QED
    BY <2>1, <2>5
<1>7. CASE LaunchCapture(h)
  <2>1. \/ /\ Kept' /\ Minted' /\ New' /\ Agrees'
           /\ \A p \in Ids : Held(p) => Held(p)'
        \/ Done(h) /\ UNCHANGED <<holder, store>>
    BY <1>7, KeptWrite DEF LaunchCapture
  <2>2. Done(h)
    BY <1>7 DEF LaunchCapture, Write
  <2>3. \A g \in Handlers : at'[g] # "idle" => at'[g] = at[g] /\ carried'[g] = carried[g]
    BY <1>1, <2>2 DEF Done, Proceed
  <2>4. Kept' /\ Minted' /\ New' /\ Agrees'
    BY <1>7, <2>1, <2>3 DEF LaunchCapture, Kept, Minted, New, Agrees
  <2>5. \A p \in Ids : Accountable(p) => Accountable(p)'
    BY <1>7, <2>1 DEF LaunchCapture, Accountable, Held
  <2>6. captures' \subseteq captures \cup {carried[h].file}
    BY <1>7 DEF LaunchCapture
  <2>7. Accountable(carried[h].file) /\ carried[h].file \in Ids
    BY <1>1, <1>7 DEF LaunchCapture, Accounts
  <2>8. sweeper.entries \subseteq Ids
    BY DEF CapturesTyped, CapturesTypeOK
  <2>9. \A p \in captures' : Accountable(p)'
    BY <1>1, <2>5, <2>6, <2>7 DEF Accounts
  <2>10. Accounts'
    BY <1>1, <1>7, <2>3, <2>5, <2>8, <2>9 DEF LaunchCapture, Accounts
  <2> QED
    BY <2>4, <2>10
<1>8. CASE Forget(h)
  <2>1. /\ at[h] = "forget"
        /\ holder' = [holder EXCEPT ![carried[h].id] = NoCapture]
        /\ dropped' = dropped \cup {carried[h].file}
        /\ at' = [at EXCEPT ![h] = "save"]
        /\ UNCHANGED <<captures, store, minted, carried, pruner, sweeper>>
    BY <1>8 DEF Forget, Proceed
  <2>2. carried[h].id \in Ids /\ holder[carried[h].id] \in {carried[h].file, NoCapture}
    BY <1>1, <2>1 DEF Agrees
  <2>3. \A p \in Ids : Accountable(p) => Accountable(p)'
    BY <1>1, <2>1, <2>2, NoCaptureAssumption DEF Accountable, Held
  <2>4. \A j \in Ids : holder'[j] \in {holder[j], NoCapture}
    BY <1>1, <2>1
  <2>5. \A g \in Handlers : IF g = h THEN at'[g] = "save" ELSE at'[g] = at[g]
    BY <1>1, <2>1
  <2>6. Kept' /\ Minted'
    BY <1>1, <2>1, <2>4, <2>5 DEF Kept, Minted
  <2>7. New' /\ Agrees'
    BY <1>1, <2>1, <2>4, <2>5 DEF New, Agrees
  <2>8. sweeper.entries \subseteq Ids
    BY DEF CapturesTyped, CapturesTypeOK
  <2>9. \A g \in Handlers :
          /\ at'[g] = "start" => Accountable(carried[g].file)'
          /\ at'[g] \in {"save", "clean"} => carried'[g].file \in dropped'
    <3> TAKE g \in Handlers
    <3>1. CASE g = h
      BY <3>1, <2>1, <2>5
    <3>2. CASE g # h
      <4>1. at'[g] = at[g] /\ carried' = carried /\ dropped \subseteq dropped'
        BY <3>2, <2>1, <2>5
      <4>2. at[g] = "start" => carried[g].file \in Ids /\ Accountable(carried[g].file)
        BY <1>1 DEF Accounts
      <4>3. at[g] = "start" => Accountable(carried[g].file)'
        BY <4>1, <4>2, <2>3
      <4>4. at[g] \in {"save", "clean"} => carried[g].file \in dropped
        BY DEF Accounts
      <4> QED
        BY <4>1, <4>3, <4>4
    <3> QED
      BY <3>1, <3>2
  <2>10. \A p \in captures' : Accountable(p)'
    BY <1>1, <2>1, <2>3 DEF Accounts
  <2>11. Accounts'
    BY <1>1, <2>1, <2>3, <2>8, <2>9, <2>10 DEF Accounts
  <2> QED
    BY <2>6, <2>7, <2>11
<1>9. CASE SaveForgotten(h)
  <2>1. /\ at[h] = "save" /\ at' = [at EXCEPT ![h] = "clean"]
        /\ store' = holder
        /\ UNCHANGED <<captures, holder, minted, carried, pruner, sweeper, dropped>>
    BY <1>9 DEF SaveForgotten, Proceed
  <2>2. \A g \in Handlers : IF g = h THEN at[g] = "save" /\ at'[g] = "clean"
                                      ELSE at'[g] = at[g]
    BY <1>1, <2>1
  <2>3. \A p : Accountable(p)' <=> Accountable(p)
    BY <2>1 DEF Accountable, Held
  <2>4. Accounts'
    BY <2>1, <2>2, <2>3 DEF Accounts
  <2>5. Kept'
    BY <2>1 DEF Kept
  <2>6. \A g \in Handlers : at'[g] # "idle" => at[g] # "idle"
    BY <2>2
  <2>7. \A i \in Ids : holder[i] # NoCapture => i \in minted
    BY DEF Minted
  <2>8. Minted'
    BY <2>1, <2>6, <2>7 DEF Minted
  <2>9. New' /\ Agrees'
    BY <2>1, <2>2 DEF New, Agrees
  <2> QED
    BY <2>4, <2>5, <2>8, <2>9
<1>10. CASE CleanCapture(h)
  <2>1. /\ at[h] = "clean" /\ Discard({carried[h].file}) /\ Done(h)
        /\ UNCHANGED <<holder, store, minted, pruner, sweeper, dropped>>
    BY <1>10 DEF CleanCapture
  <2>2. \A g \in Handlers : at'[g] # "idle" => at'[g] = at[g] /\ carried'[g] = carried[g]
    BY <1>1, <2>1 DEF Done, Proceed
  <2>3. \A p : Accountable(p)' <=> Accountable(p)
    BY <2>1 DEF Accountable, Held
  <2>4. Accounts'
    BY <2>1, <2>2, <2>3 DEF Accounts, Discard
  <2> QED
    BY <2>1, <2>2, <2>4 DEF Kept, Minted, New, Agrees
<1> QED
  BY <1>2, <1>3, <1>4, <1>5, <1>6, <1>7, <1>8, <1>9, <1>10 DEF Handler, KeptInv

(* What a worker does leaves the handlers alone, or (a crash) ends them. *)
LEMMA KeptWorker ==
    ASSUME KeptInv,
           PruneForget \/ PruneSave \/ PruneClean \/ Sweep \/ Age \/ CrashServer
    PROVE  Kept' /\ Minted' /\ New' /\ Agrees' /\ Accounts'
<1> USE DEF KeptInv
<1>1. /\ holder \in [Ids -> Ids \cup {NoCapture}] /\ store \in [Ids -> Ids \cup {NoCapture}]
      /\ captures \subseteq Ids
      /\ sweeper \in [at : {"idle", "active", "remove"},
                      entries : SUBSET Ids, active : SUBSET Ids]
      /\ pruner \in [at : {"idle", "save", "clean"}, paths : SUBSET Ids]
      /\ \A g \in Handlers : at[g] # "idle" => carried[g].id \in Ids /\ carried[g].file \in Ids
  BY DEF CapturesTyped, CapturesTypeOK, CarriesFile, Holders
<1>2. CASE PruneForget
  <2> PICK expired \in SUBSET {i \in Ids : holder[i] # NoCapture} :
        /\ pruner' = [at |-> "save", paths |-> {holder[i] : i \in expired}]
        /\ dropped' = dropped \cup pruner'.paths
        /\ holder' = [i \in Ids |-> IF i \in expired THEN NoCapture ELSE holder[i]]
        /\ UNCHANGED <<captures, store, minted, at, carried, sweeper>>
    BY <1>2 DEF PruneForget
  <2>1. \A j \in Ids : holder'[j] \in {holder[j], NoCapture}
    OBVIOUS
  <2>2. \A p \in Ids : Accountable(p) => Accountable(p)'
    BY NoCaptureAssumption DEF Accountable, Held
  <2>3. Kept' /\ Minted'
    BY <1>1, <2>1 DEF Kept, Minted
  <2>4. New' /\ Agrees'
    BY <1>1, <2>1 DEF New, Agrees
  <2>5. \A p \in captures' : Accountable(p)'
    BY <1>1, <2>2 DEF Accounts
  <2>6. Accounts'
    BY <1>1, <2>2, <2>5 DEF Accounts
  <2> QED
    BY <2>3, <2>4, <2>6
<1>3. CASE CrashServer
  <2>1. /\ holder' = store /\ pruner' = Resting /\ sweeper' = Swept
        /\ \A g \in Handlers : at'[g] = "idle"
        /\ UNCHANGED <<captures, store, minted, dropped>>
    BY <1>3 DEF CrashServer
  <2>2. \A p \in Ids : Accountable(p) => Accountable(p)'
    BY <1>1, <2>1, NoCaptureAssumption DEF Accountable, Held, Kept
  <2>3. \A p \in captures' : Accountable(p)'
    BY <1>1, <2>1, <2>2 DEF Accounts
  <2>4. Accounts'
    BY <2>1, <2>3 DEF Accounts, Resting, Swept
  <2>5. Kept' /\ Minted' /\ New' /\ Agrees'
    BY <1>1, <2>1 DEF Kept, Minted, New, Agrees
  <2> QED
    BY <2>4, <2>5
<1>4. ASSUME UNCHANGED <<holder, minted, at, carried, dropped>>, store' \in {store, holder},
             Accounts'
      PROVE  Kept' /\ Minted' /\ New' /\ Agrees' /\ Accounts'
  <2>1. Kept' /\ Minted'
    BY <1>4 DEF Kept, Minted
  <2>2. New' /\ Agrees'
    BY <1>4 DEF New, Agrees
  <2> QED
    BY <1>4, <2>1, <2>2
<1>5. ASSUME UNCHANGED <<holder, dropped>>
      PROVE  \A p : Accountable(p)' <=> Accountable(p)
  BY <1>5 DEF Accountable, Held
<1>6. CASE PruneSave
  <2>1. Accounts'
    BY <1>1, <1>5, <1>6 DEF PruneSave, Accounts
  <2> QED
    BY <1>4, <1>6, <2>1 DEF PruneSave
<1>7. CASE PruneClean
  <2>1. Accounts'
    BY <1>1, <1>5, <1>7 DEF PruneClean, Accounts, Discard, Resting
  <2> QED
    BY <1>4, <1>7, <2>1 DEF PruneClean
<1>8. CASE SweepList
  <2>1. Accounts'
    BY <1>1, <1>5, <1>8 DEF SweepList, Accounts, Swept
  <2> QED
    BY <1>4, <1>8, <2>1 DEF SweepList
<1>9. CASE SweepActive
  <2>1. sweeper'.entries = sweeper.entries /\ sweeper'.active = ActivePaths
        /\ sweeper'.at = "remove"
    BY <1>1, <1>9 DEF SweepActive
  <2>2. \A p \in Ids : Held(p) => p \in ActivePaths
    BY NoCaptureAssumption DEF Held, ActivePaths
  <2>3. sweeper'.entries \ sweeper'.active \subseteq dropped
    BY <1>1, <1>9, <2>1, <2>2 DEF SweepActive, Accounts, Accountable
  <2>4. Accounts'
    BY <1>5, <1>9, <2>1, <2>3 DEF SweepActive, Accounts
  <2> QED
    BY <1>4, <1>9, <2>4 DEF SweepActive
<1>10. CASE SweepFile
  <2>1. captures' \subseteq captures
    BY <1>10 DEF SweepFile, Discard
  <2>2. sweeper' = Swept
        \/ /\ sweeper'.at = "remove" /\ sweeper'.entries = sweeper.entries
           /\ sweeper.active \subseteq sweeper'.active
    <3>1. CASE Candidates = {}
      BY <1>10, <3>1 DEF SweepFile
    <3>2. CASE Candidates # {}
      <4> PICK p \in Candidates : sweeper' = [sweeper EXCEPT !.active = @ \cup {p}]
        BY <1>10, <3>2 DEF SweepFile
      <4> QED
        BY <1>1, <1>10 DEF SweepFile
    <3> QED
      BY <3>1, <3>2
  <2>3. Accounts'
    BY <1>5, <1>10, <2>1, <2>2 DEF SweepFile, Accounts, Swept
  <2> QED
    BY <1>4, <1>10, <2>3 DEF SweepFile
<1>11. CASE Age
  <2>1. Accounts'
    BY <1>5, <1>11 DEF Age, Accounts
  <2> QED
    BY <1>4, <1>11, <2>1 DEF Age
<1> QED
  BY <1>2, <1>3, <1>6, <1>7, <1>8, <1>9, <1>10, <1>11 DEF Sweep

LEMMA KeptStep == KeptInv /\ [CapturesNext]_capVars => KeptInv'
<1> SUFFICES ASSUME KeptInv, [CapturesNext]_capVars PROVE KeptInv'
  OBVIOUS
<1>1. CapturesTyped'
  BY CapturesTypedStep DEF KeptInv
<1>2. CASE UNCHANGED capVars
  BY <1>1, <1>2 DEF capVars, KeptInv, Kept, Minted, New, Agrees, Accounts, Accountable, Held
<1>3. CASE \E h \in Handlers : Handler(h)
  BY <1>1, <1>3, KeptHandler DEF KeptInv
<1>4. CASE PruneForget \/ PruneSave \/ PruneClean \/ Sweep \/ Age \/ CrashServer
  BY <1>1, <1>4, KeptWorker DEF KeptInv
<1> QED
  BY <1>2, <1>3, <1>4 DEF CapturesNext

(* Whatever removes a capture somebody points to, a session that pointed   *)
(* to it was deleted before: the handler and the pruner have just done so, *)
(* and the sweep only takes what was accounted for when it listed the      *)
(* directory and held by nobody when it read the sessions.                 *)
LEMMA KeptRemoval ==
    ASSUME KeptInv, [CapturesNext]_capVars, NEW p \in captures, p \notin captures'
    PROVE  p \in dropped
<1>1. ASSUME NEW h \in Handlers, Handler(h)
      PROVE  p \in dropped
  BY <1>1 DEF Handler, AcceptNew, AcceptClone, Insert, ReadForStart, LaunchCapture,
              ReadForDelete, Forget, SaveForgotten, CleanCapture, Discard, KeptInv, Accounts
<1>2. CASE PruneForget \/ PruneSave \/ PruneClean
  BY <1>2 DEF PruneForget, PruneSave, PruneClean, Discard, KeptInv, Accounts
<1>3. CASE Sweep
  BY <1>3 DEF Sweep, SweepList, SweepActive, SweepFile, Candidates, Discard,
              KeptInv, Accounts
<1>4. CASE Age \/ CrashServer \/ UNCHANGED capVars
  BY <1>4 DEF Age, CrashServer, capVars
<1> QED
  BY <1>1, <1>2, <1>3, <1>4 DEF CapturesNext

(* No capture that a session has pointed to all the time is ever removed,  *)
(* for any number of sessions, handlers and crashes.                       *)
THEOREM CapturesInUseAreKept == CapturesSpec => CaptureKept
<1>1. KeptInv /\ [CapturesNext]_capVars =>
        [\A p \in captures : Held(p) /\ p \notin captures' => p \in dropped]_capVars
  BY KeptRemoval
<1> QED
  BY <1>1, KeptInit, KeptStep, PTL DEF CapturesSpec, CaptureKept

-----------------------------------------------------------------------------
(* Uploads.  Where a request can be, and that it carries a path exactly    *)
(* while it is under way.                                                  *)

AtRest(r) == pc[r] \in {"idle", "done", "launch"}
Places ==
    /\ \A u \in Uploads :
          pc[u] \in {"idle", "create", "write", "analyze", "insert", "save", "done"}
    /\ \A d \in Deletes : pc[d] \in {"idle", "savedel", "remove"}
    /\ \A s \in Sessions : pc[s] \in {"idle", "open", "copy", "launch"}
    /\ \A r \in Requests : IF AtRest(r) THEN job[r] = NoJob ELSE Path(r) \in Paths
UploadsTyped == TypeOK /\ Places

(* At a path no two uploads have chosen, one upload and one deletion can be *)
(* under way, and the deletion only once the record is there; until then   *)
(* neither memory nor the store has a record; when the file is about to go,*)
(* both have lost it.                                                      *)
Writing == {"create", "write", "analyze", "insert"}
OwnFile(u) ==
    LET p == Path(u) IN
    /\ pc[u] \in Writing => binaries[p] = NoFile /\ saved[p] = NoFile
    /\ pc[u] = "write" => file[p] = Partial /\ job[u].linked
    /\ pc[u] = "analyze" => file[p] = u
    /\ pc[u] = "insert" => file[p] = u /\ job[u].sum = u
GoingFile(d) ==
    LET p == Path(d) IN
    /\ file[p] # NoFile /\ binaries[p] = NoFile
    /\ pc[d] = "remove" => saved[p] = NoFile
RecordSound(p) ==
    /\ binaries[p] # NoFile => file[p] = binaries[p] /\ binaries[p] \in Uploads
    /\ saved[p] # NoFile => file[p] = saved[p] /\ saved[p] \in Uploads
    /\ \A u \in Uploads : Path(u) = p => OwnFile(u)
    /\ \A d \in Deletes : Path(d) = p => GoingFile(d)
    /\ \A u, v \in Uploads : Path(u) = p /\ Path(v) = p => u = v
    /\ \A d, e \in Deletes : Path(d) = p /\ Path(e) = p => d = e
    /\ \A u \in Uploads, d \in Deletes : Path(u) = p /\ Path(d) = p => pc[u] = "save"
RecordsSound == \A p \in Paths \ raced : RecordSound(p)

(* What a file without a record, and a record not saved, are owed to. *)
Owed(p) ==
    \/ binaries[p] # NoFile \/ p \in litter
    \/ \E u \in Uploads : Path(u) = p /\ pc[u] \in {"write", "analyze", "insert"}
    \/ \E d \in Deletes : Path(d) = p
FileOwed(p) ==
    /\ file[p] # NoFile => Owed(p)
    /\ binaries[p] # NoFile /\ saved[p] = NoFile =>
          \E u \in Uploads : Path(u) = p /\ pc[u] = "save"
FilesOwed == \A p \in Paths \ raced : FileOwed(p)

(* A start in flight carries its session's binary, which nobody has deleted *)
(* or written over; a container has the firmware its start has read.       *)
StartSound(s) ==
    /\ pc[s] \in {"open", "copy"} =>
          /\ Path(s) = sessions[s].bin /\ ~sessions[s].cid
          /\ sessions[s].bin \notin raced /\ s \notin gone =>
                job[s].sum = binaries[Path(s)] /\ binaries[Path(s)] # NoFile
    /\ pc[s] = "copy" /\ sessions[s].bin \notin raced /\ s \notin gone => job[s].linked
    /\ pc[s] = "launch" \/ sessions[s].running => sessions[s].cid
    /\ sessions[s].cid => sessions[s].bin \in Paths
    /\ sessions[s].cid /\ sessions[s].bin \notin raced /\ s \notin gone =>
          sessions[s].firmware \in Uploads /\ sessions[s].firmware = sessions[s].sum
StartsSound == \A s \in Sessions : StartSound(s)

FilesInv == UploadsTyped /\ RecordsSound /\ FilesOwed /\ StartsSound

-----------------------------------------------------------------------------
(* Uploads: types                                                           *)

LEMMA NoPathIsNone == NoPath \notin Paths
<1> SUFFICES ASSUME NoPath \in Paths PROVE FALSE
  OBVIOUS
<1>1. PICK n \in Names, k \in 0 .. MaxMillis : NoPath = <<n, k>>
  BY DEF Paths
<1> QED
  BY <1>1 DEF NoPath

LEMMA NoJobIsJob ==
    NoJob \in Job /\ NoJob.path = NoPath /\ NoJob.linked = FALSE /\ NoJob.sum = NoFile
  BY DEF NoJob, Job

LEMMA Disjoint ==
    /\ \A u \in Uploads : u \in Requests /\ u \notin Deletes /\ u \notin Sessions
    /\ \A d \in Deletes : d \in Requests /\ d \notin Uploads /\ d \notin Sessions
    /\ \A s \in Sessions : s \in Requests /\ s \notin Uploads /\ s \notin Deletes
    /\ NoFile \notin Whole /\ Partial \notin Whole /\ NoFile # Partial
    /\ Mixed \notin Uploads /\ Uploads \subseteq Whole
  BY RequestsAssumption, ContentsAssumption DEF Requests, Whole

(* A request that moves, and what it carries then. *)
LEMMA MoveTyped ==
    ASSUME UploadsTyped, NEW r \in Requests, NEW j \in Job, NEW next,
           /\ r \in Uploads => next \in {"create", "write", "analyze", "insert", "save", "done"}
           /\ r \in Deletes => next \in {"idle", "savedel", "remove"}
           /\ r \in Sessions => next \in {"idle", "open", "copy", "launch"},
           IF next \in {"idle", "done", "launch"} THEN j = NoJob ELSE j.path \in Paths,
           pc' = [pc EXCEPT ![r] = next], job' = [job EXCEPT ![r] = j]
    PROVE  /\ Places' /\ job' \in [Requests -> Job]
           /\ pc' \in [Requests -> {"idle", "create", "write", "analyze", "insert", "save",
                                    "savedel", "remove", "open", "copy", "launch", "done"}]
<1>1. /\ pc \in [Requests -> {"idle", "create", "write", "analyze", "insert", "save",
                              "savedel", "remove", "open", "copy", "launch", "done"}]
      /\ job \in [Requests -> Job]
  BY DEF UploadsTyped, TypeOK
<1>2. pc'[r] = next /\ job'[r] = j
  BY <1>1
<1>3. \A q \in Requests \ {r} : pc'[q] = pc[q] /\ job'[q] = job[q]
  BY <1>1
<1>4. Places'
  <2>1. \A u \in Uploads :
          pc'[u] \in {"idle", "create", "write", "analyze", "insert", "save", "done"}
    BY <1>2, <1>3 DEF UploadsTyped, Places, Requests
  <2>2. \A d \in Deletes : pc'[d] \in {"idle", "savedel", "remove"}
    BY <1>2, <1>3 DEF UploadsTyped, Places, Requests
  <2>3. \A q \in Sessions : pc'[q] \in {"idle", "open", "copy", "launch"}
    BY <1>2, <1>3 DEF UploadsTyped, Places, Requests
  <2>4. \A q \in Requests : IF AtRest(q)' THEN job'[q] = NoJob ELSE Path(q)' \in Paths
    BY <1>2, <1>3 DEF UploadsTyped, Places, AtRest, Path
  <2> QED
    BY <2>1, <2>2, <2>3, <2>4 DEF Places
<1>5. next \in {"idle", "create", "write", "analyze", "insert", "save",
                "savedel", "remove", "open", "copy", "launch", "done"}
  BY DEF Requests
<1> QED
  BY <1>1, <1>4, <1>5

LEMMA UploadsTypedInit == Init => UploadsTyped
<1> SUFFICES ASSUME Init PROVE UploadsTyped
  OBVIOUS
<1> USE DEF Init
<1>1. TypeOK
  <2>1. NoSession \in Session
    BY DEF NoSession, Session
  <2> QED
    BY <2>1, NoJobIsJob, MillisAssumption DEF TypeOK, Records
<1>2. Places
  BY Disjoint DEF Places, AtRest
<1> QED
  BY <1>1, <1>2 DEF UploadsTyped

LEMMA UploadTyped ==
    ASSUME UploadsTyped, NEW u \in Uploads, Upload(u)
    PROVE  UploadsTyped'
<1> USE DEF UploadsTyped
<1>1. u \in Requests /\ u \notin Deletes /\ u \notin Sessions
  BY Disjoint
<1>2. /\ file \in [Paths -> Whole \cup {Partial, NoFile}]
      /\ binaries \in Records /\ saved \in Records
      /\ job \in [Requests -> Job] /\ now \in 1 .. MaxMillis
      /\ raced \subseteq Paths /\ litter \subseteq Paths
  BY DEF TypeOK
<1>3. job[u] \in Job /\ (\A x \in Whole \cup {Partial, NoFile} :
                           [file EXCEPT ![Path(u)] = x] \in [Paths -> Whole \cup {Partial, NoFile}])
  BY <1>1, <1>2
<1>4. Mixed \in Whole /\ u \in Whole
  BY DEF Whole
<1>5. pc[u] \notin {"idle", "done"} => Path(u) \in Paths
  BY <1>1 DEF Places, AtRest
<1>6. ASSUME NEW next \in {"create", "write", "analyze", "insert", "save", "done"}, NEW j \in Job,
             IF next = "done" THEN j = NoJob ELSE j.path \in Paths,
             pc' = [pc EXCEPT ![u] = next], job' = [job EXCEPT ![u] = j],
             file' \in [Paths -> Whole \cup {Partial, NoFile}],
             binaries' \in Records, saved' \in Records,
             raced' \subseteq Paths, litter' \subseteq Paths,
             UNCHANGED <<sessions, now, gone>>
      PROVE  UploadsTyped'
  <2>1. /\ Places' /\ job' \in [Requests -> Job]
        /\ pc' \in [Requests -> {"idle", "create", "write", "analyze", "insert", "save",
                                 "savedel", "remove", "open", "copy", "launch", "done"}]
    BY <1>1, <1>6, MoveTyped
  <2> QED
    BY <1>6, <2>1 DEF TypeOK
<1>7. CASE ChooseName(u)
  <2>1. PICK n \in Names :
          LET p == FreePath(n) IN
          /\ pc[u] = "idle" /\ Goto(u, "create")
          /\ job' = [job EXCEPT ![u].path = p]
          /\ raced' = IF \/ \E v \in Uploads : Path(v) = p
                         \/ p[2] = now /\ On(p)
                      THEN raced \cup {p} ELSE raced
          /\ UNCHANGED <<file, binaries, saved, sessions, now, litter, gone>>
    BY <1>7 DEF ChooseName
  <2>2. FreePath(n) \in Paths
    BY <1>2, MillisAssumption DEF FreePath, Paths
  <2> DEFINE j == [job[u] EXCEPT !.path = FreePath(n)]
  <2>3. j \in Job /\ j.path \in Paths
    BY <1>3, <2>2 DEF Job
  <2>4. job' = [job EXCEPT ![u] = j] /\ pc' = [pc EXCEPT ![u] = "create"]
    BY <1>1, <1>2, <2>1 DEF Goto
  <2>5. raced' \subseteq Paths
    BY <1>2, <2>1, <2>2
  <2> QED
    BY <1>2, <1>6, <2>1, <2>3, <2>4, <2>5
<1>8. CASE pc' = [pc EXCEPT ![u] = "done"] /\ job' = [job EXCEPT ![u] = NoJob]
           /\ UNCHANGED <<file, binaries, sessions, now, raced, gone>>
           /\ litter' \subseteq Paths /\ saved' \in Records
  BY <1>2, <1>6, <1>8, NoJobIsJob
<1>9. CASE CreateFile(u)
  <2>1. CASE file' = [file EXCEPT ![Path(u)] = Partial] /\ Goto(u, "write")
             /\ job' = [job EXCEPT ![u].linked = TRUE]
    <3> DEFINE j == [job[u] EXCEPT !.linked = TRUE]
    <3>1. j \in Job /\ j.path = Path(u) /\ job' = [job EXCEPT ![u] = j]
      BY <1>1, <1>2, <1>3, <2>1 DEF Job, Path
    <3>2. Path(u) \in Paths /\ pc' = [pc EXCEPT ![u] = "write"]
      BY <1>5, <1>9, <2>1 DEF CreateFile, Goto
    <3>3. file' \in [Paths -> Whole \cup {Partial, NoFile}]
      BY <1>3, <2>1
    <3> QED
      BY <1>2, <1>6, <1>9, <3>1, <3>2, <3>3 DEF CreateFile, ghosts
  <2>2. CASE End(u, "done") /\ UNCHANGED file
    BY <1>2, <1>8, <1>9, <2>2 DEF CreateFile, End, Goto, ghosts
  <2> QED
    BY <1>9, <2>1, <2>2 DEF CreateFile
<1>10. CASE WriteFile(u)
  <2>1. pc[u] = "write" /\ Path(u) \in Paths /\ UNCHANGED <<binaries, saved, sessions, now>>
    BY <1>5, <1>10 DEF WriteFile
  <2>2. CASE FailUpload(u) /\ UNCHANGED file
    <3>1. litter' \subseteq Paths
      BY <1>2, <2>1, <2>2 DEF FailUpload
    <3> QED
      BY <1>2, <1>8, <2>1, <2>2, <3>1 DEF FailUpload, End, Goto
  <2>3. CASE /\ file' \in [Paths -> Whole \cup {Partial, NoFile}]
             /\ Goto(u, "analyze") /\ job' = [job EXCEPT ![u].linked = FALSE]
             /\ UNCHANGED ghosts
    <3> DEFINE j == [job[u] EXCEPT !.linked = FALSE]
    <3>1. j \in Job /\ j.path = Path(u) /\ job' = [job EXCEPT ![u] = j]
      BY <1>1, <1>2, <1>3, <2>3 DEF Job, Path
    <3> QED
      BY <1>2, <1>6, <2>1, <2>3, <3>1 DEF Goto, ghosts
  <2>4. ASSUME IF ~job[u].linked THEN UNCHANGED file
               ELSE \E c \in {u} \cup (IF file[Path(u)] = Partial THEN {} ELSE {Mixed}) :
                       file' = [file EXCEPT ![Path(u)] = c]
        PROVE  file' \in [Paths -> Whole \cup {Partial, NoFile}]
    <3>1. CASE ~job[u].linked
      BY <1>2, <2>4, <3>1
    <3>2. CASE job[u].linked
      <4>1. PICK c \in {u, Mixed} : file' = [file EXCEPT ![Path(u)] = c]
        BY <2>4, <3>2
      <4> QED
        BY <1>3, <1>4, <4>1
    <3> QED
      BY <3>1, <3>2
  <2> QED
    BY <1>10, <2>2, <2>3, <2>4 DEF WriteFile
<1>11. CASE AnalyzeFile(u)
  <2>1. pc[u] = "analyze" /\ Path(u) \in Paths /\ UNCHANGED <<file, binaries, saved, sessions, now>>
    BY <1>5, <1>11 DEF AnalyzeFile
  <2>2. CASE FailUpload(u)
    <3>1. litter' \subseteq Paths
      BY <1>2, <2>1, <2>2 DEF FailUpload
    <3> QED
      BY <1>2, <1>8, <2>1, <2>2, <3>1 DEF FailUpload, End, Goto
  <2>3. CASE /\ Parses(Path(u)) /\ Goto(u, "insert")
             /\ job' = [job EXCEPT ![u].sum = file[Path(u)]] /\ UNCHANGED ghosts
    <3> DEFINE j == [job[u] EXCEPT !.sum = file[Path(u)]]
    <3>1. j \in Job /\ j.path = Path(u) /\ job' = [job EXCEPT ![u] = j]
      BY <1>1, <1>2, <1>3, <2>3 DEF Job, Path, Parses
    <3> QED
      BY <1>2, <1>6, <2>1, <2>3, <3>1 DEF Goto, ghosts
  <2> QED
    BY <1>11, <2>2, <2>3 DEF AnalyzeFile
<1>12. CASE InsertRecord(u)
  <2>1. pc[u] = "insert" /\ Path(u) \in Paths /\ pc' = [pc EXCEPT ![u] = "save"]
        /\ job' = [job EXCEPT ![u] = job[u]]
    BY <1>2, <1>5, <1>12 DEF InsertRecord, Goto
  <2>2. binaries' \in Records
    BY <1>2, <1>3, <1>12 DEF InsertRecord, Records, Job
  <2> QED
    BY <1>2, <1>3, <1>6, <1>12, <2>1, <2>2 DEF InsertRecord, ghosts, Path
<1>13. CASE SaveUpload(u)
  BY <1>2, <1>8, <1>13 DEF SaveUpload, End, Goto, ghosts
<1> QED
  BY <1>7, <1>9, <1>10, <1>11, <1>12, <1>13 DEF Upload

LEMMA DeleteTyped ==
    ASSUME UploadsTyped, NEW d \in Deletes, Delete(d)
    PROVE  UploadsTyped'
<1> USE DEF UploadsTyped
<1>1. d \in Requests /\ d \notin Uploads /\ d \notin Sessions
  BY Disjoint
<1>2. /\ file \in [Paths -> Whole \cup {Partial, NoFile}]
      /\ binaries \in Records /\ saved \in Records
      /\ job \in [Requests -> Job] /\ gone \subseteq Sessions
      /\ litter \subseteq Paths
  BY DEF TypeOK
<1>3. pc[d] # "idle" => Path(d) \in Paths
  BY <1>1 DEF Places, AtRest
<1>4. ASSUME NEW next \in {"savedel", "remove"}, NEW j \in Job, j.path \in Paths,
             pc' = [pc EXCEPT ![d] = next], job' = [job EXCEPT ![d] = j],
             binaries' \in Records, saved' \in Records, gone' \subseteq Sessions,
             UNCHANGED <<file, sessions, now, raced, litter>>
      PROVE  UploadsTyped'
  <2>1. /\ Places' /\ job' \in [Requests -> Job]
        /\ pc' \in [Requests -> {"idle", "create", "write", "analyze", "insert", "save",
                                 "savedel", "remove", "open", "copy", "launch", "done"}]
    BY <1>1, <1>4, MoveTyped
  <2> QED
    BY <1>4, <2>1 DEF TypeOK
<1>5. CASE DeleteRecord(d)
  <2>1. PICK p \in Paths :
          /\ binaries' = [binaries EXCEPT ![p] = NoFile]
          /\ gone' = gone \cup {s \in Sessions : sessions[s].bin = p}
          /\ Goto(d, "savedel")
          /\ job' = [job EXCEPT ![d].path = p]
          /\ UNCHANGED <<file, saved, sessions, now, raced, litter>>
    BY <1>5 DEF DeleteRecord
  <2> DEFINE j == [job[d] EXCEPT !.path = p]
  <2>2. j \in Job /\ j.path \in Paths /\ job' = [job EXCEPT ![d] = j]
    BY <1>1, <1>2, <2>1 DEF Job
  <2>3. binaries' \in Records /\ gone' \subseteq Sessions
    BY <1>2, <2>1 DEF Records
  <2> QED
    BY <1>2, <1>4, <2>1, <2>2, <2>3 DEF Goto
<1>6. CASE SaveDelete(d)
  <2>1. job[d] \in Job /\ job[d].path \in Paths /\ job' = [job EXCEPT ![d] = job[d]]
    BY <1>1, <1>2, <1>3, <1>6 DEF SaveDelete, Path
  <2> QED
    BY <1>2, <1>4, <1>6, <2>1 DEF SaveDelete, Goto, ghosts
<1>7. CASE RemoveFile(d)
  <2>1. /\ file' = [file EXCEPT ![Path(d)] = NoFile]
        /\ pc' = [pc EXCEPT ![d] = "idle"]
        /\ job' = [r \in Requests |->
                     IF r = d THEN NoJob
                     ELSE IF Path(r) = Path(d) THEN [job[r] EXCEPT !.linked = FALSE]
                     ELSE job[r]]
        /\ litter' = litter \ {Path(d)}
        /\ UNCHANGED <<binaries, saved, sessions, now, raced, gone>>
    BY <1>7 DEF RemoveFile, Goto, Unlink
  <2>2. \A r \in Requests : /\ [job[r] EXCEPT !.linked = FALSE] \in Job
                            /\ [job[r] EXCEPT !.linked = FALSE].path = Path(r)
                            /\ job[r] = NoJob => [job[r] EXCEPT !.linked = FALSE] = NoJob
    <3> TAKE r \in Requests
    <3>1. job[r] \in Job
      BY <1>2
    <3>2. /\ [job[r] EXCEPT !.linked = FALSE] \in Job
          /\ [job[r] EXCEPT !.linked = FALSE].path = Path(r)
      BY <3>1 DEF Job, Path
    <3>3. job[r].linked = FALSE => [job[r] EXCEPT !.linked = FALSE] = job[r]
      BY <3>1 DEF Job
    <3> QED
      BY <3>2, <3>3, NoJobIsJob
  <2>3. job' \in [Requests -> Job]
    BY <1>2, <2>1, <2>2, NoJobIsJob
  <2>4. \A r \in Requests \ {d} : /\ Path(r)' = Path(r) /\ pc'[r] = pc[r]
                                  /\ job[r] = NoJob => job'[r] = NoJob
    <3> TAKE r \in Requests \ {d}
    <3>1. pc'[r] = pc[r]
      BY <2>1 DEF TypeOK
    <3>2. job'[r] = job[r] \/ job'[r] = [job[r] EXCEPT !.linked = FALSE]
      BY <2>1
    <3> QED
      BY <2>2, <3>1, <3>2 DEF Path
  <2>5. pc'[d] = "idle" /\ job'[d] = NoJob
    BY <1>1, <2>1 DEF TypeOK
  <2>6. Places'
    <3>1. \A u \in Uploads :
            pc'[u] \in {"idle", "create", "write", "analyze", "insert", "save", "done"}
      BY <1>1, <2>4, Disjoint DEF Places
    <3>2. \A e \in Deletes : pc'[e] \in {"idle", "savedel", "remove"}
      BY <2>4, <2>5, Disjoint DEF Places
    <3>3. \A s \in Sessions : pc'[s] \in {"idle", "open", "copy", "launch"}
      BY <1>1, <2>4, Disjoint DEF Places
    <3>4. \A r \in Requests : IF AtRest(r)' THEN job'[r] = NoJob ELSE Path(r)' \in Paths
      BY <2>4, <2>5 DEF Places, AtRest
    <3> QED
      BY <3>1, <3>2, <3>3, <3>4 DEF Places
  <2>7. pc' \in [Requests -> {"idle", "create", "write", "analyze", "insert", "save",
                              "savedel", "remove", "open", "copy", "launch", "done"}]
    BY <2>1 DEF TypeOK
  <2>8. file' \in [Paths -> Whole \cup {Partial, NoFile}] /\ litter' \subseteq Paths
    BY <1>2, <2>1
  <2> QED
    BY <2>1, <2>3, <2>6, <2>7, <2>8 DEF TypeOK
<1> QED
  BY <1>5, <1>6, <1>7 DEF Delete

LEMMA RunTyped ==
    ASSUME UploadsTyped, NEW s \in Sessions, Run(s)
    PROVE  UploadsTyped'
<1> USE DEF UploadsTyped
<1>1. s \in Requests /\ s \notin Uploads /\ s \notin Deletes
  BY Disjoint
<1>2. /\ file \in [Paths -> Whole \cup {Partial, NoFile}]
      /\ binaries \in Records /\ saved \in Records
      /\ sessions \in [Sessions -> Session] /\ sessions[s] \in Session
      /\ pc \in [Requests -> {"idle", "create", "write", "analyze", "insert", "save",
                              "savedel", "remove", "open", "copy", "launch", "done"}]
      /\ job \in [Requests -> Job] /\ job[s] \in Job
      /\ gone \subseteq Sessions
  BY <1>1 DEF TypeOK
<1>3. pc[s] \in {"open", "copy"} => Path(s) \in Paths
  BY <1>1 DEF Places, AtRest
<1>4. ASSUME NEW next \in {"idle", "open", "copy", "launch"}, NEW j \in Job,
             IF next \in {"idle", "launch"} THEN j = NoJob ELSE j.path \in Paths,
             pc' = [pc EXCEPT ![s] = next], job' = [job EXCEPT ![s] = j],
             NEW t \in Session, sessions' = [sessions EXCEPT ![s] = t],
             gone' \subseteq Sessions,
             UNCHANGED <<file, binaries, saved, now, raced, litter>>
      PROVE  UploadsTyped'
  <2>1. /\ Places' /\ job' \in [Requests -> Job]
        /\ pc' \in [Requests -> {"idle", "create", "write", "analyze", "insert", "save",
                                 "savedel", "remove", "open", "copy", "launch", "done"}]
    BY <1>1, <1>4, MoveTyped
  <2>2. sessions' \in [Sessions -> Session]
    BY <1>2, <1>4
  <2> QED
    BY <1>4, <2>1, <2>2 DEF TypeOK
<1>5. /\ sessions = [sessions EXCEPT ![s] = sessions[s]]
      /\ pc = [pc EXCEPT ![s] = pc[s]] /\ job = [job EXCEPT ![s] = job[s]]
      /\ pc[s] \in {"idle", "launch"} => job[s] = NoJob
  BY <1>1, <1>2 DEF Places, AtRest
<1>6. CASE CreateSession(s)
  <2>1. PICK p \in Paths : sessions' = [sessions EXCEPT ![s].bin = p]
    BY <1>6 DEF CreateSession
  <2> DEFINE t == [sessions[s] EXCEPT !.bin = p]
  <2>2. t \in Session /\ sessions' = [sessions EXCEPT ![s] = t]
    BY <1>2, <2>1 DEF Session
  <2> QED
    BY <1>2, <1>4, <1>5, <1>6, <2>2 DEF CreateSession, ghosts
<1>7. CASE BeginStart(s)
  <2>1. CASE sessions[s].cid
    <3>1. /\ job[s] = NoJob /\ pc' = [pc EXCEPT ![s] = "launch"]
          /\ UNCHANGED <<file, binaries, saved, sessions, now, raced, litter, job, gone>>
      BY <1>5, <1>7, <2>1 DEF BeginStart, Goto
    <3> QED
      BY <1>2, <1>4, <1>5, <3>1, NoJobIsJob
  <2>2. CASE ~sessions[s].cid
    <3> DEFINE p == sessions[s].bin
               j == [NoJob EXCEPT !.path = p, !.sum = binaries[p]]
    <3>1. /\ p # NoPath /\ pc' = [pc EXCEPT ![s] = "open"] /\ job' = [job EXCEPT ![s] = j]
          /\ gone' = gone \ {s}
          /\ UNCHANGED <<file, binaries, saved, sessions, now, raced, litter>>
      BY <1>7, <2>2 DEF BeginStart, Goto
    <3>2. p \in Paths
      BY <1>2, <3>1 DEF Session
    <3>3. j \in Job /\ j.path = p
      BY <1>2, <3>2 DEF Job, NoJob, Records
    <3> QED
      BY <1>2, <1>4, <1>5, <3>1, <3>2, <3>3
  <2> QED
    BY <2>1, <2>2
<1>8. CASE OpenFirmware(s)
  <2>1. CASE On(Path(s))
    <3> DEFINE j == [job[s] EXCEPT !.linked = TRUE]
    <3>1. j \in Job /\ j.path = Path(s)
      BY <1>2 DEF Job, Path
    <3>2. pc' = [pc EXCEPT ![s] = "copy"] /\ job' = [job EXCEPT ![s] = j] /\ Path(s) \in Paths
      BY <1>2, <1>3, <1>8, <2>1 DEF OpenFirmware, Goto
    <3>3. gone' \subseteq Sessions /\ UNCHANGED <<file, binaries, saved, sessions, now, raced, litter>>
      BY <1>2, <1>8 DEF OpenFirmware, ghosts
    <3> HIDE DEF j
    <3> QED
      BY <1>2, <1>4, <1>5, <3>1, <3>2, <3>3
  <2>2. CASE ~On(Path(s))
    BY <1>2, <1>4, <1>5, <1>8, <2>2, NoJobIsJob DEF OpenFirmware, End, Goto, ghosts
  <2> QED
    BY <2>1, <2>2
<1>9. CASE CopyFirmware(s)
  <2>1. pc[s] = "copy" /\ Path(s) \in Paths /\ file[Path(s)] \in Whole \cup {Partial, NoFile}
    BY <1>2, <1>3, <1>9 DEF CopyFirmware
  <2>2. ASSUME NEW firmware \in Whole \cup {Partial, NoFile}, Copied(s, firmware)
        PROVE  UploadsTyped'
    <3> DEFINE t == [sessions[s] EXCEPT !.cid = TRUE, !.sum = job[s].sum, !.firmware = firmware]
    <3>1. t \in Session
      BY <1>2, <2>2 DEF Session, Job
    <3>2. sessions' = [sessions EXCEPT ![s] = t]
      BY <1>2, <2>2 DEF Copied
    <3> HIDE DEF t
    <3> QED
      BY <1>2, <1>4, <1>9, <2>2, <3>1, <3>2, NoJobIsJob DEF CopyFirmware, Copied, Goto, ghosts
  <2>3. CASE CopyFailed(s)
    BY <1>2, <1>4, <1>5, <1>9, <2>3, NoJobIsJob
       DEF CopyFirmware, CopyFailed, End, Goto, ghosts
  <2>4. job[s].sum \in Whole \cup {NoFile}
    BY <1>2 DEF Job
  <2> QED
    BY <1>9, <2>1, <2>2, <2>3, <2>4 DEF CopyFirmware
<1>10. CASE LaunchFirmware(s)
  <2> DEFINE t == [sessions[s] EXCEPT !.running = TRUE]
  <2>1. t \in Session /\ sessions' = [sessions EXCEPT ![s] = t]
    BY <1>2, <1>10 DEF LaunchFirmware, Session
  <2>2. job[s] = NoJob
    BY <1>5, <1>10 DEF LaunchFirmware
  <2> QED
    BY <1>2, <1>4, <1>5, <1>10, <2>1, <2>2, NoJobIsJob DEF LaunchFirmware, Goto, ghosts
<1>11. CASE StopSession(s)
  <2> DEFINE t == [sessions[s] EXCEPT !.running = FALSE]
  <2>1. t \in Session /\ sessions' = [sessions EXCEPT ![s] = t]
    BY <1>2, <1>11 DEF StopSession, Session
  <2> QED
    BY <1>2, <1>4, <1>5, <1>11, <2>1 DEF StopSession, ghosts
<1>12. CASE DeleteSession(s)
  <2>1. NoSession \in Session
    BY DEF NoSession, Session
  <2> QED
    BY <1>2, <1>4, <1>5, <1>12, <2>1 DEF DeleteSession
<1> QED
  BY <1>6, <1>7, <1>8, <1>9, <1>10, <1>11, <1>12 DEF Run

LEMMA CrashTyped ==
    ASSUME UploadsTyped, Crash PROVE UploadsTyped'
<1>1. /\ pc' = [r \in Requests |->
                  IF r \in Uploads /\ pc[r] # "idle" THEN "done" ELSE "idle"]
      /\ job' = [r \in Requests |-> NoJob]
      /\ litter' \subseteq Paths
  BY DEF Crash, UploadsTyped, TypeOK
<1>2. Places'
  BY <1>1, Disjoint DEF Places, AtRest
<1>3. TypeOK'
  BY <1>1, NoJobIsJob DEF Crash, UploadsTyped, TypeOK
<1> QED
  BY <1>2, <1>3 DEF UploadsTyped

LEMMA UploadsTypedStep == UploadsTyped /\ [Next]_vars => UploadsTyped'
<1> SUFFICES ASSUME UploadsTyped, [Next]_vars PROVE UploadsTyped'
  OBVIOUS
<1>1. CASE Tick
  BY <1>1, MillisAssumption
     DEF Tick, UploadsTyped, TypeOK, Places, AtRest, Path, ghosts, Paths, Records, Session, Job
<1>2. CASE UNCHANGED vars
  BY <1>2 DEF vars, ghosts, UploadsTyped, TypeOK, Places, AtRest, Path
<1> QED
  BY <1>1, <1>2, UploadTyped, DeleteTyped, RunTyped, CrashTyped DEF Next

(* Whatever uploads, deletions and starts do, in any order: requests carry *)
(* a path only while they are under way, and every file and record is one  *)
(* of an upload.                                                           *)
THEOREM UploadsTypeCorrect == Spec => []TypeOK
<1>1. UploadsTyped => TypeOK
  BY DEF UploadsTyped
<1> QED
  BY <1>1, UploadsTypedInit, UploadsTypedStep, PTL DEF Spec

-----------------------------------------------------------------------------
(* Uploads: records and their files                                        *)

LEMMA FilesInit == Init => FilesInv
<1> SUFFICES ASSUME Init PROVE FilesInv
  OBVIOUS
<1>1. /\ \A p \in Paths : binaries[p] = NoFile /\ saved[p] = NoFile /\ file[p] = NoFile
      /\ \A r \in Requests : Path(r) = NoPath /\ pc[r] = "idle"
      /\ \A s \in Sessions : sessions[s] = NoSession
  BY NoJobIsJob DEF Init, Path
<1>2. RecordsSound
  BY <1>1, Disjoint, NoPathIsNone DEF RecordsSound, RecordSound
<1>3. FilesOwed
  BY <1>1 DEF FilesOwed, FileOwed
<1>4. StartsSound
  BY <1>1, Disjoint DEF StartsSound, StartSound, NoSession
<1> QED
  BY <1>2, <1>3, <1>4, UploadsTypedInit DEF FilesInv

(* A request changes nothing at a path that is not its own. *)
LEMMA Elsewhere ==
    ASSUME FilesInv, NEW p, NEW r \in Requests,
           \A q \in Requests \ {r} :
              /\ pc'[q] = pc[q] /\ Path(q)' = Path(q)
              /\ Path(q) # p => job'[q] = job[q],
           Path(r) \in {p, NoPath}, Path(r)' \in {p, NoPath},
           \A x \in Paths \ {p} :
              /\ file'[x] = file[x] /\ binaries'[x] = binaries[x]
              /\ saved'[x] = saved[x] \/ saved'[x] = binaries[x],
           raced \subseteq raced', litter \ {p} \subseteq litter'
    PROVE  \A x \in Paths \ (raced' \cup {p}) : RecordSound(x)' /\ FileOwed(x)'
<1> SUFFICES ASSUME NEW x \in Paths \ (raced' \cup {p}) PROVE RecordSound(x)' /\ FileOwed(x)'
  OBVIOUS
<1>1. RecordSound(x) /\ FileOwed(x) /\ x # NoPath
  BY NoPathIsNone DEF FilesInv, RecordsSound, FilesOwed
<1>2. /\ file'[x] = file[x] /\ binaries'[x] = binaries[x]
      /\ saved'[x] = saved[x] \/ saved'[x] = binaries[x]
      /\ x \in litter => x \in litter'
  OBVIOUS
<1>3. \A q \in Requests :
        /\ Path(q)' = x <=> Path(q) = x
        /\ Path(q) = x => pc'[q] = pc[q] /\ job'[q] = job[q]
  BY <1>1
<1>4. \A q \in Uploads \cup Deletes :
        /\ Path(q)' = x <=> Path(q) = x
        /\ Path(q) = x => pc'[q] = pc[q] /\ job'[q] = job[q]
  BY <1>3, Disjoint
<1>5. ASSUME NEW u \in Uploads, Path(u)' = x PROVE OwnFile(u)'
  <2>1. OwnFile(u) /\ Path(u) = x /\ pc'[u] = pc[u] /\ job'[u] = job[u]
    BY <1>1, <1>4, <1>5 DEF RecordSound
  <2> QED
    BY <1>2, <1>5, <2>1 DEF OwnFile
<1>6. ASSUME NEW d \in Deletes, Path(d)' = x PROVE GoingFile(d)'
  <2>1. GoingFile(d) /\ Path(d) = x /\ pc'[d] = pc[d]
    BY <1>1, <1>4, <1>6 DEF RecordSound
  <2> QED
    BY <1>2, <1>6, <2>1 DEF GoingFile
<1>7. RecordSound(x)'
  BY <1>1, <1>2, <1>4, <1>5, <1>6 DEF RecordSound
<1>8. FileOwed(x)'
  BY <1>1, <1>2, <1>4 DEF FileOwed, Owed
<1> QED
  BY <1>7, <1>8

(* A start does not see what happens to other binaries. *)
LEMMA StartUndisturbed ==
    ASSUME FilesInv, NEW s \in Sessions,
           pc'[s] = pc[s], sessions'[s] = sessions[s],
           Path(s)' = Path(s), job'[s].sum = job[s].sum,
           raced \subseteq raced', gone \subseteq gone',
           pc[s] \in {"open", "copy"} /\ Path(s) \notin raced /\ s \notin gone' =>
              \/ binaries[Path(s)] = NoFile
              \/ /\ binaries'[Path(s)] = binaries[Path(s)]
                 /\ job'[s].linked = job[s].linked
    PROVE  StartSound(s)'
<1>1. StartSound(s)
  BY DEF FilesInv, StartsSound
<1> QED
  BY <1>1 DEF StartSound

(* One upload at a path, and then no deletion before its record is there. *)
LEMMA UploadAlone ==
    ASSUME FilesInv, NEW u \in Uploads, Path(u) \in Paths, Path(u) \notin raced
    PROVE  /\ RecordSound(Path(u)) /\ FileOwed(Path(u)) /\ OwnFile(u)
           /\ \A v \in Uploads \ {u} : Path(v) # Path(u)
           /\ pc[u] # "save" => \A d \in Deletes : Path(d) # Path(u)
<1>1. RecordSound(Path(u)) /\ FileOwed(Path(u))
  BY DEF FilesInv, RecordsSound, FilesOwed
<1> QED
  BY <1>1 DEF RecordSound

LEMMA UploadFiles ==
    ASSUME FilesInv, NEW u \in Uploads, Upload(u)
    PROVE  RecordsSound' /\ FilesOwed' /\ StartsSound'
<1>1. u \in Requests /\ u \notin Deletes /\ u \notin Sessions /\ Deletes \subseteq Requests
  BY Disjoint
<1>2. /\ file \in [Paths -> Whole \cup {Partial, NoFile}]
      /\ binaries \in [Paths -> Whole \cup {NoFile}] /\ saved \in [Paths -> Whole \cup {NoFile}]
      /\ pc \in [Requests -> {"idle", "create", "write", "analyze", "insert", "save",
                              "savedel", "remove", "open", "copy", "launch", "done"}]
      /\ job \in [Requests -> Job] /\ now \in 1 .. MaxMillis
      /\ pc[u] \in {"idle", "create", "write", "analyze", "insert", "save", "done"}
      /\ IF pc[u] \in {"idle", "done"} THEN job[u] = NoJob ELSE Path(u) \in Paths
  BY <1>1 DEF FilesInv, UploadsTyped, TypeOK, Places, Records, AtRest
<1>3. job[u] \in Job /\ (pc[u] \in {"idle", "done"} => Path(u) = NoPath)
  BY <1>1, <1>2, NoJobIsJob DEF Path
<1>4. ASSUME NEW p \in Paths, Path(u) \in {p, NoPath}, Path(u)' \in {p, NoPath},
             \A q \in Requests \ {u} : pc'[q] = pc[q] /\ job'[q] = job[q],
             \A x \in Paths \ {p} : file'[x] = file[x] /\ binaries'[x] = binaries[x],
             saved' = saved \/ saved' = binaries,
             raced \subseteq raced', litter \subseteq litter', UNCHANGED <<sessions, gone>>,
             binaries'[p] = binaries[p] \/ p \in raced \/ binaries[p] = NoFile,
             p \notin raced' => RecordSound(p)' /\ FileOwed(p)'
      PROVE  RecordsSound' /\ FilesOwed' /\ StartsSound'
  <2>1. \A x \in Paths \ (raced' \cup {p}) : RecordSound(x)' /\ FileOwed(x)'
    <3>1. \A q \in Requests \ {u} : Path(q)' = Path(q)
      BY <1>4 DEF Path
    <3>2. \A x \in Paths \ {p} : saved'[x] = saved[x] \/ saved'[x] = binaries[x]
      BY <1>4
    <3> QED
      BY <1>1, <1>4, <3>1, <3>2, Elsewhere
  <2>2. ASSUME NEW s \in Sessions PROVE StartSound(s)'
    <3>1. s \in Requests \ {u}
      BY <1>1, Disjoint
    <3>2. pc'[s] = pc[s] /\ job'[s] = job[s] /\ Path(s)' = Path(s)
      BY <1>4, <3>1 DEF Path
    <3>3. pc[s] \in {"open", "copy"} => Path(s) \in Paths
      BY <3>1 DEF FilesInv, UploadsTyped, Places, AtRest
    <3>4. pc[s] \in {"open", "copy"} /\ Path(s) \notin raced /\ binaries[Path(s)] # NoFile =>
             binaries'[Path(s)] = binaries[Path(s)]
      BY <1>4, <3>3
    <3>5. /\ sessions'[s] = sessions[s] /\ raced \subseteq raced' /\ gone \subseteq gone'
          /\ job'[s].sum = job[s].sum /\ job'[s].linked = job[s].linked
      BY <1>4, <3>2
    <3> QED
      BY <3>2, <3>4, <3>5, StartUndisturbed
  <2> QED
    BY <1>4, <2>1, <2>2 DEF RecordsSound, FilesOwed, StartsSound
<1> DEFINE Others == \A q \in Requests \ {u} : pc'[q] = pc[q] /\ job'[q] = job[q]
<1>5. PICK p : p = Path(u)
  OBVIOUS
<1>6. ASSUME Others
      PROVE  /\ \A d \in Deletes : Path(d)' = Path(d) /\ pc'[d] = pc[d]
             /\ \A v \in Uploads \ {u} : Path(v)' = Path(v) /\ pc'[v] = pc[v]
  BY <1>1, <1>6, Disjoint DEF Path
<1>7. CASE ChooseName(u)
  <2>1. PICK n \in Names :
          LET c == FreePath(n) IN
          /\ pc[u] = "idle" /\ Goto(u, "create")
          /\ job' = [job EXCEPT ![u].path = c]
          /\ raced' = IF \/ \E v \in Uploads : Path(v) = c
                         \/ c[2] = now /\ On(c)
                      THEN raced \cup {c} ELSE raced
          /\ UNCHANGED <<file, binaries, saved, sessions, now, litter, gone>>
    BY <1>7 DEF ChooseName
  <2> PICK c : c = FreePath(n)
    OBVIOUS
  <2>2. c \in Paths /\ c # NoPath
    BY <1>2, MillisAssumption, NoPathIsNone DEF FreePath, Paths
  <2>3. On(c) => c[2] = now
    BY <1>2 DEF FreePath
  <2>4. /\ Others /\ pc'[u] = "create" /\ Path(u)' = c /\ Path(u) = NoPath
        /\ raced \subseteq raced'
    BY <1>1, <1>2, <1>3, <2>1 DEF Goto, Path, Job
  <2>5. ASSUME c \notin raced' PROVE RecordSound(c)' /\ FileOwed(c)'
    <3>1. /\ c \notin raced /\ ~On(c) /\ \A v \in Uploads : Path(v) # c
      BY <2>1, <2>3, <2>5
    <3>2. RecordSound(c) /\ FileOwed(c)
      BY <2>2, <3>1 DEF FilesInv, RecordsSound, FilesOwed
    <3>3. /\ file[c] = NoFile /\ binaries[c] = NoFile /\ saved[c] = NoFile
          /\ \A d \in Deletes : Path(d) # c
      BY <3>1, <3>2, Disjoint DEF RecordSound, On, GoingFile
    <3>4. /\ file'[c] = NoFile /\ binaries'[c] = NoFile /\ saved'[c] = NoFile
          /\ \A d \in Deletes : Path(d)' # c
      BY <1>6, <2>1, <2>4, <3>3
    <3>5. \A v \in Uploads : Path(v)' = c => v = u
      BY <2>4, <3>1, Disjoint DEF Path
    <3>6. OwnFile(u)'
      BY <2>4, <3>4 DEF OwnFile
    <3> QED
      BY <3>4, <3>5, <3>6 DEF RecordSound, FileOwed
  <2> QED
    BY <1>4, <2>1, <2>2, <2>4, <2>5
<1>8. ASSUME p \in Paths, pc[u] \in Writing, Others, Path(u)' \in {p, NoPath},
             \A x \in Paths \ {p} : file'[x] = file[x] /\ binaries'[x] = binaries[x],
             litter \subseteq litter', UNCHANGED <<saved, sessions, raced, gone>>,
             p \notin raced /\ OwnFile(u) =>
                /\ Path(u)' = p => OwnFile(u)'
                /\ binaries'[p] # NoFile =>
                      /\ binaries'[p] \in Uploads /\ file'[p] = binaries'[p]
                      /\ Path(u)' = p /\ pc'[u] = "save"
                /\ file'[p] # NoFile =>
                      \/ binaries'[p] # NoFile \/ p \in litter'
                      \/ Path(u)' = p /\ pc'[u] \in {"write", "analyze", "insert"}
                      \/ file[p] # NoFile /\ pc[u] = "create"
      PROVE  RecordsSound' /\ FilesOwed' /\ StartsSound'
  <2>1. ASSUME p \notin raced PROVE RecordSound(p)' /\ FileOwed(p)' /\ binaries[p] = NoFile
    <3>1. /\ RecordSound(p) /\ FileOwed(p) /\ OwnFile(u)
          /\ \A v \in Uploads \ {u} : Path(v) # p
          /\ \A d \in Deletes : Path(d) # p
      BY <1>5, <1>8, <2>1, UploadAlone DEF Writing
    <3>2. binaries[p] = NoFile /\ saved[p] = NoFile
      BY <1>5, <1>8, <3>1 DEF OwnFile
    <3>3. /\ \A v \in Uploads \ {u} : Path(v)' # p
          /\ \A d \in Deletes : Path(d)' # p
      BY <1>6, <1>8, <3>1
    <3>4. RecordSound(p)'
      BY <1>8, <2>1, <3>1, <3>2, <3>3 DEF RecordSound
    <3>5. file[p] # NoFile /\ pc[u] = "create" => p \in litter
      BY <1>5, <3>1, <3>2 DEF FileOwed, Owed
    <3>6. FileOwed(p)'
      BY <1>8, <2>1, <3>1, <3>2, <3>5 DEF FileOwed, Owed
    <3> QED
      BY <3>2, <3>4, <3>6
  <2> QED
    BY <1>4, <1>5, <1>8, <2>1
<1>9. ASSUME pc[u] \in Writing, litter' \subseteq litter \cup {p}, litter \subseteq litter',
             pc[u] # "create" => litter' = litter \cup {p},
             UNCHANGED <<file, binaries, saved, sessions, raced, gone>>, End(u, "done")
      PROVE  RecordsSound' /\ FilesOwed' /\ StartsSound'
  <2>1. p \in Paths /\ Others /\ Path(u)' = NoPath /\ p # NoPath
    BY <1>1, <1>2, <1>5, <1>9, NoJobIsJob, NoPathIsNone DEF Writing, End, Goto, Path
  <2>2. OwnFile(u) => binaries[p] = NoFile
    BY <1>5, <1>9 DEF OwnFile
  <2>3. pc[u] # "create" => p \in litter'
    BY <1>9
  <2> QED
    BY <1>8, <1>9, <2>1, <2>2, <2>3
<1>10. CASE CreateFile(u)
  <2>1. CASE file' = [file EXCEPT ![Path(u)] = Partial] /\ Goto(u, "write")
             /\ job' = [job EXCEPT ![u].linked = TRUE]
    <3>1. /\ p \in Paths /\ Others /\ Path(u)' = p /\ pc'[u] = "write" /\ job'[u].linked
          /\ file'[p] = Partial /\ \A x \in Paths \ {p} : file'[x] = file[x]
          /\ UNCHANGED <<binaries, saved, sessions, litter, raced, gone>> /\ pc[u] = "create"
      BY <1>1, <1>2, <1>3, <1>5, <1>10, <2>1 DEF CreateFile, Goto, Path, Job, ghosts
    <3>2. OwnFile(u) => OwnFile(u)' /\ binaries[p] = NoFile
      BY <1>5, <3>1 DEF OwnFile, Writing
    <3> QED
      BY <1>8, <3>1, <3>2 DEF Writing
  <2>2. CASE End(u, "done") /\ UNCHANGED file
    BY <1>9, <1>10, <2>2 DEF CreateFile, Writing, ghosts
  <2> QED
    BY <1>10, <2>1, <2>2 DEF CreateFile
<1>11. CASE WriteFile(u)
  <2>1. CASE FailUpload(u) /\ UNCHANGED file
    BY <1>5, <1>9, <1>11, <2>1 DEF WriteFile, FailUpload, Writing
  <2>2. ASSUME IF ~job[u].linked THEN UNCHANGED file
               ELSE \E c \in {u} \cup (IF file[Path(u)] = Partial THEN {} ELSE {Mixed}) :
                       file' = [file EXCEPT ![Path(u)] = c],
               Goto(u, "analyze"), job' = [job EXCEPT ![u].linked = FALSE], UNCHANGED ghosts
        PROVE  RecordsSound' /\ FilesOwed' /\ StartsSound'
    <3>1. /\ p \in Paths /\ Others /\ Path(u)' = p /\ pc'[u] = "analyze" /\ pc[u] = "write"
          /\ UNCHANGED <<binaries, saved, sessions, litter, raced, gone>>
      BY <1>1, <1>2, <1>3, <1>5, <1>11, <2>2 DEF WriteFile, Goto, Path, Job, ghosts
    <3>2. \A x \in Paths \ {p} : file'[x] = file[x]
      BY <1>2, <1>5, <2>2
    <3>3. ASSUME OwnFile(u) PROVE OwnFile(u)' /\ binaries[p] = NoFile
      <4>1. file[p] = Partial /\ job[u].linked /\ binaries[p] = NoFile /\ saved[p] = NoFile
        BY <1>5, <3>1, <3>3 DEF OwnFile, Writing
      <4>2. file'[p] = u
        BY <1>2, <1>5, <2>2, <3>1, <4>1
      <4> QED
        BY <3>1, <4>1, <4>2 DEF OwnFile
    <3> QED
      BY <1>8, <3>1, <3>2, <3>3 DEF Writing
  <2> QED
    BY <1>11, <2>1, <2>2 DEF WriteFile
<1>12. CASE AnalyzeFile(u)
  <2>1. CASE FailUpload(u)
    BY <1>5, <1>9, <1>12, <2>1 DEF AnalyzeFile, FailUpload, Writing
  <2>2. CASE /\ Parses(Path(u)) /\ Goto(u, "insert")
             /\ job' = [job EXCEPT ![u].sum = file[Path(u)]] /\ UNCHANGED ghosts
    <3>1. /\ p \in Paths /\ Others /\ Path(u)' = p /\ pc'[u] = "insert" /\ pc[u] = "analyze"
          /\ job'[u].sum = file[p]
          /\ UNCHANGED <<file, binaries, saved, sessions, litter, raced, gone>>
      BY <1>1, <1>2, <1>3, <1>5, <1>12, <2>2 DEF AnalyzeFile, Goto, Path, Job, ghosts
    <3>2. OwnFile(u) => OwnFile(u)' /\ binaries[p] = NoFile
      BY <1>5, <3>1 DEF OwnFile, Writing
    <3> QED
      BY <1>8, <3>1, <3>2 DEF Writing
  <2> QED
    BY <1>12, <2>1, <2>2 DEF AnalyzeFile
<1>13. CASE InsertRecord(u)
  <2>1. /\ p \in Paths /\ Others /\ Path(u)' = p /\ pc'[u] = "save" /\ pc[u] = "insert"
        /\ binaries'[p] = job[u].sum /\ \A x \in Paths \ {p} : binaries'[x] = binaries[x]
        /\ UNCHANGED <<file, saved, sessions, litter, raced, gone>>
    BY <1>1, <1>2, <1>3, <1>5, <1>13 DEF InsertRecord, Goto, Path, ghosts
  <2>2. OwnFile(u) => OwnFile(u)' /\ file[p] = u /\ binaries'[p] = u
    BY <1>5, <2>1 DEF OwnFile, Writing
  <2> QED
    BY <1>8, <2>1, <2>2, Disjoint DEF Writing
<1>14. CASE SaveUpload(u)
  <2>1. /\ p \in Paths /\ p # NoPath /\ Others /\ Path(u)' = NoPath /\ saved' = binaries
        /\ pc[u] = "save"
        /\ UNCHANGED <<file, binaries, sessions, litter, raced, gone>>
    BY <1>1, <1>2, <1>5, <1>14, NoJobIsJob, NoPathIsNone
       DEF SaveUpload, End, Goto, Path, ghosts
  <2>2. ASSUME p \notin raced PROVE RecordSound(p)' /\ FileOwed(p)'
    <3>1. /\ RecordSound(p) /\ FileOwed(p)
          /\ \A v \in Uploads \ {u} : Path(v) # p
      BY <1>5, <2>1, <2>2, UploadAlone
    <3>2. \A v \in Uploads : Path(v)' # p
      BY <1>6, <2>1, <3>1
    <3>3. \A d \in Deletes : Path(d)' = p => Path(d) = p /\ GoingFile(d)'
      BY <1>6, <2>1, <3>1 DEF RecordSound, GoingFile
    <3>4. RecordSound(p)'
      BY <1>6, <2>1, <3>1, <3>2, <3>3 DEF RecordSound
    <3>5. FileOwed(p)'
      BY <1>5, <1>6, <2>1, <3>1 DEF FileOwed, Owed
    <3> QED
      BY <3>4, <3>5
  <2> QED
    BY <1>4, <1>5, <2>1, <2>2
<1> QED
  BY <1>7, <1>10, <1>11, <1>12, <1>13, <1>14 DEF Upload

LEMMA DeleteFiles ==
    ASSUME FilesInv, NEW d \in Deletes, Delete(d)
    PROVE  RecordsSound' /\ FilesOwed' /\ StartsSound'
<1>1. d \in Requests /\ d \notin Uploads /\ d \notin Sessions
  BY Disjoint
<1>2. /\ file \in [Paths -> Whole \cup {Partial, NoFile}]
      /\ binaries \in [Paths -> Whole \cup {NoFile}] /\ saved \in [Paths -> Whole \cup {NoFile}]
      /\ pc \in [Requests -> {"idle", "create", "write", "analyze", "insert", "save",
                              "savedel", "remove", "open", "copy", "launch", "done"}]
      /\ job \in [Requests -> Job] /\ job[d] \in Job
      /\ pc[d] \in {"idle", "savedel", "remove"}
      /\ IF pc[d] = "idle" THEN job[d] = NoJob ELSE Path(d) \in Paths
  BY <1>1 DEF FilesInv, UploadsTyped, TypeOK, Places, Records, AtRest
<1>3. pc[d] = "idle" => Path(d) = NoPath
  BY <1>2, NoJobIsJob DEF Path
<1>4. ASSUME NEW p \in Paths, Path(d) \in {p, NoPath}, Path(d)' \in {p, NoPath},
             \A q \in Requests \ {d} :
                /\ pc'[q] = pc[q] /\ Path(q)' = Path(q) /\ job'[q].sum = job[q].sum
                /\ Path(q) # p => job'[q] = job[q],
             \A x \in Paths \ {p} : file'[x] = file[x] /\ binaries'[x] = binaries[x],
             saved' = saved \/ saved' = binaries, sessions' = sessions,
             raced' = raced, litter \ {p} \subseteq litter', gone \subseteq gone',
             \A s \in Sessions :
                p \notin raced /\ binaries[p] # NoFile /\ Path(s) = p /\ pc[s] \in {"open", "copy"}
                   => s \in gone' \/ UNCHANGED <<binaries, job[s]>>,
             p \notin raced => RecordSound(p)' /\ FileOwed(p)'
      PROVE  RecordsSound' /\ FilesOwed' /\ StartsSound'
  <2>1. \A x \in Paths \ (raced' \cup {p}) : RecordSound(x)' /\ FileOwed(x)'
    <3>1. \A x \in Paths \ {p} : saved'[x] = saved[x] \/ saved'[x] = binaries[x]
      BY <1>4
    <3>2. raced \subseteq raced' /\ \A q \in Requests \ {d} :
                                      /\ pc'[q] = pc[q] /\ Path(q)' = Path(q)
                                      /\ Path(q) # p => job'[q] = job[q]
      BY <1>4
    <3> QED
      BY <1>1, <1>4, <3>1, <3>2, Elsewhere
  <2>2. ASSUME NEW s \in Sessions PROVE StartSound(s)'
    <3>1. s \in Requests \ {d}
      BY <1>1, Disjoint
    <3>2. pc'[s] = pc[s] /\ Path(s)' = Path(s) /\ job'[s].sum = job[s].sum
      BY <1>4, <3>1
    <3>3. pc[s] \in {"open", "copy"} => Path(s) \in Paths
      BY <3>1 DEF FilesInv, UploadsTyped, Places, AtRest
    <3>4. ASSUME pc[s] \in {"open", "copy"}, Path(s) \notin raced, s \notin gone',
                 binaries[Path(s)] # NoFile
          PROVE  binaries'[Path(s)] = binaries[Path(s)] /\ job'[s].linked = job[s].linked
      <4>1. CASE Path(s) = p
        BY <1>4, <3>4, <4>1
      <4>2. CASE Path(s) # p
        BY <1>4, <3>1, <3>3, <3>4, <4>2
      <4> QED
        BY <4>1, <4>2
    <3>5. sessions'[s] = sessions[s] /\ raced \subseteq raced' /\ gone \subseteq gone'
      BY <1>4
    <3> QED
      BY <3>2, <3>4, <3>5, StartUndisturbed
  <2> QED
    BY <1>4, <2>1, <2>2 DEF RecordsSound, FilesOwed, StartsSound
<1>5. CASE DeleteRecord(d)
  <2>1. PICK p \in Paths :
          /\ pc[d] = "idle" /\ Recorded(p)
          /\ binaries' = [binaries EXCEPT ![p] = NoFile]
          /\ gone' = gone \cup {s \in Sessions : sessions[s].bin = p}
          /\ Goto(d, "savedel")
          /\ job' = [job EXCEPT ![d].path = p]
          /\ UNCHANGED <<file, saved, sessions, now, raced, litter>>
    BY <1>5 DEF DeleteRecord
  <2>2. /\ Path(d) = NoPath /\ Path(d)' = p /\ pc'[d] = "savedel"
        /\ binaries'[p] = NoFile /\ binaries[p] # NoFile
        /\ \A x \in Paths \ {p} : binaries'[x] = binaries[x]
    BY <1>1, <1>2, <1>3, <2>1 DEF Goto, Path, Job, Recorded
  <2>3. \A q \in Requests \ {d} : pc'[q] = pc[q] /\ job'[q] = job[q] /\ Path(q)' = Path(q)
    BY <1>2, <2>1 DEF Goto, Path
  <2>4. \A s \in Sessions : Path(s) = p /\ pc[s] \in {"open", "copy"} => s \in gone'
    BY <2>1 DEF FilesInv, StartsSound, StartSound
  <2>5. ASSUME p \notin raced PROVE RecordSound(p)' /\ FileOwed(p)'
    <3>1. RecordSound(p) /\ FileOwed(p) /\ p # NoPath
      BY <2>1, <2>5, NoPathIsNone DEF FilesInv, RecordsSound, FilesOwed
    <3>2. \A e \in Deletes : Path(e) # p
      BY <2>2, <3>1 DEF RecordSound, GoingFile
    <3>3. \A u \in Uploads : Path(u) = p => pc[u] = "save"
      <4> SUFFICES ASSUME NEW u \in Uploads, Path(u) = p PROVE pc[u] = "save"
        OBVIOUS
      <4>1. pc[u] \notin Writing
        BY <2>2, <3>1 DEF RecordSound, OwnFile
      <4>2. ~AtRest(u)
        BY <3>1, Disjoint, NoJobIsJob DEF FilesInv, UploadsTyped, Places, Path
      <4> QED
        BY <4>1, <4>2 DEF FilesInv, UploadsTyped, Places, AtRest, Writing
    <3>4. file'[p] # NoFile
      BY <2>1, <2>2, <3>1 DEF RecordSound
    <3>5. \A u \in Uploads : Path(u)' = p => Path(u) = p /\ pc'[u] = "save" /\ OwnFile(u)'
      BY <2>3, <3>3, Disjoint DEF OwnFile, Writing
    <3>6. \A e \in Deletes : Path(e)' = p => e = d
      BY <2>3, <3>2, Disjoint
    <3>7. GoingFile(d)'
      BY <2>2, <3>4 DEF GoingFile
    <3>8. RecordSound(p)'
      BY <2>1, <2>2, <3>1, <3>5, <3>6, <3>7 DEF RecordSound
    <3>9. FileOwed(p)'
      BY <2>2 DEF FileOwed, Owed
    <3> QED
      BY <3>8, <3>9
  <2> QED
    BY <1>4, <2>1, <2>2, <2>3, <2>4, <2>5
<1>6. CASE SaveDelete(d)
  <2> PICK p : p = Path(d)
    OBVIOUS
  <2>1. /\ p \in Paths /\ pc[d] = "savedel" /\ pc'[d] = "remove" /\ Path(d)' = p
        /\ saved' = binaries
        /\ UNCHANGED <<file, binaries, sessions, job, raced, litter, gone>>
    BY <1>1, <1>2, <1>6 DEF SaveDelete, Goto, Path, ghosts
  <2>2. \A q \in Requests \ {d} : pc'[q] = pc[q] /\ job'[q] = job[q] /\ Path(q)' = Path(q)
    BY <1>2, <1>6 DEF SaveDelete, Goto, Path
  <2>3. ASSUME p \notin raced PROVE RecordSound(p)' /\ FileOwed(p)'
    <3>1. RecordSound(p) /\ FileOwed(p)
      BY <2>1, <2>3 DEF FilesInv, RecordsSound, FilesOwed
    <3>2. /\ \A u \in Uploads : Path(u)' = Path(u) /\ pc'[u] = pc[u] /\ job'[u] = job[u]
          /\ \A e \in Deletes : Path(e)' = Path(e)
      BY <1>1, <2>1, <2>2, Disjoint
    <3>3. \A u \in Uploads : Path(u)' = p => OwnFile(u)'
      BY <2>1, <3>1, <3>2 DEF RecordSound, OwnFile, Writing
    <3>4. \A e \in Deletes : Path(e)' = p => GoingFile(e)'
      BY <2>1, <3>1, <3>2 DEF RecordSound, GoingFile
    <3>5. RecordSound(p)'
      BY <2>1, <3>1, <3>2, <3>3, <3>4 DEF RecordSound
    <3>6. FileOwed(p)'
      BY <2>1, <3>1, <3>2 DEF FileOwed, Owed
    <3> QED
      BY <3>5, <3>6
  <2> QED
    BY <1>4, <2>1, <2>2, <2>3
<1>7. CASE RemoveFile(d)
  <2> PICK p : p = Path(d)
    OBVIOUS
  <2>1. /\ p \in Paths /\ pc[d] = "remove"
        /\ file' = [file EXCEPT ![p] = NoFile]
        /\ pc' = [pc EXCEPT ![d] = "idle"]
        /\ job' = [r \in Requests |->
                     IF r = d THEN NoJob
                     ELSE IF Path(r) = p THEN [job[r] EXCEPT !.linked = FALSE]
                     ELSE job[r]]
        /\ litter' = litter \ {p}
        /\ UNCHANGED <<binaries, saved, sessions, raced, gone>>
    BY <1>2, <1>7 DEF RemoveFile, Goto, Unlink
  <2>2. Path(d)' = NoPath /\ p # NoPath
    BY <1>1, <2>1, NoJobIsJob, NoPathIsNone DEF Path
  <2>3. ASSUME NEW q \in Requests \ {d}
        PROVE  /\ pc'[q] = pc[q] /\ Path(q)' = Path(q) /\ job'[q].sum = job[q].sum
               /\ Path(q) # p => job'[q] = job[q]
    <3>1. job[q] \in Job /\ pc'[q] = pc[q]
      BY <1>2, <2>1
    <3>2. job'[q] = IF Path(q) = p THEN [job[q] EXCEPT !.linked = FALSE] ELSE job[q]
      BY <2>1
    <3> QED
      BY <3>1, <3>2 DEF Path, Job
  <2>4. /\ file'[p] = NoFile /\ \A x \in Paths \ {p} : file'[x] = file[x]
        /\ litter \ {p} \subseteq litter'
    BY <1>2, <2>1
  <2>5. ASSUME p \notin raced PROVE RecordSound(p)' /\ FileOwed(p)' /\ binaries[p] = NoFile
    <3>1. RecordSound(p) /\ FileOwed(p)
      BY <2>1, <2>5 DEF FilesInv, RecordsSound, FilesOwed
    <3>2. binaries[p] = NoFile /\ saved[p] = NoFile
      BY <2>1, <3>1 DEF RecordSound, GoingFile
    <3>3. \A u \in Uploads : Path(u)' = p => Path(u) = p /\ pc'[u] = "save"
      BY <1>1, <2>1, <2>3, <3>1, Disjoint DEF RecordSound
    <3>4. \A e \in Deletes : Path(e)' # p
      BY <1>1, <2>1, <2>2, <2>3, <3>1, Disjoint DEF RecordSound
    <3>5. \A u \in Uploads : Path(u)' = p => OwnFile(u)'
      BY <3>3 DEF OwnFile, Writing
    <3>6. RecordSound(p)'
      BY <2>1, <3>1, <3>2, <3>3, <3>4, <3>5 DEF RecordSound
    <3>7. FileOwed(p)'
      BY <2>1, <2>4, <3>2 DEF FileOwed
    <3> QED
      BY <3>2, <3>6, <3>7
  <2> QED
    BY <1>4, <2>1, <2>2, <2>3, <2>4, <2>5
<1> QED
  BY <1>5, <1>6, <1>7 DEF Delete

(* Files and records are as they were, and so are those who work on them. *)
LEMMA SameFiles ==
    ASSUME FilesInv, NEW s \in Sessions,
           UNCHANGED <<file, binaries, saved, raced, litter>>,
           \A q \in Requests \ {s} : pc'[q] = pc[q] /\ job'[q] = job[q],
           \A t \in Sessions \ {s} : sessions'[t] = sessions[t] /\ (t \in gone' <=> t \in gone),
           StartSound(s)'
    PROVE  RecordsSound' /\ FilesOwed' /\ StartsSound'
<1>1. /\ \A u \in Uploads : pc'[u] = pc[u] /\ job'[u] = job[u] /\ Path(u)' = Path(u)
      /\ \A d \in Deletes : pc'[d] = pc[d] /\ job'[d] = job[d] /\ Path(d)' = Path(d)
  BY Disjoint DEF Path
<1>2. RecordsSound'
  <2> SUFFICES ASSUME NEW x \in Paths \ raced PROVE RecordSound(x)'
    BY DEF RecordsSound
  <2>1. RecordSound(x)
    BY DEF FilesInv, RecordsSound
  <2>2. \A u \in Uploads : Path(u)' = x => OwnFile(u)'
    BY <1>1, <2>1 DEF RecordSound, OwnFile
  <2>3. \A d \in Deletes : Path(d)' = x => GoingFile(d)'
    BY <1>1, <2>1 DEF RecordSound, GoingFile
  <2> QED
    BY <1>1, <2>1, <2>2, <2>3 DEF RecordSound
<1>3. FilesOwed'
  <2> SUFFICES ASSUME NEW x \in Paths \ raced PROVE FileOwed(x)'
    BY DEF FilesOwed
  <2>1. FileOwed(x)
    BY DEF FilesInv, FilesOwed
  <2> QED
    BY <1>1, <2>1 DEF FileOwed, Owed
<1>4. ASSUME NEW t \in Sessions \ {s} PROVE StartSound(t)'
  <2>1. StartSound(t)
    BY DEF FilesInv, StartsSound
  <2>2. t \in Requests \ {s}
    BY Disjoint
  <2> QED
    BY <2>1, <2>2 DEF StartSound, Path
<1> QED
  BY <1>2, <1>3, <1>4 DEF StartsSound

LEMMA RunFiles ==
    ASSUME FilesInv, NEW s \in Sessions, Run(s)
    PROVE  RecordsSound' /\ FilesOwed' /\ StartsSound'
<1>1. s \in Requests /\ s \notin Uploads /\ s \notin Deletes
  BY Disjoint
<1>2. /\ sessions \in [Sessions -> Session] /\ sessions[s] \in Session
      /\ pc \in [Requests -> {"idle", "create", "write", "analyze", "insert", "save",
                              "savedel", "remove", "open", "copy", "launch", "done"}]
      /\ job \in [Requests -> Job] /\ job[s] \in Job
      /\ StartSound(s)
  BY <1>1 DEF FilesInv, UploadsTyped, TypeOK, StartsSound
<1>3. /\ pc[s] \in {"idle", "open", "copy", "launch"}
      /\ pc[s] \in {"open", "copy"} => Path(s) \in Paths
  BY <1>1 DEF FilesInv, UploadsTyped, Places, AtRest
<1>4. ASSUME NEW t, NEW next, NEW j,
             sessions' = [sessions EXCEPT ![s] = t],
             pc' = [pc EXCEPT ![s] = next], job' = [job EXCEPT ![s] = j],
             \A x \in Sessions \ {s} : x \in gone' <=> x \in gone,
             UNCHANGED <<file, binaries, saved, raced, litter>>,
             StartSound(s)'
      PROVE  RecordsSound' /\ FilesOwed' /\ StartsSound'
  <2>1. /\ \A q \in Requests \ {s} : pc'[q] = pc[q] /\ job'[q] = job[q]
        /\ \A x \in Sessions \ {s} : sessions'[x] = sessions[x]
    BY <1>2, <1>4
  <2> QED
    BY <1>4, <2>1, SameFiles
<1>5. /\ sessions = [sessions EXCEPT ![s] = sessions[s]]
      /\ pc = [pc EXCEPT ![s] = pc[s]] /\ job = [job EXCEPT ![s] = job[s]]
  BY <1>1, <1>2
<1>6. CASE CreateSession(s)
  <2>1. PICK p \in Paths :
          /\ pc[s] = "idle" /\ sessions[s].bin = NoPath
          /\ sessions' = [sessions EXCEPT ![s].bin = p]
          /\ UNCHANGED <<file, binaries, saved, now, pc, job, ghosts>>
    BY <1>6 DEF CreateSession
  <2> DEFINE t == [sessions[s] EXCEPT !.bin = p]
  <2>2. /\ sessions' = [sessions EXCEPT ![s] = t] /\ sessions'[s] = t
        /\ t.bin = p /\ t.cid = sessions[s].cid /\ t.running = sessions[s].running
    BY <1>2, <2>1 DEF Session
  <2>3. ~sessions[s].cid /\ ~sessions[s].running /\ pc'[s] = "idle"
    BY <1>2, <2>1, NoPathIsNone DEF StartSound
  <2>4. StartSound(s)'
    BY <2>2, <2>3 DEF StartSound
  <2> HIDE DEF t
  <2> QED
    BY <1>4, <1>5, <2>1, <2>2, <2>4 DEF ghosts
<1>7. CASE BeginStart(s)
  <2>1. CASE sessions[s].cid
    <3>1. /\ pc' = [pc EXCEPT ![s] = "launch"] /\ pc'[s] = "launch"
          /\ UNCHANGED <<file, binaries, saved, sessions, raced, litter, job, gone>>
      BY <1>1, <1>2, <1>7, <2>1 DEF BeginStart, Goto
    <3>2. StartSound(s)'
      BY <1>2, <2>1, <3>1 DEF StartSound
    <3> QED
      BY <1>4, <1>5, <3>1, <3>2
  <2>2. CASE ~sessions[s].cid
    <3> PICK p : p = sessions[s].bin
      OBVIOUS
    <3> DEFINE j == [NoJob EXCEPT !.path = p, !.sum = binaries[p]]
    <3>1. /\ pc' = [pc EXCEPT ![s] = "open"] /\ job' = [job EXCEPT ![s] = j]
          /\ binaries[p] # NoFile /\ ~sessions[s].running
          /\ gone' = gone \ {s}
          /\ UNCHANGED <<file, binaries, saved, sessions, raced, litter>>
      BY <1>7, <2>2 DEF BeginStart, Goto, Recorded
    <3>2. j.path = p /\ j.sum = binaries[p]
      BY DEF NoJob
    <3>3. pc'[s] = "open" /\ job'[s].path = p /\ job'[s].sum = binaries[p]
      BY <1>1, <1>2, <3>1, <3>2
    <3>4. StartSound(s)'
      BY <2>2, <3>1, <3>3 DEF StartSound, Path
    <3>5. \A x \in Sessions \ {s} : x \in gone' <=> x \in gone
      BY <3>1
    <3> HIDE DEF j
    <3> QED
      BY <1>4, <1>5, <3>1, <3>4, <3>5
  <2> QED
    BY <2>1, <2>2
<1>8. CASE OpenFirmware(s)
  <2>1. pc[s] = "open" /\ UNCHANGED <<file, binaries, saved, sessions, raced, litter, gone>>
    BY <1>8 DEF OpenFirmware, ghosts
  <2>2. CASE On(Path(s))
    <3> DEFINE j == [job[s] EXCEPT !.linked = TRUE]
    <3>1. /\ pc' = [pc EXCEPT ![s] = "copy"] /\ job' = [job EXCEPT ![s] = j]
          /\ pc'[s] = "copy"
          /\ job'[s].path = Path(s) /\ job'[s].sum = job[s].sum /\ job'[s].linked
      BY <1>1, <1>2, <1>8, <2>2 DEF OpenFirmware, Goto, Path, Job
    <3>2. StartSound(s)'
      BY <1>2, <2>1, <3>1 DEF StartSound, Path
    <3> HIDE DEF j
    <3> QED
      BY <1>4, <1>5, <2>1, <3>1, <3>2
  <2>3. CASE ~On(Path(s))
    <3>1. /\ pc' = [pc EXCEPT ![s] = "idle"] /\ job' = [job EXCEPT ![s] = NoJob]
          /\ pc'[s] = "idle"
      BY <1>1, <1>2, <1>8, <2>3 DEF OpenFirmware, End, Goto
    <3>2. StartSound(s)'
      BY <1>2, <2>1, <3>1 DEF StartSound
    <3> QED
      BY <1>4, <1>5, <2>1, <3>1, <3>2
  <2> QED
    BY <2>2, <2>3
<1>9. CASE CopyFirmware(s)
  <2>1. /\ pc[s] = "copy" /\ Path(s) \in Paths
        /\ UNCHANGED <<file, binaries, saved, raced, litter, gone>>
    BY <1>3, <1>9 DEF CopyFirmware, ghosts
  <2>2. /\ Path(s) = sessions[s].bin /\ ~sessions[s].cid
        /\ sessions[s].bin \notin raced /\ s \notin gone =>
              /\ job[s].linked /\ job[s].sum = binaries[Path(s)] /\ job[s].sum \in Uploads
              /\ file[Path(s)] = job[s].sum
    BY <1>2, <2>1 DEF StartSound, FilesInv, RecordsSound, RecordSound
  <2>3. ASSUME NEW firmware, Copied(s, firmware),
               sessions[s].bin \notin raced /\ s \notin gone => firmware = job[s].sum
        PROVE  RecordsSound' /\ FilesOwed' /\ StartsSound'
    <3> DEFINE t == [sessions[s] EXCEPT !.cid = TRUE, !.sum = job[s].sum, !.firmware = firmware]
    <3>1. /\ sessions' = [sessions EXCEPT ![s] = t]
          /\ pc' = [pc EXCEPT ![s] = "launch"] /\ job' = [job EXCEPT ![s] = NoJob]
      BY <1>2, <2>3 DEF Copied, Goto
    <3>2. /\ sessions'[s].cid /\ sessions'[s].bin = sessions[s].bin
          /\ sessions'[s].sum = job[s].sum /\ sessions'[s].firmware = firmware
          /\ pc'[s] = "launch"
      BY <1>1, <1>2, <3>1 DEF Session
    <3>3. StartSound(s)'
      BY <2>1, <2>2, <2>3, <3>2 DEF StartSound
    <3> HIDE DEF t
    <3> QED
      BY <1>4, <2>1, <3>1, <3>3
  <2>4. CASE CopyFailed(s)
    <3>1. /\ pc' = [pc EXCEPT ![s] = "idle"] /\ job' = [job EXCEPT ![s] = NoJob]
          /\ pc'[s] = "idle" /\ sessions' = sessions
      BY <1>1, <1>2, <2>4 DEF CopyFailed, End, Goto
    <3>2. StartSound(s)'
      BY <1>2, <2>1, <3>1 DEF StartSound
    <3> QED
      BY <1>4, <1>5, <2>1, <3>1, <3>2
  <2>5. CASE job[s].linked /\ Copied(s, file[Path(s)])
    BY <2>2, <2>3, <2>5
  <2>6. CASE ~job[s].linked /\ \E firmware \in {Partial, job[s].sum} : Copied(s, firmware)
    BY <2>2, <2>3, <2>6
  <2> QED
    BY <1>9, <2>4, <2>5, <2>6 DEF CopyFirmware
<1>10. CASE LaunchFirmware(s)
  <2> DEFINE t == [sessions[s] EXCEPT !.running = TRUE]
  <2>1. /\ sessions' = [sessions EXCEPT ![s] = t] /\ sessions'[s] = t
        /\ t.bin = sessions[s].bin /\ t.cid = sessions[s].cid
        /\ t.firmware = sessions[s].firmware /\ t.sum = sessions[s].sum
        /\ pc[s] = "launch" /\ pc' = [pc EXCEPT ![s] = "idle"] /\ pc'[s] = "idle"
        /\ UNCHANGED <<file, binaries, saved, raced, litter, job, gone>>
    BY <1>1, <1>2, <1>10 DEF LaunchFirmware, Goto, Session, ghosts
  <2>2. StartSound(s)'
    BY <1>2, <2>1 DEF StartSound
  <2> HIDE DEF t
  <2> QED
    BY <1>4, <1>5, <2>1, <2>2
<1>11. CASE StopSession(s)
  <2> DEFINE t == [sessions[s] EXCEPT !.running = FALSE]
  <2>1. /\ sessions' = [sessions EXCEPT ![s] = t] /\ sessions'[s] = t
        /\ t.bin = sessions[s].bin /\ t.cid = sessions[s].cid /\ ~t.running
        /\ t.firmware = sessions[s].firmware /\ t.sum = sessions[s].sum
        /\ pc[s] = "idle"
        /\ UNCHANGED <<file, binaries, saved, raced, litter, pc, job, gone>>
    BY <1>2, <1>11 DEF StopSession, Session, ghosts
  <2>2. StartSound(s)'
    BY <1>2, <2>1 DEF StartSound
  <2> HIDE DEF t
  <2> QED
    BY <1>4, <1>5, <2>1, <2>2
<1>12. CASE DeleteSession(s)
  <2>1. /\ sessions' = [sessions EXCEPT ![s] = NoSession] /\ sessions'[s] = NoSession
        /\ pc[s] = "idle" /\ gone' = gone \ {s}
        /\ UNCHANGED <<file, binaries, saved, raced, litter, pc, job>>
    BY <1>2, <1>12 DEF DeleteSession
  <2>2. StartSound(s)'
    BY <2>1 DEF StartSound, NoSession
  <2>3. \A x \in Sessions \ {s} : x \in gone' <=> x \in gone
    BY <2>1
  <2> QED
    BY <1>4, <1>5, <2>1, <2>2, <2>3
<1> QED
  BY <1>6, <1>7, <1>8, <1>9, <1>10, <1>11, <1>12 DEF Run

(* The records are those of the store: what an upload has not saved is     *)
(* left over, and what a deletion has not saved is back, with its file.    *)
LEMMA CrashFiles ==
    ASSUME FilesInv, Crash PROVE RecordsSound' /\ FilesOwed' /\ StartsSound'
<1>1. /\ binaries' = saved /\ UNCHANGED <<file, saved, sessions, raced, gone>>
      /\ job' = [r \in Requests |-> NoJob]
      /\ litter' = litter \cup {p \in Paths : /\ On(p) /\ saved[p] = NoFile
                                              /\ \E r \in Requests : Path(r) = p}
      /\ \A s \in Sessions : pc[s] = "idle" /\ pc'[s] = "idle"
  BY Disjoint DEF Crash
<1>2. \A r \in Requests : Path(r)' \notin Paths
  BY <1>1, NoJobIsJob, NoPathIsNone DEF Path
<1>3. ASSUME NEW x \in Paths \ raced PROVE RecordSound(x)' /\ FileOwed(x)'
  <2>1. RecordSound(x) /\ FileOwed(x)
    BY DEF FilesInv, RecordsSound, FilesOwed
  <2>2. RecordSound(x)'
    BY <1>1, <1>2, <2>1, Disjoint DEF RecordSound
  <2>3. file[x] # NoFile /\ saved[x] = NoFile =>
           x \in litter \/ \E r \in Requests : Path(r) = x
    BY <2>1, Disjoint DEF FileOwed, Owed
  <2>4. FileOwed(x)'
    BY <1>1, <2>3 DEF FileOwed, Owed, On
  <2> QED
    BY <2>2, <2>4
<1>4. ASSUME NEW s \in Sessions PROVE StartSound(s)'
  <2>1. StartSound(s)
    BY DEF FilesInv, StartsSound
  <2> QED
    BY <1>1, <2>1 DEF StartSound
<1> QED
  BY <1>1, <1>3, <1>4 DEF RecordsSound, FilesOwed, StartsSound

LEMMA FilesStep == FilesInv /\ [Next]_vars => FilesInv'
<1> SUFFICES ASSUME FilesInv, [Next]_vars PROVE FilesInv'
  OBVIOUS
<1>1. UploadsTyped'
  BY UploadsTypedStep DEF FilesInv
<1>2. RecordsSound' /\ FilesOwed' /\ StartsSound'
  <2>1. CASE Tick \/ UNCHANGED vars
    BY <2>1
       DEF Tick, vars, ghosts, FilesInv, RecordsSound, RecordSound, OwnFile, GoingFile,
           FilesOwed, FileOwed, Owed, StartsSound, StartSound, Path
  <2> QED
    BY <2>1, UploadFiles, DeleteFiles, RunFiles, CrashFiles DEF Next
<1> QED
  BY <1>1, <1>2 DEF FilesInv

LEMMA FilesInvariant == Spec => []FilesInv
  BY FilesInit, FilesStep, PTL DEF Spec

(* The file of every record is there and whole, in memory and after a     *)
(* crash, whatever uploads, deletions, failures and crashes have come in    *)
(* between: except at a path that two uploads have chosen.                 *)
THEOREM RecordsHaveFiles == Spec => []RecordHasFile
<1>1. FilesInv => RecordHasFile
  BY DEF FilesInv, RecordsSound, RecordSound, RecordHasFile, Recorded
<1> QED
  BY <1>1, FilesInvariant, PTL

(* A session runs the firmware that the record its start read describes,   *)
(* whole, unless its binary was deleted since or its path raced for.       *)
THEOREM RunningFirmwareIsRecorded == Spec => []FirmwareIsRecorded
<1>1. FilesInv => FirmwareIsRecorded
  BY DEF FilesInv, StartsSound, StartSound, FirmwareIsRecorded
<1> QED
  BY <1>1, FilesInvariant, PTL

(* Once uploads and deletions have come to rest, a file on the disk has a   *)
(* record, or an error or a crash has left it.                              *)
THEOREM NoFileIsForgotten == Spec => []FilesAccounted
<1>1. ASSUME FilesInv PROVE FilesAccounted
  <2> SUFFICES ASSUME \A r \in Uploads \cup Deletes : pc[r] \in {"idle", "done"},
                      NEW p \in Paths \ (raced \cup litter), On(p)
               PROVE  Recorded(p)
    BY DEF FilesAccounted
  <2>1. FileOwed(p) /\ p # NoPath
    BY <1>1, NoPathIsNone DEF FilesInv, FilesOwed
  <2>2. \A d \in Deletes : Path(d) = NoPath
    BY <1>1, Disjoint, NoJobIsJob DEF FilesInv, UploadsTyped, Places, AtRest, Path
  <2> QED
    BY <2>1, <2>2 DEF FileOwed, Owed, On, Recorded
<1> QED
  BY <1>1, FilesInvariant, PTL

=============================================================================
