------------------------- MODULE CircularBufferProofs -------------------------
(***************************************************************************)
(* The UART history is a window of the last maxSize lines, for every       *)
(* capacity: uart.CircularBuffer implements LineWindow.                    *)
(*                                                                         *)
(* The invariant says which slots have been written: all of them once the  *)
(* index has wrapped, those below the index before that.                   *)
(***************************************************************************)
EXTENDS CircularBuffer, SequenceTheorems, TLAPS

Written(i) == full \/ i < idx

Inv == TypeOK /\ \A i \in Slots : Written(i) => data[i] \in Line

-----------------------------------------------------------------------------
(* The index wraps: what % does to an index that is one too large. *)
LEMMA NextIndex ==
    ASSUME NEW i \in Slots
    PROVE  (i + 1) % maxSize = IF i + 1 = maxSize THEN 0 ELSE i + 1
BY SizeAssumption DEF Slots

(* Add leaves the invariant intact and moves the index one slot on. *)
LEMMA AddEffect ==
    ASSUME Inv, NEW line \in Line, Add(line)
    PROVE  /\ data' = [data EXCEPT ![idx] = line]
           /\ idx' = IF idx + 1 = maxSize THEN 0 ELSE idx + 1
           /\ full' = (full \/ idx + 1 = maxSize)
           /\ Inv'
<1>1. idx \in Slots /\ data \in [Slots -> Line \cup {blank}] /\ full \in BOOLEAN
  BY DEF Inv, TypeOK
<1>2. data' = [data EXCEPT ![idx] = line] /\ idx' = (idx + 1) % maxSize
      /\ full' = (full \/ idx' = 0)
  BY DEF Add
<1>3. idx' = IF idx + 1 = maxSize THEN 0 ELSE idx + 1
  BY <1>1, <1>2, NextIndex
<1>4. idx + 1 # 0
  BY <1>1, SizeAssumption DEF Slots
<1>5. full' = (full \/ idx + 1 = maxSize)
  BY <1>2, <1>3, <1>4
<1>6. TypeOK'
  <2>1. data' \in [Slots -> Line \cup {blank}]
    BY <1>1, <1>2
  <2>2. idx' \in Slots
    BY <1>1, <1>3, SizeAssumption DEF Slots
  <2>3. full' \in BOOLEAN
    BY <1>5
  <2> QED BY <2>1, <2>2, <2>3 DEF TypeOK, Slots
<1>7. ASSUME NEW i \in Slots, full' \/ i < idx'
      PROVE  data'[i] \in Line
  <2>1. CASE i = idx
    BY <2>1, <1>1, <1>2
  <2>2. CASE i # idx
    <3>1. data'[i] = data[i]
      BY <2>2, <1>1, <1>2
    <3>2. full \/ i < idx
      BY <2>2, <1>1, <1>3, <1>5, <1>7, SizeAssumption DEF Slots
    <3> QED BY <3>1, <3>2 DEF Inv, Written
  <2> QED BY <2>1, <2>2
<1>8. Inv'
  BY <1>6, <1>7 DEF Inv, Written, Slots
<1> QED BY <1>2, <1>3, <1>5, <1>8

LEMMA FlushEffect ==
    ASSUME Flush
    PROVE  Inv'
<1>1. 0 \in Slots /\ \A i \in Slots : ~(i < 0)
  BY SizeAssumption DEF Slots
<1>2. data' = [i \in Slots |-> blank] /\ idx' = 0 /\ full' = FALSE
  BY DEF Flush
<1>3. TypeOK'
  BY <1>1, <1>2 DEF TypeOK, Slots
<1>4. \A i \in Slots : ~(full' \/ i < idx')
  BY <1>1, <1>2
<1> QED BY <1>3, <1>4 DEF Inv, Written, Slots

LEMMA InitInv == Init => Inv
<1> SUFFICES ASSUME Init PROVE Inv
  OBVIOUS
<1>1. 0 \in Slots /\ \A i \in Slots : ~(i < 0)
  BY SizeAssumption DEF Slots
<1>2. data = [i \in Slots |-> blank] /\ idx = 0 /\ full = FALSE
  BY DEF Init
<1>3. TypeOK
  BY <1>1, <1>2 DEF TypeOK, Slots
<1>4. \A i \in Slots : ~(full \/ i < idx)
  BY <1>1, <1>2
<1> QED BY <1>3, <1>4 DEF Inv, Written

LEMMA NextInv == Inv /\ [Next]_vars => Inv'
<1> SUFFICES ASSUME Inv, [Next]_vars PROVE Inv'
  OBVIOUS
<1>1. CASE Flush
  BY <1>1, FlushEffect
<1>2. ASSUME NEW line \in Line, Add(line) PROVE Inv'
  BY <1>2, AddEffect
<1>3. CASE UNCHANGED vars
  BY <1>3 DEF Inv, TypeOK, Written, Slots, vars
<1> QED BY <1>1, <1>2, <1>3 DEF Next

-----------------------------------------------------------------------------
(* What GetAll returns, position by position. *)
LineAt(i) == IF full /\ idx + i - 1 < maxSize THEN data[idx + i - 1]
            ELSE IF full THEN data[idx + i - 1 - maxSize] ELSE data[i - 1]

LEMMA Contents ==
    Inv => /\ GetAll \in Seq(Line)
           /\ Len(GetAll) = Size
           /\ Size \in 0 .. maxSize
           /\ \A i \in 1 .. Size : GetAll[i] = LineAt(i)
<1> SUFFICES ASSUME Inv
             PROVE  /\ GetAll \in Seq(Line)
                    /\ Len(GetAll) = Size
                    /\ Size \in 0 .. maxSize
                    /\ \A i \in 1 .. Size : GetAll[i] = LineAt(i)
  OBVIOUS
<1>1. idx \in Slots /\ full \in BOOLEAN /\ maxSize \in Nat
  BY SizeAssumption DEF Inv, TypeOK
<1>2. Size \in 0 .. maxSize
  BY <1>1 DEF Size, Slots
<1>3. GetAll = [i \in 1 .. Size |-> LineAt(i)]
  BY <1>1 DEF GetAll, Size, LineAt
<1>4. \A i \in 1 .. Size : LineAt(i) \in Line
  <2> SUFFICES ASSUME NEW i \in 1 .. Size PROVE LineAt(i) \in Line
    OBVIOUS
  <2>1. CASE full
    <3>1. i \in 1 .. maxSize
      BY <2>1 DEF Size
    <3>2. CASE idx + i - 1 < maxSize
      BY <1>1, <2>1, <3>1, <3>2 DEF Inv, Written, Slots, LineAt
    <3>3. CASE ~(idx + i - 1 < maxSize)
      BY <1>1, <2>1, <3>1, <3>3 DEF Inv, Written, Slots, LineAt
    <3> QED BY <3>2, <3>3
  <2>2. CASE ~full
    <3>1. i \in 1 .. idx
      BY <2>2 DEF Size
    <3> QED BY <1>1, <2>2, <3>1 DEF Inv, Written, Slots, LineAt
  <2> QED BY <2>1, <2>2
<1>5. GetAll \in [1 .. Size -> Line]
  BY <1>3, <1>4
<1>6. Size \in Nat
  BY <1>1, <1>2
<1>7. GetAll \in Seq(Line)
  BY <1>5, <1>6, SeqDef
<1>8. Len(GetAll) = Size
  BY <1>5, <1>6, <1>7, LenProperties
<1> QED BY <1>2, <1>3, <1>7, <1>8

(* Appending, and dropping the head, recognised by their elements. *)
LEMMA IsAppend ==
    ASSUME NEW S, NEW s \in Seq(S), NEW t \in Seq(S), NEW e \in S,
           Len(t) = Len(s) + 1,
           \A i \in 1 .. Len(s) : t[i] = s[i],
           t[Len(s) + 1] = e
    PROVE  t = Append(s, e)
<1>1. Append(s, e) \in Seq(S) /\ Len(Append(s, e)) = Len(s) + 1
  BY AppendProperties
<1>2. \A i \in 1 .. Len(s) : Append(s, e)[i] = s[i]
  BY AppendProperties
<1>3. Append(s, e)[Len(s) + 1] = e
  BY AppendProperties
<1>4. Len(s) \in Nat
  BY LenProperties
<1>5. \A i \in 1 .. Len(t) : t[i] = Append(s, e)[i]
  BY <1>2, <1>3, <1>4
<1> QED BY <1>1, <1>5, SeqEqual

LEMMA IsShift ==
    ASSUME NEW S, NEW s \in Seq(S), NEW t \in Seq(S), NEW e \in S,
           Len(s) > 0, Len(t) = Len(s),
           \A i \in 1 .. Len(s) - 1 : t[i] = s[i + 1],
           t[Len(s)] = e
    PROVE  t = Append(Tail(s), e)
<1>1. s # <<>>
  BY EmptySeq
<1>2. Tail(s) \in Seq(S) /\ Len(Tail(s)) = Len(s) - 1
      /\ \A i \in 1 .. Len(s) - 1 : Tail(s)[i] = s[i + 1]
  BY <1>1, HeadTailProperties
<1>3. Len(s) \in Nat
  BY LenProperties
<1> QED BY <1>2, <1>3, IsAppend

-----------------------------------------------------------------------------
(* Every step of the buffer is a step of the window. *)
LEMMA AddPushes ==
    ASSUME Inv, NEW line \in Line, Add(line)
    PROVE  Window!Push(line)
<1>1. /\ data' = [data EXCEPT ![idx] = line]
      /\ idx' = IF idx + 1 = maxSize THEN 0 ELSE idx + 1
      /\ full' = (full \/ idx + 1 = maxSize)
      /\ Inv'
  BY AddEffect
<1>2. /\ GetAll \in Seq(Line) /\ Len(GetAll) = Size
      /\ \A i \in 1 .. Size : GetAll[i] = LineAt(i)
  BY Contents
<1>3. (Inv => /\ GetAll \in Seq(Line)
              /\ Len(GetAll) = Size
              /\ Size \in 0 .. maxSize
              /\ \A i \in 1 .. Size : GetAll[i] = LineAt(i))'
  BY Contents, PTL
<1>4. /\ GetAll' \in Seq(Line) /\ Len(GetAll') = Size'
      /\ \A i \in 1 .. Size' : GetAll'[i] = LineAt(i)'
  BY <1>1, <1>3
<1>5. idx \in Slots /\ full \in BOOLEAN /\ maxSize \in Nat
      /\ data \in [Slots -> Line \cup {blank}]
  BY SizeAssumption DEF Inv, TypeOK
<1>6. CASE full
  <2>1. Size = maxSize /\ Size' = maxSize /\ full'
    BY <1>1, <1>6 DEF Size
  <2>2. \A i \in 1 .. maxSize - 1 : LineAt(i)' = LineAt(i + 1)
    <3> SUFFICES ASSUME NEW i \in 1 .. maxSize - 1
                 PROVE  LineAt(i)' = LineAt(i + 1)
      OBVIOUS
    <3>1. CASE idx + 1 = maxSize
      <4>1. LineAt(i)' = data'[i - 1]
        BY <1>1, <1>5, <2>1, <3>1 DEF LineAt
      <4>2. LineAt(i + 1) = data[i - 1]
        <5>1. ~(idx + (i + 1) - 1 < maxSize) /\ idx + (i + 1) - 1 - maxSize = i - 1
          BY <1>5, <3>1 DEF Slots
        <5> QED BY <1>6, <5>1 DEF LineAt
      <4>3. i - 1 \in Slots /\ i - 1 # idx
        BY <1>5, <3>1 DEF Slots
      <4> QED BY <1>1, <1>5, <4>1, <4>2, <4>3
    <3>2. CASE idx + 1 # maxSize /\ idx + i < maxSize
      <4>1. LineAt(i)' = data'[idx + i]
        BY <1>1, <1>5, <2>1, <3>2 DEF LineAt, Slots
      <4>2. LineAt(i + 1) = data[idx + i]
        BY <1>5, <1>6, <3>2 DEF LineAt, Slots
      <4>3. idx + i \in Slots /\ idx + i # idx
        BY <1>5, <3>2 DEF Slots
      <4> QED BY <1>1, <1>5, <4>1, <4>2, <4>3
    <3>3. CASE idx + 1 # maxSize /\ ~(idx + i < maxSize)
      <4>1. LineAt(i)' = data'[idx + i - maxSize]
        BY <1>1, <1>5, <2>1, <3>3 DEF LineAt, Slots
      <4>2. LineAt(i + 1) = data[idx + i - maxSize]
        BY <1>5, <1>6, <3>3 DEF LineAt, Slots
      <4>3. idx + i - maxSize \in Slots /\ idx + i - maxSize # idx
        BY <1>5, <3>3 DEF Slots
      <4> QED BY <1>1, <1>5, <4>1, <4>2, <4>3
    <3> QED BY <3>1, <3>2, <3>3
  <2>3. LineAt(maxSize)' = line
    <3>1. CASE idx + 1 = maxSize
      BY <1>1, <1>5, <2>1, <3>1 DEF LineAt, Slots
    <3>2. CASE idx + 1 # maxSize
      BY <1>1, <1>5, <2>1, <3>2 DEF LineAt, Slots
    <3> QED BY <3>1, <3>2
  <2>4. maxSize > 0
    BY SizeAssumption
  <2>5. GetAll' = Append(Tail(GetAll), line)
    <3>1. \A i \in 1 .. maxSize - 1 : GetAll'[i] = GetAll[i + 1]
      BY <1>2, <1>4, <1>5, <2>1, <2>2
    <3>2. GetAll'[maxSize] = line
      BY <1>4, <1>5, <2>1, <2>3, <2>4
    <3> QED BY <1>2, <1>4, <2>1, <2>4, <3>1, <3>2, IsShift
  <2> QED BY <1>2, <2>1, <2>5 DEF Window!Push
<1>7. CASE ~full
  <2>1. Size = idx /\ Size' = idx + 1
    BY <1>1, <1>7 DEF Size
  <2>2. \A i \in 1 .. idx : LineAt(i)' = LineAt(i)
    <3> SUFFICES ASSUME NEW i \in 1 .. idx PROVE LineAt(i)' = LineAt(i)
      OBVIOUS
    <3>1. LineAt(i) = data[i - 1]
      BY <1>7 DEF LineAt
    <3>2. LineAt(i)' = data'[i - 1]
      BY <1>1, <1>5, <1>7 DEF LineAt, Slots
    <3>3. i - 1 \in Slots /\ i - 1 # idx
      BY <1>5 DEF Slots
    <3> QED BY <1>1, <1>5, <3>1, <3>2, <3>3
  <2>3. ASSUME NEW n \in Nat, n = idx + 1
        PROVE  LineAt(n)' = line
    <3>1. n - 1 = idx /\ 0 + n - 1 = idx /\ idx < maxSize
      BY <1>5, <2>3 DEF Slots
    <3>2. CASE idx + 1 = maxSize
      BY <1>1, <1>5, <3>1, <3>2 DEF LineAt
    <3>3. CASE idx + 1 # maxSize
      BY <1>1, <1>5, <1>7, <3>1, <3>3 DEF LineAt
    <3> QED BY <3>2, <3>3
  <2>4. GetAll' = Append(GetAll, line)
    <3>1. \A i \in 1 .. idx : GetAll'[i] = GetAll[i]
      BY <1>2, <1>4, <1>5, <2>1, <2>2 DEF Slots
    <3>2. ASSUME NEW n \in Nat, n = idx + 1
          PROVE  GetAll'[n] = line
      <4>1. n \in 1 .. Size'
        BY <1>5, <2>1, <3>2 DEF Slots
      <4> QED BY <1>4, <2>3, <3>2, <4>1
    <3>3. idx + 1 \in Nat
      BY <1>5 DEF Slots
    <3> QED BY <1>2, <1>4, <2>1, <3>1, <3>2, <3>3, IsAppend
  <2>5. Len(GetAll) < maxSize
    BY <1>2, <1>5, <2>1 DEF Slots
  <2> QED BY <2>4, <2>5 DEF Window!Push
<1> QED BY <1>5, <1>6, <1>7

LEMMA FlushFlushes ==
    ASSUME Flush
    PROVE  Window!Flush
<1>1. GetAll' = [i \in 1 .. 0 |-> data'[i - 1]]
  BY DEF Flush, GetAll
<1> QED BY <1>1 DEF Window!Flush

-----------------------------------------------------------------------------
(* The buffer is the window, whatever its capacity: GetAll returns the     *)
(* last maxSize lines since the last Flush, oldest first (GetAll, Add and  *)
(* Flush of CircularBuffer).                                               *)
THEOREM BufferIsWindow == Spec => IsWindow
<1>1. Init => Window!Init
  <2> SUFFICES ASSUME Init PROVE GetAll = <<>>
    BY DEF Window!Init
  <2>1. GetAll = [i \in 1 .. 0 |-> data[i - 1]]
    BY DEF Init, GetAll
  <2> QED BY <2>1
<1>2. Inv /\ [Next]_vars => [Window!Next]_GetAll
  <2> SUFFICES ASSUME Inv, [Next]_vars PROVE [Window!Next]_GetAll
    OBVIOUS
  <2>1. CASE Flush
    BY <2>1, FlushFlushes DEF Window!Next
  <2>2. ASSUME NEW line \in Line, Add(line) PROVE Window!Next
    BY <2>2, AddPushes DEF Window!Next
  <2>3. CASE UNCHANGED vars
    BY <2>3 DEF vars, GetAll
  <2> QED BY <2>1, <2>2, <2>3 DEF Next
<1> QED BY <1>1, <1>2, InitInv, NextInv, PTL DEF Spec, IsWindow, Window!Spec

(* GetAll returns as many lines as Size says, and never a slot that no     *)
(* reader has written.                                                     *)
THEOREM OnlyLinesReturned == Spec => []NoBlankReturned
<1>1. Inv => NoBlankReturned
  BY Contents, ElementOfSeq DEF NoBlankReturned
<1> QED BY <1>1, InitInv, NextInv, PTL DEF Spec

(* The index never leaves the array, whatever is added and flushed: the    *)
(* write data[idx] of Add is always in bounds.                             *)
THEOREM BufferTypeCorrect == Spec => []TypeOK
<1>1. Inv => TypeOK
  BY DEF Inv
<1> QED BY <1>1, InitInv, NextInv, PTL DEF Spec

=============================================================================
