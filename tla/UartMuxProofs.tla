----------------------------- MODULE UartMuxProofs -----------------------------
(***************************************************************************)
(* Theorems about UartMux, for any clients, UARTs, channel sizes and       *)
(* numbers of registrations and lines.                                     *)
(***************************************************************************)
EXTENDS UartMux, SequenceTheorems, FiniteSetTheorems, TLAPS

-----------------------------------------------------------------------------
(* The slice lists the channels of the connected clients, each once.  What *)
(* a broadcast has taken of it are channels too, also after the slice has  *)
(* been shifted or has moved to a larger array.                            *)

On == {c \in Clients : client[c] = "on"}
SliceSound ==
    /\ slice.len = Cardinality(On)
    /\ \A i \in 1 .. slice.len : heap[slice.cap][i] \in On
    /\ \A i, j \in 1 .. slice.len : heap[slice.cap][i] = heap[slice.cap][j] => i = j
    /\ \A c \in On : \E i \in 1 .. slice.len : heap[slice.cap][i] = c
SendsSound ==
    \A r \in Readers : phase[r] = "sending" =>
        /\ send[r].cap \in Caps /\ send[r].cap <= slice.cap
        /\ send[r].len <= send[r].cap
        /\ \A i \in 1 .. send[r].len : heap[send[r].cap][i] \in Clients
MuxInv == TypeOK /\ SliceSound /\ SendsSound

(* While no client leaves and until the session is registered again: what  *)
(* a broadcast has taken is the beginning of an array that is not written  *)
(* any more, and names each client once; a reader holds newer lines than it*)
(* has sent, its pipe newer ones still, and the clients it has yet to reach*)
(* have nothing as new as what it sends.                                   *)
Increasing(s) == \A i, j \in 1 .. Len(s) : i < j => s[i] < s[j]
Before(e, s) == \A i \in 1 .. Len(s) : e < s[i]
LinesSound ==
    \A r \in Readers :
        /\ Increasing(fifo[Uart(r)]) /\ Increasing(buf[r])
        /\ \A i \in 1 .. Len(fifo[Uart(r)]) : fifo[Uart(r)][i] <= written[Uart(r)]
        /\ \A i \in 1 .. Len(buf[r]) :
              buf[r][i] <= written[Uart(r)] /\ Before(buf[r][i], fifo[Uart(r)])
FirstReaders ==
    \A r \in Readers : r[2] > gen => phase[r] = "none" /\ buf[r] = <<>>
TakenOnce ==
    \A r \in Readers : phase[r] = "sending" =>
        /\ send[r].cap = slice.cap => send[r].len <= slice.len
        /\ \A i, j \in 1 .. send[r].len :
              heap[send[r].cap][i] = heap[send[r].cap][j] => i = j
SendsOrdered ==
    \A r \in Readers : phase[r] = "sending" =>
        /\ send[r].n <= written[Uart(r)]
        /\ Before(send[r].n, buf[r]) /\ Before(send[r].n, fifo[Uart(r)])

Delivered(c) == {got[c][i] : i \in 1 .. Len(got[c])} \cup {chan[c][i] : i \in 1 .. Len(chan[c])}
Unreached(c, r) == \E i \in send[r].at .. send[r].len : heap[send[r].cap][i] = c
DeliveredSound ==
    \A c \in Clients : \A e \in Delivered(c) : \A r \in Readers : e.uart = Uart(r) =>
        /\ e.n <= written[Uart(r)]
        /\ Before(e.n, buf[r]) /\ Before(e.n, fifo[Uart(r)])
        /\ phase[r] = "sending" =>
              e.n <= send[r].n /\ (Unreached(c, r) => e.n < send[r].n)
InOrderOf(s) ==
    \A i, j \in 1 .. Len(s) : i < j /\ s[i].uart = s[j].uart => s[i].n < s[j].n
Precede(s, t) ==
    \A i \in 1 .. Len(s), j \in 1 .. Len(t) : s[i].uart = t[j].uart => s[i].n < t[j].n
Ordered ==
    \A c \in Clients :
        InOrderOf(got[c]) /\ InOrderOf(chan[c]) /\ Precede(got[c], chan[c])

FlowInv ==
    /\ FirstReaders /\ TakenOnce
    /\ gen <= 1 => LinesSound /\ SendsOrdered /\ DeliveredSound /\ Ordered

-----------------------------------------------------------------------------
(* Types and the slice                                                      *)

LEMMA ClientsFinite ==
    /\ Cardinality(Clients) \in Nat
    /\ IsFiniteSet(On) /\ Cardinality(On) \in Nat /\ Cardinality(On) <= Cardinality(Clients)
<1>1. On \subseteq Clients
  BY DEF On
<1> QED
  BY <1>1, ClientsAssumption, FS_Subset, FS_CardinalityType

LEMMA MuxInit == Init => MuxInv
<1> SUFFICES ASSUME Init PROVE MuxInv
  OBVIOUS
<1> USE DEF Init
<1>1. On = {} /\ Cardinality({}) = 0
  BY FS_EmptySet DEF On
<1>2. SliceSound /\ SendsSound
  BY <1>1 DEF SliceSound, SendsSound
<1>3. send \in [Readers -> [n : 0 .. MaxLines, cap : Nat, len : Nat, at : Nat]]
  BY SizesAssumption DEF NoSend
<1>4. /\ fifo \in [Uarts -> Seq(Lines)] /\ buf \in [Readers -> Seq(Lines)]
      /\ chan \in [Clients -> Seq(Event)] /\ got \in [Clients -> Seq(Event)]
      /\ \A c \in Clients : Len(chan[c]) <= ChanSize
  BY SizesAssumption
<1>5. /\ DOMAIN heap = Caps
      /\ \A c \in Caps : heap[c] \in [Slots(c) -> Clients \cup {Nobody}]
  OBVIOUS
<1>6. slice \in [cap : Caps \cup {0}, len : Nat] /\ slice.len <= slice.cap
  OBVIOUS
<1>7. /\ phase \in [Readers -> {"none", "opening", "opened", "scanning", "sending", "gone"}]
      /\ \A r \in Readers : phase[r] # "sending"
  OBVIOUS
<1>8. gen \in 0 .. MaxRegistrations /\ written \in [Uarts -> 0 .. MaxLines]
  BY SizesAssumption
<1>9. TypeOK
  BY <1>3, <1>4, <1>5, <1>6, <1>7, <1>8 DEF TypeOK
<1> QED
  BY <1>2, <1>9 DEF MuxInv

(* A step that keeps the slice, its arrays and the clients. *)
LEMMA SliceKept ==
    ASSUME SliceSound, UNCHANGED <<heap, slice, client>>
    PROVE  SliceSound'
  BY DEF SliceSound, On

LEMMA ReadTyped ==
    ASSUME MuxInv, NEW r \in Readers, Read(r)
    PROVE  MuxInv'
<1> USE DEF MuxInv
<1>1. Uart(r) \in Uarts
  BY DEF Readers, Uart
<1>2. /\ phase \in [Readers -> {"none", "opening", "opened", "scanning", "sending", "gone"}]
      /\ send \in [Readers -> [n : 0 .. MaxLines, cap : Nat, len : Nat, at : Nat]]
      /\ buf \in [Readers -> Seq(Lines)] /\ fifo \in [Uarts -> Seq(Lines)]
      /\ chan \in [Clients -> Seq(Event)] /\ slice \in [cap : Caps \cup {0}, len : Nat]
      /\ slice.len <= slice.cap
  BY DEF TypeOK
<1>3. NoSend \in [n : 0 .. MaxLines, cap : Nat, len : Nat, at : Nat]
  BY SizesAssumption DEF NoSend
<1>4. SliceSound'
  <2>1. UNCHANGED <<heap, slice, client>>
    BY DEF Read, OpenFifo, StoreFile, ReadPipe, ScanLine, EndScan, SendEvent, clientVars
  <2> QED
    BY <2>1, SliceKept
<1>5. CASE OpenFifo(r) \/ StoreFile(r) \/ EndScan(r)
  <2>1. phase' \in [Readers -> {"none", "opening", "opened", "scanning", "sending", "gone"}]
    BY <1>2, <1>5 DEF OpenFifo, StoreFile, EndScan, Goto
  <2>2. file' \in [Readers -> {"nil", "set", "shut"}]
    BY <1>5 DEF OpenFifo, StoreFile, EndScan, TypeOK
  <2>3. \A q \in Readers : phase'[q] = "sending" => phase[q] = "sending"
    BY <1>2, <1>5 DEF OpenFifo, StoreFile, EndScan, Goto
  <2>4. TypeOK'
    BY <1>5, <2>1, <2>2, <2>3 DEF OpenFifo, StoreFile, EndScan, clientVars, TypeOK
  <2>5. SendsSound'
    BY <1>5, <2>3 DEF OpenFifo, StoreFile, EndScan, clientVars, SendsSound
  <2> QED
    BY <1>4, <2>4, <2>5
<1>6. CASE ReadPipe(r)
  <2>1. buf' \in [Readers -> Seq(Lines)] /\ fifo' \in [Uarts -> Seq(Lines)]
    BY <1>1, <1>2, <1>6 DEF ReadPipe
  <2>2. TypeOK'
    BY <1>6, <2>1 DEF ReadPipe, clientVars, TypeOK
  <2>3. SendsSound'
    BY <1>6 DEF ReadPipe, clientVars, SendsSound
  <2> QED
    BY <1>4, <2>2, <2>3
<1>7. CASE ScanLine(r)
  <2>1. /\ buf[r] # <<>> /\ buf[r] \in Seq(Lines)
        /\ buf' = [buf EXCEPT ![r] = Tail(buf[r])]
        /\ UNCHANGED <<registered, gen, file, fifo, written, heap, slice, client, chan,
                       got, done, panicked>>
    BY <1>2, <1>7 DEF ScanLine, clientVars
  <2>2. Head(buf[r]) \in Lines /\ Tail(buf[r]) \in Seq(Lines)
    BY <2>1, HeadTailProperties
  <2>3. buf' \in [Readers -> Seq(Lines)]
    BY <1>2, <2>1, <2>2
  <2>4. CASE slice.len = 0
    <3>1. UNCHANGED <<phase, send>>
      BY <1>7, <2>4 DEF ScanLine
    <3> QED
      BY <1>4, <2>1, <2>3, <3>1 DEF TypeOK, SendsSound
  <2>5. CASE slice.len # 0
    <3> DEFINE new == [n |-> Head(buf[r]), cap |-> slice.cap, len |-> slice.len, at |-> 1]
    <3>1. send' = [send EXCEPT ![r] = new] /\ phase' = [phase EXCEPT ![r] = "sending"]
      BY <1>7, <2>5 DEF ScanLine, Goto
    <3>2. slice.cap \in Caps /\ slice.cap \in Nat /\ slice.len \in Nat /\ slice.len >= 1
      BY <1>2, <2>5, ClientsFinite DEF Caps
    <3>3. new \in [n : 0 .. MaxLines, cap : Nat, len : Nat, at : Nat]
      BY <2>2, <3>2, SizesAssumption DEF Lines
    <3>4. /\ phase' \in [Readers -> {"none", "opening", "opened", "scanning", "sending", "gone"}]
          /\ send' \in [Readers -> [n : 0 .. MaxLines, cap : Nat, len : Nat, at : Nat]]
      BY <1>2, <3>1, <3>3
    <3>5. /\ send'[r] = new
          /\ \A q \in Readers \ {r} : send'[q] = send[q] /\ phase'[q] = phase[q]
      BY <1>2, <3>1
    <3>6. TypeOK'
      <4>1. \A q \in Readers : phase'[q] = "sending" =>
              send'[q].n \in Lines /\ send'[q].at \in 1 .. send'[q].len
        <5> TAKE q \in Readers
        <5>1. CASE q = r
          BY <2>2, <3>2, <3>5, <5>1
        <5>2. CASE q # r
          BY <3>5, <5>2 DEF TypeOK
        <5> QED
          BY <5>1, <5>2
      <4> QED
        BY <2>1, <2>3, <3>4, <4>1 DEF TypeOK
    <3>7. \A i \in 1 .. slice.len : heap[slice.cap][i] \in Clients
      BY DEF SliceSound, On
    <3>8. SendsSound'
      <4> SUFFICES ASSUME NEW q \in Readers, phase'[q] = "sending"
                   PROVE  /\ send'[q].cap \in Caps /\ send'[q].cap <= slice.cap
                          /\ send'[q].len <= send'[q].cap
                          /\ \A i \in 1 .. send'[q].len : heap[send'[q].cap][i] \in Clients
        BY <2>1 DEF SendsSound
      <4>1. CASE q = r
        BY <1>2, <3>2, <3>5, <3>7, <4>1
      <4>2. CASE q # r
        BY <3>5, <4>2 DEF SendsSound
      <4> QED
        BY <4>1, <4>2
    <3> QED
      BY <1>4, <3>6, <3>8
  <2> QED
    BY <2>4, <2>5
<1>8. CASE SendEvent(r)
  <2>1. /\ phase[r] = "sending"
        /\ UNCHANGED <<registered, gen, file, fifo, written, buf, heap, slice, client,
                       got, done>>
    BY <1>8 DEF SendEvent
  <2>2. /\ send[r].n \in Lines /\ send[r].at \in 1 .. send[r].len
        /\ send[r].len \in Nat /\ send[r].cap \in Caps
        /\ \A i \in 1 .. send[r].len : heap[send[r].cap][i] \in Clients
    BY <1>2, <2>1 DEF SendsSound, TypeOK
  <2>3. Target(r) \in Clients
    BY <2>2 DEF Target
  <2>4. \/ Advance(r)
        \/ send' = [send EXCEPT ![r] = NoSend] /\ phase' = [phase EXCEPT ![r] = "scanning"]
        \/ send' = send /\ phase' = phase
    BY <1>8 DEF SendEvent, Goto
  <2>5. \/ /\ phase'[r] = "sending" /\ send'[r].n = send[r].n /\ send'[r].cap = send[r].cap
           /\ send'[r].len = send[r].len /\ send'[r].at \in 1 .. send[r].len
        \/ phase'[r] = "scanning"
    <3>1. CASE /\ send[r].at < send[r].len
               /\ send' = [send EXCEPT ![r].at = @ + 1] /\ phase' = phase
      <4>1. send[r].at + 1 \in 1 .. send[r].len
        BY <2>2, <3>1
      <4>2. /\ send'[r].at = send[r].at + 1 /\ send'[r].n = send[r].n
            /\ send'[r].cap = send[r].cap /\ send'[r].len = send[r].len
        BY <1>2, <3>1
      <4> QED
        BY <2>1, <3>1, <4>1, <4>2
    <3>2. CASE phase' = [phase EXCEPT ![r] = "scanning"]
      BY <1>2, <3>2
    <3>3. CASE send' = send /\ phase' = phase
      BY <2>1, <2>2, <3>3
    <3> QED
      BY <2>4, <3>1, <3>2, <3>3 DEF Advance, Goto
  <2>6. /\ phase' \in [Readers -> {"none", "opening", "opened", "scanning", "sending", "gone"}]
        /\ send' \in [Readers -> [n : 0 .. MaxLines, cap : Nat, len : Nat, at : Nat]]
        /\ \A q \in Readers \ {r} : send'[q] = send[q] /\ phase'[q] = phase[q]
    <3> DEFINE Taking == [n : 0 .. MaxLines, cap : Nat, len : Nat, at : Nat]
    <3> DEFINE next == [send[r] EXCEPT !.at = @ + 1]
    <3>1. send' = [send EXCEPT ![r] = next] \/ send' = [send EXCEPT ![r] = NoSend] \/ send' = send
      BY <1>2, <2>4 DEF Advance
    <3>2. next \in Taking
      <4>1. send[r] \in Taking /\ send[r].at + 1 \in Nat
        BY <1>2
      <4> QED
        BY <4>1
    <3>3. send' \in [Readers -> Taking] /\ \A q \in Readers \ {r} : send'[q] = send[q]
      <4>1. send \in [Readers -> Taking] /\ NoSend \in Taking
        BY <1>2, <1>3
      <4> HIDE DEF Taking, next
      <4> QED
        BY <3>1, <3>2, <4>1
    <3>4. phase' = [phase EXCEPT ![r] = "scanning"] \/ phase' = phase
      BY <2>4 DEF Advance, Goto
    <3>5. /\ phase' \in [Readers -> {"none", "opening", "opened", "scanning", "sending", "gone"}]
          /\ \A q \in Readers \ {r} : phase'[q] = phase[q]
      BY <1>2, <3>4
    <3> QED
      BY <3>3, <3>5
  <2>7. chan' \in [Clients -> Seq(Event)] /\ \A c \in Clients : Len(chan'[c]) <= ChanSize
    <3>1. [uart |-> Uart(r), n |-> send[r].n] \in Event
      BY <1>1, <2>2 DEF Event
    <3>2. CASE /\ Room(Target(r))
               /\ chan' = [chan EXCEPT ![Target(r)] =
                             Append(@, [uart |-> Uart(r), n |-> send[r].n])]
      <4>1. /\ Append(chan[Target(r)], [uart |-> Uart(r), n |-> send[r].n]) \in Seq(Event)
            /\ Len(Append(chan[Target(r)], [uart |-> Uart(r), n |-> send[r].n]))
                 = Len(chan[Target(r)]) + 1
        BY <1>2, <2>3, <3>1, AppendProperties
      <4>2. Len(chan[Target(r)]) \in Nat
        BY <1>2, <2>3
      <4> QED
        BY <1>2, <2>3, <3>2, <4>1, <4>2, SizesAssumption DEF Room, TypeOK
    <3>3. CASE chan' = chan
      BY <3>3 DEF TypeOK
    <3> QED
      BY <1>8, <3>2, <3>3 DEF SendEvent
  <2>8. panicked' \in BOOLEAN
    BY <1>8 DEF SendEvent, TypeOK
  <2>9. TypeOK'
    BY <2>1, <2>2, <2>5, <2>6, <2>7, <2>8 DEF TypeOK
  <2>10. SendsSound'
    BY <2>1, <2>5, <2>6 DEF SendsSound
  <2> QED
    BY <1>4, <2>9, <2>10
<1> QED
  BY <1>5, <1>6, <1>7, <1>8 DEF Read

(* The session's registration, the firmware and the SSE handlers' receives. *)
LEMMA ControlTyped ==
    ASSUME MuxInv,
           \/ RegisterSessionBackends \/ UnregisterSessionBackends \/ Stop
           \/ \E c \in Clients : Receive(c)
           \/ \E u \in Uarts : FirmwareWrites(u)
    PROVE  MuxInv'
<1> USE DEF MuxInv
<1>1. UNCHANGED <<heap, slice, client, send>>
  BY DEF RegisterSessionBackends, UnregisterSessionBackends, Stop, Receive, FirmwareWrites,
         clientVars, readerVars
<1>2. SliceSound'
  BY <1>1, SliceKept
<1>3. ASSUME CloseFiles PROVE file' \in [Readers -> {"nil", "set", "shut"}]
  BY <1>3 DEF CloseFiles, TypeOK
<1>4. CASE RegisterSessionBackends
  <2>1. gen' \in 0 .. MaxRegistrations /\ gen' \in 1 .. MaxRegistrations
    BY <1>4, SizesAssumption DEF RegisterSessionBackends, TypeOK
  <2>2. registered' \subseteq Readers
    BY <1>4, <2>1 DEF RegisterSessionBackends, Readers
  <2>3. /\ phase' \in [Readers -> {"none", "opening", "opened", "scanning", "sending", "gone"}]
        /\ \A q \in Readers : phase'[q] = "sending" => phase[q] = "sending"
    BY <1>4 DEF RegisterSessionBackends, TypeOK
  <2>4. TypeOK'
    BY <1>1, <1>3, <1>4, <2>1, <2>2, <2>3 DEF RegisterSessionBackends, clientVars, TypeOK
  <2>5. SendsSound'
    BY <1>1, <2>3 DEF SendsSound
  <2> QED
    BY <1>2, <2>4, <2>5
<1>5. CASE UnregisterSessionBackends \/ Stop
  <2>1. phase' = phase
    BY <1>5 DEF UnregisterSessionBackends, Stop
  <2>2. TypeOK'
    BY <1>1, <1>3, <1>5 DEF UnregisterSessionBackends, Stop, clientVars, TypeOK
  <2>3. SendsSound'
    BY <1>1, <2>1 DEF SendsSound
  <2> QED
    BY <1>2, <2>2, <2>3
<1>6. ASSUME NEW c \in Clients, Receive(c) PROVE MuxInv'
  <2>1. /\ chan[c] # <<>> /\ chan[c] \in Seq(Event) /\ got[c] \in Seq(Event)
        /\ got' = [got EXCEPT ![c] = Append(@, Head(chan[c]))]
        /\ chan' = [chan EXCEPT ![c] = Tail(@)]
        /\ UNCHANGED <<registered, gen, phase, file, fifo, written, buf, done, panicked>>
    BY <1>6 DEF Receive, readerVars, TypeOK
  <2>2. /\ Head(chan[c]) \in Event /\ Tail(chan[c]) \in Seq(Event)
        /\ Len(Tail(chan[c])) = Len(chan[c]) - 1 /\ Len(chan[c]) \in Nat
    BY <2>1, HeadTailProperties
  <2>3. Append(got[c], Head(chan[c])) \in Seq(Event)
    BY <2>1, <2>2, AppendProperties
  <2>4. \A d \in Clients : Len(chan'[d]) <= ChanSize
    BY <2>1, <2>2, SizesAssumption DEF TypeOK
  <2>5. chan' \in [Clients -> Seq(Event)] /\ got' \in [Clients -> Seq(Event)]
    BY <2>1, <2>2, <2>3 DEF TypeOK
  <2>6. TypeOK'
    BY <1>1, <2>1, <2>4, <2>5 DEF TypeOK
  <2>7. SendsSound'
    BY <1>1, <2>1 DEF SendsSound
  <2> QED
    BY <1>2, <2>6, <2>7
<1>7. ASSUME NEW u \in Uarts, FirmwareWrites(u) PROVE MuxInv'
  <2>1. /\ written[u] \in 0 .. MaxLines /\ written[u] < MaxLines /\ fifo[u] \in Seq(Lines)
        /\ written' = [written EXCEPT ![u] = @ + 1]
        /\ fifo' = [fifo EXCEPT ![u] = Append(@, written[u] + 1)]
        /\ UNCHANGED <<registered, gen, phase, file, buf, chan, got, done, panicked>>
    BY <1>7 DEF FirmwareWrites, clientVars, TypeOK
  <2>2. written[u] + 1 \in Lines /\ written[u] + 1 \in 0 .. MaxLines
    BY <2>1, SizesAssumption DEF Lines
  <2>3. Append(fifo[u], written[u] + 1) \in Seq(Lines)
    BY <2>1, <2>2, AppendProperties
  <2>4. fifo' \in [Uarts -> Seq(Lines)] /\ written' \in [Uarts -> 0 .. MaxLines]
    BY <2>1, <2>2, <2>3 DEF TypeOK
  <2>5. TypeOK'
    BY <1>1, <2>1, <2>4 DEF TypeOK
  <2>6. SendsSound'
    BY <1>1, <2>1 DEF SendsSound
  <2> QED
    BY <1>2, <2>5, <2>6
<1> QED
  BY <1>4, <1>5, <1>6, <1>7

(* append: in place, or into an array nobody has seen.  A broadcast that is *)
(* under way keeps what it took.                                           *)
LEMMA Appended ==
    ASSUME MuxInv, NEW c \in Clients, Subscribe(c)
    PROVE  /\ slice'.len = slice.len + 1 /\ slice'.cap >= slice.cap
           /\ slice' \in [cap : Caps, len : Nat] /\ slice'.len <= slice'.cap
           /\ \A i \in 1 .. slice.len : heap'[slice'.cap][i] = heap[slice.cap][i]
           /\ heap'[slice'.cap][slice'.len] = c
           /\ slice'.cap = slice.cap \/ slice'.cap > slice.cap
           /\ \A k \in Caps, i \in Nat :
                 k <= slice.cap /\ (k = slice.cap => i <= slice.len) =>
                    heap'[k][i] = heap[k][i]
           /\ \A k \in Caps : k <= slice.cap => \A i \in Slots(k) :
                 heap[k][i] \in Clients => heap'[k][i] \in Clients
           /\ DOMAIN heap' = Caps
           /\ \A k \in Caps : heap'[k] \in [Slots(k) -> Clients \cup {Nobody}]
<1> USE DEF MuxInv, Slots
<1>1. /\ slice \in [cap : Caps \cup {0}, len : Nat] /\ slice.len <= slice.cap
      /\ DOMAIN heap = Caps
      /\ \A k \in Caps : heap[k] \in [1 .. k -> Clients \cup {Nobody}]
  BY DEF TypeOK
<1>2. slice.cap \in Nat /\ slice.len \in Nat /\ (slice.cap # 0 => slice.cap \in Caps)
  BY <1>1, ClientsFinite DEF Caps
<1>3. slice.len + 1 <= Cardinality(Clients)
  <2>1. c \in Clients \ On /\ On \subseteq Clients
    BY DEF Subscribe, On
  <2>2. On \cup {c} \subseteq Clients
    BY <2>1
  <2>3. IsFiniteSet(On \cup {c}) /\ Cardinality(On \cup {c}) = Cardinality(On) + 1
    BY <2>1, ClientsFinite, FS_AddElement
  <2>4. Cardinality(On \cup {c}) <= Cardinality(Clients)
    BY <2>2, ClientsAssumption, FS_Subset
  <2> QED
    BY <2>3, <2>4 DEF SliceSound
<1>4. CASE slice.len < slice.cap
  <2>1. /\ heap' = [heap EXCEPT ![slice.cap][slice.len + 1] = c]
        /\ slice' = [slice EXCEPT !.len = @ + 1]
    BY <1>4 DEF Subscribe
  <2>2. slice.cap \in Caps /\ slice.len + 1 \in 1 .. slice.cap
    BY <1>2, <1>4
  <2>3. /\ slice'.len = slice.len + 1 /\ slice'.cap = slice.cap
        /\ slice' \in [cap : Caps, len : Nat]
    BY <1>1, <1>2, <2>1, <2>2
  <2>4. heap'[slice.cap] = [heap[slice.cap] EXCEPT ![slice.len + 1] = c]
    BY <1>1, <2>1, <2>2
  <2>5. \A k \in Caps : k # slice.cap => heap'[k] = heap[k]
    BY <1>1, <2>1
  <2>6. heap[slice.cap] \in [1 .. slice.cap -> Clients \cup {Nobody}]
    BY <1>1, <2>2
  <2>7. heap'[slice.cap][slice.len + 1] = c
    BY <2>2, <2>4, <2>6
  <2>8. \A i \in Nat : i <= slice.len => heap'[slice.cap][i] = heap[slice.cap][i]
    BY <1>2, <2>4, <2>6
  <2>9. DOMAIN heap' = Caps /\ \A k \in Caps : heap'[k] \in [1 .. k -> Clients \cup {Nobody}]
    BY <1>1, <2>1, <2>4, <2>5, <2>6
  <2>10. \A k \in Caps : \A i \in 1 .. k : heap[k][i] \in Clients => heap'[k][i] \in Clients
    BY <2>4, <2>5, <2>6
  <2>11. \A i \in 1 .. slice.len : i \in Nat /\ i <= slice.len
    BY <1>2
  <2>12. \A k \in Caps, i \in Nat :
           k <= slice.cap /\ (k = slice.cap => i <= slice.len) => heap'[k][i] = heap[k][i]
    BY <2>5, <2>8
  <2>13. slice'.cap >= slice.cap /\ slice'.len <= slice'.cap
    BY <1>2, <1>4, <2>3
  <2> QED
    BY <2>3, <2>7, <2>8, <2>9, <2>10, <2>11, <2>12, <2>13
<1>5. CASE ~(slice.len < slice.cap)
  <2> DEFINE array == [i \in 1 .. Grown |->
                         IF i <= slice.len THEN heap[slice.cap][i]
                         ELSE IF i = slice.len + 1 THEN c ELSE Nobody]
  <2>1. /\ heap' = [heap EXCEPT ![Grown] = array]
        /\ slice' = [cap |-> Grown, len |-> slice.len + 1]
    BY <1>5 DEF Subscribe
  <2>2. slice.len = slice.cap
    BY <1>1, <1>2, <1>5
  <2>3. /\ Grown \in Caps /\ Grown > slice.cap /\ Grown \in Nat
        /\ slice.len + 1 \in 1 .. Grown
    BY <1>2, <1>3, <2>2, ClientsFinite DEF Grown, Caps
  <2>4. \A i \in 1 .. slice.len : heap[slice.cap][i] \in Clients
    BY DEF SliceSound, On
  <2>5. array \in [1 .. Grown -> Clients \cup {Nobody}]
    BY <1>2, <2>3, <2>4
  <2>6. heap'[Grown] = array /\ \A k \in Caps : k # Grown => heap'[k] = heap[k]
    BY <1>1, <2>1, <2>3
  <2>7. slice'.len = slice.len + 1 /\ slice'.cap = Grown /\ slice' \in [cap : Caps, len : Nat]
    BY <1>2, <2>1, <2>3
  <2>8. /\ \A i \in 1 .. slice.len : heap'[Grown][i] = heap[slice.cap][i]
        /\ heap'[Grown][slice.len + 1] = c
    BY <1>2, <2>3, <2>6
  <2>9. DOMAIN heap' = Caps /\ \A k \in Caps : heap'[k] \in [1 .. k -> Clients \cup {Nobody}]
    BY <1>1, <2>1, <2>5, <2>6
  <2>10. \A k \in Caps : k <= slice.cap => heap'[k] = heap[k]
    BY <1>2, <2>3, <2>6 DEF Caps
  <2> HIDE DEF array
  <2> QED
    BY <1>2, <2>3, <2>7, <2>8, <2>9, <2>10
<1> QED
  BY <1>4, <1>5

LEMMA SubscribeSound ==
    ASSUME MuxInv, NEW c \in Clients, Subscribe(c)
    PROVE  MuxInv'
<1> USE DEF MuxInv
<1>1. /\ client[c] = "new" /\ client' = [client EXCEPT ![c] = "on"]
      /\ UNCHANGED <<readerVars, chan, got, done, panicked>>
  BY DEF Subscribe
<1>2. /\ slice \in [cap : Caps \cup {0}, len : Nat] /\ slice.len \in Nat
      /\ client \in [Clients -> {"new", "on", "left"}]
  BY DEF TypeOK
<1>3. On' = On \cup {c} /\ c \notin On
  BY <1>1, <1>2 DEF On
<1>4. Cardinality(On') = Cardinality(On) + 1
  BY <1>3, ClientsFinite, FS_AddElement
<1>5. TypeOK'
  <2>1. client' \in [Clients -> {"new", "on", "left"}]
    BY <1>1, <1>2
  <2> QED
    BY <1>1, <2>1, Appended DEF TypeOK, readerVars
<1>6. SliceSound'
  <2>1. slice'.len = Cardinality(On')
    BY <1>4, Appended DEF SliceSound
  <2>2. \A i \in 1 .. slice'.len : i # slice'.len => i \in 1 .. slice.len
    BY <1>2, Appended
  <2>3. /\ \A i \in 1 .. slice.len : heap'[slice'.cap][i] = heap[slice.cap][i]
        /\ heap'[slice'.cap][slice'.len] = c
    BY Appended
  <2>4. \A i \in 1 .. slice'.len : heap'[slice'.cap][i] \in On'
    BY <1>3, <2>2, <2>3 DEF SliceSound
  <2>5. \A i, j \in 1 .. slice'.len : heap'[slice'.cap][i] = heap'[slice'.cap][j] => i = j
    BY <1>3, <2>2, <2>3 DEF SliceSound
  <2>6. \A d \in On' : \E i \in 1 .. slice'.len : heap'[slice'.cap][i] = d
    <3> SUFFICES ASSUME NEW d \in On'
                 PROVE  \E i \in 1 .. slice'.len : heap'[slice'.cap][i] = d
      OBVIOUS
    <3>1. slice'.len \in 1 .. slice'.len /\ (\A i \in 1 .. slice.len : i \in 1 .. slice'.len)
      BY <1>2, Appended
    <3>2. CASE d = c
      BY <2>3, <3>1, <3>2
    <3>3. CASE d # c
      <4>1. d \in On
        BY <1>3, <3>3
      <4>2. PICK i \in 1 .. slice.len : heap[slice.cap][i] = d
        BY <4>1 DEF SliceSound
      <4> QED
        BY <2>3, <3>1, <4>2
    <3> QED
      BY <3>2, <3>3
  <2> QED
    BY <2>1, <2>4, <2>5, <2>6 DEF SliceSound
<1>7. SendsSound'
  <2> SUFFICES ASSUME NEW r \in Readers, phase[r] = "sending"
               PROVE  /\ send[r].cap \in Caps /\ send[r].cap <= slice'.cap
                      /\ send[r].len <= send[r].cap
                      /\ \A i \in 1 .. send[r].len : heap'[send[r].cap][i] \in Clients
    BY <1>1 DEF SendsSound, readerVars
  <2>1. /\ send[r].cap \in Caps /\ send[r].cap <= slice.cap /\ send[r].len <= send[r].cap
        /\ send[r].len \in Nat /\ send[r].cap \in Nat /\ slice.cap \in Nat /\ slice'.cap \in Nat
    <3>1. Caps \cup {0} \subseteq Nat
      BY ClientsFinite DEF Caps
    <3>2. /\ send[r].cap \in Caps /\ send[r].cap <= slice.cap /\ send[r].len <= send[r].cap
          /\ send[r].len \in Nat
      BY DEF SendsSound, TypeOK
    <3>3. slice'.cap \in Caps
      BY Appended
    <3>4. slice.cap \in Caps \cup {0}
      BY <1>2
    <3> QED
      BY <3>1, <3>2, <3>3, <3>4
  <2>2. send[r].cap <= slice'.cap
    BY <2>1, Appended
  <2>3. ASSUME NEW i \in 1 .. send[r].len PROVE heap'[send[r].cap][i] \in Clients
    <3>1. heap[send[r].cap][i] \in Clients /\ i \in Slots(send[r].cap)
      BY <2>1 DEF SendsSound, Slots
    <3> QED
      BY <2>1, <3>1, Appended
  <2> QED
    BY <2>1, <2>2, <2>3
<1> QED
  BY <1>5, <1>6, <1>7

(* The shift in place: the positions behind the one removed move down, and *)
(* what a broadcast has taken of the array holds channels still.           *)
LEMMA UnsubscribeSound ==
    ASSUME MuxInv, NEW c \in Clients, Unsubscribe(c)
    PROVE  MuxInv'
<1> USE DEF MuxInv, Slots
<1>1. /\ client[c] = "on" /\ client' = [client EXCEPT ![c] = "left"]
      /\ chan' = [chan EXCEPT ![c] = <<>>]
      /\ slice' = [slice EXCEPT !.len = @ - 1]
      /\ UNCHANGED <<readerVars, got, done, panicked>>
  BY DEF Unsubscribe
<1>2. /\ slice \in [cap : Caps \cup {0}, len : Nat] /\ slice.len <= slice.cap
      /\ DOMAIN heap = Caps
      /\ \A k \in Caps : heap[k] \in [1 .. k -> Clients \cup {Nobody}]
      /\ client \in [Clients -> {"new", "on", "left"}]
      /\ chan \in [Clients -> Seq(Event)]
  BY DEF TypeOK
<1>3. PICK i \in 1 .. slice.len :
        /\ heap[slice.cap][i] = c
        /\ heap' = [heap EXCEPT ![slice.cap] =
                      [j \in 1 .. slice.cap |->
                         IF j \in i .. slice.len - 1 THEN @[j + 1] ELSE @[j]]]
  BY DEF Unsubscribe
<1>4. /\ slice.cap \in Nat /\ slice.len \in Nat /\ slice.len >= 1 /\ slice.cap # 0
      /\ slice.cap \in Caps
  <2>1. Caps \cup {0} \subseteq Nat
    BY ClientsFinite DEF Caps
  <2> QED
    BY <1>2, <2>1
<1>5. slice'.cap = slice.cap /\ slice'.len = slice.len - 1 /\ slice'.len \in Nat
  BY <1>1, <1>2, <1>4
<1> DEFINE old == heap[slice.cap]
           new == [j \in 1 .. slice.cap |->
                     IF j \in i .. slice.len - 1 THEN old[j + 1] ELSE old[j]]
<1>6. heap'[slice.cap] = new /\ \A k \in Caps : k # slice.cap => heap'[k] = heap[k]
  BY <1>2, <1>3, <1>4
<1>7. old \in [1 .. slice.cap -> Clients \cup {Nobody}]
  BY <1>2, <1>4
<1>8. \A j \in 1 .. slice.len - 1 : new[j] = IF j < i THEN old[j] ELSE old[j + 1]
  BY <1>2, <1>4
<1>9. new \in [1 .. slice.cap -> Clients \cup {Nobody}]
  <2>1. \A j \in 1 .. slice.cap : j \in i .. slice.len - 1 => j + 1 \in 1 .. slice.cap
    BY <1>2, <1>4
  <2>2. \A j \in 1 .. slice.cap : new[j] \in Clients \cup {Nobody}
    BY <1>7, <2>1
  <2> QED
    BY <2>2
<1>10. On' = On \ {c} /\ c \in On
  BY <1>1, <1>2 DEF On
<1>11. Cardinality(On') = Cardinality(On) - 1
  BY <1>10, ClientsFinite, FS_RemoveElement
<1>12. TypeOK'
  <2>1. client' \in [Clients -> {"new", "on", "left"}]
    BY <1>1, <1>2
  <2>2. chan' \in [Clients -> Seq(Event)] /\ \A d \in Clients : Len(chan'[d]) <= ChanSize
    BY <1>1, <1>2, SizesAssumption DEF TypeOK
  <2>3. slice' \in [cap : Caps \cup {0}, len : Nat] /\ slice'.len <= slice'.cap
    BY <1>1, <1>2, <1>4, <1>5
  <2>4. DOMAIN heap' = Caps
    BY <1>2, <1>3
  <2>5. \A k \in Caps : heap'[k] \in [1 .. k -> Clients \cup {Nobody}]
    BY <1>2, <1>6, <1>9
  <2> QED
    BY <1>1, <2>1, <2>2, <2>3, <2>4, <2>5 DEF TypeOK, readerVars
<1>13. SliceSound'
  <2> HIDE DEF old, new
  <2>1. /\ \A j \in 1 .. slice.len : old[j] \in On
        /\ \A j, k \in 1 .. slice.len : old[j] = old[k] => j = k
        /\ \A d \in On : \E j \in 1 .. slice.len : old[j] = d
        /\ old[i] = c
    BY <1>3 DEF SliceSound, old
  <2>2. \A j \in 1 .. slice.len - 1 :
          /\ j \in 1 .. slice.len /\ j + 1 \in 1 .. slice.len
          /\ j < i \/ j + 1 > i
    BY <1>4
  <2>3. \A j \in 1 .. slice.len - 1 : new[j] \in On \ {c}
    BY <1>4, <1>8, <2>1, <2>2
  <2>4. \A j, k \in 1 .. slice.len - 1 : new[j] = new[k] => j = k
    BY <1>4, <1>8, <2>1, <2>2
  <2>5. \A d \in On \ {c} : \E j \in 1 .. slice.len - 1 : new[j] = d
    <3> SUFFICES ASSUME NEW d \in On \ {c}
                 PROVE  \E j \in 1 .. slice.len - 1 : new[j] = d
      OBVIOUS
    <3>1. PICK j \in 1 .. slice.len : old[j] = d
      BY <2>1
    <3>2. j # i
      BY <2>1, <3>1
    <3>3. CASE j < i
      <4>1. j \in 1 .. slice.len - 1
        BY <1>4, <3>3
      <4> QED
        BY <1>8, <3>1, <3>3, <4>1
    <3>4. CASE j > i
      <4>1. j - 1 \in 1 .. slice.len - 1 /\ ~(j - 1 < i) /\ (j - 1) + 1 = j
        BY <1>4, <3>4
      <4> QED
        BY <1>8, <3>1, <4>1
    <3> QED
      BY <1>4, <3>2, <3>3, <3>4
  <2>6. slice'.len = Cardinality(On')
    BY <1>5, <1>11 DEF SliceSound
  <2> QED
    BY <1>5, <1>6, <1>10, <2>3, <2>4, <2>5, <2>6 DEF SliceSound
<1>14. SendsSound'
  <2> SUFFICES ASSUME NEW r \in Readers, phase[r] = "sending"
               PROVE  /\ send[r].cap \in Caps /\ send[r].cap <= slice.cap
                      /\ send[r].len <= send[r].cap
                      /\ \A j \in 1 .. send[r].len : heap'[send[r].cap][j] \in Clients
    BY <1>1, <1>5 DEF SendsSound, readerVars
  <2>1. /\ send[r].cap \in Caps /\ send[r].cap <= slice.cap
        /\ send[r].len <= send[r].cap /\ send[r].len \in Nat
        /\ \A j \in 1 .. send[r].len : heap[send[r].cap][j] \in Clients
    BY DEF SendsSound, TypeOK
  <2>2. CASE send[r].cap # slice.cap
    BY <1>6, <2>1, <2>2
  <2>3. CASE send[r].cap = slice.cap
    <3> SUFFICES ASSUME NEW j \in 1 .. send[r].len PROVE new[j] \in Clients
      BY <1>6, <2>1, <2>3
    <3>1. old[j] \in Clients /\ j \in 1 .. slice.cap
      BY <1>4, <2>1, <2>3
    <3>2. \A k \in 1 .. slice.len : old[k] \in Clients
      BY DEF SliceSound, On
    <3>3. CASE j \in i .. slice.len - 1
      <4>1. j + 1 \in 1 .. slice.len
        BY <1>4, <3>3
      <4>2. new[j] = old[j + 1]
        BY <3>1, <3>3
      <4> HIDE DEF old, new
      <4> QED
        BY <3>2, <4>1, <4>2
    <3>4. CASE j \notin i .. slice.len - 1
      BY <3>1, <3>4
    <3> QED
      BY <3>3, <3>4
  <2> QED
    BY <2>1, <2>2, <2>3
<1> QED
  BY <1>12, <1>13, <1>14

LEMMA MuxStep == MuxInv /\ [Next]_vars => MuxInv'
<1> SUFFICES ASSUME MuxInv, [Next]_vars PROVE MuxInv'
  OBVIOUS
<1>1. ASSUME NEW r \in Readers, Read(r) PROVE MuxInv'
  BY <1>1, ReadTyped
<1>2. CASE \/ RegisterSessionBackends \/ UnregisterSessionBackends \/ Stop
           \/ \E c \in Clients : Receive(c)
           \/ \E u \in Uarts : FirmwareWrites(u)
  BY <1>2, ControlTyped
<1>3. ASSUME NEW c \in Clients, Subscribe(c) PROVE MuxInv'
  BY <1>3, SubscribeSound
<1>4. ASSUME NEW c \in Clients, Unsubscribe(c) PROVE MuxInv'
  BY <1>4, UnsubscribeSound
<1>5. CASE UNCHANGED vars
  BY <1>5 DEF vars, readerVars, clientVars, MuxInv, TypeOK, SliceSound, SendsSound, On
<1> QED
  BY <1>1, <1>2, <1>3, <1>4, <1>5 DEF Next

(* Whatever readers, clients, registrations and the firmware do, the       *)
(* multiplexer's state has its types: in particular no channel holds more  *)
(* than its capacity, and the slice fits its array.                        *)
THEOREM MuxTypeCorrect == Spec => []TypeOK
<1>1. MuxInv => TypeOK
  BY DEF MuxInv
<1> QED
  BY <1>1, MuxInit, MuxStep, PTL DEF Spec

(* The slice holds the channel of every connected client exactly once and  *)
(* no other, over every order in which any number of clients subscribe and *)
(* disconnect, whatever broadcasts are under way (the in-place shift of    *)
(* Unsubscribe and the growth of append lose, double and revive none).     *)
THEOREM SubscribersStayExact == Spec => []SubscribersExact
<1>1. MuxInv => SubscribersExact
  BY DEF MuxInv, SliceSound, On, SubscribersExact
<1> QED
  BY <1>1, MuxInit, MuxStep, PTL DEF Spec

-----------------------------------------------------------------------------
(* The order of the lines.                                                  *)

LEMMA LinesAreNumbers ==
    ASSUME NEW s \in Seq(Lines), NEW i \in 1 .. Len(s)
    PROVE  s[i] \in Lines /\ s[i] \in Nat
<1>1. s[i] \in Lines
  OBVIOUS
<1> QED
  BY <1>1 DEF Lines

LEMMA DeliveredEvents ==
    ASSUME MuxInv, NEW c \in Clients, NEW e \in Delivered(c)
    PROVE  e \in Event /\ e.n \in Nat /\ e.n \in Lines
<1>1. got[c] \in Seq(Event) /\ chan[c] \in Seq(Event)
  BY DEF MuxInv, TypeOK
<1>2. e \in Event
  BY <1>1 DEF Delivered
<1> QED
  BY <1>2 DEF Event, Lines

LEMMA TailOrdered ==
    ASSUME NEW s \in Seq(Lines), s # <<>>, Increasing(s)
    PROVE  /\ Increasing(Tail(s)) /\ Before(Head(s), Tail(s))
           /\ \A n \in Nat : Before(n, s) => n < Head(s) /\ Before(n, Tail(s))
           /\ \A n \in 1 .. Len(Tail(s)) : \E i \in 1 .. Len(s) : Tail(s)[n] = s[i]
           /\ Head(s) = s[1] /\ 1 \in 1 .. Len(s)
<1>1. /\ Len(s) \in Nat \ {0} /\ Len(Tail(s)) = Len(s) - 1
      /\ \A i \in 1 .. Len(Tail(s)) : Tail(s)[i] = s[i + 1]
      /\ Head(s) = s[1]
  OBVIOUS
<1>2. \A i \in 1 .. Len(Tail(s)) : i + 1 \in 1 .. Len(s) /\ 1 < i + 1
  BY <1>1
<1>3. 1 \in 1 .. Len(s)
  BY <1>1
<1>4. Increasing(Tail(s))
  <2> SUFFICES ASSUME NEW i \in 1 .. Len(Tail(s)), NEW j \in 1 .. Len(Tail(s)), i < j
               PROVE  Tail(s)[i] < Tail(s)[j]
    BY DEF Increasing
  <2>1. i + 1 < j + 1
    BY <1>1
  <2> QED
    BY <1>1, <1>2, <2>1 DEF Increasing
<1> QED
  BY <1>1, <1>2, <1>3, <1>4 DEF Increasing, Before

LEMMA AppendOrdered ==
    ASSUME NEW s \in Seq(Lines), NEW n \in Lines, Increasing(s),
           \A i \in 1 .. Len(s) : s[i] < n
    PROVE  /\ Increasing(Append(s, n))
           /\ \A i \in 1 .. Len(Append(s, n)) : Append(s, n)[i] <= n
           /\ \A e \in Nat : e < n /\ Before(e, s) => Before(e, Append(s, n))
<1>1. /\ Len(s) \in Nat /\ Len(Append(s, n)) = Len(s) + 1
      /\ Append(s, n)[Len(s) + 1] = n
      /\ \A i \in 1 .. Len(s) : Append(s, n)[i] = s[i]
  OBVIOUS
<1>2. \A i \in 1 .. Len(Append(s, n)) : i # Len(s) + 1 => i \in 1 .. Len(s)
  BY <1>1
<1>3. n \in Nat
  BY DEF Lines
<1> DEFINE longer == Append(s, n)
<1>4. \A i \in 1 .. Len(s) : longer[i] = s[i] /\ s[i] < n /\ s[i] \in Nat
  BY <1>1, LinesAreNumbers
<1>5. \A i \in 1 .. Len(longer) : i \in 1 .. Len(s) \/ (i = Len(s) + 1 /\ longer[i] = n)
  BY <1>1, <1>2
<1>6. \A i \in 1 .. Len(longer), j \in 1 .. Len(longer) :
         i < j => i \in 1 .. Len(s)
  BY <1>1
<1> HIDE DEF longer
<1>7. Increasing(longer)
  BY <1>4, <1>5, <1>6 DEF Increasing
<1>8. \A i \in 1 .. Len(longer) : longer[i] <= n
  BY <1>3, <1>4, <1>5
<1>9. ASSUME NEW e \in Nat, e < n, Before(e, s) PROVE Before(e, longer)
  BY <1>4, <1>5, <1>9 DEF Before
<1> QED
  BY <1>7, <1>8, <1>9 DEF longer

(* While the session has been registered once, a UART has one reader that  *)
(* may be running: the readers of later registrations have done nothing.   *)
LEMMA OneReader ==
    ASSUME FirstReaders, gen <= 1, gen \in Nat,
           NEW r \in Readers, NEW q \in Readers, Uart(r) = Uart(q), phase[r] # "none"
    PROVE  q = r \/ (phase[q] = "none" /\ buf[q] = <<>>)
<1>1. /\ r = <<r[1], r[2]>> /\ q = <<q[1], q[2]>>
      /\ r[2] \in Nat /\ r[2] >= 1 /\ q[2] \in Nat /\ q[2] >= 1
  BY DEF Readers
<1>2. r[2] = 1
  BY <1>1 DEF FirstReaders
<1> QED
  BY <1>1, <1>2 DEF FirstReaders, Uart

LEMMA FlowInit == Init => FlowInv
<1> SUFFICES ASSUME Init PROVE FlowInv
  OBVIOUS
<1>1. /\ \A r \in Readers : phase[r] = "none" /\ buf[r] = <<>> /\ fifo[Uart(r)] = <<>>
      /\ \A c \in Clients : got[c] = <<>> /\ chan[c] = <<>>
  BY DEF Init, Readers, Uart
<1>2. Len(<<>>) = 0
  OBVIOUS
<1>3. FirstReaders /\ TakenOnce /\ SendsOrdered
  BY <1>1 DEF FirstReaders, TakenOnce, SendsOrdered
<1>4. LinesSound
  BY <1>1, <1>2 DEF LinesSound, Increasing, Before
<1>5. \A c \in Clients : Delivered(c) = {}
  BY <1>1, <1>2 DEF Delivered
<1>6. DeliveredSound
  BY <1>5 DEF DeliveredSound
<1>7. Ordered
  BY <1>1, <1>2 DEF Ordered, InOrderOf, Precede
<1> QED
  BY <1>3, <1>4, <1>6, <1>7 DEF FlowInv

(* A step that starts or ends readers and moves no line. *)
LEMMA FlowKept ==
    ASSUME FlowInv,
           UNCHANGED <<gen, fifo, written, buf, send, heap, slice, chan, got>>,
           \A q \in Readers :
              phase'[q] = phase[q] \/ (phase[q] # "none" /\ phase'[q] # "sending")
    PROVE  FlowInv'
<1>1. FirstReaders'
  BY DEF FlowInv, FirstReaders
<1>2. \A q \in Readers : phase'[q] = "sending" => phase[q] = "sending"
  OBVIOUS
<1>3. TakenOnce'
  BY <1>2 DEF FlowInv, TakenOnce
<1>4. LinesSound => LinesSound'
  BY DEF LinesSound, Increasing, Before
<1>5. SendsOrdered => SendsOrdered'
  BY <1>2 DEF SendsOrdered, Before
<1>6. DeliveredSound => DeliveredSound'
  BY <1>2 DEF DeliveredSound, Delivered, Unreached, Before
<1>7. Ordered => Ordered'
  BY DEF Ordered, InOrderOf, Precede
<1> QED
  BY <1>1, <1>3, <1>4, <1>5, <1>6, <1>7 DEF FlowInv

LEMMA FlowRegister ==
    ASSUME MuxInv, FlowInv, RegisterSessionBackends
    PROVE  FlowInv'
<1>1. /\ gen' = gen + 1 /\ gen \in Nat /\ registered' = Uarts \X {gen'}
      /\ phase' = [r \in Readers |-> IF r \in registered' /\ ~done THEN "opening" ELSE phase[r]]
      /\ UNCHANGED <<fifo, written, buf, send, heap, slice, chan, got>>
  BY DEF RegisterSessionBackends, clientVars, MuxInv, TypeOK
<1>2. \A q \in Readers : phase'[q] = "sending" => phase[q] = "sending"
  BY <1>1
<1>3. FirstReaders'
  <2> SUFFICES ASSUME NEW r \in Readers, r[2] > gen'
               PROVE  phase'[r] = "none" /\ buf[r] = <<>>
    BY <1>1 DEF FirstReaders
  <2>1. r[2] \in Nat
    BY DEF Readers
  <2>2. r[2] > gen /\ r[2] # gen'
    BY <1>1, <2>1
  <2>3. r \notin registered'
    BY <1>1, <2>2
  <2> QED
    BY <1>1, <2>2, <2>3 DEF FlowInv, FirstReaders
<1>4. TakenOnce'
  BY <1>1, <1>2 DEF FlowInv, TakenOnce
<1>5. gen' <= 1 => gen <= 1
  BY <1>1
<1>6. LinesSound => LinesSound'
  BY <1>1 DEF LinesSound, Increasing, Before
<1>7. SendsOrdered => SendsOrdered'
  BY <1>1, <1>2 DEF SendsOrdered, Before
<1>8. DeliveredSound => DeliveredSound'
  BY <1>1, <1>2 DEF DeliveredSound, Delivered, Unreached, Before
<1>9. Ordered => Ordered'
  BY <1>1 DEF Ordered, InOrderOf, Precede
<1> QED
  BY <1>3, <1>4, <1>5, <1>6, <1>7, <1>8, <1>9 DEF FlowInv

(* A read moves the pipe's lines to the reader's buffer, which is empty. *)
LEMMA FlowReadPipe ==
    ASSUME MuxInv, FlowInv, NEW r \in Readers, ReadPipe(r)
    PROVE  FlowInv'
<1>1. /\ phase[r] = "scanning" /\ Uart(r) \in Uarts
      /\ buf' = [buf EXCEPT ![r] = fifo[Uart(r)]]
      /\ fifo' = [fifo EXCEPT ![Uart(r)] = <<>>]
      /\ UNCHANGED <<gen, phase, written, send, heap, slice, chan, got>>
  BY DEF ReadPipe, clientVars, Readers, Uart
<1>2. /\ buf \in [Readers -> Seq(Lines)] /\ fifo \in [Uarts -> Seq(Lines)] /\ gen \in Nat
  BY DEF MuxInv, TypeOK
<1>3. /\ buf'[r] = fifo[Uart(r)] /\ \A q \in Readers \ {r} : buf'[q] = buf[q]
      /\ \A q \in Readers : Uart(q) \in Uarts
      /\ \A q \in Readers : fifo'[Uart(q)] = IF Uart(q) = Uart(r) THEN <<>> ELSE fifo[Uart(q)]
  BY <1>1, <1>2 DEF Readers, Uart
<1>4. FirstReaders'
  BY <1>1, <1>3 DEF FlowInv, FirstReaders
<1>5. TakenOnce'
  BY <1>1 DEF FlowInv, TakenOnce
<1> SUFFICES ASSUME gen <= 1, LinesSound, SendsOrdered, DeliveredSound, Ordered
             PROVE  LinesSound' /\ SendsOrdered' /\ DeliveredSound' /\ Ordered'
  BY <1>1, <1>4, <1>5 DEF FlowInv
<1>6. \A q \in Readers \ {r} : Uart(q) = Uart(r) => phase[q] = "none" /\ buf[q] = <<>>
  BY <1>1, <1>2, OneReader DEF FlowInv
<1>7. Len(<<>>) = 0
  OBVIOUS
<1>8. LinesSound'
  <2> SUFFICES ASSUME NEW q \in Readers
               PROVE  /\ Increasing(fifo'[Uart(q)]) /\ Increasing(buf'[q])
                      /\ \A i \in 1 .. Len(fifo'[Uart(q)]) : fifo'[Uart(q)][i] <= written[Uart(q)]
                      /\ \A i \in 1 .. Len(buf'[q]) :
                            buf'[q][i] <= written[Uart(q)] /\ Before(buf'[q][i], fifo'[Uart(q)])
    BY <1>1 DEF LinesSound, Increasing, Before
  <2>1. CASE q = r
    BY <1>3, <1>7, <2>1 DEF LinesSound, Increasing, Before
  <2>2. CASE q # r /\ Uart(q) = Uart(r)
    BY <1>3, <1>6, <1>7, <2>2 DEF LinesSound, Increasing, Before
  <2>3. CASE Uart(q) # Uart(r)
    BY <1>3, <2>3 DEF LinesSound
  <2> QED
    BY <2>1, <2>2, <2>3
<1>9. SendsOrdered'
  <2> SUFFICES ASSUME NEW q \in Readers, phase[q] = "sending"
               PROVE  /\ send[q].n <= written[Uart(q)]
                      /\ Before(send[q].n, buf'[q]) /\ Before(send[q].n, fifo'[Uart(q)])
    BY <1>1 DEF SendsOrdered, Before
  <2>1. q # r /\ Uart(q) # Uart(r)
    BY <1>1, <1>6
  <2> QED
    BY <1>3, <2>1 DEF SendsOrdered
<1>10. DeliveredSound'
  <2> SUFFICES ASSUME NEW c \in Clients, NEW e \in Delivered(c), NEW q \in Readers,
                      e.uart = Uart(q)
               PROVE  /\ e.n <= written[Uart(q)]
                      /\ Before(e.n, buf'[q]) /\ Before(e.n, fifo'[Uart(q)])
                      /\ phase[q] = "sending" =>
                            e.n <= send[q].n /\ (Unreached(c, q) => e.n < send[q].n)
    BY <1>1 DEF DeliveredSound, Delivered, Unreached, Before
  <2>1. /\ e.n <= written[Uart(q)]
        /\ Before(e.n, buf[q]) /\ Before(e.n, fifo[Uart(q)])
        /\ phase[q] = "sending" =>
              e.n <= send[q].n /\ (Unreached(c, q) => e.n < send[q].n)
    BY DEF DeliveredSound
  <2>2. CASE Uart(q) # Uart(r)
    BY <1>3, <2>1, <2>2
  <2>3. CASE Uart(q) = Uart(r)
    BY <1>3, <1>7, <2>1, <2>3 DEF Before
  <2> QED
    BY <2>1, <2>2, <2>3
<1>11. Ordered'
  BY <1>1 DEF Ordered, InOrderOf, Precede
<1> QED
  BY <1>8, <1>9, <1>10, <1>11

(* The next line leaves the buffer and Broadcast takes the slice. *)
LEMMA FlowScanLine ==
    ASSUME MuxInv, FlowInv, NEW r \in Readers, ScanLine(r)
    PROVE  FlowInv'
<1> DEFINE new == [n |-> Head(buf[r]), cap |-> slice.cap, len |-> slice.len, at |-> 1]
           Idle == phase' = phase /\ send' = send
           Starts == /\ send' = [send EXCEPT ![r] = new]
                     /\ phase' = [phase EXCEPT ![r] = "sending"]
<1>1. /\ phase[r] = "scanning" /\ Uart(r) \in Uarts
      /\ buf[r] # <<>> /\ buf' = [buf EXCEPT ![r] = Tail(buf[r])]
      /\ Idle \/ Starts
      /\ UNCHANGED <<gen, fifo, written, heap, slice, chan, got>>
  BY DEF ScanLine, clientVars, Readers, Uart, Goto
<1>2. /\ buf \in [Readers -> Seq(Lines)] /\ fifo \in [Uarts -> Seq(Lines)] /\ gen \in Nat
      /\ phase \in [Readers -> {"none", "opening", "opened", "scanning", "sending", "gone"}]
      /\ send \in [Readers -> [n : 0 .. MaxLines, cap : Nat, len : Nat, at : Nat]]
  BY DEF MuxInv, TypeOK
<1>3. /\ buf'[r] = Tail(buf[r]) /\ buf[r] \in Seq(Lines)
      /\ \A q \in Readers \ {r} :
            buf'[q] = buf[q] /\ phase'[q] = phase[q] /\ send'[q] = send[q]
      /\ phase'[r] = "sending" => send'[r] = new
  BY <1>1, <1>2
<1>4. FirstReaders'
  <2>1. ~(r[2] > gen)
    BY <1>1 DEF FlowInv, FirstReaders
  <2> QED
    BY <1>1, <1>3, <2>1 DEF FlowInv, FirstReaders
<1>5. TakenOnce'
  <2> SUFFICES ASSUME NEW q \in Readers, phase'[q] = "sending"
               PROVE  /\ send'[q].cap = slice.cap => send'[q].len <= slice.len
                      /\ \A i, j \in 1 .. send'[q].len :
                            heap[send'[q].cap][i] = heap[send'[q].cap][j] => i = j
    BY <1>1 DEF TakenOnce
  <2>1. CASE q = r
    <3>1. send'[q].len = slice.len /\ send'[q].cap = slice.cap /\ slice.len \in Nat
      BY <1>3, <2>1 DEF MuxInv, TypeOK
    <3> QED
      BY <3>1 DEF MuxInv, SliceSound
  <2>2. CASE q # r
    BY <1>3, <2>2 DEF FlowInv, TakenOnce
  <2> QED
    BY <2>1, <2>2
<1> SUFFICES ASSUME gen <= 1, LinesSound, SendsOrdered, DeliveredSound, Ordered
             PROVE  LinesSound' /\ SendsOrdered' /\ DeliveredSound' /\ Ordered'
  BY <1>1, <1>4, <1>5 DEF FlowInv
<1>6. /\ Increasing(buf'[r]) /\ Before(Head(buf[r]), buf'[r])
      /\ \A n \in Nat : Before(n, buf[r]) => n < Head(buf[r]) /\ Before(n, buf'[r])
      /\ \A i \in 1 .. Len(buf'[r]) : \E j \in 1 .. Len(buf[r]) : buf'[r][i] = buf[r][j]
      /\ Head(buf[r]) = buf[r][1] /\ 1 \in 1 .. Len(buf[r])
  <2>1. Increasing(buf[r])
    BY DEF LinesSound
  <2> QED
    BY <1>1, <1>3, <2>1, TailOrdered
<1>7. Head(buf[r]) <= written[Uart(r)] /\ Before(Head(buf[r]), fifo[Uart(r)])
  BY <1>6 DEF LinesSound
<1> HIDE DEF Idle, Starts
<1>8. LinesSound'
  <2> SUFFICES ASSUME NEW q \in Readers
               PROVE  /\ Increasing(fifo[Uart(q)]) /\ Increasing(buf'[q])
                      /\ \A i \in 1 .. Len(fifo[Uart(q)]) : fifo[Uart(q)][i] <= written[Uart(q)]
                      /\ \A i \in 1 .. Len(buf'[q]) :
                            buf'[q][i] <= written[Uart(q)] /\ Before(buf'[q][i], fifo[Uart(q)])
    BY <1>1 DEF LinesSound, Increasing, Before
  <2>1. CASE q = r
    BY <1>6, <2>1 DEF LinesSound
  <2>2. CASE q # r
    BY <1>3, <2>2 DEF LinesSound
  <2> QED
    BY <2>1, <2>2
<1>9. SendsOrdered'
  <2> SUFFICES ASSUME NEW q \in Readers, phase'[q] = "sending"
               PROVE  /\ send'[q].n <= written[Uart(q)]
                      /\ Before(send'[q].n, buf'[q]) /\ Before(send'[q].n, fifo[Uart(q)])
    BY <1>1 DEF SendsOrdered, Before
  <2>1. CASE q = r
    BY <1>3, <1>6, <1>7, <2>1
  <2>2. CASE q # r
    BY <1>3, <2>2 DEF SendsOrdered
  <2> QED
    BY <2>1, <2>2
<1>10. DeliveredSound'
  <2> SUFFICES ASSUME NEW c \in Clients, NEW e \in Delivered(c), NEW q \in Readers,
                      e.uart = Uart(q)
               PROVE  /\ e.n <= written[Uart(q)]
                      /\ Before(e.n, buf'[q]) /\ Before(e.n, fifo[Uart(q)])
                      /\ phase'[q] = "sending" =>
                            e.n <= send'[q].n /\ (Unreached(c, q)' => e.n < send'[q].n)
    BY <1>1 DEF DeliveredSound, Delivered, Before
  <2>1. /\ e.n <= written[Uart(q)]
        /\ Before(e.n, buf[q]) /\ Before(e.n, fifo[Uart(q)])
        /\ phase[q] = "sending" =>
              e.n <= send[q].n /\ (Unreached(c, q) => e.n < send[q].n)
    BY DEF DeliveredSound
  <2>2. CASE q = r
    <3>1. e.n \in Nat
      BY DeliveredEvents
    <3>2. e.n < Head(buf[r]) /\ Before(e.n, buf'[r])
      BY <1>6, <2>1, <2>2, <3>1
    <3>3. Head(buf[r]) \in Nat
      BY <1>3, <1>6, LinesAreNumbers
    <3> QED
      BY <1>3, <2>1, <2>2, <3>1, <3>2, <3>3
  <2>3. CASE q # r
    <3>1. Unreached(c, q)' => Unreached(c, q)
      BY <1>1, <1>3, <2>3 DEF Unreached
    <3> QED
      BY <1>3, <2>1, <2>3, <3>1
  <2> QED
    BY <2>2, <2>3
<1>11. Ordered'
  BY <1>1 DEF Ordered, InOrderOf, Precede
<1> QED
  BY <1>8, <1>9, <1>10, <1>11

(* The firmware's line is newer than any the readers and clients have. *)
LEMMA FlowFirmware ==
    ASSUME MuxInv, FlowInv, NEW u \in Uarts, FirmwareWrites(u)
    PROVE  FlowInv'
<1> DEFINE new == written[u] + 1
<1>1. /\ fifo' = [fifo EXCEPT ![u] = Append(@, new)]
      /\ written' = [written EXCEPT ![u] = @ + 1]
      /\ written[u] < MaxLines
      /\ UNCHANGED <<gen, phase, buf, send, heap, slice, chan, got>>
  BY DEF FirmwareWrites, clientVars
<1>2. /\ fifo \in [Uarts -> Seq(Lines)] /\ written \in [Uarts -> 0 .. MaxLines]
      /\ \A q \in Readers : Uart(q) \in Uarts /\ buf[q] \in Seq(Lines)
  BY DEF MuxInv, TypeOK, Readers, Uart
<1>3. new \in Lines /\ new \in Nat /\ written[u] \in Nat /\ fifo[u] \in Seq(Lines)
  BY <1>1, <1>2, SizesAssumption DEF Lines
<1>4. /\ fifo'[u] = Append(fifo[u], new) /\ written'[u] = new
      /\ \A v \in Uarts \ {u} : fifo'[v] = fifo[v] /\ written'[v] = written[v]
  BY <1>1, <1>2
<1>5. FirstReaders' /\ TakenOnce'
  BY <1>1 DEF FlowInv, FirstReaders, TakenOnce
<1> SUFFICES ASSUME gen <= 1, LinesSound, SendsOrdered, DeliveredSound, Ordered
             PROVE  LinesSound' /\ SendsOrdered' /\ DeliveredSound' /\ Ordered'
  BY <1>1, <1>5 DEF FlowInv
<1> HIDE DEF new
<1>6. ASSUME NEW q \in Readers, Uart(q) = u
      PROVE  /\ Increasing(fifo'[u])
             /\ \A i \in 1 .. Len(fifo'[u]) : fifo'[u][i] <= written'[u]
             /\ \A e \in Nat : e <= written[u] /\ Before(e, fifo[u]) =>
                   e <= written'[u] /\ Before(e, fifo'[u])
  <2>1. Increasing(fifo[u])
    BY <1>6 DEF LinesSound
  <2>2. new = written[u] + 1
    BY DEF new
  <2>3. \A i \in 1 .. Len(fifo[u]) : fifo[u][i] <= written[u] /\ fifo[u][i] \in Nat
    BY <1>3, <1>6, LinesAreNumbers DEF LinesSound
  <2>4. \A i \in 1 .. Len(fifo[u]) : fifo[u][i] < new
    BY <1>3, <2>2, <2>3
  <2>5. \A e \in Nat : e <= written[u] => e < new
    BY <1>3, <2>2
  <2> QED
    BY <1>3, <1>4, <2>1, <2>4, <2>5, AppendOrdered
<1>7. LinesSound'
  <2> SUFFICES ASSUME NEW q \in Readers
               PROVE  /\ Increasing(fifo'[Uart(q)]) /\ Increasing(buf[q])
                      /\ \A i \in 1 .. Len(fifo'[Uart(q)]) : fifo'[Uart(q)][i] <= written'[Uart(q)]
                      /\ \A i \in 1 .. Len(buf[q]) :
                            buf[q][i] <= written'[Uart(q)] /\ Before(buf[q][i], fifo'[Uart(q)])
    BY <1>1 DEF LinesSound, Increasing, Before
  <2>1. CASE Uart(q) = u
    <3>1. \A i \in 1 .. Len(buf[q]) : buf[q][i] \in Nat
      BY <1>2, LinesAreNumbers
    <3> QED
      BY <1>6, <2>1, <3>1 DEF LinesSound
  <2>2. CASE Uart(q) # u
    BY <1>2, <1>4, <2>2 DEF LinesSound
  <2> QED
    BY <2>1, <2>2
<1>8. SendsOrdered'
  <2> SUFFICES ASSUME NEW q \in Readers, phase[q] = "sending"
               PROVE  /\ send[q].n <= written'[Uart(q)]
                      /\ Before(send[q].n, buf[q]) /\ Before(send[q].n, fifo'[Uart(q)])
    BY <1>1 DEF SendsOrdered, Before
  <2>1. send[q].n \in Nat
    BY DEF MuxInv, TypeOK, Lines
  <2>2. CASE Uart(q) = u
    BY <1>6, <2>1, <2>2 DEF SendsOrdered
  <2>3. CASE Uart(q) # u
    BY <1>2, <1>4, <2>3 DEF SendsOrdered
  <2> QED
    BY <2>2, <2>3
<1>9. DeliveredSound'
  <2> SUFFICES ASSUME NEW c \in Clients, NEW e \in Delivered(c), NEW q \in Readers,
                      e.uart = Uart(q)
               PROVE  /\ e.n <= written'[Uart(q)]
                      /\ Before(e.n, buf[q]) /\ Before(e.n, fifo'[Uart(q)])
                      /\ phase[q] = "sending" =>
                            e.n <= send[q].n /\ (Unreached(c, q) => e.n < send[q].n)
    BY <1>1 DEF DeliveredSound, Delivered, Unreached, Before
  <2>1. e.n \in Nat
    BY DeliveredEvents
  <2>2. CASE Uart(q) = u
    BY <1>6, <2>1, <2>2 DEF DeliveredSound
  <2>3. CASE Uart(q) # u
    BY <1>2, <1>4, <2>3 DEF DeliveredSound
  <2> QED
    BY <2>2, <2>3
<1>10. Ordered'
  BY <1>1 DEF Ordered, InOrderOf, Precede
<1> QED
  BY <1>7, <1>8, <1>9, <1>10

(* A new subscriber is appended behind what the broadcasts have taken. *)
LEMMA FlowSubscribe ==
    ASSUME MuxInv, FlowInv, NEW c \in Clients, Subscribe(c)
    PROVE  FlowInv'
<1>1. UNCHANGED <<gen, phase, fifo, written, buf, send, chan, got>>
  BY DEF Subscribe, readerVars
<1>2. ASSUME NEW q \in Readers, phase[q] = "sending"
      PROVE  /\ \A i \in 1 .. send[q].len : heap'[send[q].cap][i] = heap[send[q].cap][i]
             /\ send[q].cap = slice'.cap => send[q].len <= slice'.len
             /\ send[q].at \in 1 .. send[q].len /\ send[q].len \in Nat
  <2>1. /\ send[q].cap \in Caps /\ send[q].cap <= slice.cap
        /\ send[q].cap = slice.cap => send[q].len <= slice.len
        /\ send[q].at \in 1 .. send[q].len /\ send[q].len \in Nat
    BY <1>2 DEF MuxInv, SendsSound, FlowInv, TakenOnce, TypeOK
  <2>2. \A i \in 1 .. send[q].len : i \in Nat /\ (send[q].cap = slice.cap => i <= slice.len)
    <3>1. slice.len \in Nat
      BY DEF MuxInv, TypeOK
    <3> QED
      BY <2>1, <3>1
  <2>3. /\ slice'.len = slice.len + 1
        /\ slice'.cap = slice.cap \/ slice'.cap > slice.cap
    BY Appended
  <2>4. \A k \in Caps, i \in Nat :
           k <= slice.cap /\ (k = slice.cap => i <= slice.len) => heap'[k][i] = heap[k][i]
    BY Appended
  <2>5. slice.len \in Nat /\ slice.cap \in Nat /\ slice'.cap \in Nat /\ send[q].cap \in Nat
    <3>1. Caps \cup {0} \subseteq Nat
      BY ClientsFinite DEF Caps
    <3>2. slice'.cap \in Caps
      BY Appended
    <3>3. slice.cap \in Caps \cup {0} /\ slice.len \in Nat
      BY DEF MuxInv, TypeOK
    <3> QED
      BY <2>1, <3>1, <3>2, <3>3
  <2>6. \A i \in 1 .. send[q].len : heap'[send[q].cap][i] = heap[send[q].cap][i]
    BY <2>1, <2>2, <2>4
  <2>7. send[q].cap = slice'.cap => send[q].len <= slice'.len
    BY <2>1, <2>3, <2>5
  <2> QED
    BY <2>1, <2>6, <2>7
<1>3. FirstReaders'
  BY <1>1 DEF FlowInv, FirstReaders
<1>4. TakenOnce'
  BY <1>1, <1>2 DEF FlowInv, TakenOnce
<1>5. LinesSound => LinesSound'
  BY <1>1 DEF LinesSound, Increasing, Before
<1>6. SendsOrdered => SendsOrdered'
  BY <1>1 DEF SendsOrdered, Before
<1>7. ASSUME DeliveredSound PROVE DeliveredSound'
  <2> SUFFICES ASSUME NEW d \in Clients, NEW e \in Delivered(d), NEW q \in Readers,
                      e.uart = Uart(q)
               PROVE  /\ e.n <= written[Uart(q)]
                      /\ Before(e.n, buf[q]) /\ Before(e.n, fifo[Uart(q)])
                      /\ phase[q] = "sending" =>
                            e.n <= send[q].n /\ (Unreached(d, q)' => e.n < send[q].n)
    BY <1>1 DEF DeliveredSound, Delivered, Before
  <2>1. phase[q] = "sending" => (Unreached(d, q)' => Unreached(d, q))
    <3> SUFFICES ASSUME phase[q] = "sending",
                        NEW i \in send[q].at .. send[q].len, heap'[send[q].cap][i] = d
                 PROVE  heap[send[q].cap][i] = d
      BY <1>1 DEF Unreached
    <3>1. i \in 1 .. send[q].len
      BY <1>2
    <3> QED
      BY <1>2, <3>1
  <2> QED
    BY <1>7, <2>1 DEF DeliveredSound
<1>8. Ordered => Ordered'
  BY <1>1 DEF Ordered, InOrderOf, Precede
<1> QED
  BY <1>1, <1>3, <1>4, <1>5, <1>6, <1>7, <1>8 DEF FlowInv

(* What moving the first of the later events behind the earlier ones keeps. *)
LEMMA MovedInOrder ==
    ASSUME NEW s \in Seq(Event), NEW t \in Seq(Event), t # <<>>,
           InOrderOf(s), InOrderOf(t), Precede(s, t)
    PROVE  /\ InOrderOf(Append(s, Head(t))) /\ InOrderOf(Tail(t))
           /\ Precede(Append(s, Head(t)), Tail(t))
           /\ \A i \in 1 .. Len(Append(s, Head(t))) :
                 \/ \E j \in 1 .. Len(s) : Append(s, Head(t))[i] = s[j]
                 \/ Append(s, Head(t))[i] = t[1] /\ 1 \in 1 .. Len(t)
           /\ \A i \in 1 .. Len(Tail(t)) : \E j \in 1 .. Len(t) : Tail(t)[i] = t[j]
<1> DEFINE more == Append(s, Head(t))
           rest == Tail(t)
<1>1. /\ Len(s) \in Nat /\ Len(more) = Len(s) + 1
      /\ \A i \in 1 .. Len(s) : more[i] = s[i]
      /\ more[Len(s) + 1] = t[1]
      /\ Len(t) \in Nat \ {0} /\ Len(rest) = Len(t) - 1
      /\ \A i \in 1 .. Len(rest) : rest[i] = t[i + 1]
  OBVIOUS
<1> HIDE DEF more, rest
<1>2. /\ \A i \in 1 .. Len(more) :
            (i \in 1 .. Len(s) /\ more[i] = s[i]) \/ (i = Len(s) + 1 /\ more[i] = t[1])
      /\ \A i \in 1 .. Len(rest) : i + 1 \in 1 .. Len(t) /\ 1 < i + 1 /\ rest[i] = t[i + 1]
      /\ 1 \in 1 .. Len(t)
  BY <1>1
<1>3. InOrderOf(more)
  <2> SUFFICES ASSUME NEW i \in 1 .. Len(more), NEW j \in 1 .. Len(more), i < j,
                      more[i].uart = more[j].uart
               PROVE  more[i].n < more[j].n
    BY DEF InOrderOf
  <2>1. i \in 1 .. Len(s) /\ more[i] = s[i]
    BY <1>1, <1>2
  <2>2. CASE j \in 1 .. Len(s) /\ more[j] = s[j]
    BY <2>1, <2>2 DEF InOrderOf
  <2>3. CASE more[j] = t[1]
    BY <1>2, <2>1, <2>3 DEF Precede
  <2> QED
    BY <1>2, <2>2, <2>3
<1>4. InOrderOf(rest)
  <2> SUFFICES ASSUME NEW i \in 1 .. Len(rest), NEW j \in 1 .. Len(rest), i < j,
                      rest[i].uart = rest[j].uart
               PROVE  rest[i].n < rest[j].n
    BY DEF InOrderOf
  <2>1. i + 1 < j + 1
    BY <1>1
  <2> QED
    BY <1>2, <2>1 DEF InOrderOf
<1>5. Precede(more, rest)
  <2> SUFFICES ASSUME NEW i \in 1 .. Len(more), NEW j \in 1 .. Len(rest),
                      more[i].uart = rest[j].uart
               PROVE  more[i].n < rest[j].n
    BY DEF Precede
  <2>1. j + 1 \in 1 .. Len(t) /\ 1 < j + 1 /\ rest[j] = t[j + 1]
    BY <1>2
  <2>2. CASE i \in 1 .. Len(s) /\ more[i] = s[i]
    BY <2>1, <2>2 DEF Precede
  <2>3. CASE more[i] = t[1]
    BY <1>2, <2>1, <2>3 DEF InOrderOf
  <2> QED
    BY <1>2, <2>2, <2>3
<1>6. \A i \in 1 .. Len(more) :
         (\E j \in 1 .. Len(s) : more[i] = s[j]) \/ (more[i] = t[1] /\ 1 \in 1 .. Len(t))
  BY <1>2
<1>7. \A i \in 1 .. Len(rest) : \E j \in 1 .. Len(t) : rest[i] = t[j]
  BY <1>2
<1> QED
  BY <1>3, <1>4, <1>5, <1>6, <1>7 DEF more, rest

(* A last event that all events of its UART are older than. *)
LEMMA SentInOrder ==
    ASSUME NEW s \in Seq(Event), NEW t \in Seq(Event), NEW e \in Event,
           InOrderOf(t), Precede(s, t),
           \A i \in 1 .. Len(s) : s[i].uart = e.uart => s[i].n < e.n,
           \A i \in 1 .. Len(t) : t[i].uart = e.uart => t[i].n < e.n
    PROVE  /\ InOrderOf(Append(t, e)) /\ Precede(s, Append(t, e))
           /\ \A i \in 1 .. Len(Append(t, e)) :
                 (\E j \in 1 .. Len(t) : Append(t, e)[i] = t[j]) \/ Append(t, e)[i] = e
<1> DEFINE more == Append(t, e)
<1>1. /\ Len(t) \in Nat /\ Len(more) = Len(t) + 1
      /\ \A i \in 1 .. Len(t) : more[i] = t[i]
      /\ more[Len(t) + 1] = e
  OBVIOUS
<1> HIDE DEF more
<1>2. \A i \in 1 .. Len(more) :
         (i \in 1 .. Len(t) /\ more[i] = t[i]) \/ (i = Len(t) + 1 /\ more[i] = e)
  BY <1>1
<1>3. InOrderOf(more)
  <2> SUFFICES ASSUME NEW i \in 1 .. Len(more), NEW j \in 1 .. Len(more), i < j,
                      more[i].uart = more[j].uart
               PROVE  more[i].n < more[j].n
    BY DEF InOrderOf
  <2>1. i \in 1 .. Len(t) /\ more[i] = t[i]
    BY <1>1, <1>2
  <2>2. CASE j \in 1 .. Len(t) /\ more[j] = t[j]
    BY <2>1, <2>2 DEF InOrderOf
  <2>3. CASE more[j] = e
    BY <2>1, <2>3
  <2> QED
    BY <1>2, <2>2, <2>3
<1>4. Precede(s, more)
  <2> SUFFICES ASSUME NEW i \in 1 .. Len(s), NEW j \in 1 .. Len(more),
                      s[i].uart = more[j].uart
               PROVE  s[i].n < more[j].n
    BY DEF Precede
  <2>1. CASE j \in 1 .. Len(t) /\ more[j] = t[j]
    BY <2>1 DEF Precede
  <2>2. CASE more[j] = e
    BY <2>2
  <2> QED
    BY <1>2, <2>1, <2>2
<1>5. \A i \in 1 .. Len(more) : (\E j \in 1 .. Len(t) : more[i] = t[j]) \/ more[i] = e
  BY <1>2
<1> QED
  BY <1>3, <1>4, <1>5 DEF more

(* An event goes from the channel to its client, behind the earlier ones. *)
LEMMA FlowReceive ==
    ASSUME MuxInv, FlowInv, NEW c \in Clients, Receive(c)
    PROVE  FlowInv'
<1>1. /\ chan[c] # <<>>
      /\ got' = [got EXCEPT ![c] = Append(@, Head(chan[c]))]
      /\ chan' = [chan EXCEPT ![c] = Tail(@)]
      /\ UNCHANGED <<gen, phase, fifo, written, buf, send, heap, slice>>
  BY DEF Receive, readerVars
<1>2. /\ got \in [Clients -> Seq(Event)] /\ chan \in [Clients -> Seq(Event)]
  BY DEF MuxInv, TypeOK
<1>3. /\ got'[c] = Append(got[c], Head(chan[c])) /\ chan'[c] = Tail(chan[c])
      /\ \A d \in Clients \ {c} : got'[d] = got[d] /\ chan'[d] = chan[d]
  BY <1>1, <1>2
<1>6. FirstReaders' /\ TakenOnce'
  BY <1>1 DEF FlowInv, FirstReaders, TakenOnce
<1> SUFFICES ASSUME gen <= 1, LinesSound, SendsOrdered, DeliveredSound, Ordered
             PROVE  LinesSound' /\ SendsOrdered' /\ DeliveredSound' /\ Ordered'
  BY <1>1, <1>6 DEF FlowInv
<1>7. LinesSound'
  BY <1>1 DEF LinesSound, Increasing, Before
<1>8. SendsOrdered'
  BY <1>1 DEF SendsOrdered, Before
<1>4. /\ InOrderOf(got'[c]) /\ InOrderOf(chan'[c]) /\ Precede(got'[c], chan'[c])
      /\ \A i \in 1 .. Len(got'[c]) :
            \/ \E j \in 1 .. Len(got[c]) : got'[c][i] = got[c][j]
            \/ got'[c][i] = chan[c][1] /\ 1 \in 1 .. Len(chan[c])
      /\ \A i \in 1 .. Len(chan'[c]) : \E j \in 1 .. Len(chan[c]) : chan'[c][i] = chan[c][j]
  BY <1>1, <1>2, <1>3, MovedInOrder DEF Ordered
<1>9. \A d \in Clients : Delivered(d)' \subseteq Delivered(d)
  <2> SUFFICES ASSUME NEW d \in Clients, NEW e \in Delivered(d)' PROVE e \in Delivered(d)
    OBVIOUS
  <2>1. CASE d = c
    <3>1. CASE \E i \in 1 .. Len(got'[c]) : e = got'[c][i]
      BY <1>4, <2>1, <3>1 DEF Delivered
    <3>2. CASE \E i \in 1 .. Len(chan'[c]) : e = chan'[c][i]
      BY <1>4, <2>1, <3>2 DEF Delivered
    <3> QED
      BY <2>1, <3>1, <3>2 DEF Delivered
  <2>2. CASE d # c
    BY <1>3, <2>2 DEF Delivered
  <2> QED
    BY <2>1, <2>2
<1>10. DeliveredSound'
  <2> SUFFICES ASSUME NEW d \in Clients, NEW e \in Delivered(d)', NEW q \in Readers,
                      e.uart = Uart(q)
               PROVE  /\ e.n <= written[Uart(q)]
                      /\ Before(e.n, buf[q]) /\ Before(e.n, fifo[Uart(q)])
                      /\ phase[q] = "sending" =>
                            e.n <= send[q].n /\ (Unreached(d, q)' => e.n < send[q].n)
    BY <1>1 DEF DeliveredSound, Before
  <2>1. e \in Delivered(d) /\ (Unreached(d, q)' => Unreached(d, q))
    BY <1>1, <1>9 DEF Unreached
  <2> QED
    BY <2>1 DEF DeliveredSound
<1>11. Ordered'
  <2> SUFFICES ASSUME NEW d \in Clients
               PROVE  InOrderOf(got'[d]) /\ InOrderOf(chan'[d]) /\ Precede(got'[d], chan'[d])
    BY DEF Ordered, InOrderOf, Precede
  <2> QED
    BY <1>3, <1>4 DEF Ordered
<1> QED
  BY <1>7, <1>8, <1>10, <1>11

(* One turn of Broadcast.  The event it may send is as new as any line of  *)
(* its UART anyone has, and newer than what this client, which it had yet  *)
(* to reach, got before; a step on, the client is reached.                 *)
LEMMA FlowSendEvent ==
    ASSUME MuxInv, FlowInv, NEW r \in Readers, SendEvent(r)
    PROVE  FlowInv'
<1>0. PICK c \in Clients : c = Target(r)
  <2>1. phase[r] = "sending"
    BY DEF SendEvent
  <2>2. send[r].at \in 1 .. send[r].len
    BY <2>1 DEF MuxInv, TypeOK
  <2> QED
    BY <2>1, <2>2 DEF MuxInv, SendsSound, Target
<1> DEFINE e == [uart |-> Uart(r), n |-> send[r].n]
           Sends == chan' = [chan EXCEPT ![c] = Append(@, e)] /\ Advance(r)
           next == [send[r] EXCEPT !.at = @ + 1]
           On1 == /\ send[r].at < send[r].len /\ phase' = phase
                  /\ send' = [send EXCEPT ![r] = next]
           Off == /\ phase' = [phase EXCEPT ![r] = "scanning"]
                  /\ send' = [send EXCEPT ![r] = NoSend]
           Same == phase' = phase /\ send' = send
<1>1. /\ phase[r] = "sending" /\ Uart(r) \in Uarts
      /\ UNCHANGED <<gen, fifo, written, buf, heap, slice, got>>
  BY DEF SendEvent, Readers, Uart
<1>2. /\ send \in [Readers -> [n : 0 .. MaxLines, cap : Nat, len : Nat, at : Nat]]
      /\ phase \in [Readers -> {"none", "opening", "opened", "scanning", "sending", "gone"}]
      /\ chan \in [Clients -> Seq(Event)] /\ got \in [Clients -> Seq(Event)] /\ gen \in Nat
  BY DEF MuxInv, TypeOK
<1>3. /\ send[r].n \in Lines /\ send[r].at \in 1 .. send[r].len /\ send[r].len \in Nat
      /\ \A i \in 1 .. send[r].len : heap[send[r].cap][i] \in Clients
      /\ c = heap[send[r].cap][send[r].at] /\ c \in Clients /\ e \in Event
  BY <1>0, <1>1, <1>2 DEF MuxInv, SendsSound, TypeOK, Target, Event
<1>4. Sends \/ chan' = chan
  BY <1>0 DEF SendEvent
<1>5. On1 \/ Off \/ Same
  BY <1>2 DEF SendEvent, Advance, Goto
<1>6. Sends => On1 \/ Off
  BY <1>2 DEF Advance, Goto
<1>7. /\ \A q \in Readers \ {r} : send'[q] = send[q] /\ phase'[q] = phase[q]
      /\ \/ /\ On1 /\ phase'[r] = "sending" /\ send'[r].n = send[r].n
            /\ send'[r].cap = send[r].cap /\ send'[r].len = send[r].len
            /\ send'[r].at = send[r].at + 1
         \/ Off /\ phase'[r] = "scanning"
         \/ Same /\ ~On1 /\ ~Off
  <2>1. CASE On1
    <3>1. /\ next.n = send[r].n /\ next.cap = send[r].cap /\ next.len = send[r].len
          /\ next.at = send[r].at + 1
      BY <1>2
    <3>2. send'[r] = next /\ \A q \in Readers \ {r} : send'[q] = send[q]
      BY <1>2, <2>1
    <3> HIDE DEF next
    <3> QED
      BY <1>1, <2>1, <3>1, <3>2
  <2>2. CASE Off
    BY <1>2, <2>2
  <2>3. CASE Same /\ ~On1 /\ ~Off
    BY <2>3
  <2> QED
    BY <1>5, <2>1, <2>2, <2>3
<1> HIDE DEF e, next, Sends, On1, Off, Same
<1>8. FirstReaders'
  <2>1. ~(r[2] > gen)
    BY <1>1 DEF FlowInv, FirstReaders
  <2> QED
    BY <1>1, <1>7, <2>1 DEF FlowInv, FirstReaders
<1>9. \A q \in Readers : phase'[q] = "sending" =>
         /\ phase[q] = "sending" /\ send'[q].n = send[q].n
         /\ send'[q].cap = send[q].cap /\ send'[q].len = send[q].len
         /\ \A d \in Clients : Unreached(d, q)' => Unreached(d, q)
  <2> SUFFICES ASSUME NEW q \in Readers, phase'[q] = "sending"
               PROVE  /\ phase[q] = "sending" /\ send'[q].n = send[q].n
                      /\ send'[q].cap = send[q].cap /\ send'[q].len = send[q].len
                      /\ \A d \in Clients : Unreached(d, q)' => Unreached(d, q)
    OBVIOUS
  <2>1. /\ phase[q] = "sending" /\ send'[q].n = send[q].n
        /\ send'[q].cap = send[q].cap /\ send'[q].len = send[q].len
        /\ send'[q].at = send[q].at \/ (send'[q].at = send[q].at + 1 /\ send[q].at \in Nat)
    BY <1>1, <1>3, <1>7 DEF Same
  <2>2. send'[q].at .. send'[q].len \subseteq send[q].at .. send[q].len
    BY <1>2, <2>1
  <2> QED
    BY <1>1, <2>1, <2>2 DEF Unreached
<1>10. TakenOnce'
  BY <1>1, <1>9 DEF FlowInv, TakenOnce
<1> SUFFICES ASSUME gen <= 1, LinesSound, SendsOrdered, DeliveredSound, Ordered
             PROVE  LinesSound' /\ SendsOrdered' /\ DeliveredSound' /\ Ordered'
  BY <1>1, <1>8, <1>10 DEF FlowInv
<1>11. LinesSound'
  BY <1>1 DEF LinesSound, Increasing, Before
<1>12. SendsOrdered'
  BY <1>1, <1>9 DEF SendsOrdered, Before
<1>13. \A q \in Readers \ {r} : Uart(q) = Uart(r) => phase[q] = "none"
  BY <1>1, <1>2, OneReader DEF FlowInv
<1>14. e.uart = Uart(r) /\ e.n = send[r].n /\ e.n \in Nat
  BY <1>3 DEF e, Lines
<1>15. Unreached(c, r)
  BY <1>3 DEF Unreached
<1>16. \A d \in Delivered(c) : d.uart = e.uart => d.n < e.n
  BY <1>1, <1>3, <1>14, <1>15 DEF DeliveredSound
<1>17. CASE chan' = chan
  <2>1. Ordered'
    BY <1>1, <1>17 DEF Ordered, InOrderOf, Precede
  <2>2. DeliveredSound'
    <3> SUFFICES ASSUME NEW d \in Clients, NEW x \in Delivered(d), NEW q \in Readers,
                        x.uart = Uart(q)
                 PROVE  /\ x.n <= written[Uart(q)]
                        /\ Before(x.n, buf[q]) /\ Before(x.n, fifo[Uart(q)])
                        /\ phase'[q] = "sending" =>
                              x.n <= send'[q].n /\ (Unreached(d, q)' => x.n < send'[q].n)
      BY <1>1, <1>17 DEF DeliveredSound, Delivered, Before
    <3> QED
      BY <1>9 DEF DeliveredSound
  <2> QED
    BY <1>11, <1>12, <2>1, <2>2
<1>18. CASE Sends
  <2>1. /\ chan'[c] = Append(chan[c], e)
        /\ \A d \in Clients \ {c} : chan'[d] = chan[d]
    BY <1>2, <1>3, <1>18 DEF Sends
  <2>2. /\ \A i \in 1 .. Len(got[c]) : got[c][i].uart = e.uart => got[c][i].n < e.n
        /\ \A i \in 1 .. Len(chan[c]) : chan[c][i].uart = e.uart => chan[c][i].n < e.n
    BY <1>16 DEF Delivered
  <2>3. /\ InOrderOf(chan'[c]) /\ Precede(got[c], chan'[c])
        /\ \A i \in 1 .. Len(chan'[c]) :
              (\E j \in 1 .. Len(chan[c]) : chan'[c][i] = chan[c][j]) \/ chan'[c][i] = e
    <3>1. got[c] \in Seq(Event) /\ chan[c] \in Seq(Event)
      BY <1>2
    <3>2. InOrderOf(chan[c]) /\ Precede(got[c], chan[c])
      BY DEF Ordered
    <3>3. e \in Event
      BY <1>3
    <3>4. /\ InOrderOf(Append(chan[c], e)) /\ Precede(got[c], Append(chan[c], e))
          /\ \A i \in 1 .. Len(Append(chan[c], e)) :
                (\E j \in 1 .. Len(chan[c]) : Append(chan[c], e)[i] = chan[c][j])
                   \/ Append(chan[c], e)[i] = e
      BY <2>2, <3>1, <3>2, <3>3, SentInOrder
    <3> QED
      BY <2>1, <3>4
  <2>4. Ordered'
    <3> SUFFICES ASSUME NEW d \in Clients
                 PROVE  InOrderOf(got[d]) /\ InOrderOf(chan'[d]) /\ Precede(got[d], chan'[d])
      BY <1>1 DEF Ordered, InOrderOf, Precede
    <3> QED
      BY <2>1, <2>3 DEF Ordered
  <2>5. \A d \in Clients : \A x \in Delivered(d)' : x \in Delivered(d) \/ (d = c /\ x = e)
    <3> SUFFICES ASSUME NEW d \in Clients, NEW x \in Delivered(d)'
                 PROVE  x \in Delivered(d) \/ (d = c /\ x = e)
      OBVIOUS
    <3>1. CASE \E i \in 1 .. Len(got[d]) : x = got[d][i]
      BY <3>1 DEF Delivered
    <3>2. CASE d = c /\ \E i \in 1 .. Len(chan'[d]) : x = chan'[d][i]
      BY <2>3, <3>2 DEF Delivered
    <3>3. CASE d # c /\ \E i \in 1 .. Len(chan'[d]) : x = chan'[d][i]
      BY <2>1, <3>3 DEF Delivered
    <3> QED
      BY <1>1, <3>1, <3>2, <3>3 DEF Delivered
  <2>6. phase'[r] = "sending" => ~Unreached(c, r)'
    <3> SUFFICES ASSUME phase'[r] = "sending", NEW i \in send'[r].at .. send'[r].len,
                        heap[send'[r].cap][i] = c
                 PROVE  FALSE
      BY <1>1 DEF Unreached
    <3>1. On1 \/ Off
      BY <1>6, <1>18
    <3>2. /\ send'[r].cap = send[r].cap /\ send'[r].len = send[r].len
          /\ send'[r].at = send[r].at + 1
      BY <1>7, <3>1
    <3>3. i \in 1 .. send[r].len /\ i # send[r].at
      BY <1>3, <3>2
    <3> QED
      BY <1>1, <1>3, <3>2, <3>3 DEF FlowInv, TakenOnce
  <2>7. DeliveredSound'
    <3> SUFFICES ASSUME NEW d \in Clients, NEW x \in Delivered(d)', NEW q \in Readers,
                        x.uart = Uart(q)
                 PROVE  /\ x.n <= written[Uart(q)]
                        /\ Before(x.n, buf[q]) /\ Before(x.n, fifo[Uart(q)])
                        /\ phase'[q] = "sending" =>
                              x.n <= send'[q].n /\ (Unreached(d, q)' => x.n < send'[q].n)
      BY <1>1 DEF DeliveredSound, Before
    <3>1. CASE x \in Delivered(d)
      BY <1>9, <3>1 DEF DeliveredSound
    <3>2. CASE d = c /\ x = e /\ q = r
      <4>1. /\ x.n <= written[Uart(r)]
            /\ Before(x.n, buf[r]) /\ Before(x.n, fifo[Uart(r)])
        BY <1>1, <1>14, <3>2 DEF SendsOrdered
      <4> QED
        BY <1>9, <1>14, <2>6, <3>2, <4>1
    <3>3. CASE d = c /\ x = e /\ q # r
      <4>1. Uart(q) = Uart(r) /\ phase'[q] = "none" /\ buf[q] = <<>>
        BY <1>1, <1>2, <1>7, <1>13, <1>14, <3>3, OneReader DEF FlowInv
      <4>2. /\ x.n <= written[Uart(r)]
            /\ Before(x.n, <<>>) /\ Before(x.n, fifo[Uart(r)])
        BY <1>1, <1>14, <3>3 DEF SendsOrdered, Before
      <4> QED
        BY <4>1, <4>2
    <3> QED
      BY <2>5, <3>1, <3>2, <3>3
  <2> QED
    BY <1>11, <1>12, <2>4, <2>7
<1> QED
  BY <1>4, <1>17, <1>18

LEMMA FlowStep ==
    ASSUME Leaving = {}, MuxInv, FlowInv, [Next]_vars
    PROVE  FlowInv'
<1>1. ASSUME NEW r \in Readers, Read(r) PROVE FlowInv'
  <2>1. phase \in [Readers -> {"none", "opening", "opened", "scanning", "sending", "gone"}]
    BY DEF MuxInv, TypeOK
  <2>2. CASE OpenFifo(r) \/ StoreFile(r) \/ EndScan(r)
    <3>1. /\ UNCHANGED <<gen, fifo, written, buf, send, heap, slice, chan, got>>
          /\ \A q \in Readers :
                phase'[q] = phase[q] \/ (phase[q] # "none" /\ phase'[q] # "sending")
      BY <2>1, <2>2 DEF OpenFifo, StoreFile, EndScan, Goto, clientVars
    <3> QED
      BY <3>1, FlowKept
  <2> QED
    BY <1>1, <2>2, FlowReadPipe, FlowScanLine, FlowSendEvent DEF Read
<1>2. CASE RegisterSessionBackends
  BY <1>2, FlowRegister
<1>3. CASE UnregisterSessionBackends \/ Stop \/ UNCHANGED vars
  <2>1. UNCHANGED <<gen, phase, fifo, written, buf, send, heap, slice, chan, got>>
    BY <1>3 DEF UnregisterSessionBackends, Stop, clientVars, readerVars, vars
  <2> QED
    BY <2>1, FlowKept
<1>4. ASSUME NEW c \in Clients, Subscribe(c) \/ Unsubscribe(c) \/ Receive(c) PROVE FlowInv'
  <2>1. ~Unsubscribe(c)
    BY DEF Unsubscribe
  <2> QED
    BY <1>4, <2>1, FlowSubscribe, FlowReceive
<1>5. ASSUME NEW u \in Uarts, FirmwareWrites(u) PROVE FlowInv'
  BY <1>5, FlowFirmware
<1> QED
  BY <1>1, <1>2, <1>3, <1>4, <1>5 DEF Next

(* What was delivered and what is in the channel, read as one sequence. *)
LEMMA OrderedIsInOrder == MuxInv /\ FlowInv => InOrder
<1> SUFFICES ASSUME MuxInv, FlowInv, gen <= 1, NEW c \in Clients
             PROVE  InOrderOf(got[c] \o chan[c])
  BY DEF InOrder, InOrderOf
<1> DEFINE s == got[c]
           t == chan[c]
           all == s \o t
<1>1. s \in Seq(Event) /\ t \in Seq(Event)
  BY DEF MuxInv, TypeOK
<1>2. InOrderOf(s) /\ InOrderOf(t) /\ Precede(s, t)
  BY DEF FlowInv, Ordered
<1> HIDE DEF s, t
<1>3. /\ Len(s) \in Nat /\ Len(t) \in Nat /\ Len(all) = Len(s) + Len(t)
      /\ \A i \in 1 .. Len(all) :
            all[i] = IF i <= Len(s) THEN s[i] ELSE t[i - Len(s)]
  BY <1>1
<1> HIDE DEF all
<1>4. InOrderOf(all)
  <2> SUFFICES ASSUME NEW i \in 1 .. Len(all), NEW j \in 1 .. Len(all), i < j,
                      all[i].uart = all[j].uart
               PROVE  all[i].n < all[j].n
    BY DEF InOrderOf
  <2>1. CASE i <= Len(s) /\ j <= Len(s)
    BY <1>2, <1>3, <2>1 DEF InOrderOf
  <2>2. CASE i <= Len(s) /\ j > Len(s)
    <3>1. i \in 1 .. Len(s) /\ j - Len(s) \in 1 .. Len(t)
      BY <1>3, <2>2
    <3>2. all[i] = s[i] /\ all[j] = t[j - Len(s)]
      BY <1>3, <2>2
    <3> QED
      BY <1>2, <3>1, <3>2 DEF Precede
  <2>3. CASE i > Len(s) /\ j > Len(s)
    <3>1. /\ i - Len(s) \in 1 .. Len(t) /\ j - Len(s) \in 1 .. Len(t)
          /\ i - Len(s) < j - Len(s)
      BY <1>3, <2>3
    <3>2. all[i] = t[i - Len(s)] /\ all[j] = t[j - Len(s)]
      BY <1>3, <2>3
    <3> QED
      BY <1>2, <3>1, <3>2 DEF InOrderOf
  <2> QED
    BY <1>3, <2>1, <2>2, <2>3
<1> QED
  BY <1>4 DEF s, t, all

(* While no client disconnects and the session is not registered a second  *)
(* time, every client receives the lines of a UART in the order in which   *)
(* they were written and none twice, whichever lines are dropped for want  *)
(* of room, and whatever subscriptions race with the broadcasts.           *)
THEOREM LinesArriveInOrder == ASSUME Leaving = {} PROVE Spec => []InOrder
<1>1. Init => MuxInv /\ FlowInv
  BY MuxInit, FlowInit
<1>2. MuxInv /\ FlowInv /\ [Next]_vars => (MuxInv /\ FlowInv)'
  BY MuxStep, FlowStep
<1> QED
  BY <1>1, <1>2, OrderedIsInOrder, PTL DEF Spec

=============================================================================
