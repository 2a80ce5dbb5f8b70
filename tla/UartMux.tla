------------------------------- MODULE UartMux -------------------------------
(***************************************************************************)
(* uart.Multiplexer, for one session (sessions share the lock and nothing  *)
(* else): the registered FIFO readers and their goroutines, the slice of   *)
(* subscriber channels, and the SSE handlers that subscribe, receive and   *)
(* disconnect.  A step is what a goroutine does between two points where   *)
(* another may run; Broadcast walks the slice it took under the lock after *)
(* it has released it, and Unsubscribe shifts that slice in place (the     *)
(* shift of a few words is one step here).                                 *)
(*                                                                         *)
(* The server starts the multiplexer before there is any session           *)
(* (main.go:106-109), so readers start as they are registered, until Stop. *)
(***************************************************************************)
EXTENDS Naturals, Sequences, FiniteSets

CONSTANTS
    Uarts,              \* the indices of the session's FIFO backends
    Clients,            \* SSE clients, each with the channel it is given
    Leaving,            \* the clients that may disconnect
    Nobody,             \* the zero value of a slot of an array
    Events,             \* what may happen besides: "unregister", "stop", "openfails"
    ChanSize,           \* capacity of a subscriber channel (100 in the code)
    MaxRegistrations,   \* bound: registrations of the session
    MaxLines            \* bound: lines the firmware writes to each FIFO

ASSUME ClientsAssumption == Nobody \notin Clients /\ IsFiniteSet(Clients)
ASSUME LeavingAssumption == Leaving \subseteq Clients
ASSUME SizesAssumption == ChanSize \in Nat /\ MaxRegistrations \in Nat /\ MaxLines \in Nat

(* A UARTReader object: its index and the registration that made it. *)
Readers == Uarts \X (1 .. MaxRegistrations)
Uart(r) == r[1]

VARIABLES
    registered, \* the readers in the map uartReaders
    gen,        \* registrations so far
    done,       \* Stop has been called
    phase,      \* where the goroutine of every reader is
    file,       \* the field file of every reader: nil, set, or closed by closeFile
    fifo,       \* the lines in every pipe
    written,    \* lines the firmware has written to every pipe
    buf,        \* the lines in the scanner's buffer of every reader
    send,       \* the broadcast every reader is in: line, slice taken, position
    heap,       \* the arrays append has allocated for the slice, by capacity
    slice,      \* subscribers[session]: capacity of its array, and its length
    client,     \* "new", "on" (subscribed) or "left" (its channel is closed)
    chan,       \* the events in every channel
    got,        \* the events every client has received
    panicked    \* a goroutine sent on a closed channel: the process is dead

readerVars == <<registered, gen, phase, file, fifo, written, buf, send>>
clientVars == <<heap, slice, client, chan, got>>
vars == <<readerVars, clientVars, done, panicked>>

Caps == 1 .. 2 * Cardinality(Clients)
Slots(cap) == 1 .. cap
Lines == 1 .. MaxLines
Event == [uart : Uarts, n : Lines]
NoSend == [n |-> 0, cap |-> 0, len |-> 0, at |-> 0]

TypeOK ==
    /\ registered \subseteq Readers
    /\ gen \in 0 .. MaxRegistrations
    /\ phase \in [Readers -> {"none", "opening", "opened", "scanning", "sending", "gone"}]
    /\ file \in [Readers -> {"nil", "set", "shut"}]
    /\ fifo \in [Uarts -> Seq(Lines)] /\ written \in [Uarts -> 0 .. MaxLines]
    /\ buf \in [Readers -> Seq(Lines)]
    /\ send \in [Readers -> [n : 0 .. MaxLines, cap : Nat, len : Nat, at : Nat]]
    /\ \A r \in Readers : phase[r] = "sending" =>
          send[r].n \in Lines /\ send[r].at \in 1 .. send[r].len
    /\ DOMAIN heap = Caps
    /\ \A c \in Caps : heap[c] \in [Slots(c) -> Clients \cup {Nobody}]
    /\ slice \in [cap : Caps \cup {0}, len : Nat] /\ slice.len <= slice.cap
    /\ client \in [Clients -> {"new", "on", "left"}]
    /\ chan \in [Clients -> Seq(Event)] /\ got \in [Clients -> Seq(Event)]
    /\ \A c \in Clients : Len(chan[c]) <= ChanSize
    /\ done \in BOOLEAN /\ panicked \in BOOLEAN

Init ==
    /\ registered = {} /\ gen = 0
    /\ done = FALSE /\ panicked = FALSE
    /\ phase = [r \in Readers |-> "none"]
    /\ file = [r \in Readers |-> "nil"]
    /\ fifo = [u \in Uarts |-> <<>>]
    /\ written = [u \in Uarts |-> 0]
    /\ buf = [r \in Readers |-> <<>>]
    /\ send = [r \in Readers |-> NoSend]
    /\ heap = [c \in Caps |-> [i \in Slots(c) |-> Nobody]]
    /\ slice = [cap |-> 0, len |-> 0]
    /\ client = [c \in Clients |-> "new"]
    /\ chan = [c \in Clients |-> <<>>]
    /\ got = [c \in Clients |-> <<>>]

-----------------------------------------------------------------------------
(* Registration *)

(* closeFile: nothing to close before the goroutine has stored its file. *)
CloseNothing == UNCHANGED file  \* mutant of CloseFiles: readers keep their files

CloseFiles == file' = [r \in Readers |-> IF r \in registered /\ file[r] = "set"
                                         THEN "shut" ELSE file[r]]

(* The new readers' goroutines run once the lock is released. *)
RegisterSessionBackends ==
    /\ gen < MaxRegistrations
    /\ gen' = gen + 1
    /\ CloseFiles
    /\ registered' = Uarts \X {gen'}
    /\ phase' = [r \in Readers |-> IF r \in registered' /\ ~done
                                   THEN "opening" ELSE phase[r]]
    /\ UNCHANGED <<fifo, written, buf, send, clientVars, done, panicked>>

UnregisterSessionBackends ==
    /\ "unregister" \in Events
    /\ registered # {}
    /\ CloseFiles
    /\ registered' = {}
    /\ UNCHANGED <<gen, phase, fifo, written, buf, send, clientVars, done, panicked>>

Stop ==
    /\ "stop" \in Events
    /\ done' = TRUE
    /\ CloseFiles
    /\ UNCHANGED <<registered, gen, phase, fifo, written, buf, send, clientVars, panicked>>

-----------------------------------------------------------------------------
(* startReading *)

Goto(r, next) == phase' = [phase EXCEPT ![r] = next]

(* os.Open blocks until the pipe has a writer, or fails. *)
OpenFifo(r) ==
    /\ phase[r] = "opening"
    /\ Goto(r, "opened") \/ ("openfails" \in Events /\ Goto(r, "gone"))
    /\ UNCHANGED <<registered, gen, file, fifo, written, buf, send, clientVars,
                   done, panicked>>

(* u.file = file, whether or not the reader is still registered. *)
StoreFile(r) ==
    /\ phase[r] = "opened"
    /\ file' = [file EXCEPT ![r] = "set"]
    /\ Goto(r, "scanning")
    /\ UNCHANGED <<registered, gen, fifo, written, buf, send, clientVars, done,
                   panicked>>

(* A read takes what is in the pipe; a closed file ends the scan, but only *)
(* once the lines already in the scanner's buffer have been handed out.    *)
ReadPipe(r) ==
    /\ phase[r] = "scanning" /\ buf[r] = <<>> /\ file[r] = "set"
    /\ fifo[Uart(r)] # <<>>
    /\ buf' = [buf EXCEPT ![r] = fifo[Uart(r)]]
    /\ fifo' = [fifo EXCEPT ![Uart(r)] = <<>>]
    /\ UNCHANGED <<registered, gen, phase, file, written, send, clientVars, done,
                   panicked>>

ScanTwice(r) ==             \* mutant of ScanLine: the line stays in the buffer
    /\ phase[r] = "scanning" /\ buf[r] # <<>>
    /\ IF slice.len = 0
       THEN UNCHANGED <<phase, send>>
       ELSE /\ send' = [send EXCEPT ![r] =
                          [n |-> Head(buf[r]), cap |-> slice.cap,
                           len |-> slice.len, at |-> 1]]
            /\ Goto(r, "sending")
    /\ UNCHANGED <<registered, gen, file, fifo, written, buf, clientVars, done, panicked>>

(* The next line goes into the history; Broadcast takes the slice.  (With  *)
(* no subscriber its loop is over at once.)                                *)
ScanLine(r) ==
    /\ phase[r] = "scanning" /\ buf[r] # <<>>
    /\ buf' = [buf EXCEPT ![r] = Tail(buf[r])]
    /\ IF slice.len = 0
       THEN UNCHANGED <<phase, send>>
       ELSE /\ send' = [send EXCEPT ![r] =
                          [n |-> Head(buf[r]), cap |-> slice.cap,
                           len |-> slice.len, at |-> 1]]
            /\ Goto(r, "sending")
    /\ UNCHANGED <<registered, gen, file, fifo, written, clientVars, done, panicked>>

(* The scan ends when the file was closed, or at the end of input: the     *)
(* firmware has exited and nothing is left in the pipe.                    *)
EndScan(r) ==
    /\ phase[r] = "scanning" /\ buf[r] = <<>>
    /\ \/ file[r] = "shut"
       \/ fifo[Uart(r)] = <<>> /\ written[Uart(r)] = MaxLines
    /\ Goto(r, "gone")
    /\ UNCHANGED <<registered, gen, file, fifo, written, buf, send, clientVars,
                   done, panicked>>

-----------------------------------------------------------------------------
(* Broadcast *)

(* The channel at the position the loop has reached, read from the array   *)
(* of the slice taken, as that array is now.                               *)
Target(r) == heap[send[r].cap][send[r].at]
RoomForOneMore(c) ==        \* mutant of Room: one event too many
    Len(chan[c]) <= ChanSize
Room(c) == Len(chan[c]) < ChanSize

SkipLast(r) ==              \* mutant of Advance: the last subscriber is left out
    IF send[r].at + 1 < send[r].len
    THEN send' = [send EXCEPT ![r].at = @ + 1] /\ UNCHANGED phase
    ELSE send' = [send EXCEPT ![r] = NoSend] /\ Goto(r, "scanning")

Advance(r) ==
    IF send[r].at < send[r].len
    THEN send' = [send EXCEPT ![r].at = @ + 1] /\ UNCHANGED phase
    ELSE send' = [send EXCEPT ![r] = NoSend] /\ Goto(r, "scanning")

(* One turn of the loop: send, or drop because the channel is full; once   *)
(* the multiplexer is stopped Broadcast may, and on a full channel will,   *)
(* return instead.  A send on a closed channel panics.                     *)
SendEvent(r) ==
    /\ phase[r] = "sending"
    /\ LET c == Target(r) IN
       \/ /\ client[c] = "on" /\ Room(c)
          /\ chan' = [chan EXCEPT ![c] = Append(@, [uart |-> Uart(r), n |-> send[r].n])]
          /\ Advance(r)
          /\ UNCHANGED panicked
       \/ /\ client[c] = "on" /\ ~Room(c) /\ ~done
          /\ Advance(r)
          /\ UNCHANGED <<chan, panicked>>
       \/ /\ done
          /\ send' = [send EXCEPT ![r] = NoSend] /\ Goto(r, "scanning")
          /\ UNCHANGED <<chan, panicked>>
       \/ /\ client[c] = "left"
          /\ panicked' = TRUE
          /\ UNCHANGED <<chan, send, phase>>
    /\ UNCHANGED <<registered, gen, file, fifo, written, buf, heap, slice, client,
                   got, done>>

-----------------------------------------------------------------------------
(* Clients: HandleSSE once the container's logs are not available *)

(* Subscribe: append writes behind the end of the array while there is     *)
(* room, and otherwise allocates one of twice the capacity and copies.     *)
Grown == IF slice.cap = 0 THEN 1 ELSE 2 * slice.cap

GrowWithoutCopy(c) ==       \* mutant of Subscribe: a fresh array, nothing copied
    /\ client[c] = "new"
    /\ IF slice.len < slice.cap
       THEN /\ heap' = [heap EXCEPT ![slice.cap][slice.len + 1] = c]
            /\ slice' = [slice EXCEPT !.len = @ + 1]
       ELSE /\ heap' = [heap EXCEPT ![Grown][slice.len + 1] = c]
            /\ slice' = [cap |-> Grown, len |-> slice.len + 1]
    /\ client' = [client EXCEPT ![c] = "on"]
    /\ UNCHANGED <<readerVars, chan, got, done, panicked>>

Subscribe(c) ==
    /\ client[c] = "new"
    /\ IF slice.len < slice.cap
       THEN /\ heap' = [heap EXCEPT ![slice.cap][slice.len + 1] = c]
            /\ slice' = [slice EXCEPT !.len = @ + 1]
       ELSE /\ heap' = [heap EXCEPT ![Grown] =
                          [i \in Slots(Grown) |->
                             IF i <= slice.len THEN heap[slice.cap][i]
                             ELSE IF i = slice.len + 1 THEN c ELSE Nobody]]
            /\ slice' = [cap |-> Grown, len |-> slice.len + 1]
    /\ client' = [client EXCEPT ![c] = "on"]
    /\ UNCHANGED <<readerVars, chan, got, done, panicked>>

(* Unsubscribe, deferred by the handler of a client that disconnects:      *)
(* append(subs[:i], subs[i+1:]...) moves the rest down in the same array   *)
(* and leaves the last slot as it was; then the channel is closed.         *)
Unsubscribe(c) ==
    /\ c \in Leaving
    /\ client[c] = "on"
    /\ \E i \in 1 .. slice.len :
          /\ heap[slice.cap][i] = c
          /\ heap' = [heap EXCEPT ![slice.cap] =
                        [j \in Slots(slice.cap) |->
                           IF j \in i .. slice.len - 1 THEN @[j + 1] ELSE @[j]]]
    /\ slice' = [slice EXCEPT !.len = @ - 1]
    /\ client' = [client EXCEPT ![c] = "left"]
    /\ chan' = [chan EXCEPT ![c] = <<>>]
    /\ UNCHANGED <<readerVars, got, done, panicked>>

Receive(c) ==
    /\ client[c] = "on"
    /\ chan[c] # <<>>
    /\ got' = [got EXCEPT ![c] = Append(@, Head(chan[c]))]
    /\ chan' = [chan EXCEPT ![c] = Tail(@)]
    /\ UNCHANGED <<readerVars, heap, slice, client, done, panicked>>

(* The emulated firmware writes a line to a pipe. *)
FirmwareWrites(u) ==
    /\ written[u] < MaxLines
    /\ written' = [written EXCEPT ![u] = @ + 1]
    /\ fifo' = [fifo EXCEPT ![u] = Append(@, written[u] + 1)]
    /\ UNCHANGED <<registered, gen, phase, file, buf, send, clientVars, done, panicked>>

-----------------------------------------------------------------------------

Read(r) ==
    /\ ~panicked
    /\ \/ OpenFifo(r) \/ StoreFile(r) \/ ReadPipe(r) \/ ScanLine(r)
       \/ EndScan(r) \/ SendEvent(r)

Next ==
    \/ \E r \in Readers : Read(r)
    \/ /\ ~panicked
       /\ \/ RegisterSessionBackends \/ UnregisterSessionBackends \/ Stop
          \/ \E c \in Clients : Subscribe(c) \/ Unsubscribe(c) \/ Receive(c)
          \/ \E u \in Uarts : FirmwareWrites(u)

(* The runtime schedules every reader's goroutine and the select loop of   *)
(* every connected client (whose connection takes what is written to it).  *)
Fairness ==
    /\ \A r \in Readers : WF_vars(Read(r))
    /\ \A c \in Clients : WF_vars(~panicked /\ Receive(c))

Spec == Init /\ [][Next]_vars /\ Fairness

-----------------------------------------------------------------------------
(* Properties *)

(* However clients come and go, the slice holds the channel of every       *)
(* connected client exactly once, and no other: no append of Subscribe and *)
(* no shift of Unsubscribe loses, doubles or revives one.                  *)
SubscribersExact ==
    /\ slice.len = Cardinality({c \in Clients : client[c] = "on"})
    /\ \A c \in Clients : client[c] = "on" =>
          \E i \in 1 .. slice.len : heap[slice.cap][i] = c

(* While no client disconnects, and until the session is registered again, *)
(* every client gets the lines of a UART in the order they were written,   *)
(* none of them twice, though some are dropped when its channel is full.   *)
InOrder ==
    gen <= 1 => \A c \in Clients :
        LET s == got[c] \o chan[c]
        IN  \A i, j \in 1 .. Len(s) :
               i < j /\ s[i].uart = s[j].uart => s[i].n < s[j].n

(* While no client disconnects, a line a reader has taken from the pipe    *)
(* reaches every client subscribed at the time, also when the session is   *)
(* unregistered or registered again meanwhile, unless the client is so far *)
(* behind that its channel is full, or the multiplexer is stopped.         *)
Seen(c, u, n) == \E i \in 1 .. Len(got[c]) : got[c][i] = [uart |-> u, n |-> n]
Taken(r, n) == \E i \in 1 .. Len(buf[r]) : buf[r][i] = n
AllSeen ==
    \A c \in Clients \ Leaving, r \in Readers, n \in Lines :
        client[c] = "on" /\ Taken(r, n)
            ~> Seen(c, Uart(r), n) \/ ~Room(c) \/ done \/ panicked

(* A reader that got its file while it was registered does not outlive its  *)
(* registration: it ends once it is unregistered, replaced or stopped.     *)
EndsWhenUnregistered ==
    \A r \in Readers :
        [](r \in registered /\ ~done /\ file[r] = "set"
             => []<>((r \in registered /\ ~done) \/ phase[r] = "gone"))

(* multiplexer.go:169, "Unsubscribe removes a subscriber": nothing is sent *)
(* to a channel after that (which, the channel being closed, would panic). *)
NoSendToRemoved == ~panicked

=============================================================================
