--------------------------- MODULE DebugProxyProofs ---------------------------
(***************************************************************************)
(* Theorems about DebugProxy, for any number of messages.                  *)
(***************************************************************************)
EXTENDS DebugProxy, SequenceTheorems, TLAPS

-----------------------------------------------------------------------------
(* What a goroutine is about to write is never an empty message: those of  *)
(* the client are skipped, and a read from the gdbserver returns bytes.    *)

CarryInv ==
    /\ ProxyTypeOK
    /\ out["gdb"] \in Seq(Messages)
    /\ \A e \in Ends : pump[e].at = "write" => pump[e].msg \in Messages

(* Where the handler is, and what that says of connections and goroutines. *)
NoPumps == \A e \in Ends : pump[e] = PumpAt("none")
Pumping == \A e \in Ends : pump[e].at # "none"
HandlerInv ==
    /\ proxy = "request" => conn["client"] = "none" /\ NoPumps
    /\ proxy = "dialled" => conn["gdb"] = "open" /\ conn["client"] = "none" /\ NoPumps
    /\ proxy = "waiting" => conn["gdb"] = "open" /\ conn["client"] = "open" /\ Pumping
    /\ proxy = "closing" => conn["client"] = "open" /\ Pumping
    /\ proxy = "returned" /\ conn["client"] = "none" => NoPumps
    /\ proxy = "returned" /\ conn["client"] # "none" => Pumping
    /\ proxy \in {"request", "dialled"} => errs = 0
    /\ proxy = "waiting" /\ errs > 0 => \E e \in Ends : pump[e].at = "gone"

(* The messages of e that the server has yet to write to the other end:    *)
(* exactly those after the first k, in order, among empty ones.            *)
Pending(s, k, n) ==
    /\ \A i \in 1 .. Len(s) : s[i] # Empty => s[i] \in k + 1 .. n
    /\ \A i, j \in 1 .. Len(s) :
          i < j /\ s[i] # Empty /\ s[j] # Empty => s[i] < s[j]
    /\ \A m \in k + 1 .. n : \E i \in 1 .. Len(s) : s[i] = m

Holds(e) == IF pump[e].at = "write" THEN 1 ELSE 0
Carried(e) == Len(taken[Other(e)]) + Len(inbox[Other(e)]) + Holds(e)
Stream(e) ==
    /\ \A i \in 1 .. Len(taken[Other(e)]) : taken[Other(e)][i] = i
    /\ \A i \in 1 .. Len(inbox[Other(e)]) :
          inbox[Other(e)][i] = Len(taken[Other(e)]) + i
    /\ pump[e].at = "write" => pump[e].msg = Carried(e)
    /\ Carried(e) <= sent[e]
    /\ Pending(out[e], Carried(e), sent[e])

(* The goroutine that reads from e ends only when e has closed and all has *)
(* been written, as long as the other end stays, nothing written to e has  *)
(* failed and no connection was reset; and it is then the first to end.    *)
Calm(e) == peer[Other(e)] = "open" /\ Other(e) \notin failed /\ reset = {}
Over(e) == out[e] = <<>> /\ peer[e] = "closed"
Finishing(e) ==
    /\ pump[e].at \in {"report", "gone"} => Over(e)
    /\ pump[e].at = "write" /\ pump[e].eof => Over(e)
    /\ proxy = "waiting" =>
          pump[Other(e)].at \in {"read", "write"} /\ ~pump[Other(e)].eof
    /\ proxy \in {"closing", "returned"} /\ conn["client"] # "none" =>
          pump[e].at \in {"report", "gone"}
EndsInv == \A e \in Ends : Calm(e) => Stream(e) /\ Finishing(e)
ProxyInv == CarryInv /\ HandlerInv /\ EndsInv

-----------------------------------------------------------------------------
(* Ends and messages                                                        *)

LEMMA TwoEnds ==
    /\ Other("client") = "gdb" /\ Other("gdb") = "client"
    /\ \A e \in Ends : Other(e) \in Ends /\ Other(e) # e /\ Other(Other(e)) = e
    /\ \A e, d \in Ends : d = e \/ d = Other(e)
<1>1. Other("client") = "gdb"
  <2>1. \A d \in Ends : d # "client" <=> d = "gdb"
    BY DEF Ends
  <2>2. "gdb" \in Ends
    BY DEF Ends
  <2> QED
    BY <2>1, <2>2 DEF Other
<1>2. Other("gdb") = "client"
  <2>1. \A d \in Ends : d # "gdb" <=> d = "client"
    BY DEF Ends
  <2>2. "client" \in Ends
    BY DEF Ends
  <2> QED
    BY <2>1, <2>2 DEF Other
<1> QED
  BY <1>1, <1>2 DEF Ends

LEMMA MessagesAreNumbers ==
    Messages \subseteq Nat /\ Empty \notin Messages /\ MaxSent \in Nat
  BY SentAssumption DEF Messages, Empty

LEMMA PendingEmpty ==
    ASSUME NEW k \in Nat, NEW n \in Nat, k <= n
    PROVE  Pending(<<>>, k, n) => k = n
<1> SUFFICES ASSUME Pending(<<>>, k, n), k # n PROVE FALSE
  OBVIOUS
<1>1. k + 1 \in k + 1 .. n
  OBVIOUS
<1> QED
  BY <1>1 DEF Pending

LEMMA PendingTail ==
    ASSUME NEW s \in Seq(Messages \cup {Empty}), s # <<>>,
           NEW k \in Nat, NEW n \in Nat, k <= n, Pending(s, k, n)
    PROVE  /\ Head(s) = Empty => Pending(Tail(s), k, n)
           /\ Head(s) # Empty =>
                Head(s) = k + 1 /\ k + 1 <= n /\ Pending(Tail(s), k + 1, n)
<1> DEFINE rest == Tail(s)
<1>1. /\ Len(s) \in Nat \ {0} /\ Len(rest) = Len(s) - 1
      /\ \A i \in 1 .. Len(rest) : rest[i] = s[i + 1]
      /\ Head(s) = s[1] /\ rest \in Seq(Messages \cup {Empty})
  OBVIOUS
<1> HIDE DEF rest
<1>2. /\ \A i \in 1 .. Len(rest) : i + 1 \in 1 .. Len(s) /\ 1 < i + 1
      /\ \A i, j \in 1 .. Len(rest) : i < j => i + 1 < j + 1
      /\ 1 \in 1 .. Len(s)
  BY <1>1
<1>3. \A i \in 1 .. Len(s) : i # 1 => i - 1 \in 1 .. Len(rest) /\ rest[i - 1] = s[i]
  BY <1>1
<1>4. \A i, j \in 1 .. Len(rest) :
         i < j /\ rest[i] # Empty /\ rest[j] # Empty => rest[i] < rest[j]
  BY <1>1, <1>2 DEF Pending
<1>5. CASE Head(s) = Empty
  <2>1. \A i \in 1 .. Len(rest) : rest[i] # Empty => rest[i] \in k + 1 .. n
    BY <1>1, <1>2 DEF Pending
  <2>2. ASSUME NEW m \in k + 1 .. n PROVE \E i \in 1 .. Len(rest) : rest[i] = m
    <3>1. PICK i \in 1 .. Len(s) : s[i] = m
      BY DEF Pending
    <3>2. i # 1
      BY <1>1, <1>5, <3>1 DEF Empty
    <3> QED
      BY <1>3, <3>1, <3>2
  <2> QED
    BY <1>4, <1>5, <2>1, <2>2 DEF Pending, rest
<1>6. CASE Head(s) # Empty
  <2>1. s[1] \in k + 1 .. n
    BY <1>1, <1>2, <1>6 DEF Pending
  <2>2. s[1] = k + 1 /\ k + 1 <= n
    <3>1. k + 1 \in k + 1 .. n
      BY <2>1
    <3>2. PICK i \in 1 .. Len(s) : s[i] = k + 1
      BY <3>1 DEF Pending
    <3>3. k + 1 # Empty
      BY DEF Empty
    <3>4. i # 1 => s[1] < s[i]
      BY <1>1, <1>2, <1>6, <3>2, <3>3 DEF Pending
    <3> QED
      BY <2>1, <3>2, <3>4
  <2>3. \A i \in 1 .. Len(rest) : rest[i] # Empty => rest[i] \in (k + 1) + 1 .. n
    <3> SUFFICES ASSUME NEW i \in 1 .. Len(rest), rest[i] # Empty
                 PROVE  rest[i] \in (k + 1) + 1 .. n
      OBVIOUS
    <3>1. s[i + 1] \in k + 1 .. n /\ s[1] < s[i + 1] /\ rest[i] = s[i + 1]
      BY <1>1, <1>2, <1>6 DEF Pending
    <3> QED
      BY <2>2, <3>1
  <2>4. ASSUME NEW m \in (k + 1) + 1 .. n PROVE \E i \in 1 .. Len(rest) : rest[i] = m
    <3>1. m \in k + 1 .. n
      OBVIOUS
    <3>2. PICK i \in 1 .. Len(s) : s[i] = m
      BY <3>1 DEF Pending
    <3>3. i # 1
      BY <2>2, <3>2
    <3> QED
      BY <1>3, <3>2, <3>3
  <2> QED
    BY <1>1, <1>4, <1>6, <2>2, <2>3, <2>4 DEF Pending, rest
<1> QED
  BY <1>5, <1>6

LEMMA PendingAppend ==
    ASSUME NEW s \in Seq(Messages \cup {Empty}), NEW k \in Nat, NEW n \in Nat,
           n < MaxSent, k <= n, Pending(s, k, n)
    PROVE  Pending(Append(s, n + 1), k, n + 1)
<1> DEFINE more == Append(s, n + 1)
<1>1. /\ Len(s) \in Nat /\ Len(more) = Len(s) + 1 /\ more[Len(s) + 1] = n + 1
      /\ \A i \in 1 .. Len(s) : more[i] = s[i]
  OBVIOUS
<1> HIDE DEF more
<1>2. /\ \A i \in 1 .. Len(more) :
            (i \in 1 .. Len(s) /\ more[i] = s[i]) \/ (i = Len(s) + 1 /\ more[i] = n + 1)
      /\ \A i, j \in 1 .. Len(more) : i < j => i \in 1 .. Len(s) /\ more[i] = s[i]
      /\ \A i \in 1 .. Len(s) : i \in 1 .. Len(more)
      /\ Len(s) + 1 \in 1 .. Len(more)
  BY <1>1
<1>3. \A i \in 1 .. Len(s) : s[i] # Empty => s[i] \in k + 1 .. n /\ s[i] < n + 1
  BY DEF Pending
<1>4. \A i \in 1 .. Len(more) : more[i] # Empty => more[i] \in k + 1 .. n + 1
  BY <1>2, <1>3
<1>5. \A i, j \in 1 .. Len(more) :
         i < j /\ more[i] # Empty /\ more[j] # Empty => more[i] < more[j]
  BY <1>2, <1>3 DEF Pending
<1>6. ASSUME NEW m \in k + 1 .. n + 1 PROVE \E i \in 1 .. Len(more) : more[i] = m
  <2>1. CASE m = n + 1
    BY <1>1, <1>2, <2>1
  <2>2. CASE m # n + 1
    <3>1. m \in k + 1 .. n
      BY <2>2
    <3>2. PICK i \in 1 .. Len(s) : s[i] = m
      BY <3>1 DEF Pending
    <3> QED
      BY <1>1, <1>2, <3>2
  <2> QED
    BY <2>1, <2>2
<1> QED
  BY <1>4, <1>5, <1>6 DEF Pending, more

LEMMA PendingAppendEmpty ==
    ASSUME NEW s \in Seq(Messages \cup {Empty}), NEW k \in Nat, NEW n \in Nat,
           Pending(s, k, n)
    PROVE  Pending(Append(s, Empty), k, n)
<1> DEFINE more == Append(s, Empty)
<1>1. /\ Len(s) \in Nat /\ Len(more) = Len(s) + 1 /\ more[Len(s) + 1] = Empty
      /\ \A i \in 1 .. Len(s) : more[i] = s[i]
  OBVIOUS
<1> HIDE DEF more
<1>2. /\ \A i \in 1 .. Len(more) : more[i] # Empty => i \in 1 .. Len(s) /\ more[i] = s[i]
      /\ \A i \in 1 .. Len(s) : i \in 1 .. Len(more)
  BY <1>1
<1>3. \A m \in k + 1 .. n : \E i \in 1 .. Len(more) : more[i] = m
  BY <1>1, <1>2 DEF Pending
<1> QED
  BY <1>2, <1>3 DEF Pending, more

-----------------------------------------------------------------------------
(* Types                                                                    *)

LEMMA ProxyInvInit == ProxyInit => ProxyInv
<1> SUFFICES ASSUME ProxyInit PROVE ProxyInv
  OBVIOUS
<1> USE DEF ProxyInit
<1>1. PumpAt("none") \in Pump /\ PumpAt("none").at = "none"
  BY DEF PumpAt, Pump
<1>2. \A e \in Ends : /\ out[e] = <<>> /\ inbox[e] = <<>> /\ taken[e] = <<>> /\ sent[e] = 0
                      /\ pump[e] = PumpAt("none") /\ conn[e] = "none"
  OBVIOUS
<1>3. CarryInv
  <2>1. ProxyTypeOK
    BY <1>1, MessagesAreNumbers DEF ProxyTypeOK
  <2>2. "gdb" \in Ends
    BY DEF Ends
  <2> QED
    BY <1>1, <1>2, <2>1, <2>2 DEF CarryInv
<1>4. HandlerInv
  <2>1. "client" \in Ends
    BY DEF Ends
  <2> QED
    BY <1>2, <2>1 DEF HandlerInv, NoPumps
<1>5. EndsInv
  <2> SUFFICES ASSUME NEW e \in Ends PROVE Stream(e)
    BY <1>1, <1>2 DEF EndsInv, Finishing
  <2>1. Len(<<>>) = 0 /\ Other(e) \in Ends
    BY TwoEnds
  <2>2. Carried(e) = 0 /\ pump[e].at # "write"
    BY <1>1, <1>2, <2>1 DEF Carried, Holds
  <2> QED
    BY <1>2, <2>1, <2>2 DEF Stream, Pending
<1> QED
  BY <1>3, <1>4, <1>5 DEF ProxyInv

LEMMA PumpTyped ==
    ASSUME NEW place \in {"none", "read", "write", "report", "gone"}
    PROVE  /\ PumpAt(place) \in Pump /\ PumpAt(place).at = place
           /\ PumpAt(place).eof = FALSE
  BY DEF PumpAt, Pump

LEMMA HandlerTyped ==
    ASSUME CarryInv, HandlerInv, HandleProxy
    PROVE  CarryInv' /\ HandlerInv'
<1> USE DEF CarryInv
<1>1. "gdb" \in Ends /\ "client" \in Ends /\ \A e \in Ends : e = "gdb" \/ e = "client"
  BY DEF Ends
<1>2. /\ conn \in [Ends -> {"none", "open", "closed"}] /\ pump \in [Ends -> Pump]
      /\ inbox \in [Ends -> Seq(Messages)] /\ errs \in 0 .. 2 /\ reset \subseteq Ends
  BY DEF ProxyTypeOK
<1>3. ASSUME NEW e \in Ends, CloseTo(e)
      PROVE  /\ UNCHANGED <<peer, sent, out, pump, taken, failed>>
             /\ inbox' \in [Ends -> Seq(Messages)] /\ reset' \subseteq Ends
             /\ conn' \in [Ends -> {"none", "open", "closed"}]
             /\ conn' = [conn EXCEPT ![e] = "closed"]
  <2>1. [inbox EXCEPT ![e] = <<>>] \in [Ends -> Seq(Messages)]
    BY <1>2
  <2> QED
    BY <1>2, <1>3, <2>1 DEF CloseTo
<1>4. CASE Dial
  <2>1. /\ UNCHANGED <<peer, sent, out, inbox, taken, reset, pump, errs, failed>>
        /\ proxy = "request"
        /\ \/ conn' = [conn EXCEPT !["gdb"] = "open"] /\ proxy' = "dialled"
           \/ conn' = conn /\ proxy' = "returned"
    BY <1>4 DEF Dial, endVars
  <2>2. conn' \in [Ends -> {"none", "open", "closed"}]
    BY <1>2, <2>1
  <2>3. CarryInv'
    BY <2>1, <2>2 DEF ProxyTypeOK
  <2>4. conn'["client"] = conn["client"] /\ (proxy' = "dialled" => conn'["gdb"] = "open")
    BY <1>1, <1>2, <2>1
  <2>5. NoPumps /\ NoPumps' /\ conn'["client"] = "none" /\ errs = 0
    BY <2>1, <2>4 DEF HandlerInv, NoPumps
  <2> QED
    BY <2>1, <2>3, <2>4, <2>5 DEF HandlerInv
<1>5. CASE Upgrade
  <2>1. /\ UNCHANGED <<peer, sent, out, inbox, taken, reset, errs, failed>>
        /\ proxy = "dialled"
        /\ \/ /\ conn' = [conn EXCEPT !["client"] = "open"] /\ proxy' = "waiting"
              /\ pump' = [e \in Ends |-> PumpAt("read")]
           \/ conn' = [conn EXCEPT !["gdb"] = "closed"] /\ proxy' = "returned" /\ pump' = pump
    BY <1>5 DEF Upgrade, endVars
  <2>2. conn' \in [Ends -> {"none", "open", "closed"}]
    BY <1>2, <2>1
  <2>3. PumpAt("read") \in Pump /\ PumpAt("read").at = "read"
    BY PumpTyped
  <2>4. pump' \in [Ends -> Pump] /\ \A e \in Ends : pump'[e].at = "write" => pump'[e] = pump[e]
    BY <1>2, <2>1, <2>3
  <2>5. CarryInv'
    BY <2>1, <2>2, <2>4 DEF ProxyTypeOK
  <2>6. NoPumps /\ conn["client"] = "none" /\ conn["gdb"] = "open" /\ errs = 0
    BY <2>1 DEF HandlerInv
  <2>7. CASE proxy' = "waiting"
    <3>1. conn'["client"] = "open" /\ conn'["gdb"] = "open"
      BY <1>1, <1>2, <2>1, <2>6, <2>7
    <3>2. Pumping'
      BY <2>1, <2>3, <2>7 DEF Pumping
    <3> QED
      BY <2>1, <2>5, <2>6, <2>7, <3>1, <3>2 DEF HandlerInv
  <2>8. CASE proxy' = "returned"
    <3>1. conn'["client"] = "none" /\ NoPumps'
      BY <1>1, <1>2, <2>1, <2>6, <2>8 DEF NoPumps
    <3> QED
      BY <2>5, <2>8, <3>1 DEF HandlerInv
  <2> QED
    BY <2>1, <2>7, <2>8
<1>6. CASE AwaitError
  <2>1. /\ proxy = "waiting" /\ errs > 0 /\ errs' = errs - 1 /\ proxy' = "closing"
        /\ CloseTo("gdb")
    BY <1>6 DEF AwaitError
  <2>2. /\ UNCHANGED <<peer, sent, out, pump, taken, failed>>
        /\ inbox' \in [Ends -> Seq(Messages)] /\ reset' \subseteq Ends
        /\ conn' \in [Ends -> {"none", "open", "closed"}]
        /\ conn' = [conn EXCEPT !["gdb"] = "closed"]
    BY <1>1, <1>3, <2>1
  <2>3. errs' \in 0 .. 2
    BY <1>2, <2>1
  <2>4. CarryInv'
    BY <2>1, <2>2, <2>3 DEF ProxyTypeOK
  <2>5. conn'["client"] = "open" /\ Pumping'
    BY <1>1, <1>2, <2>1, <2>2 DEF HandlerInv, Pumping
  <2> QED
    BY <2>1, <2>4, <2>5 DEF HandlerInv
<1>7. CASE ReturnFromProxy
  <2>1. /\ proxy = "closing" /\ errs' = errs /\ proxy' = "returned" /\ CloseTo("client")
    BY <1>7 DEF ReturnFromProxy
  <2>2. /\ UNCHANGED <<peer, sent, out, pump, taken, failed>>
        /\ inbox' \in [Ends -> Seq(Messages)] /\ reset' \subseteq Ends
        /\ conn' \in [Ends -> {"none", "open", "closed"}]
        /\ conn' = [conn EXCEPT !["client"] = "closed"]
    BY <1>1, <1>3, <2>1
  <2>3. CarryInv'
    BY <2>1, <2>2 DEF ProxyTypeOK
  <2>4. conn'["client"] = "closed" /\ Pumping'
    BY <1>1, <1>2, <2>1, <2>2 DEF HandlerInv, Pumping
  <2> QED
    BY <2>1, <2>3, <2>4 DEF HandlerInv
<1> QED
  BY <1>4, <1>5, <1>6, <1>7 DEF HandleProxy

(* A step of a goroutine or of an end: what it says of the handler's part. *)
LEMMA HandlerKept ==
    ASSUME HandlerInv, UNCHANGED <<proxy, conn>>,
           pump \in [Ends -> Pump],
           pump' = pump \/ \E e \in Ends : pump[e].at \notin {"none", "gone"} /\
                              \E p \in Pump : p.at # "none" /\ pump' = [pump EXCEPT ![e] = p],
           errs' = errs \/ ((\E e \in Ends : pump[e].at # "none")
                              /\ (\E e \in Ends : pump'[e].at = "gone"))
    PROVE  HandlerInv'
<1>1. PumpAt("none").at = "none"
  BY PumpTyped
<1>2. NoPumps => pump' = pump /\ errs' = errs
  BY <1>1 DEF NoPumps
<1>3. \A e \in Ends : pump[e].at # "none" => pump'[e].at # "none"
  OBVIOUS
<1>4. \A e \in Ends : pump[e].at = "gone" => pump'[e].at = "gone"
  OBVIOUS
<1>5. Pumping => Pumping'
  BY <1>3 DEF Pumping
<1>6. NoPumps => NoPumps'
  BY <1>2 DEF NoPumps
<1> QED
  BY <1>2, <1>4, <1>5, <1>6 DEF HandlerInv

LEMMA PumpTypedStep ==
    ASSUME CarryInv, HandlerInv, NEW e \in Ends, RunPump(e)
    PROVE  CarryInv' /\ HandlerInv'
<1> USE DEF CarryInv
<1>1. /\ pump \in [Ends -> Pump] /\ out \in [Ends -> Seq(Messages \cup {Empty})]
      /\ inbox \in [Ends -> Seq(Messages)] /\ errs \in 0 .. 2 /\ failed \subseteq Ends
  BY DEF ProxyTypeOK
<1>2. Other(e) \in Ends /\ "gdb" \in Ends /\ (e # "gdb" => e = "client")
  BY TwoEnds DEF Ends
<1>3. ASSUME NEW p \in Pump, p.at = "write" => p.msg \in Messages,
             pump' = [pump EXCEPT ![e] = p]
      PROVE  /\ pump' \in [Ends -> Pump]
             /\ \A d \in Ends : pump'[d].at = "write" => pump'[d].msg \in Messages
  BY <1>1, <1>3
<1>4. CASE PumpRead(e)
  <2>1. /\ pump[e].at = "read"
        /\ UNCHANGED <<proxy, conn, peer, sent, inbox, taken, errs, reset, failed>>
    BY <1>4 DEF PumpRead
  <2>2. CASE /\ out[e] # <<>> /\ out' = [out EXCEPT ![e] = Tail(@)]
    <3>1. /\ Head(out[e]) \in Messages \cup {Empty} /\ Tail(out[e]) \in Seq(Messages \cup {Empty})
      BY <1>1, <2>2
    <3>2. e = "gdb" => Head(out[e]) \in Messages /\ Tail(out[e]) \in Seq(Messages)
      BY <2>2
    <3>3. out' \in [Ends -> Seq(Messages \cup {Empty})]
      BY <1>1, <2>2, <3>1
    <3>4. out'["gdb"] \in Seq(Messages)
      BY <1>1, <1>2, <2>2, <3>2
    <3> DEFINE carry(eof) == [at |-> "write", msg |-> Head(out[e]), eof |-> eof]
    <3>5. \/ pump' = pump
          \/ /\ ~Skipped(e, Head(out[e]))
             /\ \E eof \in BOOLEAN : pump' = [pump EXCEPT ![e] = carry(eof)]
          \/ pump' = [pump EXCEPT ![e] = PumpAt("report")]
      BY <1>4 DEF PumpRead, PumpTo
    <3>6. CASE pump' = pump
      <4>1. CarryInv'
        BY <2>1, <3>3, <3>4, <3>6 DEF ProxyTypeOK
      <4> QED
        BY <1>1, <2>1, <3>6, <4>1, HandlerKept
    <3>7. ASSUME ~Skipped(e, Head(out[e])), NEW eof \in BOOLEAN,
                 pump' = [pump EXCEPT ![e] = carry(eof)]
          PROVE  CarryInv' /\ HandlerInv'
      <4>1. Head(out[e]) \in Messages
        BY <1>2, <3>1, <3>2, <3>7 DEF Skipped
      <4>2. carry(eof) \in Pump /\ carry(eof).at = "write" /\ carry(eof).msg \in Messages
        BY <4>1 DEF Pump
      <4> HIDE DEF carry
      <4>3. CarryInv'
        BY <1>3, <2>1, <3>3, <3>4, <3>7, <4>2 DEF ProxyTypeOK
      <4> QED
        BY <1>1, <2>1, <3>7, <4>2, <4>3, HandlerKept
    <3>8. CASE pump' = [pump EXCEPT ![e] = PumpAt("report")]
      <4>1. CarryInv'
        BY <1>3, <2>1, <3>3, <3>4, <3>8, PumpTyped DEF ProxyTypeOK
      <4> QED
        BY <1>1, <2>1, <3>8, <4>1, HandlerKept, PumpTyped
    <3> QED
      BY <3>5, <3>6, <3>7, <3>8
  <2>3. CASE out' = out /\ pump' = [pump EXCEPT ![e] = PumpAt("report")]
    <3>1. CarryInv'
      BY <1>3, <2>1, <2>3, PumpTyped DEF ProxyTypeOK
    <3> QED
      BY <1>1, <2>1, <2>3, <3>1, HandlerKept, PumpTyped
  <2> QED
    BY <1>4, <2>2, <2>3 DEF PumpRead, PumpTo
<1>5. CASE PumpWrite(e)
  <2>1. /\ pump[e].at = "write" /\ pump[e].msg \in Messages
        /\ UNCHANGED <<proxy, conn, peer, sent, out, taken, errs, reset>>
        /\ failed' \subseteq Ends
        /\ inbox' = Forward(e) \/ inbox' = inbox
        /\ \E place \in {"read", "report"} : pump' = [pump EXCEPT ![e] = PumpAt(place)]
    BY <1>1, <1>5 DEF PumpWrite, PumpTo
  <2>2. inbox' \in [Ends -> Seq(Messages)]
    <3>1. Append(inbox[Other(e)], pump[e].msg) \in Seq(Messages)
      BY <1>1, <1>2, <2>1
    <3> QED
      BY <1>1, <1>2, <2>1, <3>1 DEF Forward
  <2>3. PICK place \in {"read", "report"} : pump' = [pump EXCEPT ![e] = PumpAt(place)]
    BY <2>1
  <2>4. PumpAt(place) \in Pump /\ PumpAt(place).at = place
    BY PumpTyped
  <2>5. CarryInv'
    BY <1>3, <2>1, <2>2, <2>3, <2>4 DEF ProxyTypeOK
  <2> QED
    BY <1>1, <2>1, <2>3, <2>4, <2>5, HandlerKept
<1>6. CASE PumpReport(e)
  <2>1. /\ pump[e].at = "report" /\ errs' \in 0 .. 2
        /\ pump' = [pump EXCEPT ![e] = PumpAt("gone")]
        /\ UNCHANGED <<proxy, conn, peer, sent, out, inbox, taken, reset, failed>>
    BY <1>1, <1>6 DEF PumpReport, PumpTo, ErrRoom, endVars
  <2>2. CarryInv'
    BY <1>3, <2>1, PumpTyped DEF ProxyTypeOK
  <2>3. pump'[e].at = "gone"
    BY <1>1, <2>1, PumpTyped
  <2> QED
    BY <1>1, <2>1, <2>2, <2>3, HandlerKept, PumpTyped
<1> QED
  BY <1>4, <1>5, <1>6 DEF RunPump

LEMMA EndTyped ==
    ASSUME CarryInv, HandlerInv, NEW e \in Ends, EndSends(e) \/ EndTakes(e) \/ EndCloses(e)
    PROVE  CarryInv' /\ HandlerInv'
<1> USE DEF CarryInv
<1>1. /\ pump \in [Ends -> Pump] /\ out \in [Ends -> Seq(Messages \cup {Empty})]
      /\ inbox \in [Ends -> Seq(Messages)] /\ taken \in [Ends -> Seq(Messages)]
      /\ sent \in [Ends -> 0 .. MaxSent] /\ peer \in [Ends -> {"open", "closed"}]
      /\ reset \subseteq Ends
  BY DEF ProxyTypeOK
<1>2. UNCHANGED <<proxy, conn, pump, errs, failed>>
  BY DEF EndSends, EndTakes, EndCloses
<1>3. HandlerInv'
  BY <1>1, <1>2, HandlerKept
<1>4. "gdb" \in Ends
  BY DEF Ends
<1>5. CASE EndSends(e)
  <2>1. UNCHANGED <<peer, inbox, taken, reset>> /\ sent[e] < MaxSent
    BY <1>5 DEF EndSends
  <2>2. CASE /\ sent' = [sent EXCEPT ![e] = @ + 1]
             /\ out' = [out EXCEPT ![e] = Append(@, sent'[e])]
    <3>1. sent'[e] = sent[e] + 1 /\ sent' \in [Ends -> 0 .. MaxSent] /\ sent'[e] \in Messages
      BY <1>1, <2>1, <2>2, MessagesAreNumbers DEF Messages
    <3>2. /\ Append(out[e], sent'[e]) \in Seq(Messages \cup {Empty})
          /\ e = "gdb" => Append(out[e], sent'[e]) \in Seq(Messages)
      BY <1>1, <3>1
    <3>3. out' \in [Ends -> Seq(Messages \cup {Empty})] /\ out'["gdb"] \in Seq(Messages)
      BY <1>1, <1>4, <2>2, <3>2
    <3> QED
      BY <1>2, <1>3, <2>1, <3>1, <3>3 DEF ProxyTypeOK
  <2>3. CASE e = "client" /\ out' = [out EXCEPT ![e] = Append(@, Empty)] /\ sent' = sent
    <3>1. out' \in [Ends -> Seq(Messages \cup {Empty})] /\ out'["gdb"] \in Seq(Messages)
      BY <1>1, <1>4, <2>3
    <3> QED
      BY <1>2, <1>3, <2>1, <2>3, <3>1 DEF ProxyTypeOK
  <2> QED
    BY <1>5, <2>2, <2>3 DEF EndSends
<1>6. CASE EndTakes(e)
  <2>1. /\ inbox[e] # <<>> /\ taken' = [taken EXCEPT ![e] = Append(@, Head(inbox[e]))]
        /\ inbox' = [inbox EXCEPT ![e] = Tail(@)]
        /\ UNCHANGED <<peer, sent, out, reset>>
    BY <1>6 DEF EndTakes
  <2>2. Append(taken[e], Head(inbox[e])) \in Seq(Messages) /\ Tail(inbox[e]) \in Seq(Messages)
    BY <1>1, <2>1
  <2>3. inbox' \in [Ends -> Seq(Messages)] /\ taken' \in [Ends -> Seq(Messages)]
    BY <1>1, <2>1, <2>2
  <2> QED
    BY <1>2, <1>3, <2>1, <2>3 DEF ProxyTypeOK
<1>7. CASE EndCloses(e)
  <2>1. /\ UNCHANGED <<sent, inbox, taken>> /\ reset' \subseteq Ends
        /\ peer' = [peer EXCEPT ![e] = "closed"]
        /\ out' = out \/ out' = [out EXCEPT ![e] = <<>>]
    BY <1>1, <1>7 DEF EndCloses
  <2>2. out' \in [Ends -> Seq(Messages \cup {Empty})] /\ out'["gdb"] \in Seq(Messages)
    <3>1. CASE out' = out
      BY <1>1, <3>1
    <3>2. CASE out' = [out EXCEPT ![e] = <<>>]
      BY <1>1, <1>4, <3>2
    <3> QED
      BY <2>1, <3>1, <3>2
  <2>3. peer' \in [Ends -> {"open", "closed"}]
    BY <1>1, <2>1
  <2> QED
    BY <1>2, <1>3, <2>1, <2>2, <2>3 DEF ProxyTypeOK
<1> QED
  BY <1>5, <1>6, <1>7

LEMMA CarryStep == CarryInv /\ HandlerInv /\ [ProxyNext]_proxyVars => CarryInv' /\ HandlerInv'
<1> SUFFICES ASSUME CarryInv, HandlerInv, [ProxyNext]_proxyVars PROVE CarryInv' /\ HandlerInv'
  OBVIOUS
<1>1. CASE UNCHANGED proxyVars
  BY <1>1 DEF proxyVars, CarryInv, ProxyTypeOK, HandlerInv, NoPumps, Pumping
<1> QED
  BY <1>1, HandlerTyped, PumpTypedStep, EndTyped DEF ProxyNext

(* The handler, the goroutines and the ends keep their state in its types, *)
(* and the errors on their way never exceed the two that errCh has room    *)
(* for, for any number and any sizes of messages.                          *)
THEOREM ProxyTypeCorrect == ProxySpec => []ProxyTypeOK
<1>1. ProxyInit => CarryInv /\ HandlerInv
  BY ProxyInvInit DEF ProxyInv
<1>2. CarryInv => ProxyTypeOK
  BY DEF CarryInv
<1> QED
  BY <1>1, <1>2, CarryStep, PTL DEF ProxySpec

-----------------------------------------------------------------------------
(* What is sent is carried to its end                                       *)

LEMMA StreamKept ==
    ASSUME NEW e \in Ends, Stream(e),
           taken'[Other(e)] = taken[Other(e)], inbox'[Other(e)] = inbox[Other(e)],
           out'[e] = out[e], sent'[e] = sent[e],
           pump'[e] = pump[e] \/ (pump[e].at # "write" /\ pump'[e].at # "write")
    PROVE  Stream(e)'
<1>1. Carried(e)' = Carried(e)
  BY DEF Carried, Holds
<1> QED
  BY <1>1 DEF Stream

(* An end that stays, and from which nothing has been lost, was one before. *)
LEMMA CalmBefore ==
    ASSUME CarryInv, [ProxyNext]_proxyVars, NEW e \in Ends, Calm(e)'
    PROVE  Calm(e)
<1>1. peer'[Other(e)] = "open" => peer[Other(e)] = "open"
  <2>1. peer \in [Ends -> {"open", "closed"}] /\ Other(e) \in Ends
    BY TwoEnds DEF CarryInv, ProxyTypeOK
  <2>2. UNCHANGED peer \/ \E d \in Ends : peer' = [peer EXCEPT ![d] = "closed"]
    BY DEF ProxyNext, proxyVars, HandleProxy, Dial, Upgrade, AwaitError, ReturnFromProxy, CloseTo,
           RunPump, PumpRead, PumpWrite, PumpReport, EndSends, EndTakes, EndCloses, endVars
  <2> QED
    BY <2>1, <2>2
<1>2. failed \subseteq failed'
  BY DEF ProxyNext, proxyVars, HandleProxy, Dial, Upgrade, AwaitError, ReturnFromProxy, CloseTo,
         RunPump, PumpRead, PumpWrite, PumpReport, EndSends, EndTakes, EndCloses, endVars
<1>3. reset \subseteq reset'
  BY DEF ProxyNext, proxyVars, HandleProxy, Dial, Upgrade, AwaitError, ReturnFromProxy, CloseTo,
         RunPump, PumpRead, PumpWrite, PumpReport, EndSends, EndTakes, EndCloses, endVars
<1> QED
  BY <1>1, <1>2, <1>3 DEF Calm

LEMMA HandlerCarries ==
    ASSUME ProxyInv, HandleProxy, NEW e \in Ends, Calm(e), Calm(e)'
    PROVE  Stream(e)' /\ Finishing(e)'
<1> USE DEF ProxyInv
<1> DEFINE d == Other(e)
<1>1. d \in Ends /\ d # e /\ \A x \in Ends : x = e \/ x = d
  BY TwoEnds
<1>2. Stream(e) /\ Finishing(e)
  BY DEF EndsInv
<1>3. pump \in [Ends -> Pump] /\ conn \in [Ends -> {"none", "open", "closed"}]
  BY DEF CarryInv, ProxyTypeOK
<1>4. /\ PumpAt("none").at = "none" /\ PumpAt("read").at = "read" /\ PumpAt("read").eof = FALSE
  BY PumpTyped
<1>5. "client" \in Ends /\ "gdb" \in Ends
  BY DEF Ends
<1>6. CASE Dial
  <2>1. /\ UNCHANGED <<peer, sent, out, inbox, taken, pump>> /\ proxy = "request"
        /\ proxy' \in {"dialled", "returned"} /\ conn'["client"] = conn["client"]
    BY <1>3, <1>5, <1>6 DEF Dial, endVars
  <2>2. NoPumps /\ conn["client"] = "none"
    BY <2>1 DEF HandlerInv
  <2>3. Stream(e)'
    BY <1>2, <2>1, StreamKept
  <2> QED
    BY <1>4, <2>1, <2>2, <2>3 DEF Finishing, NoPumps
<1>7. CASE Upgrade
  <2>1. /\ UNCHANGED <<peer, sent, out, inbox, taken>> /\ proxy = "dialled"
        /\ \/ pump' = [x \in Ends |-> PumpAt("read")] /\ proxy' = "waiting"
           \/ /\ pump' = pump /\ proxy' = "returned"
              /\ conn'["client"] = conn["client"]
    BY <1>3, <1>5, <1>7 DEF Upgrade, endVars
  <2>2. NoPumps /\ conn["client"] = "none"
    BY <2>1 DEF HandlerInv
  <2>3. pump[e].at = "none" /\ pump'[e].at \in {"none", "read"}
    BY <1>4, <2>1, <2>2 DEF NoPumps
  <2>4. Stream(e)'
    BY <1>2, <2>1, <2>3, StreamKept
  <2>5. proxy' = "waiting" => pump'[d].at = "read" /\ ~pump'[d].eof
    BY <1>1, <1>4, <2>1
  <2> QED
    BY <1>4, <2>1, <2>2, <2>3, <2>4, <2>5 DEF Finishing
<1>8. ASSUME NEW x \in Ends, CloseTo(x)
      PROVE  UNCHANGED <<peer, sent, out, pump, taken, inbox>>
  <2>1. reset' = {}
    BY DEF Calm
  <2>2. out[x] = <<>>
    BY <1>8, <2>1 DEF CloseTo
  <2> QED
    BY <1>8, <2>2 DEF CloseTo
<1>9. CASE AwaitError
  <2>1. /\ proxy = "waiting" /\ errs > 0 /\ proxy' = "closing"
        /\ UNCHANGED <<peer, sent, out, pump, taken, inbox>>
    BY <1>5, <1>8, <1>9 DEF AwaitError
  <2>2. pump[e].at = "gone"
    <3>1. PICK x \in Ends : pump[x].at = "gone"
      BY <2>1 DEF HandlerInv
    <3>2. x # d
      BY <1>2, <2>1, <3>1 DEF Finishing
    <3> QED
      BY <1>1, <3>1, <3>2
  <2>3. Stream(e)'
    BY <1>2, <2>1, StreamKept
  <2> QED
    BY <1>2, <2>1, <2>2, <2>3 DEF Finishing, Over
<1>10. CASE ReturnFromProxy
  <2>1. /\ proxy = "closing" /\ proxy' = "returned"
        /\ UNCHANGED <<peer, sent, out, pump, taken, inbox>>
    BY <1>5, <1>8, <1>10 DEF ReturnFromProxy
  <2>2. pump[e].at \in {"report", "gone"}
    BY <1>2, <2>1 DEF HandlerInv, Finishing
  <2>3. Stream(e)'
    BY <1>2, <2>1, StreamKept
  <2> QED
    BY <1>2, <2>1, <2>2, <2>3 DEF Finishing, Over
<1> QED
  BY <1>6, <1>7, <1>9, <1>10 DEF HandleProxy

(* A goroutine that is still at work before the handler has been told. *)
LEMMA StillWaiting ==
    ASSUME ProxyInv, NEW e \in Ends, Calm(e), pump[e].at \in {"read", "write"}
    PROVE  proxy = "waiting" /\ \A x \in Ends : conn[x] = "open"
<1> USE DEF ProxyInv
<1>1. Finishing(e)
  BY DEF EndsInv
<1>2. ~NoPumps
  BY PumpTyped DEF NoPumps
<1>3. proxy = "waiting"
  BY <1>1, <1>2 DEF HandlerInv, Finishing, CarryInv, ProxyTypeOK
<1> QED
  BY <1>3 DEF HandlerInv, Ends

LEMMA ReadCarries ==
    ASSUME ProxyInv, NEW e \in Ends, Calm(e), PumpRead(e)
    PROVE  Stream(e)' /\ Finishing(e)'
<1> USE DEF ProxyInv
<1> DEFINE d == Other(e)
<1>1. d \in Ends /\ d # e
  BY TwoEnds
<1>2. Stream(e) /\ Finishing(e)
  BY DEF EndsInv
<1>3. /\ pump \in [Ends -> Pump] /\ out \in [Ends -> Seq(Messages \cup {Empty})]
      /\ sent[e] \in Nat /\ taken[d] \in Seq(Messages) /\ inbox[d] \in Seq(Messages)
  BY <1>1, MessagesAreNumbers DEF CarryInv, ProxyTypeOK
<1>4. /\ pump[e].at = "read"
      /\ UNCHANGED <<proxy, conn, peer, sent, inbox, taken, errs, reset, failed>>
  BY DEF PumpRead
<1>5. proxy = "waiting" /\ conn[e] = "open"
  BY <1>4, StillWaiting
<1>6. Carried(e) = Len(taken[d]) + Len(inbox[d]) /\ Carried(e) \in Nat
  <2> DEFINE held == Len(inbox[d])
             had == Len(taken[d])
  <2>1. had \in Nat /\ held \in Nat
    BY <1>3, LenProperties
  <2>2. Holds(e) = 0
    BY <1>4 DEF Holds
  <2>3. Carried(e) = had + held + Holds(e)
    BY DEF Carried
  <2> HIDE DEF had, held
  <2>4. Carried(e) = had + held /\ Carried(e) \in Nat
    BY <2>1, <2>2, <2>3
  <2> QED
    BY <2>4 DEF had, held
<1>7. CASE out[e] # <<>> /\ out' = [out EXCEPT ![e] = Tail(@)] /\ pump' = pump
             /\ Skipped(e, Head(out[e]))
  <2>1. out'[e] = Tail(out[e]) /\ Head(out[e]) = Empty
    BY <1>3, <1>7 DEF Skipped
  <2>2. Pending(out'[e], Carried(e), sent[e])
    BY <1>2, <1>3, <1>6, <1>7, <2>1, PendingTail DEF Stream
  <2>3. Carried(e)' = Carried(e)
    BY <1>4, <1>7 DEF Carried, Holds
  <2> QED
    BY <1>2, <1>4, <1>5, <1>7, <2>2, <2>3 DEF Stream, Finishing
<1>8. ASSUME out[e] # <<>>, out' = [out EXCEPT ![e] = Tail(@)], ~Skipped(e, Head(out[e])),
             NEW eof \in BOOLEAN, eof => peer[e] = "closed" /\ Len(out[e]) = 1,
             pump' = [pump EXCEPT ![e] = [at |-> "write", msg |-> Head(out[e]), eof |-> eof]]
      PROVE  Stream(e)' /\ Finishing(e)'
  <2>1. out'[e] = Tail(out[e]) /\ (eof => out'[e] = <<>>)
    <3>1. out[e] \in Seq(Messages \cup {Empty})
      BY <1>3
    <3>2. ASSUME Len(out[e]) = 1 PROVE Tail(out[e]) = <<>>
      <4>1. /\ Tail(out[e]) \in Seq(Messages \cup {Empty})
            /\ Len(Tail(out[e])) = 0
        BY <1>8, <3>1, <3>2, HeadTailProperties
      <4> QED
        BY <4>1, EmptySeq
    <3> QED
      BY <1>3, <1>8, <3>2
  <2>2. /\ pump'[e].at = "write" /\ pump'[e].msg = Head(out[e]) /\ pump'[e].eof = eof
        /\ pump'[d] = pump[d]
    BY <1>1, <1>3, <1>8
  <2>3. Head(out[e]) # Empty
    <3>1. CASE e = "gdb"
      <4>1. Head(out[e]) \in Messages
        BY <1>8, <3>1 DEF CarryInv
      <4> QED
        BY <4>1, MessagesAreNumbers
    <3>2. CASE e # "gdb"
      BY <1>8, <3>2 DEF Skipped, Ends
    <3> QED
      BY <3>1, <3>2
  <2>4. /\ Head(out[e]) = Carried(e) + 1 /\ Carried(e) + 1 <= sent[e]
        /\ Pending(out'[e], Carried(e) + 1, sent[e])
    BY <1>2, <1>3, <1>6, <1>8, <2>1, <2>3, PendingTail DEF Stream
  <2>5. Carried(e)' = Carried(e) + 1
    BY <1>3, <1>4, <1>6, <2>2 DEF Carried, Holds
  <2>6. Stream(e)'
    BY <1>2, <1>4, <2>2, <2>4, <2>5 DEF Stream
  <2>7. eof => Over(e)'
    BY <1>4, <1>8, <2>1 DEF Over
  <2> QED
    BY <1>2, <1>4, <1>5, <2>2, <2>6, <2>7 DEF Finishing
<1>9. CASE pump' = [pump EXCEPT ![e] = PumpAt("report")] /\ out' = out
             /\ out[e] = <<>> /\ peer[e] = "closed"
  <2>1. pump'[e].at = "report" /\ pump'[d] = pump[d]
    BY <1>1, <1>3, <1>9, PumpTyped
  <2>2. Stream(e)'
    BY <1>2, <1>4, <1>9, <2>1, StreamKept
  <2> QED
    BY <1>2, <1>4, <1>5, <1>9, <2>1, <2>2 DEF Finishing, Over
<1> QED
  BY <1>5, <1>7, <1>8, <1>9 DEF PumpRead, PumpTo

LEMMA WriteCarries ==
    ASSUME ProxyInv, NEW e \in Ends, Calm(e), PumpWrite(e)
    PROVE  Stream(e)' /\ Finishing(e)'
<1> USE DEF ProxyInv
<1> DEFINE d == Other(e)
<1>1. d \in Ends /\ d # e
  BY TwoEnds
<1>2. Stream(e) /\ Finishing(e)
  BY DEF EndsInv
<1>3. /\ pump \in [Ends -> Pump] /\ inbox \in [Ends -> Seq(Messages)]
      /\ sent[e] \in Nat /\ taken[d] \in Seq(Messages) /\ inbox[d] \in Seq(Messages)
  BY <1>1, MessagesAreNumbers DEF CarryInv, ProxyTypeOK
<1>4. /\ pump[e].at = "write" /\ pump[e].msg \in Messages
      /\ UNCHANGED <<proxy, conn, peer, sent, out, taken, errs, reset>>
  BY DEF PumpWrite, CarryInv
<1>5. proxy = "waiting" /\ conn[d] = "open" /\ peer[d] = "open"
  BY <1>1, <1>4, StillWaiting DEF Calm
<1>6. /\ inbox' = [inbox EXCEPT ![d] = Append(@, pump[e].msg)]
      /\ pump' = [pump EXCEPT ![e] = PumpAt(IF pump[e].eof THEN "report" ELSE "read")]
  BY <1>5 DEF PumpWrite, PumpTo, Forward
<1>7. /\ pump'[e].at = IF pump[e].eof THEN "report" ELSE "read"
      /\ pump'[d] = pump[d] /\ inbox'[d] = Append(inbox[d], pump[e].msg)
  BY <1>1, <1>3, <1>6, PumpTyped
<1>8. /\ Len(inbox'[d]) = Len(inbox[d]) + 1
      /\ \A i \in 1 .. Len(inbox[d]) : inbox'[d][i] = inbox[d][i]
      /\ inbox'[d][Len(inbox[d]) + 1] = pump[e].msg
  BY <1>1, <1>3, <1>4, <1>7
<1> DEFINE held == Len(inbox[d])
           had == Len(taken[d])
<1>14. held \in Nat /\ had \in Nat
  BY <1>3, LenProperties
<1>9. Carried(e) = had + held + 1 /\ Carried(e)' = Carried(e)
  <2>1. Holds(e) = 1 /\ Holds(e)' = 0
    BY <1>4, <1>7 DEF Holds
  <2>2. Carried(e) = had + held + Holds(e) /\ Carried(e)' = had + (held + 1) + Holds(e)'
    BY <1>4, <1>8 DEF Carried
  <2> HIDE DEF had, held
  <2> QED
    BY <1>14, <2>1, <2>2
<1>10. \A i \in 1 .. Len(inbox'[d]) : i \in 1 .. held \/ i = held + 1
  <2>1. Len(inbox'[d]) = held + 1
    BY <1>8
  <2> HIDE DEF held
  <2> QED
    BY <1>14, <2>1
<1>11. pump[e].msg = had + (held + 1)
  <2>1. pump[e].msg = Carried(e)
    BY <1>2, <1>4 DEF Stream
  <2> HIDE DEF had, held
  <2> QED
    BY <1>14, <1>9, <2>1
<1>12. \A i \in 1 .. Len(inbox'[d]) : inbox'[d][i] = Len(taken[d]) + i
  BY <1>2, <1>8, <1>10, <1>11 DEF Stream
<1>13. Stream(e)'
  BY <1>2, <1>4, <1>7, <1>9, <1>12 DEF Stream
<1> QED
  BY <1>2, <1>4, <1>5, <1>7, <1>13 DEF Finishing, Over

(* The goroutine that reads from the end that stays. *)
LEMMA OtherPumpCarries ==
    ASSUME ProxyInv, NEW e \in Ends, Calm(e), Calm(e)', RunPump(Other(e))
    PROVE  Stream(e)' /\ Finishing(e)'
<1> USE DEF ProxyInv
<1> DEFINE d == Other(e)
<1>1. d \in Ends /\ d # e /\ Other(d) = e
  BY TwoEnds
<1>2. Stream(e) /\ Finishing(e)
  BY DEF EndsInv
<1>3. /\ pump \in [Ends -> Pump] /\ inbox \in [Ends -> Seq(Messages)]
      /\ out \in [Ends -> Seq(Messages \cup {Empty})]
  BY DEF CarryInv, ProxyTypeOK
<1>4. UNCHANGED <<proxy, conn, peer, sent, taken>>
  BY DEF RunPump, PumpRead, PumpWrite, PumpReport, endVars
<1>5. pump'[e] = pump[e] /\ inbox'[d] = inbox[d] /\ out'[e] = out[e]
  BY <1>1, <1>3 DEF RunPump, PumpRead, PumpWrite, PumpReport, PumpTo, Forward, endVars
<1>6. Stream(e)'
  BY <1>1, <1>2, <1>4, <1>5, StreamKept
<1>7. ASSUME proxy = "waiting" PROVE pump'[d].at \in {"read", "write"} /\ ~pump'[d].eof
  <2>1. /\ pump[d].at \in {"read", "write"} /\ ~pump[d].eof
        /\ conn[d] = "open" /\ peer[d] = "open"
    BY <1>1, <1>2, <1>7 DEF Finishing, HandlerInv, Ends, Calm
  <2>2. CASE PumpRead(d)
    <3>1. \/ pump' = pump
          \/ \E eof \in BOOLEAN :
                /\ ~eof
                /\ pump' = [pump EXCEPT ![d] = [at |-> "write", msg |-> Head(out[d]), eof |-> eof]]
      BY <2>1, <2>2 DEF PumpRead
    <3> QED
      BY <1>1, <1>3, <2>1, <3>1
  <2>3. CASE PumpWrite(d)
    <3>1. d \notin failed'
      BY DEF Calm
    <3>2. pump' = [pump EXCEPT ![d] = PumpAt("read")]
      BY <2>1, <2>3, <3>1 DEF PumpWrite, PumpTo
    <3> QED
      BY <1>1, <1>3, <3>2, PumpTyped
  <2>4. CASE PumpReport(d)
    BY <2>1, <2>4 DEF PumpReport
  <2> QED
    BY <2>2, <2>3, <2>4 DEF RunPump
<1> QED
  BY <1>2, <1>4, <1>5, <1>6, <1>7 DEF Finishing, Over

LEMMA ReportCarries ==
    ASSUME ProxyInv, NEW e \in Ends, Calm(e), PumpReport(e)
    PROVE  Stream(e)' /\ Finishing(e)'
<1>1. Stream(e) /\ Finishing(e) /\ Other(e) \in Ends /\ Other(e) # e /\ pump \in [Ends -> Pump]
  BY TwoEnds DEF ProxyInv, EndsInv, CarryInv, ProxyTypeOK
<1>2. /\ pump[e].at = "report" /\ pump' = [pump EXCEPT ![e] = PumpAt("gone")]
      /\ UNCHANGED <<proxy, conn, peer, sent, out, inbox, taken>>
  BY DEF PumpReport, PumpTo, endVars
<1>3. pump'[e].at = "gone" /\ pump'[Other(e)] = pump[Other(e)]
  BY <1>1, <1>2, PumpTyped
<1>4. Stream(e)'
  BY <1>1, <1>2, <1>3, StreamKept
<1> QED
  BY <1>1, <1>2, <1>3, <1>4 DEF Finishing, Over

(* The next message of the stream appended, taken or moved. *)
LEMMA EndCarries ==
    ASSUME ProxyInv, NEW x \in Ends, EndSends(x) \/ EndTakes(x) \/ EndCloses(x),
           NEW e \in Ends, Calm(e), Calm(e)'
    PROVE  Stream(e)' /\ Finishing(e)'
<1> USE DEF ProxyInv
<1> DEFINE d == Other(e)
<1>1. d \in Ends /\ d # e /\ (x = e \/ x = d)
  BY TwoEnds
<1>2. Stream(e) /\ Finishing(e)
  BY DEF EndsInv
<1>3. /\ inbox \in [Ends -> Seq(Messages)] /\ taken \in [Ends -> Seq(Messages)]
      /\ out \in [Ends -> Seq(Messages \cup {Empty})] /\ sent \in [Ends -> 0 .. MaxSent]
      /\ peer \in [Ends -> {"open", "closed"}]
  BY DEF CarryInv, ProxyTypeOK
<1>4. UNCHANGED <<proxy, conn, pump>>
  BY DEF EndSends, EndTakes, EndCloses
<1>5. /\ Holds(e)' = Holds(e) /\ Holds(e) \in {0, 1} /\ sent[e] \in Nat
      /\ taken[d] \in Seq(Messages) /\ inbox[d] \in Seq(Messages)
      /\ Len(taken[d]) \in Nat /\ Len(inbox[d]) \in Nat
  <2>1. sent[e] \in Nat
    BY <1>3, MessagesAreNumbers
  <2> QED
    BY <1>1, <1>3, <1>4, <2>1, LenProperties DEF Holds
<1>6. Carried(e) \in Nat
  <2> DEFINE held == Len(inbox[d])
             had == Len(taken[d])
  <2>1. had \in Nat /\ held \in Nat /\ Carried(e) = had + held + Holds(e)
    BY <1>5 DEF Carried
  <2> HIDE DEF had, held
  <2> QED
    BY <1>5, <2>1
<1>7. CASE EndSends(x)
  <2>1. /\ peer[x] = "open" /\ sent[x] < MaxSent
        /\ UNCHANGED <<peer, inbox, taken>>
        /\ \/ sent' = [sent EXCEPT ![x] = @ + 1] /\ out' = [out EXCEPT ![x] = Append(@, sent'[x])]
           \/ sent' = sent /\ out' = [out EXCEPT ![x] = Append(@, Empty)]
    BY <1>7 DEF EndSends
  <2>2. CASE x = d
    <3>1. out'[e] = out[e] /\ sent'[e] = sent[e]
      BY <1>1, <1>3, <2>1, <2>2
    <3>2. Stream(e)'
      BY <1>2, <1>4, <2>1, <3>1, StreamKept
    <3> QED
      BY <1>2, <1>4, <2>1, <3>1, <3>2 DEF Finishing, Over
  <2>3. CASE x = e
    <3>1. ~Over(e)
      BY <2>1, <2>3 DEF Over
    <3>2. Finishing(e)'
      BY <1>2, <1>4, <3>1 DEF Finishing
    <3>3. Carried(e)' = Carried(e)
      BY <1>4, <2>1 DEF Carried, Holds
    <3>4. Pending(out[e], Carried(e), sent[e]) /\ Carried(e) <= sent[e]
      BY <1>2 DEF Stream
    <3>5. CASE sent' = [sent EXCEPT ![x] = @ + 1] /\ out' = [out EXCEPT ![x] = Append(@, sent'[x])]
      <4>1. sent'[e] = sent[e] + 1 /\ out'[e] = Append(out[e], sent[e] + 1)
        BY <1>3, <2>3, <3>5
      <4>2. Pending(out'[e], Carried(e), sent'[e])
        <5>1. out[e] \in Seq(Messages \cup {Empty}) /\ sent[e] < MaxSent
          BY <1>3, <2>1, <2>3
        <5>2. Pending(Append(out[e], sent[e] + 1), Carried(e), sent[e] + 1)
          BY <1>5, <1>6, <3>4, <5>1, PendingAppend
        <5> QED
          BY <4>1, <5>2
      <4>3. Carried(e) <= sent'[e]
        BY <1>5, <1>6, <3>4, <4>1
      <4> QED
        BY <1>2, <1>4, <2>1, <3>2, <3>3, <4>2, <4>3 DEF Stream
    <3>6. CASE sent' = sent /\ out' = [out EXCEPT ![x] = Append(@, Empty)]
      <4>1. out'[e] = Append(out[e], Empty)
        BY <1>3, <2>3, <3>6
      <4>2. Pending(out'[e], Carried(e), sent[e])
        BY <1>3, <1>5, <1>6, <3>4, <4>1, PendingAppendEmpty
      <4> QED
        BY <1>2, <1>4, <2>1, <3>2, <3>3, <3>6, <4>2 DEF Stream
    <3> QED
      BY <2>1, <3>5, <3>6
  <2> QED
    BY <1>1, <2>2, <2>3
<1>8. CASE EndTakes(x)
  <2>1. /\ inbox[x] # <<>> /\ UNCHANGED <<peer, sent, out>>
        /\ taken' = [taken EXCEPT ![x] = Append(@, Head(inbox[x]))]
        /\ inbox' = [inbox EXCEPT ![x] = Tail(@)]
    BY <1>8 DEF EndTakes
  <2>2. Finishing(e)'
    BY <1>2, <1>4, <2>1 DEF Finishing, Over
  <2>3. CASE x = e
    <3>1. taken'[d] = taken[d] /\ inbox'[d] = inbox[d]
      BY <1>1, <1>3, <2>1, <2>3
    <3> QED
      BY <1>2, <1>4, <2>1, <2>2, <3>1, StreamKept
  <2>4. CASE x = d
    <3> DEFINE h == Len(taken[d])
               k == Len(inbox[d])
    <3>1. taken'[d] = Append(taken[d], Head(inbox[d])) /\ inbox'[d] = Tail(inbox[d])
      BY <1>1, <1>3, <2>1, <2>4
    <3>2. Head(inbox[d]) = inbox[d][1] /\ Head(inbox[d]) \in Messages /\ k \in Nat \ {0}
      BY <1>5, <2>1, <2>4
    <3>3. Len(taken'[d]) = h + 1 /\ Len(inbox'[d]) = k - 1
      <4>1. Len(Append(taken[d], Head(inbox[d]))) = h + 1
        BY <1>5, <3>2, AppendProperties
      <4>2. Len(Tail(inbox[d])) = k - 1
        BY <1>5, <2>1, <2>4, HeadTailProperties
      <4> QED
        BY <3>1, <4>1, <4>2
    <3>4. /\ \A i \in 1 .. h : taken'[d][i] = taken[d][i]
          /\ taken'[d][h + 1] = Head(inbox[d])
      BY <1>5, <3>1, <3>2, AppendProperties
    <3>5. \A i \in 1 .. Len(inbox'[d]) : inbox'[d][i] = inbox[d][i + 1]
      BY <1>5, <2>1, <2>4, <3>1, HeadTailProperties
    <3>6. /\ \A i \in 1 .. h : taken[d][i] = i
          /\ \A i \in 1 .. k : inbox[d][i] = h + i
          /\ pump[e].at = "write" => pump[e].msg = Carried(e)
          /\ Carried(e) <= sent[e]
          /\ Pending(out[e], Carried(e), sent[e])
      BY <1>2 DEF Stream
    <3>7. Carried(e) = h + k + Holds(e) /\ Carried(e)' = (h + 1) + (k - 1) + Holds(e)
      BY <1>5, <3>3 DEF Carried
    <3>8. h \in Nat
      BY <1>5
    <3> HIDE DEF h, k
    <3>9. Carried(e)' = Carried(e)
      BY <1>5, <3>2, <3>7, <3>8
    <3>10. \A i \in 1 .. h + 1 : taken'[d][i] = i
      <4>1. inbox[d][1] = h + 1
        BY <3>2, <3>6
      <4>2. \A i \in 1 .. h + 1 : i \in 1 .. h \/ i = h + 1
        BY <3>8
      <4> QED
        BY <3>2, <3>4, <3>6, <4>1, <4>2
    <3>11. \A i \in 1 .. k - 1 : inbox'[d][i] = (h + 1) + i
      <4>1. \A i \in 1 .. k - 1 : i + 1 \in 1 .. k /\ h + (i + 1) = (h + 1) + i
        BY <3>2, <3>8
      <4> QED
        BY <3>3, <3>5, <3>6, <4>1
    <3> QED
      BY <1>4, <2>1, <2>2, <3>3, <3>6, <3>9, <3>10, <3>11 DEF Stream
  <2> QED
    BY <1>1, <2>3, <2>4
<1>9. CASE EndCloses(x)
  <2>1. /\ peer' = [peer EXCEPT ![x] = "closed"] /\ UNCHANGED <<sent, inbox, taken>>
        /\ out' = out \/ reset' = reset \cup {x}
    BY <1>9 DEF EndCloses
  <2>2. out' = out
    BY <2>1 DEF Calm
  <2>3. x # d
    BY <1>1, <1>3, <2>1 DEF Calm
  <2>4. peer'[e] = "closed"
    BY <1>1, <1>3, <2>1, <2>3
  <2>5. Stream(e)'
    BY <1>2, <1>4, <2>1, <2>2, StreamKept
  <2> QED
    BY <1>2, <1>4, <2>2, <2>4, <2>5 DEF Finishing, Over
<1> QED
  BY <1>7, <1>8, <1>9

LEMMA ProxyInvStep == ProxyInv /\ [ProxyNext]_proxyVars => ProxyInv'
<1> SUFFICES ASSUME ProxyInv, [ProxyNext]_proxyVars PROVE ProxyInv'
  OBVIOUS
<1>1. CarryInv' /\ HandlerInv'
  BY CarryStep DEF ProxyInv
<1>2. EndsInv'
  <2> SUFFICES ASSUME NEW e \in Ends, Calm(e)' PROVE Stream(e)' /\ Finishing(e)'
    BY DEF EndsInv
  <2>1. Calm(e) /\ Stream(e) /\ Finishing(e)
    BY CalmBefore DEF ProxyInv, EndsInv
  <2>2. CASE UNCHANGED proxyVars
    BY <2>1, <2>2 DEF proxyVars, Stream, Carried, Holds, Finishing, Over
  <2>3. CASE HandleProxy
    BY <2>1, <2>3, HandlerCarries
  <2>4. ASSUME NEW x \in Ends, RunPump(x) PROVE Stream(e)' /\ Finishing(e)'
    <3>1. CASE x = e
      BY <2>1, <2>4, <3>1, ReadCarries, WriteCarries, ReportCarries DEF RunPump
    <3>2. CASE x = Other(e)
      BY <2>1, <2>4, <3>2, OtherPumpCarries
    <3> QED
      BY <3>1, <3>2, TwoEnds
  <2>5. ASSUME NEW x \in Ends, EndSends(x) \/ EndTakes(x) \/ EndCloses(x)
        PROVE  Stream(e)' /\ Finishing(e)'
    BY <2>1, <2>5, EndCarries
  <2> QED
    BY <2>2, <2>3, <2>4, <2>5 DEF ProxyNext
<1> QED
  BY <1>1, <1>2 DEF ProxyInv

(* When the handler has returned, an end that stayed has, taken or on its  *)
(* way, all that the other sent before it closed and nothing else, for any *)
(* number of messages and any order in which the two goroutines, the       *)
(* handler's deferred closes and the two ends run.                         *)
THEOREM NothingIsLost == ProxySpec => []NothingLost
<1>1. ProxyInv => NothingLost
  <2> SUFFICES ASSUME ProxyInv, proxy = "returned", conn["client"] # "none",
                      NEW e \in Ends, Calm(e)
               PROVE  taken[Other(e)] \o inbox[Other(e)] = Sent(e)
    BY DEF NothingLost, Calm
  <2> DEFINE s == taken[Other(e)]
             t == inbox[Other(e)]
             n == sent[e]
  <2>1. pump[e].at \in {"report", "gone"} /\ Over(e) /\ Stream(e)
    BY DEF ProxyInv, EndsInv, Finishing
  <2>2. s \in Seq(Messages) /\ t \in Seq(Messages) /\ n \in 0 .. MaxSent /\ n \in Nat
    BY TwoEnds, MessagesAreNumbers DEF ProxyInv, CarryInv, ProxyTypeOK
  <2>3. Len(s) \in Nat /\ Len(t) \in Nat
    BY <2>2, LenProperties
  <2>4. Carried(e) = Len(s) + Len(t) + Holds(e) /\ Holds(e) = 0
    BY <2>1 DEF Carried, Holds
  <2>5. /\ \A i \in 1 .. Len(s) : s[i] = i
        /\ \A i \in 1 .. Len(t) : t[i] = Len(s) + i
        /\ Carried(e) <= n /\ Pending(<<>>, Carried(e), n)
    BY <2>1 DEF Stream, Over
  <2> HIDE DEF s, t, n
  <2>6. Len(s) + Len(t) = n
    <3>1. Carried(e) = Len(s) + Len(t) /\ Carried(e) \in Nat
      BY <2>3, <2>4
    <3> QED
      BY <2>2, <2>5, <3>1, PendingEmpty
  <2>7. /\ s \o t \in Seq(Messages) /\ Len(s \o t) = n
        /\ \A i \in 1 .. n : (s \o t)[i] = IF i <= Len(s) THEN s[i] ELSE t[i - Len(s)]
    BY <2>2, <2>6, ConcatProperties
  <2>8. \A i \in 1 .. n : (s \o t)[i] = i
    <3> SUFFICES ASSUME NEW i \in 1 .. n PROVE (s \o t)[i] = i
      OBVIOUS
    <3>1. CASE i <= Len(s)
      <4>1. i \in 1 .. Len(s)
        BY <2>2, <2>3, <3>1
      <4> QED
        BY <2>5, <2>7, <3>1, <4>1
    <3>2. CASE ~(i <= Len(s))
      <4>1. i - Len(s) \in 1 .. Len(t) /\ Len(s) + (i - Len(s)) = i
        BY <2>2, <2>3, <2>6, <3>2
      <4> QED
        BY <2>5, <2>7, <3>2, <4>1
    <3> QED
      BY <3>1, <3>2
  <2>9. s \o t = [i \in 1 .. n |-> i]
    <3> DEFINE all == [i \in 1 .. n |-> i]
    <3>1. \A i \in 1 .. n : i \in Messages
      BY <2>2, SentAssumption DEF Messages
    <3>2. all \in Seq(Messages) /\ Len(all) = n
      BY <2>2, <3>1
    <3>3. \A i \in 1 .. n : all[i] = i
      OBVIOUS
    <3> HIDE DEF all
    <3>4. s \o t = all
      BY <2>7, <2>8, <3>2, <3>3, SeqEqual
    <3> QED
      BY <3>4 DEF all
  <2> QED
    BY <2>9 DEF Sent, s, t, n
<1> QED
  BY <1>1, ProxyInvInit, ProxyInvStep, PTL DEF ProxySpec

=============================================================================
