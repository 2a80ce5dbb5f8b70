------------------------------ MODULE DebugProxy ------------------------------
(***************************************************************************)
(* HandleDebugWebSocketProxy: the handler, the two goroutines that carry   *)
(* messages between a client's web socket and a session's gdbserver, and   *)
(* the channel by which they tell the handler that one of them has ended.  *)
(*                                                                         *)
(* Names differ from those of UartMux, so that both modules can be         *)
(* extended.  Bounds: one connection; each end sends at most MaxSent       *)
(* messages; one message fits between the server and an end.               *)
(***************************************************************************)
EXTENDS Naturals, Sequences

CONSTANT MaxSent
ASSUME SentAssumption == MaxSent \in Nat

Ends == {"client", "gdb"}
Other(e) == CHOOSE d \in Ends : d # e
Empty == 0                      \* a frame without payload
Messages == 1 .. MaxSent

VARIABLES
    proxy,      \* where the handler is
    conn,       \* the server's two connections: "none", "open" or "closed"
    peer,       \* whether each end has closed its side
    sent,       \* messages each end has sent
    out,        \* those the server has not read
    pump,       \* the goroutine that reads from each end: where it is, what it carries
    inbox,      \* messages written to each end, which it has not taken
    taken,      \* messages each end has taken
    errs,       \* errors in errCh
    reset,      \* history: ends whose connection was reset, not closed
    failed      \* history: the goroutines of which a write has failed

proxyVars == <<proxy, conn, peer, sent, out, pump, inbox, taken, errs, reset, failed>>
endVars == <<peer, sent, out, inbox, taken, reset>>

Pump == [at : {"none", "read", "write", "report", "gone"},
         msg : Messages \cup {Empty}, eof : BOOLEAN]
PumpAt(place) == [at |-> place, msg |-> Empty, eof |-> FALSE]

ProxyTypeOK ==
    /\ proxy \in {"request", "dialled", "waiting", "closing", "returned"}
    /\ conn \in [Ends -> {"none", "open", "closed"}]
    /\ peer \in [Ends -> {"open", "closed"}]
    /\ sent \in [Ends -> 0 .. MaxSent]
    /\ out \in [Ends -> Seq(Messages \cup {Empty})]
    /\ inbox \in [Ends -> Seq(Messages)] /\ taken \in [Ends -> Seq(Messages)]
    /\ pump \in [Ends -> Pump]
    /\ errs \in 0 .. 2
    /\ reset \subseteq Ends /\ failed \subseteq Ends

ProxyInit ==
    /\ proxy = "request"
    /\ conn = [e \in Ends |-> "none"]
    /\ peer = [e \in Ends |-> "open"]
    /\ sent = [e \in Ends |-> 0]
    /\ out = [e \in Ends |-> <<>>]
    /\ pump = [e \in Ends |-> PumpAt("none")]
    /\ inbox = [e \in Ends |-> <<>>] /\ taken = inbox
    /\ errs = 0
    /\ reset = {} /\ failed = {}

PumpTo(e, place) == pump' = [pump EXCEPT ![e] = PumpAt(place)]

-----------------------------------------------------------------------------
(* The handler *)

(* net.DialTimeout to the gdbserver of a running session *)
Dial ==
    /\ proxy = "request"
    /\ \/ /\ peer["gdb"] = "open"
          /\ conn' = [conn EXCEPT !["gdb"] = "open"]
          /\ proxy' = "dialled"
       \/ proxy' = "returned" /\ UNCHANGED conn
    /\ UNCHANGED <<endVars, pump, errs, failed>>

(* The upgrade, and the two goroutines; or the connection is given up. *)
Upgrade ==
    /\ proxy = "dialled"
    /\ \/ /\ conn' = [conn EXCEPT !["client"] = "open"]
          /\ pump' = [e \in Ends |-> PumpAt("read")]
          /\ proxy' = "waiting"
       \/ /\ conn' = [conn EXCEPT !["gdb"] = "closed"]
          /\ proxy' = "returned"
          /\ UNCHANGED pump
    /\ UNCHANGED <<endVars, errs, failed>>

(* A close while there is input not yet read resets the connection, and    *)
(* the end may not get what was written to it before.                      *)
CloseTo(e) ==
    /\ conn' = [conn EXCEPT ![e] = "closed"]
    /\ IF out[e] = <<>>
       THEN UNCHANGED <<inbox, reset>>
       ELSE /\ reset' = reset \cup {e}
            /\ inbox' \in {inbox, [inbox EXCEPT ![e] = <<>>]}
    /\ UNCHANGED <<peer, sent, out, pump, taken, failed>>

(* <-errCh, and the deferred closes: the gdbserver first. *)
AwaitError ==
    /\ proxy = "waiting" /\ errs > 0
    /\ errs' = errs - 1
    /\ proxy' = "closing"
    /\ CloseTo("gdb")

ReturnFromProxy ==
    /\ proxy = "closing"
    /\ proxy' = "returned"
    /\ CloseTo("client")
    /\ UNCHANGED errs

-----------------------------------------------------------------------------
(* The goroutine that reads from e *)

NothingSkipped(e, m) == FALSE   \* mutant of Skipped: empty payloads are written
Skipped(e, m) == e = "client" /\ m = Empty

(* A read from the gdbserver may return the last bytes and the end at once.*)
PumpRead(e) ==
    /\ pump[e].at = "read"
    /\ \/ /\ conn[e] = "open" /\ out[e] # <<>>
          /\ out' = [out EXCEPT ![e] = Tail(@)]
          /\ IF Skipped(e, Head(out[e])) THEN UNCHANGED pump
             ELSE \E eof \in BOOLEAN :
                     /\ eof => e = "gdb" /\ peer[e] = "closed" /\ Len(out[e]) = 1
                     /\ pump' = [pump EXCEPT ![e] =
                                   [at |-> "write", msg |-> Head(out[e]), eof |-> eof]]
       \/ /\ conn[e] = "closed" \/ (out[e] = <<>> /\ peer[e] = "closed")
          /\ PumpTo(e, "report")
          /\ UNCHANGED out
    /\ UNCHANGED <<proxy, conn, peer, sent, inbox, taken, errs, reset, failed>>

DropAtEnd(e) ==                 \* mutant of Forward: the last bytes are dropped
    IF pump[e].eof THEN inbox ELSE [inbox EXCEPT ![Other(e)] = Append(@, pump[e].msg)]

Forward(e) == [inbox EXCEPT ![Other(e)] = Append(@, pump[e].msg)]

(* A write blocks while the other end takes nothing.  To an end that has   *)
(* closed, it may still go through, to nobody.                             *)
PumpWrite(e) ==
    LET d == Other(e) IN
    /\ pump[e].at = "write"
    /\ \/ /\ conn[d] = "open" /\ (inbox[d] = <<>> \/ peer[d] = "closed")
          /\ inbox' = IF peer[d] = "open" THEN Forward(e) ELSE inbox
          /\ PumpTo(e, IF pump[e].eof THEN "report" ELSE "read")
          /\ UNCHANGED failed
       \/ /\ conn[d] = "closed" \/ peer[d] = "closed"
          /\ PumpTo(e, "report")
          /\ failed' = failed \cup {e}
          /\ UNCHANGED inbox
    /\ UNCHANGED <<proxy, conn, peer, sent, out, taken, errs, reset>>

OnlyIfAwaited == proxy = "waiting" /\ errs = 0  \* mutant of ErrRoom: no buffer
ErrRoom == errs < 2

(* errCh <- err *)
PumpReport(e) ==
    /\ pump[e].at = "report"
    /\ ErrRoom
    /\ errs' = errs + 1
    /\ PumpTo(e, "gone")
    /\ UNCHANGED <<proxy, conn, endVars, failed>>

-----------------------------------------------------------------------------
(* The client's browser, and the gdbserver of a session *)

EndSends(e) ==
    /\ peer[e] = "open" /\ conn[e] = "open"
    /\ sent[e] < MaxSent
    /\ \/ /\ sent' = [sent EXCEPT ![e] = @ + 1]
          /\ out' = [out EXCEPT ![e] = Append(@, sent'[e])]
       \/ /\ e = "client" /\ Len(out[e]) < MaxSent
          /\ out' = [out EXCEPT ![e] = Append(@, Empty)]
          /\ UNCHANGED sent
    /\ UNCHANGED <<proxy, conn, peer, pump, inbox, taken, errs, reset, failed>>

EndTakes(e) ==
    /\ peer[e] = "open" /\ inbox[e] # <<>>
    /\ taken' = [taken EXCEPT ![e] = Append(@, Head(inbox[e]))]
    /\ inbox' = [inbox EXCEPT ![e] = Tail(@)]
    /\ UNCHANGED <<proxy, conn, peer, sent, out, pump, errs, reset, failed>>

(* The client leaves; the session stops; or the connection breaks. *)
EndCloses(e) ==
    /\ peer[e] = "open"
    /\ peer' = [peer EXCEPT ![e] = "closed"]
    /\ \/ UNCHANGED <<out, reset>>
       \/ out' = [out EXCEPT ![e] = <<>>] /\ reset' = reset \cup {e}
    /\ UNCHANGED <<proxy, conn, sent, pump, inbox, taken, errs, failed>>

-----------------------------------------------------------------------------

HandleProxy == Dial \/ Upgrade \/ AwaitError \/ ReturnFromProxy
RunPump(e) == PumpRead(e) \/ PumpWrite(e) \/ PumpReport(e)

ProxyNext ==
    \/ HandleProxy
    \/ \E e \in Ends : RunPump(e) \/ EndSends(e) \/ EndTakes(e) \/ EndCloses(e)

(* The three goroutines run, and an end that has not closed takes what it  *)
(* is sent (a web socket and a TCP connection without deadlines).          *)
ProxyFairness ==
    /\ WF_proxyVars(HandleProxy)
    /\ \A e \in Ends : WF_proxyVars(RunPump(e)) /\ WF_proxyVars(EndTakes(e))

ProxySpec == ProxyInit /\ [][ProxyNext]_proxyVars /\ ProxyFairness

-----------------------------------------------------------------------------
(* Properties *)

(* When one end closes, the handler returns, both goroutines end and both  *)
(* connections are closed: none of them waits for an error nobody takes, a *)
(* connection nobody closes, or a channel nobody reads.                    *)
ProxyEnds ==
    \A e \in Ends :
        proxy = "waiting" /\ peer[e] = "closed"
            ~> /\ proxy = "returned"
               /\ \A d \in Ends : pump[d].at = "gone" /\ conn[d] = "closed"

(* An end that stays gets everything the other has sent before it closed,  *)
(* in order: the last answer of a gdbserver that exits, the last command   *)
(* of a client that leaves.  Except when a write the other way has failed  *)
(* meanwhile, which ends the handler early, or a connection was reset.     *)
Sent(e) == [i \in 1 .. sent[e] |-> i]
NothingLost ==
    proxy = "returned" /\ conn["client"] # "none" =>
        \A e \in Ends :
            LET d == Other(e) IN
            peer[d] = "open" /\ d \notin failed /\ reset = {}
                => taken[d] \o inbox[d] = Sent(e)

=============================================================================
