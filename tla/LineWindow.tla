------------------------------ MODULE LineWindow ------------------------------
(***************************************************************************)
(* What the UART history promises: the last Size lines, oldest first       *)
(* ("a sliding window of recent UART output", multiplexer.go:40).          *)
(***************************************************************************)
EXTENDS Naturals, Sequences

CONSTANTS Line, Size

VARIABLE lines

Init == lines = <<>>

Push(l) == lines' = IF Len(lines) < Size THEN Append(lines, l)
                                         ELSE Append(Tail(lines), l)

Flush == lines' = <<>>

Next == Flush \/ \E l \in Line : Push(l)

Spec == Init /\ [][Next]_lines

=============================================================================
