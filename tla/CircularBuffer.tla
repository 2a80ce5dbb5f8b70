---------------------------- MODULE CircularBuffer ----------------------------
(***************************************************************************)
(* uart.CircularBuffer: an array of maxSize slots, the index of the slot   *)
(* the next line goes to, and whether the index has ever wrapped.  Every   *)
(* method holds the mutex, so each is one step.                            *)
(***************************************************************************)
EXTENDS Naturals, Sequences

CONSTANTS
    Line,       \* the lines a reader may add
    maxSize,    \* the capacity (10000 in the server)
    blank       \* the zero value of a slot: the empty string

ASSUME SizeAssumption == maxSize \in Nat \ {0}

VARIABLES data, idx, full

vars == <<data, idx, full>>

Slots == 0 .. maxSize - 1

TypeOK ==
    /\ data \in [Slots -> Line \cup {blank}]
    /\ idx \in Slots
    /\ full \in BOOLEAN

Init ==
    /\ data = [i \in Slots |-> blank]
    /\ idx = 0
    /\ full = FALSE

AddLate(line) ==            \* mutant of Add: full once the next line would wrap
    /\ data' = [data EXCEPT ![idx] = line]
    /\ idx' = (idx + 1) % maxSize
    /\ full' = (full \/ idx' = maxSize - 1)

AddNoWrap(line) ==          \* mutant of Add: the index runs on
    /\ data' = [data EXCEPT ![idx] = line]
    /\ idx' = idx + 1
    /\ full' = (full \/ idx' = maxSize)

Add(line) ==
    /\ data' = [data EXCEPT ![idx] = line]
    /\ idx' = (idx + 1) % maxSize
    /\ full' = (full \/ idx' = 0)

FlushIndexOnly ==           \* mutant of Flush: forgets the flag
    /\ idx' = 0
    /\ UNCHANGED <<data, full>>

Flush == data' = [i \in Slots |-> blank] /\ idx' = 0 /\ full' = FALSE

Next == Flush \/ \E line \in Line : Add(line)

Spec == Init /\ [][Next]_vars

-----------------------------------------------------------------------------

Size == IF full THEN maxSize ELSE idx

(* GetAll: data[:idx], or data[idx:] followed by data[:idx] once full. *)
GetAll ==
    IF full
    THEN [i \in 1 .. maxSize |-> IF idx + i - 1 < maxSize
                                 THEN data[idx + i - 1]
                                 ELSE data[idx + i - 1 - maxSize]]
    ELSE [i \in 1 .. idx |-> data[i - 1]]

(* What GetAll returns are the last lines added, in order, as many as fit: *)
(* the buffer implements the window.                                       *)
Window == INSTANCE LineWindow WITH lines <- GetAll, Size <- maxSize
IsWindow == Window!Spec

(* Size counts exactly what GetAll returns, and no slot that was never     *)
(* written is ever returned.                                               *)
NoBlankReturned == Len(GetAll) = Size /\ \A i \in 1 .. Size : GetAll[i] \in Line

=============================================================================
