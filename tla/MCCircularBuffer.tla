--------------------------- MODULE MCCircularBuffer ---------------------------
(* Small instances of CircularBuffer for TLC. *)
EXTENDS CircularBuffer

CONSTANTS x, y, z

=============================================================================
