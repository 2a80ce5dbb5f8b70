------------------------------ MODULE MCUartMux ------------------------------
(* Small instances of UartMux for TLC. *)
EXTENDS UartMux, TLC

CONSTANTS c1, c2, c3

ClientSymmetry == Permutations(Clients)

=============================================================================
