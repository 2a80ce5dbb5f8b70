----------------------------- MODULE MCAdmission -----------------------------
(* Small instances of Admission for TLC. *)
EXTENDS Admission, TLC

CONSTANTS u1, a1, b1, r1, r2

RequestSymmetry == Permutations(Requests)

=============================================================================
