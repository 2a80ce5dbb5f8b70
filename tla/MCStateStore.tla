----------------------------- MODULE MCStateStore -----------------------------
(* Small instances of StateStore for TLC. *)
EXTENDS StateStore, TLC

CONSTANTS b1, x1, x2, p1, p2, k1, k2, k3, k4

RowSymmetry == Permutations(Rows)
SaverSymmetry == Permutations(Savers) \cup Permutations(Rows)

=============================================================================
