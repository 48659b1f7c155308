--------------------------- MODULE MCServedState ---------------------------
(* A table of four slots that may grow once.  The pages 1 and 5 have one    *)
(* home in it, 3 and 7 another, its last slot, from which probes wrap.     *)
EXTENDS ServedState, TLC

CONSTANTS u1, u2

Users == {u1, u2}
Asked == {0, 1, 3, 5, 7}
Symmetry == Permutations(Users)

=============================================================================
