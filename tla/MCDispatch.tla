----------------------------- MODULE MCDispatch -----------------------------
(* Dispatch for TLC: two riders alike. *)
EXTENDS Dispatch, TLC

CONSTANTS o1, o2, r1, r2, b1, b2

Alike == Permutations(Riders) \union Permutations(Batches) \union Permutations(Orders)
=============================================================================
