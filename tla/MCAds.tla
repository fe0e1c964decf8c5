------------------------------- MODULE MCAds -------------------------------
(* Ads for TLC: two users and one campaign, which may be shown. *)
EXTENDS Ads, TLC

CONSTANTS c1, u1, u2, r1, r2

CostOf == [c \in Campaigns |-> 1]

Symmetry == Permutations(Requests) \cup Permutations(Users)
=============================================================================
