--------------------------- MODULE MCProcurement ---------------------------
(* Procurement for TLC: the first product is followed in two stores. *)
EXTENDS Procurement, TLC

CONSTANTS p1, p2, n1, n2, s1, s2, c1, m1, m2

TwoStores == {s1, s2} \X {p1}
Recommended == [c \in Recs |-> p1]
OneEitherWay == {1, -1}

Alike == Permutations(Managers) \union Permutations(Stores) \union Permutations(POs)
=============================================================================
