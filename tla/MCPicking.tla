----------------------------- MODULE MCPicking -----------------------------
(* Picking for TLC: one order of two units of an item, one of two items. *)
EXTENDS Picking, TLC

CONSTANTS o1, o2, w1, w2, p1, p2, i1, i2

Quantities == [o \in Orders |-> [i \in Items |->
                 IF o = o1 THEN IF i = i1 THEN 2 ELSE 0 ELSE 1]]

Alike == Permutations(Waves) \union Permutations(Pickers)
=============================================================================
