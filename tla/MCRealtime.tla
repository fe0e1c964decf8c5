----------------------------- MODULE MCRealtime -----------------------------
(* Realtime for TLC: two clients of one user at one instance; the other one
   only publishes. *)
EXTENDS Realtime, TLC

CONSTANTS i1, i2, u1, s1, s2, n1, n2

HomeOf == [s \in Sockets |-> i1]
OwnerOf == [s \in Sockets |-> u1]

Alike == Permutations(Sockets) \union Permutations(Notes)
=============================================================================
