------------------------------ MODULE MCOutbox ------------------------------
(* Outbox for TLC: three events, two of them of one transaction and the third
   of a transaction that began later; batches of two. *)
EXTENDS Outbox

CONSTANTS e1, e2, e3, p1, p2

StampOf == [e \in Events |-> IF e = e3 THEN 2 ELSE 1]
=============================================================================
