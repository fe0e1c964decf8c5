------------------------------ MODULE MCOrders ------------------------------
(* Orders for TLC: one order and one wave, every status within reach. *)
EXTENDS Orders

CONSTANTS o1, w1

AllStatuses == Status
=============================================================================
