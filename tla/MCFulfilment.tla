---------------------------- MODULE MCFulfilment ----------------------------
(* Fulfilment for TLC: one row, and orders of one unit of it. *)
EXTENDS Fulfilment

CONSTANTS i1, r1, o1, w1

OneUnit == [o \in Orders |-> {<<i1, 1>>}]

\* Without the histories of the settlements and of the orders, the events nothing
\* reads here, and which payments and picks were read: those may be read again at
\* any time.
Seen == <<rows, available, reserved, resv, overdue, op, todo, received, removed, failures,
          status, payment, rider, losing, cancelling, picking, tasks, undone, sent,
          {o \in Orders : <<"orders.cancelled", o>> \in unread},
          handling, allocated, dropped>>
=============================================================================
