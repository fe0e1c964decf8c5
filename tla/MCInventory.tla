---------------------------- MODULE MCInventory ----------------------------
(* Inventory for TLC: the lines of the orders are fixed here. *)
EXTENDS Inventory, TLC

CONSTANTS i1, i2, r1, r2, o1, c1

\* An order of two lines of the same row ...
SameRow == [o \in Orders |-> {<<i1, 1>>, <<i1, 2>>}]
\* ... and of two rows.
TwoRows == [o \in Orders |-> {<<i1, 1>>, <<i2, 1>>}]

\* Nothing refuses a negative quantity.
Signed == {-1, 1, 2}

\* Without emitted, which no step reads and only LowStockAnnounced, a property of
\* steps, looks at; and without what nothing tells apart any more: the expiry of what
\* is not pending, the order of what is neither pending nor loaded, and how a
\* reservation was settled but for the number of times and whether it was sold.
Known(r) ==
  IF Pending(r) THEN resv[r]
  ELSE [resv[r] EXCEPT !.status = IF @ \in Settled THEN "COMPLETED" ELSE @,
                       !.order = IF \E s \in Sessions : r \in todo[s] THEN @ ELSE NoOrder]
Seen == <<stock, session, received, removed, failures, {r \in overdue : Pending(r)},
          [r \in ResIds |-> <<Known(r), Times(r), confirms[r] > 0>>]>>

Symm == Permutations(ResIds)
=============================================================================
