----------------------------- MODULE Inventory -----------------------------
(***************************************************************************)
(* The inventory of the stores: app/modules/inventory, the reservation     *)
(* sweeper (app/workers/reservation_sweeper.py) and the two Kafka handlers  *)
(* that settle reservations (app/workers/kafka_consumer.py).               *)
(*                                                                         *)
(* A row of inventory_items is a member of Items (one store and product).  *)
(* A transaction whose first read of a row is SELECT ... FOR UPDATE in a   *)
(* fresh session is one action.  The sweeper, the consumer and the         *)
(* release-order endpoint first read the reservations WITHOUT a lock and   *)
(* keep the objects they got; the later FOR UPDATE read of the same id     *)
(* returns that object with the attributes of the first read (the session  *)
(* does not repopulate it), so the PENDING test is made on old data: a     *)
(* Load action and one Settle action per commit.                           *)
(*                                                                         *)
(* Nothing checks the sign of a quantity, neither the schemas nor the      *)
(* service nor the tables: every request may carry a negative one.         *)
(***************************************************************************)
EXTENDS Integers, FiniteSets, UnitSums

CONSTANTS
  Items,          \* rows of inventory_items: (store, product) pairs
  Orders,         \* order ids reservations are made for
  NoOrder,        \* order_id = NULL
  ResIds,         \* ids of inventory_reservations
  Quantities,     \* quantities requests carry
  Lines,          \* the items of every order: <<row, quantity>>
  ReorderLevel,   \* reorder_level of every row
  Sweeper,        \* the sweeper's session
  Consumer,       \* the Kafka consumer's session
  Clerks,         \* sessions of concurrent POST /orders/{id}/release calls
  MaxReceived,    \* bound: units ever added to one row
  MaxRemoved,     \* bound: units ever taken from one by add_stock
  MaxFailures     \* bound: crashes and failed settlements

Sessions == {Sweeper, Consumer} \cup Clerks

ASSUME InventoryAssumption ==
  /\ Items # {}
  /\ IsFiniteSet(ResIds)
  /\ IsFiniteSet(Clerks)
  /\ Quantities \subseteq Int
  /\ Lines \in [Orders -> SUBSET (Items \X Quantities)]
  /\ ReorderLevel \in Int
  /\ MaxReceived \in Nat
  /\ MaxRemoved \in Nat
  /\ MaxFailures \in Nat
  /\ NoOrder \notin Orders
  /\ Sweeper # Consumer
  /\ Clerks \cap {Sweeper, Consumer} = {}

VARIABLES
  rows,        \* the rows that exist
  available,   \* available_quantity
  reserved,    \* reserved_quantity
  resv,        \* inventory_reservations
  overdue,     \* reservations whose expires_at has passed
  op,          \* what a session is doing: "IDLE" or the status it will write
  todo,        \* reservations it loaded as PENDING and has not settled yet
  emitted,     \* rows the last transaction wrote an inventory.low event for
  received,    \* history: units added to each row ...
  removed,     \* ... and taken from it by add_stock with a negative quantity
  releases,    \* history: how often a reservation was released ...
  confirms,    \* ... and confirmed
  failures

stock   == <<rows, available, reserved>>
session == <<op, todo>>
history == <<received, removed, releases, confirms>>
vars    == <<stock, resv, overdue, session, emitted, history, failures>>

Settled == {"CANCELLED", "EXPIRED", "COMPLETED"}
Status  == {"FREE", "PENDING"} \cup Settled     \* FREE: the id is not used yet

Pending(r) == resv[r].status = "PENDING"

\* The sum of the quantities of the reservations in R.
qty == [r \in ResIds |-> resv[r].quantity]
Quantity(R) == SumOver(qty, R)

Of(i, R) == {r \in R : resv[r].item = i}
PendingOf(i) == {r \in Of(i, ResIds) : Pending(r)}
SoldOf(i) == {r \in Of(i, ResIds) : confirms[r] > 0}

\* The orders in which the members of R can be handled, and the first n of them.
Orderings(R) ==
  {turn \in [R -> 1..Cardinality(R)] : \A r, x \in R : turn[r] = turn[x] => r = x}
Upto(R, turn, n) == {r \in R : turn[r] <= n}
Alone(r) == [x \in {r} |-> 1]

\* An event is committed with the changes of its transaction.  (inventory.updated,
\* .reserved and .released have no reader and are left out.)
\* Mutant: not at the level itself.
LowEventBelow(i, left) ==
  IF left < ReorderLevel THEN {i} ELSE {}
LowEvent(i, left) ==
  IF left <= ReorderLevel THEN {i} ELSE {}

Unused == [status |-> "FREE", item |-> CHOOSE i \in Items : TRUE,
           quantity |-> 0, order |-> NoOrder]

Init ==
  /\ rows = {}
  /\ available = [i \in Items |-> 0]
  /\ reserved = [i \in Items |-> 0]
  /\ resv = [r \in ResIds |-> Unused]
  /\ overdue = {}
  /\ op = [s \in Sessions |-> "IDLE"]
  /\ todo = [s \in Sessions |-> {}]
  /\ emitted = {}
  /\ received = [i \in Items |-> 0]
  /\ removed = [i \in Items |-> 0]
  /\ releases = [r \in ResIds |-> 0]
  /\ confirms = [r \in ResIds |-> 0]
  /\ failures = 0

----------------------------------------------------------------------------
(* Requests of the HTTP API *)

\* The row is created on the first delivery.  (Of two creations at once the
\* unique constraint aborts one, which changes nothing.)  A negative quantity
\* takes units, and more than there are.
AddStock(i, q) ==
  LET left == available[i] + q
      added == IF q > 0 THEN q ELSE 0
      taken == IF q < 0 THEN -q ELSE 0 IN
  /\ received[i] + added <= MaxReceived
  /\ removed[i] + taken <= MaxRemoved
  /\ rows' = rows \cup {i}
  /\ available' = [available EXCEPT ![i] = left]
  /\ received' = [received EXCEPT ![i] = @ + added]
  /\ removed' = [removed EXCEPT ![i] = @ + taken]
  /\ emitted' = LowEvent(i, left)
  /\ UNCHANGED <<reserved, resv, overdue, session, releases, confirms, failures>>

\* The rows the lines of R name, those of row i, and the units these take.
RowsOf(R, line) == {line[r][1] : r \in R}
LinesOf(R, line, i) == {r \in R : line[r][1] = i}
Taken(R, line, i) == SumOver([r \in R |-> line[r][2]], LinesOf(R, line, i))

\* The lines are checked one after the other, each on what the ones before it left.
\* Mutant: every line on its own.
EnoughPerLine(R, line, turn) ==
  \A r \in R : line[r][1] \in rows /\ available[line[r][1]] >= line[r][2]
Enough(R, line, turn) ==
  \A n \in 1..Cardinality(R) : \A i \in RowsOf(Upto(R, turn, n), line) :
    i \in rows /\ available[i] >= Taken(Upto(R, turn, n), line, i)

\* One reservation per line, with new ids R and in one transaction; a row that
\* is short of units aborts it.  Every line has its own low-stock test.
ReserveLines(R, line, turn, o) ==
  /\ \A r \in R : resv[r].status = "FREE"
  /\ Enough(R, line, turn)
  /\ available' = [i \in Items |-> available[i] - Taken(R, line, i)]
  /\ reserved' = [i \in Items |-> reserved[i] + Taken(R, line, i)]
  /\ resv' = [r \in ResIds |->
                IF r \in R THEN [status |-> "PENDING", item |-> line[r][1],
                                 quantity |-> line[r][2], order |-> o]
                ELSE resv[r]]
  /\ emitted' = UNION {UNION {LowEvent(i, available[i] - Taken(Upto(R, turn, n), line, i)) :
                              i \in RowsOf(Upto(R, turn, n), line)} :
                       n \in 1..Cardinality(R)}
  /\ UNCHANGED <<rows, overdue, session, history, failures>>

\* POST /inventory/reserve, with any order id or none.
ReserveStock(i, q, o, r) == ReserveLines({r}, [x \in {r} |-> <<i, q>>], Alone(r), o)

PendingOfOrder(o) == {r \in ResIds : Pending(r) /\ resv[r].order = o}

\* release_order and allocate_order hold the lock of the order's row.
OrderIsFree(o) == \A c \in Clerks : \A r \in todo[c] : resv[r].order # o

\* allocate_order: all the lines or none, and not a second time while the
\* first reservations are pending.
AllocateOrder(o, R, line, turn) ==
  /\ OrderIsFree(o)
  /\ PendingOfOrder(o) = {}
  /\ {line[r] : r \in R} = Lines[o]
  /\ Cardinality(R) = Cardinality(Lines[o])
  /\ ReserveLines(R, line, turn, o)

\* A release puts the units back, a confirmation only drops the hold.
\* Mutants: a confirmation that does both, or neither.
BackAlways(outcome, i, R) == Quantity(Of(i, R))
Back(outcome, i, R) == IF outcome = "COMPLETED" THEN 0 ELSE Quantity(Of(i, R))

DropOfRelease(outcome, i, R) == IF outcome = "COMPLETED" THEN 0 ELSE Quantity(Of(i, R))
Drop(outcome, i, R) == Quantity(Of(i, R))

\* Units a settlement drops below zero at some point: max(0, ...) writes them
\* off one reservation after the other, those of the first n leaving the rest.
WrittenOff(outcome, i, R, turn) ==
  UNION {reserved[i] + 1..Drop(outcome, i, Upto(R, turn, n)) :
         n \in {m \in 1..Cardinality(R) : Of(i, Upto(R, turn, m)) # {}}}

\* Writing the outcome of the reservations in R, whatever their status is.
Settle(R, turn, outcome) ==
  LET count(f) == [r \in ResIds |-> IF r \in R THEN f[r] + 1 ELSE f[r]] IN
  /\ resv' = [r \in ResIds |-> IF r \in R
                               THEN [resv[r] EXCEPT !.status = outcome]
                               ELSE resv[r]]
  /\ available' = [i \in Items |-> available[i] + Back(outcome, i, R)]
  /\ reserved' = [i \in Items |-> reserved[i] - Drop(outcome, i, R)
                                  + Cardinality(WrittenOff(outcome, i, R, turn))]
  /\ IF outcome = "COMPLETED"
     THEN /\ confirms' = count(confirms)
          /\ UNCHANGED releases
     ELSE /\ releases' = count(releases)
          /\ UNCHANGED confirms
  /\ emitted' = {}
  /\ UNCHANGED <<rows, overdue, received, removed>>

\* POST /inventory/release/{id}: the first read of the row takes its lock.
\* Mutant: whatever the status.
ReleaseAgain(r) ==
  /\ resv[r].status # "FREE"
  /\ Settle({r}, Alone(r), "CANCELLED")
  /\ UNCHANGED <<session, failures>>

ReleaseReservation(r) ==
  /\ Pending(r)
  /\ Settle({r}, Alone(r), "CANCELLED")
  /\ UNCHANGED <<session, failures>>

Expire(r) ==
  /\ Pending(r)
  /\ r \notin overdue
  /\ overdue' = overdue \cup {r}
  /\ emitted' = {}
  /\ UNCHANGED <<stock, resv, session, history, failures>>

----------------------------------------------------------------------------
(* Sessions that load reservations first and settle them later *)

Load(s, outcome, R) ==
  /\ op[s] = "IDLE"
  /\ op' = [op EXCEPT ![s] = outcome]
  /\ todo' = [todo EXCEPT ![s] = R]
  /\ emitted' = {}
  /\ UNCHANGED <<stock, resv, overdue, history, failures>>

\* get_expired_reservations
\* Mutants: the wrong side of the clock, and a status that is none.
SweepLoadEarly ==
  Load(Sweeper, "EXPIRED", {r \in ResIds : Pending(r) /\ r \notin overdue})
SweepLoadReleased ==
  Load(Sweeper, "RELEASED", {r \in ResIds : Pending(r) /\ r \in overdue})
SweepLoad ==
  Load(Sweeper, "EXPIRED", {r \in ResIds : Pending(r) /\ r \in overdue})

\* An orders.cancelled or a picking.task_completed message for order o: every
\* order can be cancelled or picked through the API, and the messages are
\* delivered at least once.
ConsumerLoad(o, outcome) ==
  /\ outcome \in {"CANCELLED", "COMPLETED"}
  /\ Load(Consumer, outcome, PendingOfOrder(o))

\* release_order, which refuses when there is nothing to release.
ClerkLoad(c, o) ==
  /\ OrderIsFree(o)
  /\ PendingOfOrder(o) # {}
  /\ Load(c, "CANCELLED", PendingOfOrder(o))

\* The sweeper and the consumer commit after every reservation ...
\* Mutant: without going on to the next.
SettleOneAgain(s, r) ==
  /\ s \in {Sweeper, Consumer}
  /\ r \in todo[s]
  /\ Settle({r}, Alone(r), op[s])
  /\ UNCHANGED <<session, failures>>

SettleOne(s, r) ==
  /\ s \in {Sweeper, Consumer}
  /\ r \in todo[s]
  /\ Settle({r}, Alone(r), op[s])
  /\ todo' = [todo EXCEPT ![s] = @ \ {r}]
  /\ UNCHANGED <<op, failures>>

\* ... release_order once, for all of them.
ClerkCommit(c) ==
  /\ op[c] # "IDLE"
  /\ \E turn \in Orderings(todo[c]) : Settle(todo[c], turn, op[c])
  /\ op' = [op EXCEPT ![c] = "IDLE"]
  /\ todo' = [todo EXCEPT ![c] = {}]
  /\ UNCHANGED failures

Finish(s) ==
  /\ s \in {Sweeper, Consumer}
  /\ op[s] # "IDLE"
  /\ todo[s] = {}
  /\ op' = [op EXCEPT ![s] = "IDLE"]
  /\ emitted' = {}
  /\ UNCHANGED <<stock, resv, overdue, todo, history, failures>>

\* The process dies, or a database error ends the handler: what it committed
\* stays, the rest is not retried.  (The sweeper swallows the error and goes on
\* in a failed transaction, in which every later release fails as well.)
Abandon(s) ==
  /\ op[s] # "IDLE"
  /\ failures < MaxFailures
  /\ op' = [op EXCEPT ![s] = "IDLE"]
  /\ todo' = [todo EXCEPT ![s] = {}]
  /\ failures' = failures + 1
  /\ emitted' = {}
  /\ UNCHANGED <<stock, resv, overdue, history>>

----------------------------------------------------------------------------
Next ==
  \/ \E i \in Items, q \in Quantities : AddStock(i, q)
  \/ \E i \in Items, q \in Quantities, o \in Orders \cup {NoOrder}, r \in ResIds :
       ReserveStock(i, q, o, r)
  \/ \E o \in Orders : \E R \in SUBSET ResIds : \E line \in [R -> Lines[o]] :
       \E turn \in Orderings(R) : AllocateOrder(o, R, line, turn)
  \/ \E r \in ResIds : ReleaseReservation(r)
  \/ \E r \in ResIds : Expire(r)
  \/ SweepLoad
  \/ \E o \in Orders, outcome \in {"CANCELLED", "COMPLETED"} :
       ConsumerLoad(o, outcome)
  \/ \E c \in Clerks, o \in Orders : ClerkLoad(c, o)
  \/ \E s \in Sessions, r \in ResIds : SettleOne(s, r)
  \/ \E c \in Clerks : ClerkCommit(c)
  \/ \E s \in Sessions : Finish(s)
  \/ \E s \in Sessions : Abandon(s)

Spec == Init /\ [][Next]_vars

\* The sweeper's loop never stops; nothing else is promised to happen.
SweeperFairness ==
  /\ WF_vars(SweepLoad)
  /\ WF_vars(\E r \in ResIds : SettleOne(Sweeper, r))
  /\ WF_vars(Finish(Sweeper))

FairSpec == Spec /\ SweeperFairness

----------------------------------------------------------------------------
(* Properties *)

TypeOK ==
  /\ rows \subseteq Items
  /\ available \in [Items -> Int]
  /\ reserved \in [Items -> Int]
  /\ resv \in [ResIds -> [status : Status, item : Items, quantity : Int,
                          order : Orders \cup {NoOrder}]]
  /\ overdue \subseteq ResIds
  /\ emitted \subseteq Items
  /\ op \in [Sessions -> {"IDLE"} \cup Settled]
  /\ todo \in [Sessions -> SUBSET ResIds]
  /\ received \in [Items -> Nat]
  /\ removed \in [Items -> Nat]
  /\ releases \in [ResIds -> Nat]
  /\ confirms \in [ResIds -> Nat]
  /\ failures \in 0..MaxFailures

\* No reservation was ever made of a negative quantity of row i.
Positive(i) == \A r \in ResIds : resv[r].item = i => resv[r].quantity >= 0

\* "Implements negative stock prevention" (inventory/service.py:91): no row is
\* overdrawn, however the sweeper, the consumer and the API interleave, but for
\* what add_stock took and for reservations of negative quantities, which the
\* code does not refuse.
NegativeStockPrevention ==
  \A i \in Items : Positive(i) => available[i] + removed[i] >= 0 /\ reserved[i] >= 0

\* The hold of a row never exceeds its pending reservations unless some are
\* negative.  It may fall short of them: a second settlement of a reservation
\* drops the hold of another, and max(0, ...) in confirm_reservation and
\* release_reservation hides the rest.
HoldIsCovered ==
  \A i \in Items : Positive(i) => reserved[i] <= Quantity(PendingOf(i))

Times(r) == releases[r] + confirms[r]

\* As long as no reservation of a row was settled twice, its books balance: every
\* unit received is available, taken back, pending or sold, whatever the signs,
\* and reserved_quantity is what is pending, unless max(0, ...) in the settlements
\* has met a negative quantity.
BooksBalance ==
  \A i \in Items : (\A r \in ResIds : resv[r].item = i => Times(r) <= 1) =>
    /\ available[i] + Quantity(PendingOf(i)) + Quantity(SoldOf(i)) + removed[i] = received[i]
    /\ Positive(i) => reserved[i] = Quantity(PendingOf(i))

\* What the balance rests on: outcomes and settlements agree, an id that is not
\* used holds nothing, and a session only ever holds reservations that exist.
LedgerOK ==
  /\ \A r \in ResIds : resv[r].status \in Settled <=> Times(r) > 0
  /\ \A r \in ResIds : resv[r].status = "FREE" => resv[r].quantity = 0
  /\ \A s \in Sessions : \A r \in todo[s] :
       resv[r].status # "FREE" /\ op[s] # "IDLE"

\* Falling to the reorder level is announced: a step that takes units of a row
\* and leaves it at or below the level, or creates it there, writes inventory.low
\* in the same transaction.  The one silent way is to settle a reservation of a
\* negative quantity, whose release takes units and tests no level.  Replenishment
\* hears of a shortage in no other way.
LowStockAnnounced ==
  [][\A i \in rows' :
       /\ available'[i] <= ReorderLevel
       /\ i \notin rows \/ available'[i] < available[i]
       => \/ i \in emitted'
          \/ \E r \in ResIds : /\ resv[r].item = i /\ resv[r].quantity < 0
                               /\ releases'[r] # releases[r]]_vars

\* The sessions that loaded r as PENDING and have not settled it yet.
Holders(r) == {s \in Sessions : r \in todo[s]}

\* Only a session that loaded a reservation while it was PENDING can overwrite
\* an outcome another one wrote.
OutcomeChangesAreStale ==
  [][\A r \in ResIds :
       resv[r].status \in Settled /\ Times(r)' # Times(r)
         => \E s \in Holders(r) : s \notin Holders(r)']_vars

\* Settlements of one reservation are bounded by the sessions that saw it
\* PENDING at once: loading it takes the PENDING status, which no one restores.
SettlementsBounded ==
  \A r \in ResIds :
    Times(r) + Cardinality(Holders(r)) <= Cardinality(Sessions) + 1

\* The claim of inventory/repository.py:39, that the row locks prevent
\* concurrency anomalies: a row never offers and sells more units than it got.
NoPhantomUnits ==
  \A i \in Items : available[i] + Quantity(SoldOf(i)) + removed[i] <= received[i]

\* A reservation whose time is up does not hold stock forever.
OverdueIsSettled ==
  \A r \in ResIds : (Pending(r) /\ r \in overdue) ~> ~Pending(r)
=============================================================================
