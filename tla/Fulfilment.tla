----------------------------- MODULE Fulfilment -----------------------------
(***************************************************************************)
(* Orders with what becomes of its events, and the inventory.  The order,  *)
(* payment and picking handlers (Orders) write outbox events; the Kafka    *)
(* consumer (process_message in app/workers/kafka_consumer.py), which      *)
(* handles one message at a time, turns them into allocations, releases    *)
(* and confirmations of reservations (Inventory).                          *)
(*                                                                         *)
(* A message reaches the consumer at least once and in any order, unless   *)
(* the outbox marks its event FAILED or the handler fails: neither is      *)
(* tried again.                                                            *)
(***************************************************************************)
EXTENDS Orders, Integers

CONSTANTS
  Items, NoOrder, ResIds, Quantities, Lines, ReorderLevel,
  Sweeper, Consumer, Clerks, MaxReceived, MaxRemoved, MaxFailures   \* see Inventory

VARIABLES
  rows, available, reserved, resv, overdue, op, todo, emitted,
  received, removed, releases, confirms, failures,       \* see Inventory
  handling,    \* where the consumer is in a payments.confirmed message
  allocated,   \* history: reservations made by allocate_order
  dropped      \* history: orders whose orders.cancelled was lost or not handled

Stock == INSTANCE Inventory

store == <<rows, available, reserved, resv, overdue, op, todo, emitted,
           received, removed, releases, confirms, failures>>
all   == <<store, vars, handling, allocated, dropped>>

NoMessage == <<"NONE", NoOrder>>

FulfilmentInit ==
  /\ Init
  /\ Stock!Init
  /\ handling = NoMessage
  /\ allocated = {}
  /\ dropped = {}

----------------------------------------------------------------------------
(* The API and the sweeper *)

\* A write of an order's row waits until release_order lets go of its lock.
RowsAreFree ==
  \A o \in Orders :
    status'[o] # status[o] \/ payment'[o] # payment[o] => Stock!OrderIsFree(o)

OrderRequest ==
  /\ Api
  /\ RowsAreFree
  /\ UNCHANGED <<store, handling, allocated, dropped>>

Allocate(o) ==
  \E R \in SUBSET ResIds : \E line \in [R -> Lines[o]] :
    /\ \E turn \in Stock!Orderings(R) : Stock!AllocateOrder(o, R, line, turn)
    /\ allocated' = allocated \cup R

\* POST /orders/{id}/allocate reads the status under the order's lock.
RequestAllocation(o) ==
  /\ status[o] \in {"CONFIRMED", "PENDING"}
  /\ Allocate(o)
  /\ UNCHANGED <<vars, handling, dropped>>

\* Requests and sweeps that do not look at an order.
StockRequest ==
  /\ \/ \E i \in Items, q \in Quantities : Stock!AddStock(i, q)
     \/ \E i \in Items, q \in Quantities :
          \E o \in Orders \cup {NoOrder}, r \in ResIds : Stock!ReserveStock(i, q, o, r)
     \/ \E r \in ResIds : Stock!ReleaseReservation(r) \/ Stock!Expire(r)
     \/ Stock!SweepLoad
     \/ \E c \in Clerks, o \in Orders : Stock!ClerkLoad(c, o)
     \/ \E c \in Clerks : Stock!ClerkCommit(c)
     \/ \E s \in Stock!Sessions, r \in ResIds : Stock!SettleOne(s, r)
     \/ \E s \in Stock!Sessions : Stock!Finish(s)
     \/ \E s \in Stock!Sessions \ {Consumer} : Stock!Abandon(s)
  /\ UNCHANGED <<vars, handling, allocated, dropped>>

----------------------------------------------------------------------------
(* The consumer *)

ConsumerIsFree == op[Consumer] = "IDLE" /\ handling = NoMessage

\* payments.confirmed is handled in two transactions ...
TakePayment(o) ==
  /\ ConsumerIsFree
  /\ Read(<<"payments.confirmed", o>>)
  /\ handling' = <<"CONFIRM", o>>
  /\ UNCHANGED <<store, allocated, dropped>>

ConfirmPayment(o) ==
  /\ handling = <<"CONFIRM", o>>
  /\ ConfirmOrderPayment(o)
  /\ RowsAreFree
  /\ handling' = <<"ALLOCATE", o>>
  /\ UNCHANGED <<store, allocated, dropped>>

\* ... the second of which tests the status of the object the first one left in
\* the session, CONFIRMED, whatever has become of the order since.
AllocatePaid(o) ==
  /\ handling = <<"ALLOCATE", o>>
  /\ Allocate(o)
  /\ handling' = NoMessage
  /\ UNCHANGED <<vars, dropped>>

\* "already allocated. Skipping.", or a line that cannot be reserved.
SkipAllocation(o) ==
  /\ handling = <<"ALLOCATE", o>>
  /\ Stock!OrderIsFree(o)
  /\ \/ Stock!PendingOfOrder(o) # {}
     \/ \E turn \in Stock!Orderings(Lines[o]) :
          ~Stock!Enough(Lines[o], [line \in Lines[o] |-> line], turn)
  /\ handling' = NoMessage
  /\ UNCHANGED <<store, vars, allocated, dropped>>

\* Mutant: while a payment is being handled.
TakeOutcomeMeanwhile(o, topic, outcome) ==
  /\ Read(<<topic, o>>)
  /\ Stock!ConsumerLoad(o, outcome)
  /\ UNCHANGED <<handling, allocated, dropped>>

\* orders.cancelled and picking.task_completed: the reservations are loaded
\* here and settled by Stock!SettleOne.
TakeOutcome(o, topic, outcome) ==
  /\ ConsumerIsFree
  /\ Read(<<topic, o>>)
  /\ Stock!ConsumerLoad(o, outcome)
  /\ UNCHANGED <<handling, allocated, dropped>>

\* The event is marked FAILED by the outbox and never sent.  (To lose one of
\* the other topics is to handle it late for ever.)
LoseCancellation(o) ==
  /\ <<"orders.cancelled", o>> \in unread
  /\ Read(<<"orders.cancelled", o>>)
  /\ dropped' = dropped \cup {o}
  /\ UNCHANGED <<store, handling, allocated>>

\* The handler fails, or the worker dies after the offset was committed.
FailOutcome ==
  /\ Stock!Abandon(Consumer)
  /\ dropped' = IF op[Consumer] = "CANCELLED"
                THEN dropped \cup {resv[r].order : r \in todo[Consumer]}
                ELSE dropped
  /\ UNCHANGED <<vars, handling, allocated>>

FailPayment(o) ==
  /\ handling \in {<<"CONFIRM", o>>, <<"ALLOCATE", o>>}
  /\ handling' = NoMessage
  /\ UNCHANGED <<store, vars, allocated, dropped>>

----------------------------------------------------------------------------
FulfilmentNext ==
  /\ \/ OrderRequest
     \/ StockRequest
     \/ \E o \in Orders :
          \/ RequestAllocation(o)
          \/ TakePayment(o)
          \/ ConfirmPayment(o)
          \/ AllocatePaid(o)
          \/ SkipAllocation(o)
          \/ TakeOutcome(o, "orders.cancelled", "CANCELLED")
          \/ TakeOutcome(o, "picking.task_completed", "COMPLETED")
          \/ LoseCancellation(o)
          \/ FailPayment(o)
     \/ FailOutcome
  /\ Note

FulfilmentSpec == FulfilmentInit /\ [][FulfilmentNext]_all

----------------------------------------------------------------------------
(* Properties *)

FulfilmentTypeOK ==
  /\ TypeOK
  /\ Stock!TypeOK
  /\ handling \in {NoMessage} \cup ({"CONFIRM", "ALLOCATE"} \X Orders)
  /\ allocated \subseteq ResIds
  /\ dropped \subseteq Orders

Live(o) == Stock!PendingOfOrder(o) \cap allocated

\* Stock held for a cancelled and refunded order is on its way back: the event
\* that releases it is still unread, or the consumer has loaded the reservation,
\* or the message was lost.  The order may be cancelled between the two
\* transactions of payments.confirmed, and allocated all the same.
ReleaseIsOnItsWay ==
  \A o \in Orders : status[o] = "CANCELLED" /\ payment[o] = "REFUNDED" =>
    \A r \in Live(o) :
      \/ <<"orders.cancelled", o>> \in unread
      \/ o \in dropped
      \/ op[Consumer] = "CANCELLED" /\ r \in todo[Consumer]
=============================================================================
