------------------------------- MODULE Orders -------------------------------
(***************************************************************************)
(* The row of an order and everything that writes its status: the order    *)
(* API and the payment webhook (app/modules/orders, app/modules/payments), *)
(* the wave and task handlers of app/modules/picking, and the assignment   *)
(* and delivery handlers of app/modules/dispatch.                          *)
(*                                                                         *)
(* Handlers that lock the row first are one action.  cancel_order and      *)
(* generate_wave read it without a lock and write it later, whatever it    *)
(* has become: a Load and a Commit action.                                 *)
(***************************************************************************)
EXTENDS Naturals, FiniteSets

CONSTANTS
  Orders,    \* ids of orders
  Waves,     \* ids of pick_waves
  Reach      \* bound: the statuses orders get to

VARIABLES
  status,      \* orders.status, "NONE" before the order is placed
  payment,     \* orders.payment_status
  rider,       \* the orders with a rider_id
  losing,      \* ... that the dispatch sweep is taking from a rider gone offline
  cancelling,  \* "NO", or what a cancel_order call will do to the payment
  picking,     \* the orders a generate_wave call read as CONFIRMED
  tasks,       \* the orders of the tasks of every wave
  undone,      \* ... whose task is not COMPLETED
  sent,        \* outbox events that have a reader, <<topic, order>>
  unread,      \* ... and those not read since they were last written
  overtaken    \* history: the cancellations and waves that have read an order,
               \* and it has ended since, <<"cancel" or "wave", order>>

riders == <<rider, losing>>
wave   == <<picking, tasks, undone>>
events == <<sent, unread>>
vars   == <<status, payment, riders, cancelling, wave, events, overtaken>>

VALID_ORDER_TRANSITIONS ==
  [PENDING            |-> {"CONFIRMED", "CANCELLED"},
   CONFIRMED          |-> {"READY_FOR_PICKING", "READY_FOR_DISPATCH", "CANCELLED"},
   READY_FOR_PICKING  |-> {"READY_FOR_DISPATCH", "CANCELLED"},
   READY_FOR_DISPATCH |-> {"RIDER_ASSIGNED", "CANCELLED"},
   RIDER_ASSIGNED     |-> {"DISPATCHED", "CANCELLED"},
   DISPATCHED         |-> {"PICKED_UP", "CANCELLED", "FAILED"},
   PICKED_UP          |-> {"IN_TRANSIT", "FAILED"},
   IN_TRANSIT         |-> {"DELIVERED", "FAILED"},
   DELIVERED          |-> {"RETURNED"},
   CANCELLED          |-> {},
   FAILED             |-> {},
   RETURNED           |-> {}]

Status   == DOMAIN VALID_ORDER_TRANSITIONS
Terminal == {s \in Status : VALID_ORDER_TRANSITIONS[s] = {}}
Payment  == {"PENDING", "COMPLETED", "REFUNDED"}
Topics   == {"payments.confirmed", "orders.cancelled", "picking.task_completed"}

Init ==
  /\ status = [o \in Orders |-> "NONE"]
  /\ payment = [o \in Orders |-> "PENDING"]
  /\ rider = {}
  /\ losing = {}
  /\ cancelling = [o \in Orders |-> "NO"]
  /\ picking = {}
  /\ tasks = [w \in Waves |-> {}]
  /\ undone = [w \in Waves |-> {}]
  /\ sent = {}
  /\ unread = {}
  /\ overtaken = {}

Placed(o) == status[o] # "NONE"

SetStatus(o, s) == s \in Reach /\ status' = [status EXCEPT ![o] = s]
Send(topic, o) ==
  /\ sent' = sent \cup {<<topic, o>>}
  /\ unread' = unread \cup {<<topic, o>>}

----------------------------------------------------------------------------
(* Orders and payments *)

PlaceOrder(o) ==
  /\ ~Placed(o)
  /\ SetStatus(o, "PENDING")
  /\ UNCHANGED <<payment, riders, cancelling, wave, events>>

\* A payment.captured webhook of the right amount, in any state of the order.
HandleWebhook(o) ==
  /\ Placed(o)
  /\ Send("payments.confirmed", o)
  /\ UNCHANGED <<status, payment, riders, cancelling, wave>>

\* confirm_order_payment has no guard on the status.
ConfirmOrderPayment(o) ==
  /\ Placed(o)
  /\ SetStatus(o, "CONFIRMED")
  /\ payment' = [payment EXCEPT ![o] = "COMPLETED"]
  /\ UNCHANGED <<riders, cancelling, wave, events>>

\* PATCH /orders/{id}/status: a cancellation by this way refunds nothing and
\* tells nobody.
UpdateOrderStatus(o, s) ==
  /\ Placed(o)
  /\ s \in VALID_ORDER_TRANSITIONS[status[o]]
  /\ SetStatus(o, s)
  /\ UNCHANGED <<payment, riders, cancelling, wave, events>>

\* Mutant: without FAILED in the list of statuses that cannot be cancelled.
CancelLoadFailed(o) ==
  /\ Placed(o)
  /\ status[o] \notin {"CANCELLED", "DELIVERED"}
  /\ cancelling[o] = "NO"
  /\ cancelling' = [cancelling EXCEPT ![o] =
                      IF payment[o] = "REFUNDED" THEN "KEEP" ELSE "REFUND"]
  /\ UNCHANGED <<status, payment, riders, wave, events>>

\* RETURNED is not in the list either, and an order that was returned can be
\* cancelled.
CancelLoad(o) ==
  /\ Placed(o)
  /\ status[o] \notin {"CANCELLED", "DELIVERED", "FAILED"}
  /\ cancelling[o] = "NO"
  /\ cancelling' = [cancelling EXCEPT ![o] =
                      IF payment[o] = "REFUNDED" THEN "KEEP" ELSE "REFUND"]
  /\ UNCHANGED <<status, payment, riders, wave, events>>

\* Mutant: the refund without the event.
CancelCommitSilently(o) ==
  /\ cancelling[o] # "NO"
  /\ SetStatus(o, "CANCELLED")
  /\ payment' = [payment EXCEPT ![o] = "REFUNDED"]
  /\ cancelling' = [cancelling EXCEPT ![o] = "NO"]
  /\ UNCHANGED <<riders, wave, events>>

\* payment_status is not written if REFUNDED is what was read.
CancelCommit(o) ==
  /\ cancelling[o] # "NO"
  /\ SetStatus(o, "CANCELLED")
  /\ payment' = [payment EXCEPT ![o] =
                   IF cancelling[o] = "KEEP" THEN @ ELSE "REFUNDED"]
  /\ cancelling' = [cancelling EXCEPT ![o] = "NO"]
  /\ Send("orders.cancelled", o)
  /\ UNCHANGED <<riders, wave>>

----------------------------------------------------------------------------
(* Picking *)

GenerateWaveLoad ==
  /\ picking = {}
  /\ picking' = {o \in Orders : status[o] = "CONFIRMED"}
  /\ picking' # {}
  /\ UNCHANGED <<status, payment, riders, cancelling, tasks, undone, events>>

GenerateWaveCommit(w) ==
  /\ picking # {}
  /\ tasks[w] = {}
  /\ status' = [o \in Orders |->
                  IF o \in picking THEN "READY_FOR_PICKING" ELSE status[o]]
  /\ tasks' = [tasks EXCEPT ![w] = picking]
  /\ undone' = [undone EXCEPT ![w] = picking]
  /\ picking' = {}
  /\ UNCHANGED <<payment, riders, cancelling, events>>

\* complete_task; the last task of a wave completes the wave, unless another
\* one that is being completed at the same time is still counted as open.
CompleteTask(w, o, counted) ==
  LET done == undone[w] = {o} /\ ~counted IN
  /\ o \in undone[w]
  /\ counted => Cardinality(tasks[w]) > 1
  /\ undone' = [undone EXCEPT ![w] = @ \ {o}]
  /\ status' = [p \in Orders |->
                  IF done /\ p \in tasks[w] /\ status[p] = "READY_FOR_PICKING"
                  THEN "READY_FOR_DISPATCH" ELSE status[p]]
  /\ Send("picking.task_completed", o)
  /\ UNCHANGED <<payment, riders, cancelling, picking, tasks>>

----------------------------------------------------------------------------
(* Dispatch.  Which rider it is and what he is doing is left out. *)

\* respond_to_assignment, accepted: neither the status nor the offer of the
\* order is looked at.
AcceptOrder(o) ==
  /\ Placed(o)
  /\ SetStatus(o, "RIDER_ASSIGNED")
  /\ rider' = rider \cup {o}
  /\ UNCHANGED <<payment, losing, cancelling, wave, events>>

\* ... and for a batch, any orders, which keep their status.
AcceptBatch(B) ==
  /\ B # {}
  /\ "RIDER_ASSIGNED" \in Reach
  /\ \A o \in B : Placed(o)
  /\ rider' = rider \cup B
  /\ UNCHANGED <<status, payment, losing, cancelling, wave, events>>

Deliver(o, from, to) ==
  /\ status[o] \in from
  /\ o \in rider
  /\ SetStatus(o, to)
  /\ UNCHANGED <<payment, riders, cancelling, wave, events>>

PickupOrder(o)  == Deliver(o, {"RIDER_ASSIGNED", "DISPATCHED"}, "PICKED_UP")
StartTransit(o) == Deliver(o, {"PICKED_UP"}, "IN_TRANSIT")
DeliverOrder(o) == Deliver(o, {"IN_TRANSIT"}, "DELIVERED")

FailDelivery(o) ==
  /\ status[o] \in {"DISPATCHED", "PICKED_UP", "IN_TRANSIT"}
  /\ SetStatus(o, "FAILED")
  /\ UNCHANGED <<payment, riders, cancelling, wave, events>>

\* The dispatch sweep looks for PENDING orders of riders who went offline, and
\* then takes them away.
RiderLostLoad(o) ==
  /\ status[o] = "PENDING"
  /\ o \in rider
  /\ losing' = losing \cup {o}
  /\ UNCHANGED <<status, payment, rider, cancelling, wave, events>>

RiderLostCommit(o) ==
  /\ o \in losing
  /\ rider' = rider \ {o}
  /\ losing' = losing \ {o}
  /\ UNCHANGED <<status, payment, cancelling, wave, events>>

----------------------------------------------------------------------------
\* The Kafka consumer takes an event.
Read(event) ==
  /\ event \in sent
  /\ unread' = unread \ {event}
  /\ UNCHANGED <<status, payment, riders, cancelling, wave, sent>>

\* What a call of the API does to one order.
Request(o) ==
  \/ PlaceOrder(o)
  \/ HandleWebhook(o)
  \/ \E s \in Status : UpdateOrderStatus(o, s)
  \/ CancelLoad(o)
  \/ CancelCommit(o)
  \/ \E w \in Waves, counted \in BOOLEAN : CompleteTask(w, o, counted)
  \/ AcceptOrder(o)
  \/ PickupOrder(o)
  \/ StartTransit(o)
  \/ DeliverOrder(o)
  \/ FailDelivery(o)
  \/ RiderLostLoad(o)
  \/ RiderLostCommit(o)

Api ==
  \/ \E o \in Orders : Request(o)
  \/ GenerateWaveLoad
  \/ \E w \in Waves : GenerateWaveCommit(w)
  \/ \E B \in SUBSET Orders : AcceptBatch(B)

\* Who has read an order and not written it yet.
InHand == {<<"cancel", o>> : o \in {p \in Orders : cancelling[p] # "NO"}}
            \cup {<<"wave", o>> : o \in picking}

Ends(o) == status[o] \notin Terminal /\ status'[o] \in Terminal

Note == overtaken' = {h \in InHand' : h \in overtaken \/ (h \in InHand /\ Ends(h[2]))}

Next ==
  /\ \/ Api
     \/ \E o \in Orders : <<"payments.confirmed", o>> \in sent /\ ConfirmOrderPayment(o)
     \/ \E event \in sent : Read(event)
  /\ Note

Spec == Init /\ [][Next]_vars

----------------------------------------------------------------------------
(* Properties *)

TypeOK ==
  /\ status \in [Orders -> Status \cup {"NONE"}]
  /\ payment \in [Orders -> Payment]
  /\ rider \subseteq Orders
  /\ losing \subseteq Orders
  /\ cancelling \in [Orders -> {"NO", "REFUND", "KEEP"}]
  /\ picking \subseteq Orders
  /\ tasks \in [Waves -> SUBSET Orders]
  /\ undone \in [Waves -> SUBSET Orders]
  /\ sent \subseteq Topics \X Orders
  /\ unread \subseteq sent
  /\ overtaken \subseteq InHand

\* Money is given back together with the event that takes the units back.
RefundIsAnnounced ==
  \A o \in Orders : payment[o] = "REFUNDED" => <<"orders.cancelled", o>> \in sent

\* What ended stays, but for a payment that is confirmed late, a rider who
\* accepts, a wave or a cancellation that had read the order before it ended, and
\* the cancellation of a RETURNED order, which cancel_order lets through with no
\* race at all (orders/service.py:237).
EndedOrdersMoveByRacesOnly ==
  [][\A o \in Orders : status[o] \in Terminal /\ status'[o] # status[o] =>
       \/ status'[o] = "CONFIRMED" /\ <<"payments.confirmed", o>> \in sent
       \/ status'[o] = "RIDER_ASSIGNED"
       \/ status'[o] = "READY_FOR_PICKING" /\ <<"wave", o>> \in overtaken
       \/ status'[o] = "CANCELLED" /\ <<"cancel", o>> \in overtaken
       \/ status'[o] = "CANCELLED" /\ status[o] = "RETURNED"]_vars
=============================================================================
