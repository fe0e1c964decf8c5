-------------------------- MODULE FulfilmentProofs --------------------------
(* Theorems about Orders, which Fulfilment extends, and about Fulfilment, for
   every value of their constants. *)
EXTENDS Fulfilment, TLAPS

-----------------------------------------------------------------------------
(* Orders *)

LEMMA StatusIs ==
  Status = {"PENDING", "CONFIRMED", "READY_FOR_PICKING", "READY_FOR_DISPATCH",
            "RIDER_ASSIGNED", "DISPATCHED", "PICKED_UP", "IN_TRANSIT", "DELIVERED",
            "CANCELLED", "FAILED", "RETURNED"}
BY DEF Status, VALID_ORDER_TRANSITIONS

\* The statuses without a successor, and none of them has one.
LEMMA TerminalIs ==
  /\ Terminal = {"CANCELLED", "FAILED", "RETURNED"}
  /\ \A s \in Terminal : VALID_ORDER_TRANSITIONS[s] = {}
<1>1. \A s \in Terminal : VALID_ORDER_TRANSITIONS[s] = {}
  BY DEF Terminal
<1>2. Terminal = {"CANCELLED", "FAILED", "RETURNED"}
  BY StatusIs DEF Terminal, VALID_ORDER_TRANSITIONS
<1> QED
  BY <1>1, <1>2

-----------------------------------------------------------------------------
(* Types *)

\* The handlers of the order API and of the payment.
LEMMA TypeOrderApi ==
  ASSUME TypeOK, NEW o \in Orders, overtaken' \subseteq InHand'
  PROVE  /\ PlaceOrder(o) => TypeOK'
         /\ HandleWebhook(o) => TypeOK'
         /\ ConfirmOrderPayment(o) => TypeOK'
         /\ \A s \in Status : UpdateOrderStatus(o, s) => TypeOK'
         /\ CancelLoad(o) => TypeOK'
         /\ CancelCommit(o) => TypeOK'
<1>1. PlaceOrder(o) => TypeOK'
  BY StatusIs DEF PlaceOrder, SetStatus, TypeOK, riders, wave, events
<1>2. HandleWebhook(o) => TypeOK'
  BY DEF HandleWebhook, Send, TypeOK, Topics, riders, wave
<1>3. ConfirmOrderPayment(o) => TypeOK'
  BY StatusIs DEF ConfirmOrderPayment, SetStatus, TypeOK, Payment, riders, wave, events
<1>4. ASSUME NEW s \in Status PROVE UpdateOrderStatus(o, s) => TypeOK'
  BY DEF UpdateOrderStatus, SetStatus, TypeOK, riders, wave, events
<1>5. CancelLoad(o) => TypeOK'
  BY DEF CancelLoad, TypeOK, riders, wave, events
<1>6. CancelCommit(o) => TypeOK'
  <2> SUFFICES ASSUME CancelCommit(o) PROVE TypeOK'
    OBVIOUS
  <2>1. status' \in [Orders -> Status \cup {"NONE"}]
    BY StatusIs DEF CancelCommit, SetStatus, TypeOK
  <2>2. payment' \in [Orders -> Payment] /\ cancelling' \in [Orders -> {"NO", "REFUND", "KEEP"}]
    BY DEF CancelCommit, TypeOK, Payment
  <2>3. sent' \subseteq Topics \X Orders /\ unread' \subseteq sent'
    BY DEF CancelCommit, Send, TypeOK, Topics
  <2> QED
    BY <2>1, <2>2, <2>3 DEF CancelCommit, TypeOK, riders, wave
<1> QED
  BY <1>1, <1>2, <1>3, <1>4, <1>5, <1>6

\* The handlers of picking.
LEMMA TypePicking ==
  ASSUME TypeOK, NEW w \in Waves, overtaken' \subseteq InHand'
  PROVE  /\ GenerateWaveCommit(w) => TypeOK'
         /\ \A o \in Orders, counted \in BOOLEAN : CompleteTask(w, o, counted) => TypeOK'
<1>1. GenerateWaveCommit(w) => TypeOK'
  BY StatusIs DEF GenerateWaveCommit, TypeOK, riders, events
<1>2. ASSUME NEW o \in Orders, NEW counted \in BOOLEAN, CompleteTask(w, o, counted)
      PROVE  TypeOK'
  <2>1. status' \in [Orders -> Status \cup {"NONE"}]
    BY <1>2, StatusIs DEF CompleteTask, TypeOK
  <2>2. undone' \in [Waves -> SUBSET Orders]
    BY <1>2 DEF CompleteTask, TypeOK
  <2>3. sent' \subseteq Topics \X Orders /\ unread' \subseteq sent'
    BY <1>2 DEF CompleteTask, Send, TypeOK, Topics
  <2> QED
    BY <1>2, <2>1, <2>2, <2>3 DEF CompleteTask, TypeOK, riders
<1> QED
  BY <1>1, <1>2

\* The handlers of dispatch.
LEMMA TypeDispatch ==
  ASSUME TypeOK, NEW o \in Orders, overtaken' \subseteq InHand'
  PROVE  /\ AcceptOrder(o) => TypeOK'
         /\ PickupOrder(o) \/ StartTransit(o) \/ DeliverOrder(o) => TypeOK'
         /\ FailDelivery(o) => TypeOK'
         /\ RiderLostLoad(o) => TypeOK'
         /\ RiderLostCommit(o) => TypeOK'
<1>1. AcceptOrder(o) => TypeOK'
  BY StatusIs DEF AcceptOrder, SetStatus, TypeOK, wave, events
<1>3. ASSUME NEW from, NEW to \in Status PROVE Deliver(o, from, to) => TypeOK'
  BY DEF Deliver, SetStatus, TypeOK, riders, wave, events
<1>4. PickupOrder(o) \/ StartTransit(o) \/ DeliverOrder(o) => TypeOK'
  BY <1>3, StatusIs DEF PickupOrder, StartTransit, DeliverOrder
<1>5. FailDelivery(o) => TypeOK'
  BY StatusIs DEF FailDelivery, SetStatus, TypeOK, riders, wave, events
<1>6. RiderLostLoad(o) => TypeOK'
  BY DEF RiderLostLoad, TypeOK, wave, events
<1>7. RiderLostCommit(o) => TypeOK'
  BY DEF RiderLostCommit, TypeOK, wave, events
<1> QED
  BY <1>1, <1>4, <1>5, <1>6, <1>7

LEMMA TypeStep == TypeOK /\ [Next]_vars => TypeOK'
<1> SUFFICES ASSUME TypeOK, [Next]_vars PROVE TypeOK'
  OBVIOUS
<1>1. CASE UNCHANGED vars
  BY <1>1 DEF vars, TypeOK, riders, wave, events, InHand
<1> SUFFICES ASSUME Next, Note PROVE TypeOK'
  BY <1>1 DEF Next
<1>0. overtaken' \subseteq InHand'
  BY DEF Note
<1>2. ASSUME NEW o \in Orders, Request(o) PROVE TypeOK'
  BY <1>0, <1>2, TypeOrderApi, TypePicking, TypeDispatch DEF Request
<1>3. CASE Api
  <2>1. ASSUME NEW B \in SUBSET Orders, AcceptBatch(B) PROVE TypeOK'
    BY <1>0, <2>1 DEF AcceptBatch, TypeOK, wave, events
  <2>2. ASSUME NEW w \in Waves, GenerateWaveCommit(w) PROVE TypeOK'
    BY <1>0, <2>2, TypePicking
  <2>3. ASSUME GenerateWaveLoad PROVE TypeOK'
    BY <1>0, <2>3 DEF GenerateWaveLoad, TypeOK, riders, events
  <2> QED
    BY <1>2, <1>3, <2>1, <2>2, <2>3 DEF Api
<1>4. ASSUME NEW event \in sent, Read(event) PROVE TypeOK'
  BY <1>0, <1>4 DEF Read, TypeOK, riders, wave
<1> QED
  BY <1>0, <1>3, <1>4, TypeOrderApi DEF Next

(* The columns of an order keep their type, and the events their topics, whatever
   the handlers do to the order at once. *)
THEOREM TypeCorrect == Spec => []TypeOK
<1>1. Init => TypeOK
  BY DEF Init, TypeOK, Payment, InHand
<1> QED
  BY <1>1, TypeStep, PTL DEF Spec

-----------------------------------------------------------------------------
(* Refunds *)

\* Only the commit of a cancellation makes an order REFUNDED, and it writes the
\* event; no event is ever withdrawn.
LEMMA RefundStep == TypeOK /\ RefundIsAnnounced /\ [Next]_vars => RefundIsAnnounced'
<1> SUFFICES ASSUME TypeOK, RefundIsAnnounced, [Next]_vars,
                    NEW p \in Orders, payment'[p] = "REFUNDED"
             PROVE  <<"orders.cancelled", p>> \in sent'
  BY DEF RefundIsAnnounced
<1>1. ASSUME sent \subseteq sent', payment'[p] = payment[p] PROVE <<"orders.cancelled", p>> \in sent'
  BY <1>1 DEF RefundIsAnnounced
<1>2. CASE UNCHANGED vars
  BY <1>1, <1>2 DEF vars, events
<1>3. ASSUME NEW o \in Orders, CancelCommit(o) PROVE <<"orders.cancelled", p>> \in sent'
  <2>1. CASE p = o
    BY <1>3, <2>1 DEF CancelCommit, Send
  <2>2. CASE p # o
    BY <1>1, <1>3, <2>2 DEF CancelCommit, Send, TypeOK
  <2> QED
    BY <2>1, <2>2
<1>4. ASSUME NEW o \in Orders, ConfirmOrderPayment(o) PROVE <<"orders.cancelled", p>> \in sent'
  <2>1. p # o
    BY <1>4 DEF ConfirmOrderPayment, TypeOK
  <2> QED
    BY <1>1, <1>4, <2>1 DEF ConfirmOrderPayment, TypeOK, events
<1>5. ASSUME NEW o \in Orders, Request(o), ~CancelCommit(o)
      PROVE  sent \subseteq sent' /\ payment' = payment
  <2>1. CASE HandleWebhook(o)
    BY <2>1 DEF HandleWebhook, Send
  <2>2. CASE PlaceOrder(o) \/ (\E s \in Status : UpdateOrderStatus(o, s)) \/ CancelLoad(o)
    BY <2>2 DEF PlaceOrder, UpdateOrderStatus, CancelLoad, events
  <2>3. CASE \E w \in Waves, counted \in BOOLEAN : CompleteTask(w, o, counted)
    BY <2>3 DEF CompleteTask, Send
  <2>4. CASE AcceptOrder(o) \/ FailDelivery(o) \/ RiderLostLoad(o) \/ RiderLostCommit(o)
    BY <2>4 DEF AcceptOrder, FailDelivery, RiderLostLoad, RiderLostCommit, events
  <2>5. CASE PickupOrder(o) \/ StartTransit(o) \/ DeliverOrder(o)
    BY <2>5 DEF PickupOrder, StartTransit, DeliverOrder, Deliver, events
  <2> QED
    BY <1>5, <2>1, <2>2, <2>3, <2>4, <2>5 DEF Request
<1>6. ASSUME GenerateWaveLoad \/ (\E w \in Waves : GenerateWaveCommit(w))
               \/ (\E B \in SUBSET Orders : AcceptBatch(B)) \/ (\E event \in sent : Read(event))
      PROVE  sent \subseteq sent' /\ payment' = payment
  BY <1>6 DEF GenerateWaveLoad, GenerateWaveCommit, AcceptBatch, Read, events
<1> QED
  BY <1>1, <1>2, <1>3, <1>4, <1>5, <1>6 DEF Next, Api

(* Money is given back together with the event that takes the units back
   (cancel_order): an order is never REFUNDED without orders.cancelled written. *)
THEOREM RefundsAreAnnounced == Spec => []RefundIsAnnounced
<1>1. Init => RefundIsAnnounced
  BY DEF Init, RefundIsAnnounced
<1> QED
  BY <1>1, RefundStep, TypeCorrect, PTL DEF Spec

-----------------------------------------------------------------------------
(* Ended orders *)

\* What moves an order that has ended, and a cancellation that does is done with.
Moved(o) ==
  \/ status'[o] = "CONFIRMED" /\ <<"payments.confirmed", o>> \in sent
  \/ status'[o] = "RIDER_ASSIGNED"
  \/ status'[o] = "READY_FOR_PICKING" /\ o \in picking
  \/ status'[o] = "CANCELLED" /\ cancelling[o] # "NO" /\ cancelling'[o] = "NO"

LEMMA EndedStep ==
  ASSUME TypeOK, [Next]_vars, NEW p \in Orders, status[p] \in Terminal,
         status'[p] # status[p]
  PROVE  Moved(p)
<1> USE TerminalIs
<1>1. CASE UNCHANGED vars
  BY <1>1 DEF vars
<1>2. ASSUME NEW o \in Orders, <<"payments.confirmed", o>> \in sent, ConfirmOrderPayment(o)
      PROVE  Moved(p)
  BY <1>2 DEF ConfirmOrderPayment, SetStatus, Moved, TypeOK
<1>3. ASSUME NEW o \in Orders, Request(o) PROVE Moved(p)
  <2>1. CASE HandleWebhook(o) \/ CancelLoad(o) \/ RiderLostLoad(o) \/ RiderLostCommit(o)
    BY <2>1 DEF HandleWebhook, CancelLoad, RiderLostLoad, RiderLostCommit
  <2>2. CASE PlaceOrder(o)
    BY <2>2 DEF PlaceOrder, Placed, SetStatus, TypeOK
  <2>3. ASSUME NEW s \in Status, UpdateOrderStatus(o, s) PROVE Moved(p)
    BY <2>3 DEF UpdateOrderStatus, SetStatus, TypeOK
  <2>4. CASE CancelCommit(o)
    BY <2>4 DEF CancelCommit, SetStatus, Moved, TypeOK
  <2>5. ASSUME NEW w \in Waves, NEW counted \in BOOLEAN, CompleteTask(w, o, counted)
        PROVE  Moved(p)
    BY <2>5 DEF CompleteTask, TypeOK
  <2>6. CASE AcceptOrder(o)
    BY <2>6 DEF AcceptOrder, SetStatus, Moved, TypeOK
  <2>7. CASE PickupOrder(o) \/ StartTransit(o) \/ DeliverOrder(o)
    BY <2>7 DEF PickupOrder, StartTransit, DeliverOrder, Deliver, SetStatus, TypeOK
  <2>8. CASE FailDelivery(o)
    BY <2>8 DEF FailDelivery, SetStatus, TypeOK
  <2> QED
    BY <1>3, <2>1, <2>2, <2>3, <2>4, <2>5, <2>6, <2>7, <2>8 DEF Request
<1>4. ASSUME NEW w \in Waves, GenerateWaveCommit(w) PROVE Moved(p)
  BY <1>4 DEF GenerateWaveCommit, Moved, TypeOK
<1>5. CASE GenerateWaveLoad \/ (\E B \in SUBSET Orders : AcceptBatch(B))
             \/ (\E event \in sent : Read(event))
  BY <1>5 DEF GenerateWaveLoad, AcceptBatch, Read
<1> QED
  BY <1>1, <1>2, <1>3, <1>4, <1>5 DEF Next, Api

\* A wave and a cancellation that hold an order which has ended had read it before
\* it did, but for the cancellation of a RETURNED one.
RacesAreKnown ==
  \A o \in Orders : status[o] \in Terminal =>
    /\ o \in picking => <<"wave", o>> \in overtaken
    /\ cancelling[o] # "NO" => <<"cancel", o>> \in overtaken \/ status[o] = "RETURNED"

\* What a wave and a cancellation may read.
LEMMA ReadStep ==
  ASSUME TypeOK, [Next]_vars, NEW p \in Orders
  PROVE  /\ p \in picking' /\ p \notin picking => status'[p] = "CONFIRMED"
         /\ cancelling'[p] # "NO" /\ cancelling[p] = "NO" =>
              status'[p] \notin {"CANCELLED", "FAILED"}
<1> DEFINE Fine == /\ p \in picking' /\ p \notin picking => status'[p] = "CONFIRMED"
                   /\ cancelling'[p] # "NO" /\ cancelling[p] = "NO" =>
                        status'[p] \notin {"CANCELLED", "FAILED"}
<1>1. CASE UNCHANGED vars
  BY <1>1 DEF vars, wave
<1>2. ASSUME NEW o \in Orders, CancelLoad(o) PROVE Fine
  BY <1>2 DEF CancelLoad, wave, TypeOK
<1>3. ASSUME NEW o \in Orders, CancelCommit(o) PROVE Fine
  BY <1>3 DEF CancelCommit, wave, TypeOK
<1>4. ASSUME NEW o \in Orders, Request(o), ~CancelLoad(o), ~CancelCommit(o) PROVE Fine
  BY <1>4 DEF Request, PlaceOrder, HandleWebhook, UpdateOrderStatus, CompleteTask,
     AcceptOrder, PickupOrder, StartTransit, DeliverOrder, Deliver, FailDelivery,
     RiderLostLoad, RiderLostCommit, wave
<1>5. CASE GenerateWaveLoad
  BY <1>5 DEF GenerateWaveLoad
<1>6. CASE (\E w \in Waves : GenerateWaveCommit(w)) \/ (\E B \in SUBSET Orders : AcceptBatch(B))
             \/ (\E event \in sent : Read(event)) \/ (\E o \in Orders : ConfirmOrderPayment(o))
  BY <1>6 DEF GenerateWaveCommit, AcceptBatch, Read, ConfirmOrderPayment, wave
<1> QED
  BY <1>1, <1>2, <1>3, <1>4, <1>5, <1>6 DEF Next, Api

\* A handler that holds an order when it ends is remembered.
LEMMA NoteStep ==
  ASSUME Note, NEW h \in InHand, h \in InHand', h \in overtaken \/ Ends(h[2])
  PROVE  h \in overtaken'
BY DEF Note

LEMMA RacesStep == TypeOK /\ RacesAreKnown /\ [Next]_vars => RacesAreKnown'
<1> SUFFICES ASSUME TypeOK, RacesAreKnown, [Next]_vars, NEW p \in Orders,
                    status'[p] \in Terminal
             PROVE  /\ p \in picking' => <<"wave", p>> \in overtaken'
                    /\ cancelling'[p] # "NO" =>
                         <<"cancel", p>> \in overtaken' \/ status'[p] = "RETURNED"
  BY DEF RacesAreKnown, Terminal
<1>1. CASE UNCHANGED vars
  BY <1>1 DEF vars, wave, RacesAreKnown
<1>2. ASSUME Note, p \in picking' PROVE <<"wave", p>> \in overtaken'
  <2>1. p \in picking
    BY <1>2, ReadStep, TerminalIs
  <2>2. <<"wave", p>> \in InHand /\ <<"wave", p>> \in InHand'
    BY <1>2, <2>1 DEF InHand
  <2>3. <<"wave", p>> \in overtaken \/ Ends(<<"wave", p>>[2])
    BY <2>1 DEF RacesAreKnown, Ends
  <2> QED
    BY <1>2, <2>2, <2>3, NoteStep
<1>3. ASSUME Note, cancelling'[p] # "NO", status'[p] # "RETURNED"
      PROVE  <<"cancel", p>> \in overtaken'
  <2>1. cancelling[p] # "NO"
    BY <1>3, ReadStep, TerminalIs
  <2>2. <<"cancel", p>> \in InHand /\ <<"cancel", p>> \in InHand'
    BY <1>3, <2>1 DEF InHand
  <2>3. status[p] \in Terminal => status[p] # "RETURNED"
    BY <1>3, EndedStep, TerminalIs DEF Moved
  <2>4. <<"cancel", p>> \in overtaken \/ Ends(<<"cancel", p>>[2])
    BY <2>1, <2>3 DEF RacesAreKnown, Ends
  <2> QED
    BY <1>3, <2>2, <2>4, NoteStep
<1> QED
  BY <1>1, <1>2, <1>3 DEF Next

(* Of all the handlers that write a status, only a late payment, a rider's
   acceptance, a wave or a cancellation that had read the order before it ended,
   and the cancellation of a RETURNED order move an order that has ended. *)
THEOREM EndedOrdersStay == Spec => EndedOrdersMoveByRacesOnly
<1>1. TypeOK /\ RacesAreKnown /\ [Next]_vars =>
        [\A o \in Orders : status[o] \in Terminal /\ status'[o] # status[o] =>
           \/ status'[o] = "CONFIRMED" /\ <<"payments.confirmed", o>> \in sent
           \/ status'[o] = "RIDER_ASSIGNED"
           \/ status'[o] = "READY_FOR_PICKING" /\ <<"wave", o>> \in overtaken
           \/ status'[o] = "CANCELLED" /\ <<"cancel", o>> \in overtaken
           \/ status'[o] = "CANCELLED" /\ status[o] = "RETURNED"]_vars
  BY EndedStep DEF Moved, RacesAreKnown
<1>2. Init => RacesAreKnown
  BY DEF Init, RacesAreKnown
<1> QED
  BY <1>1, <1>2, RacesStep, TypeCorrect, PTL DEF Spec, EndedOrdersMoveByRacesOnly

-----------------------------------------------------------------------------
(* The composition implements the inventory *)

\* The steps that leave the inventory alone.
LEMMA OrderSteps ==
  UNCHANGED store => UNCHANGED Stock!vars
BY DEF store, Stock!vars, Stock!stock, Stock!session, Stock!history

\* A step of the API on the inventory is a step of Inventory.
LEMMA RequestSteps ==
  StockRequest => Stock!Next
BY DEF StockRequest, Stock!Next

\* An allocation of an order is one, whoever asks for it.
LEMMA AllocationSteps ==
  ASSUME NEW o \in Orders, Allocate(o)
  PROVE  Stock!Next
BY DEF Allocate, Stock!Next

\* The steps of the consumer and the API that handle one order.
LEMMA MessageSteps ==
  ASSUME NEW o \in Orders,
         \/ RequestAllocation(o)
         \/ TakePayment(o)
         \/ ConfirmPayment(o)
         \/ AllocatePaid(o)
         \/ SkipAllocation(o)
         \/ TakeOutcome(o, "orders.cancelled", "CANCELLED")
         \/ TakeOutcome(o, "picking.task_completed", "COMPLETED")
         \/ LoseCancellation(o)
         \/ FailPayment(o)
  PROVE  Stock!Next \/ UNCHANGED Stock!vars
<1>1. CASE RequestAllocation(o)
  BY <1>1, AllocationSteps DEF RequestAllocation
<1>2. CASE TakePayment(o)
  BY <1>2, OrderSteps DEF TakePayment
<1>3. CASE ConfirmPayment(o)
  BY <1>3, OrderSteps DEF ConfirmPayment
<1>4. CASE AllocatePaid(o)
  BY <1>4, AllocationSteps DEF AllocatePaid
<1>5. CASE SkipAllocation(o)
  BY <1>5, OrderSteps DEF SkipAllocation
<1>6. CASE TakeOutcome(o, "orders.cancelled", "CANCELLED")
  BY <1>6 DEF TakeOutcome, Stock!Next
<1>7. CASE TakeOutcome(o, "picking.task_completed", "COMPLETED")
  BY <1>7 DEF TakeOutcome, Stock!Next
<1>8. CASE LoseCancellation(o)
  BY <1>8, OrderSteps DEF LoseCancellation
<1>9. CASE FailPayment(o)
  BY <1>9, OrderSteps DEF FailPayment
<1> QED
  BY <1>1, <1>2, <1>3, <1>4, <1>5, <1>6, <1>7, <1>8, <1>9

\* Every step is one of the inventory or leaves it alone.
LEMMA StepSimulation ==
  [FulfilmentNext]_all => [Stock!Next]_(Stock!vars)
<1> SUFFICES ASSUME [FulfilmentNext]_all
             PROVE  Stock!Next \/ UNCHANGED Stock!vars
  OBVIOUS
<1>1. CASE OrderRequest
  BY <1>1, OrderSteps DEF OrderRequest
<1>2. CASE StockRequest
  BY <1>2, RequestSteps
<1>3. ASSUME NEW o \in Orders,
             \/ RequestAllocation(o)
             \/ TakePayment(o)
             \/ ConfirmPayment(o)
             \/ AllocatePaid(o)
             \/ SkipAllocation(o)
             \/ TakeOutcome(o, "orders.cancelled", "CANCELLED")
             \/ TakeOutcome(o, "picking.task_completed", "COMPLETED")
             \/ LoseCancellation(o)
             \/ FailPayment(o)
      PROVE  Stock!Next \/ UNCHANGED Stock!vars
  BY <1>3, MessageSteps
<1>4. CASE FailOutcome
  BY <1>4 DEF FailOutcome, Stock!Next, Stock!Sessions
<1>5. CASE UNCHANGED all
  BY <1>5, OrderSteps DEF all
<1> QED
  BY <1>1, <1>2, <1>3, <1>4, <1>5 DEF FulfilmentNext

\* The inventory behaves the same when its messages come from real orders: the
\* composition implements it.
THEOREM ImplementsInventory ==
  FulfilmentSpec => Stock!Spec
<1>1. FulfilmentInit => Stock!Init
  BY DEF FulfilmentInit
<1> QED
  BY <1>1, StepSimulation, PTL DEF FulfilmentSpec, Stock!Spec

-----------------------------------------------------------------------------
(* The composition implements the orders *)

\* The consumer confirms payments it was told of only.
HandledWasSent ==
  \A o \in Orders : handling = <<"CONFIRM", o>> => <<"payments.confirmed", o>> \in sent

\* What a step of the composition is to the orders and to the consumer.
LEMMA OrdersSteps ==
  ASSUME [FulfilmentNext]_all
  PROVE  \/ UNCHANGED vars /\ \A o \in Orders : handling' # <<"CONFIRM", o>> \/ handling' = handling
         \/ /\ Note
            /\ \/ Api /\ UNCHANGED handling
               \/ \E event \in sent : Read(event) /\ UNCHANGED handling
               \/ \E o \in Orders : TakePayment(o) \/ ConfirmPayment(o)
<1>1. CASE UNCHANGED all
  BY <1>1 DEF all
<1>2. CASE OrderRequest \/ StockRequest \/ FailOutcome
  BY <1>2 DEF OrderRequest, StockRequest, FailOutcome, FulfilmentNext, all, vars
<1>3. ASSUME NEW o \in Orders, RequestAllocation(o)
      PROVE  UNCHANGED vars /\ handling' = handling
  BY <1>3 DEF RequestAllocation
<1>4. ASSUME NEW o \in Orders, AllocatePaid(o) \/ SkipAllocation(o) \/ FailPayment(o)
      PROVE  UNCHANGED vars /\ handling' = NoMessage
  BY <1>4 DEF AllocatePaid, SkipAllocation, FailPayment
<1>5. ASSUME NEW o \in Orders,
             \/ TakeOutcome(o, "orders.cancelled", "CANCELLED")
             \/ TakeOutcome(o, "picking.task_completed", "COMPLETED")
             \/ LoseCancellation(o)
      PROVE  \E event \in sent : Read(event) /\ UNCHANGED handling
  BY <1>5 DEF TakeOutcome, LoseCancellation, Read
<1>6. \A o \in Orders : NoMessage # <<"CONFIRM", o>>
  BY DEF NoMessage
<1> QED
  BY <1>1, <1>2, <1>3, <1>4, <1>5, <1>6 DEF FulfilmentNext

LEMMA ApiKeepsEvents == ASSUME Api PROVE sent \subseteq sent'
<1>1. ASSUME NEW o \in Orders, Request(o) PROVE sent \subseteq sent'
  BY <1>1 DEF Request, PlaceOrder, HandleWebhook, UpdateOrderStatus, CancelLoad,
     CancelCommit, CompleteTask, AcceptOrder, PickupOrder, StartTransit, DeliverOrder,
     Deliver, FailDelivery, RiderLostLoad, RiderLostCommit, Send, events
<1> QED
  BY <1>1 DEF Api, GenerateWaveLoad, GenerateWaveCommit, AcceptBatch, events

LEMMA HandledStep == HandledWasSent /\ [FulfilmentNext]_all => HandledWasSent' /\ [Next]_vars
<1> SUFFICES ASSUME HandledWasSent, [FulfilmentNext]_all
             PROVE  HandledWasSent' /\ [Next]_vars
  OBVIOUS
<1>1. CASE UNCHANGED vars /\ \A o \in Orders : handling' # <<"CONFIRM", o>> \/ handling' = handling
  BY <1>1 DEF HandledWasSent, vars, events
<1>2. CASE Note /\ Api /\ UNCHANGED handling
  BY <1>2, ApiKeepsEvents DEF HandledWasSent, Next
<1>3. ASSUME Note, NEW event \in sent, Read(event), UNCHANGED handling
      PROVE  HandledWasSent' /\ [Next]_vars
  BY <1>3 DEF Read, HandledWasSent, Next
<1>4. ASSUME Note, NEW o \in Orders, TakePayment(o)
      PROVE  HandledWasSent' /\ [Next]_vars
  BY <1>4 DEF TakePayment, Read, HandledWasSent, Next
<1>5. ASSUME Note, NEW o \in Orders, ConfirmPayment(o)
      PROVE  HandledWasSent' /\ [Next]_vars
  BY <1>5 DEF ConfirmPayment, ConfirmOrderPayment, HandledWasSent, Next, events
<1> QED
  BY <1>1, <1>2, <1>3, <1>4, <1>5, OrdersSteps

\* Handled by the consumer and with the inventory's locks in the way, the orders
\* behave as they do alone: what is proved of Orders holds of the composition.
THEOREM ImplementsOrders == FulfilmentSpec => Spec
<1>1. FulfilmentInit => Init /\ HandledWasSent
  BY DEF FulfilmentInit, HandledWasSent, NoMessage
<1> QED
  BY <1>1, HandledStep, PTL DEF FulfilmentSpec, Spec

-----------------------------------------------------------------------------
(* Cancelled orders give their units back *)

\* An order is refunded by its cancellation, and only a payment, which completes
\* it, or its placement brings it back to where it may be allocated.
RefundedIsOver ==
  \A o \in Orders : payment[o] = "REFUNDED" => status[o] \notin {"NONE", "PENDING", "CONFIRMED"}

LEMMA RefundedIsOverStep == TypeOK /\ RefundedIsOver /\ [Next]_vars => RefundedIsOver'
<1> SUFFICES ASSUME TypeOK, RefundedIsOver, [Next]_vars, NEW p \in Orders,
                    payment'[p] = "REFUNDED"
             PROVE  status'[p] \notin {"NONE", "PENDING", "CONFIRMED"}
  BY DEF RefundedIsOver
<1> DEFINE Over == status'[p] \notin {"NONE", "PENDING", "CONFIRMED"}
<1> USE StatusIs
<1>1. CASE UNCHANGED vars
  BY <1>1 DEF vars, RefundedIsOver
<1>2. ASSUME NEW o \in Orders, ConfirmOrderPayment(o) PROVE Over
  BY <1>2 DEF ConfirmOrderPayment, SetStatus, RefundedIsOver, TypeOK
<1>3. ASSUME NEW o \in Orders, Request(o) PROVE Over
  <2>1. CASE HandleWebhook(o) \/ CancelLoad(o) \/ RiderLostLoad(o) \/ RiderLostCommit(o)
    BY <2>1 DEF HandleWebhook, CancelLoad, RiderLostLoad, RiderLostCommit, RefundedIsOver
  <2>2. CASE PlaceOrder(o)
    BY <2>2 DEF PlaceOrder, Placed, SetStatus, RefundedIsOver, TypeOK
  <2>3. ASSUME NEW s \in Status, UpdateOrderStatus(o, s) PROVE Over
    <3>1. s # "NONE" /\ (status[o] # "PENDING" => s \notin {"PENDING", "CONFIRMED"})
      BY <2>3 DEF UpdateOrderStatus, Placed, TypeOK, VALID_ORDER_TRANSITIONS
    <3> QED
      BY <2>3, <3>1 DEF UpdateOrderStatus, Placed, SetStatus, RefundedIsOver, TypeOK
  <2>4. CASE CancelCommit(o)
    BY <2>4 DEF CancelCommit, SetStatus, RefundedIsOver, TypeOK
  <2>5. ASSUME NEW w \in Waves, NEW counted \in BOOLEAN, CompleteTask(w, o, counted)
        PROVE  Over
    BY <2>5 DEF CompleteTask, RefundedIsOver, TypeOK
  <2>6. CASE AcceptOrder(o)
    BY <2>6 DEF AcceptOrder, SetStatus, RefundedIsOver, TypeOK
  <2>7. CASE PickupOrder(o) \/ StartTransit(o) \/ DeliverOrder(o)
    BY <2>7 DEF PickupOrder, StartTransit, DeliverOrder, Deliver, SetStatus, RefundedIsOver, TypeOK
  <2>8. CASE FailDelivery(o)
    BY <2>8 DEF FailDelivery, SetStatus, RefundedIsOver, TypeOK
  <2> QED
    BY <1>3, <2>1, <2>2, <2>3, <2>4, <2>5, <2>6, <2>7, <2>8 DEF Request
<1>4. ASSUME NEW w \in Waves, GenerateWaveCommit(w) PROVE Over
  BY <1>4 DEF GenerateWaveCommit, RefundedIsOver, TypeOK
<1>5. CASE GenerateWaveLoad \/ (\E B \in SUBSET Orders : AcceptBatch(B))
             \/ (\E event \in sent : Read(event))
  BY <1>5 DEF GenerateWaveLoad, AcceptBatch, Read, RefundedIsOver
<1> QED
  BY <1>1, <1>2, <1>3, <1>4, <1>5 DEF Next, Api

\* The columns of the inventory that the releases rest on.
Columns ==
  /\ resv = [r \in ResIds |-> [status |-> resv[r].status, item |-> resv[r].item,
                               quantity |-> resv[r].quantity, order |-> resv[r].order]]
  /\ op \in [Stock!Sessions -> {"IDLE"} \cup Stock!Settled]
  /\ todo \in [Stock!Sessions -> SUBSET ResIds]

\* A settlement writes the status, and no status that is PENDING or FREE.
LEMMA SettleColumns ==
  ASSUME Columns, NEW R \in SUBSET ResIds, NEW turn, NEW outcome,
         Stock!Settle(R, turn, outcome)
  PROVE  /\ resv' = [r \in ResIds |-> [status |-> resv'[r].status, item |-> resv'[r].item,
                               quantity |-> resv'[r].quantity, order |-> resv'[r].order]]
         /\ \A r \in ResIds : /\ resv'[r].order = resv[r].order
                              /\ r \notin R => resv'[r].status = resv[r].status
                              /\ r \in R => resv'[r].status = outcome
BY DEF Columns, Stock!Settle

LEMMA ColumnsStep == Columns /\ [Stock!Next]_(Stock!vars) => Columns'
<1> SUFFICES ASSUME Columns, [Stock!Next]_(Stock!vars) PROVE Columns'
  OBVIOUS
<1> USE DEF Stock!Sessions, Stock!Settled
<1>1. CASE UNCHANGED Stock!vars
  BY <1>1 DEF Stock!vars, Stock!session, Columns
<1>2. ASSUME NEW i, NEW q, Stock!AddStock(i, q) PROVE Columns'
  BY <1>2 DEF Stock!AddStock, Stock!session, Columns
<1>3. ASSUME NEW R, NEW line, NEW turn, NEW o, Stock!ReserveLines(R, line, turn, o)
      PROVE  Columns'
  BY <1>3 DEF Stock!ReserveLines, Stock!session, Columns
<1>4. ASSUME NEW r \in ResIds, Stock!ReleaseReservation(r) PROVE Columns'
  BY <1>4, SettleColumns DEF Stock!ReleaseReservation, Stock!session, Columns
<1>5. ASSUME NEW r \in ResIds, Stock!Expire(r) PROVE Columns'
  BY <1>5 DEF Stock!Expire, Stock!session, Columns
<1>6. ASSUME NEW s \in Stock!Sessions, NEW outcome \in Stock!Settled, NEW R \in SUBSET ResIds,
             Stock!Load(s, outcome, R)
      PROVE  Columns'
  BY <1>6 DEF Stock!Load, Columns
<1>7. ASSUME NEW s \in Stock!Sessions, NEW r \in ResIds, Stock!SettleOne(s, r) PROVE Columns'
  BY <1>7, SettleColumns DEF Stock!SettleOne, Columns
<1>8. ASSUME NEW c \in Clerks, Stock!ClerkCommit(c) PROVE Columns'
  <2>1. todo[c] \in SUBSET ResIds
    BY DEF Columns
  <2> QED
    BY <1>8, <2>1, SettleColumns DEF Stock!ClerkCommit, Columns
<1>9. ASSUME NEW s \in Stock!Sessions, Stock!Finish(s) \/ Stock!Abandon(s) PROVE Columns'
  BY <1>9 DEF Stock!Finish, Stock!Abandon, Columns
<1>10. CASE Stock!SweepLoad
  BY <1>6, <1>10 DEF Stock!SweepLoad
<1>11. ASSUME NEW o \in Orders, NEW outcome \in {"CANCELLED", "COMPLETED"},
              Stock!ConsumerLoad(o, outcome)
       PROVE  Columns'
  <2>1. outcome \in Stock!Settled /\ Stock!PendingOfOrder(o) \in SUBSET ResIds
    BY DEF Stock!PendingOfOrder
  <2>2. Stock!Load(Consumer, outcome, Stock!PendingOfOrder(o))
    BY <1>11 DEF Stock!ConsumerLoad
  <2> QED
    BY <1>6, <2>1, <2>2
<1>12. ASSUME NEW c \in Clerks, NEW o \in Orders, Stock!ClerkLoad(c, o) PROVE Columns'
  BY <1>6, <1>12 DEF Stock!ClerkLoad, Stock!PendingOfOrder
<1>13. ASSUME NEW i, NEW q, NEW o, NEW r, Stock!ReserveStock(i, q, o, r) PROVE Columns'
  BY <1>3, <1>13 DEF Stock!ReserveStock
<1>14. ASSUME NEW o, NEW R, NEW line, NEW turn, Stock!AllocateOrder(o, R, line, turn)
       PROVE  Columns'
  BY <1>3, <1>14 DEF Stock!AllocateOrder
<1> QED
  BY <1>1, <1>2, <1>4, <1>5, <1>7, <1>8, <1>9, <1>10, <1>11, <1>12, <1>13, <1>14 DEF Stock!Next

\* What the consumer will hear of, or has heard of and forgotten, and what it is
\* about to release.
Announced(o) == <<"orders.cancelled", o>> \in unread \/ o \in dropped
Loaded(r) == op[Consumer] = "CANCELLED" /\ r \in todo[Consumer]

\* A refunded order that is about to be allocated is still to be released: the
\* consumer, which handles its payment, cannot have read the cancellation.  No
\* other refunded order is allocated, and the units it holds are on their way.
IRelease ==
  /\ allocated \subseteq ResIds
  /\ \A r \in allocated : resv[r].status # "FREE"
  /\ \A o \in Orders : payment[o] = "REFUNDED" =>
       /\ handling = <<"ALLOCATE", o>> => Announced(o)
       /\ \A r \in Live(o) : Announced(o) \/ Loaded(r)

LEMMA InitRelease == FulfilmentInit => IRelease /\ Columns
BY DEF FulfilmentInit, Init, Stock!Init, IRelease, Columns, Stock!Unused, Stock!Sessions,
   Live, NoMessage

\* What keeps the releases on their way in the inventory: nothing that is held
\* for an order becomes free or pending, or falls out of the consumer's hands
\* before it is settled.
Keeps(r) ==
  /\ resv'[r].status # "FREE"
  /\ resv'[r].status = "PENDING" =>
       /\ resv[r].status = "PENDING" /\ resv'[r].order = resv[r].order
       /\ Loaded(r) => Loaded(r)'

LEMMA StockRequestKeeps ==
  ASSUME Columns, IRelease, StockRequest, NEW r \in allocated
  PROVE  Keeps(r)
<1>0. r \in ResIds /\ resv[r].status # "FREE"
  BY DEF IRelease
<1>1. ASSUME UNCHANGED resv, Loaded(r) => Loaded(r)' PROVE Keeps(r)
  BY <1>0, <1>1 DEF Keeps
<1>2. ASSUME NEW i \in Items, NEW q \in Quantities, Stock!AddStock(i, q) PROVE Keeps(r)
  BY <1>1, <1>2 DEF Stock!AddStock, Stock!session, Loaded
<1>3. ASSUME NEW i \in Items, NEW q \in Quantities, NEW o \in Orders \cup {NoOrder},
             NEW x \in ResIds, Stock!ReserveStock(i, q, o, x)
      PROVE  Keeps(r)
  BY <1>0, <1>3 DEF Stock!ReserveStock, Stock!ReserveLines, Stock!session, Loaded, Keeps
<1>4. ASSUME NEW x \in ResIds, Stock!ReleaseReservation(x) PROVE Keeps(r)
  <2>1. Stock!Settle({x}, Stock!Alone(x), "CANCELLED") /\ {x} \in SUBSET ResIds /\ UNCHANGED <<op, todo>>
    BY <1>4 DEF Stock!ReleaseReservation, Stock!session
  <2>2. /\ resv'[r].order = resv[r].order
        /\ r # x => resv'[r].status = resv[r].status
        /\ r = x => resv'[r].status = "CANCELLED"
    BY <1>0, <2>1, SettleColumns
  <2> QED
    BY <1>0, <2>1, <2>2 DEF Keeps, Loaded
<1>5. ASSUME NEW x \in ResIds, Stock!Expire(x) PROVE Keeps(r)
  BY <1>1, <1>5 DEF Stock!Expire, Stock!session, Loaded
<1>6. ASSUME NEW s, NEW outcome, NEW R, Stock!Load(s, outcome, R) PROVE Keeps(r)
  <2>1. Loaded(r) => s # Consumer
    BY <1>6 DEF Stock!Load, Loaded
  <2> QED
    BY <1>1, <1>6, <2>1 DEF Stock!Load, Loaded, Columns, Stock!Sessions
<1>7. ASSUME NEW s \in Stock!Sessions, NEW x \in ResIds, Stock!SettleOne(s, x) PROVE Keeps(r)
  <2>1. Stock!Settle({x}, Stock!Alone(x), op[s]) /\ {x} \in SUBSET ResIds /\ op[s] \notin {"FREE", "PENDING"}
    BY <1>7 DEF Stock!SettleOne, Columns, Stock!Settled
  <2>2. r # x /\ Loaded(r) => Loaded(r)'
    BY <1>7 DEF Stock!SettleOne, Loaded, Columns, Stock!Sessions
  <2>3. /\ resv'[r].order = resv[r].order
        /\ r # x => resv'[r].status = resv[r].status
        /\ r = x => resv'[r].status = op[s]
    BY <1>0, <2>1, SettleColumns
  <2> QED
    BY <1>0, <2>1, <2>2, <2>3 DEF Keeps
<1>8. ASSUME NEW c \in Clerks, Stock!ClerkCommit(c) PROVE Keeps(r)
  <2>1. /\ c \in Stock!Sessions /\ todo[c] \in SUBSET ResIds
        /\ \E turn \in Stock!Orderings(todo[c]) : Stock!Settle(todo[c], turn, op[c])
        /\ op[c] \notin {"FREE", "PENDING"}
    BY <1>8 DEF Stock!ClerkCommit, Columns, Stock!Settled, Stock!Sessions
  <2>2. r \notin todo[c] /\ Loaded(r) => Loaded(r)'
    BY <1>8, <2>1 DEF Stock!ClerkCommit, Loaded, Columns, Stock!Sessions
  <2> QED
    BY <1>0, <2>1, <2>2, SettleColumns DEF Keeps
<1>9. ASSUME NEW s \in Stock!Sessions, Stock!Finish(s) PROVE Keeps(r)
  BY <1>1, <1>9 DEF Stock!Finish, Loaded, Columns, Stock!Sessions
<1>10. ASSUME NEW s \in Stock!Sessions \ {Consumer}, Stock!Abandon(s) PROVE Keeps(r)
  BY <1>1, <1>10 DEF Stock!Abandon, Loaded, Columns, Stock!Sessions
<1> QED
  BY <1>2, <1>3, <1>4, <1>5, <1>6, <1>7, <1>8, <1>9, <1>10
     DEF StockRequest, Stock!SweepLoad, Stock!ClerkLoad

\* A step that takes nothing back of what was announced, refunds an order only
\* with an announcement and keeps what is held keeps the invariant.
LEMMA KeepsRelease ==
  ASSUME IRelease,
         UNCHANGED allocated, \A r \in allocated : Keeps(r),
         \A o \in Orders : Announced(o) => Announced(o)',
         \A o \in Orders : payment'[o] = "REFUNDED" => payment[o] = "REFUNDED" \/ Announced(o)',
         \A o \in Orders : handling' = <<"ALLOCATE", o>> =>
           handling = handling' \/ payment'[o] # "REFUNDED"
  PROVE  IRelease'
<1>1. allocated' \subseteq ResIds /\ \A r \in allocated' : resv'[r].status # "FREE"
  BY DEF IRelease, Keeps
<1>2. ASSUME NEW o \in Orders, payment'[o] = "REFUNDED", ~Announced(o)'
      PROVE  handling' # <<"ALLOCATE", o>> /\ \A r \in Live(o)' : Loaded(r)'
  <2>1. payment[o] = "REFUNDED" /\ ~Announced(o)
    BY <1>2
  <2>2. ASSUME NEW r \in Live(o)' PROVE r \in allocated /\ r \in Live(o) /\ Keeps(r) /\ Loaded(r)'
    BY <2>1, <2>2 DEF Live, Stock!PendingOfOrder, Stock!Pending, Keeps, IRelease
  <2> QED
    BY <1>2, <2>1, <2>2 DEF IRelease
<1> QED
  BY <1>1, <1>2 DEF IRelease

\* What a call of the API does to payments and events.
LEMMA ApiAnnounces ==
  ASSUME TypeOK, Api, NEW p \in Orders
  PROVE  /\ unread \subseteq unread'
         /\ payment'[p] = "REFUNDED" =>
              payment[p] = "REFUNDED" \/ <<"orders.cancelled", p>> \in unread'
<1> DEFINE Fine == /\ unread \subseteq unread'
                   /\ payment'[p] = "REFUNDED" =>
                        payment[p] = "REFUNDED" \/ <<"orders.cancelled", p>> \in unread'
<1>1. ASSUME NEW o \in Orders, CancelCommit(o) PROVE Fine
  BY <1>1 DEF CancelCommit, Send, TypeOK
<1>2. ASSUME NEW o \in Orders, Request(o), ~CancelCommit(o) PROVE Fine
  BY <1>2 DEF Request, PlaceOrder, HandleWebhook, UpdateOrderStatus, CancelLoad,
     CompleteTask, AcceptOrder, PickupOrder, StartTransit, DeliverOrder,
     Deliver, FailDelivery, RiderLostLoad, RiderLostCommit, Send, events
<1> QED
  BY <1>1, <1>2 DEF Api, GenerateWaveLoad, GenerateWaveCommit, AcceptBatch, events

\* An allocation gives new reservations to its order, and keeps the others.
LEMMA AllocateRelease ==
  ASSUME Columns, IRelease, NEW p \in Orders, Allocate(p), UNCHANGED <<vars, dropped>>,
         handling' = handling \/ handling' = NoMessage,
         payment[p] = "REFUNDED" => Announced(p)
  PROVE  IRelease'
<1>0. PICK R \in SUBSET ResIds : \E line \in [R -> Lines[p]] :
        \E turn \in Stock!Orderings(R) :
          Stock!AllocateOrder(p, R, line, turn) /\ allocated' = allocated \cup R
  BY DEF Allocate
<1>1. PICK line \in [R -> Lines[p]], turn \in Stock!Orderings(R) :
        Stock!AllocateOrder(p, R, line, turn) /\ allocated' = allocated \cup R
  BY <1>0
<1>2. \A r \in ResIds : /\ r \in R => resv[r].status = "FREE" /\ resv'[r].status = "PENDING"
                                        /\ resv'[r].order = p
                        /\ r \notin R => resv'[r] = resv[r]
  BY <1>1 DEF Stock!AllocateOrder, Stock!ReserveLines
<1>3. UNCHANGED <<op, todo, payment, unread, dropped>>
  BY <1>1 DEF Stock!AllocateOrder, Stock!ReserveLines, Stock!session, vars, events
<1>4. allocated' \subseteq ResIds /\ \A r \in allocated' : resv'[r].status # "FREE"
  BY <1>1, <1>2 DEF IRelease
<1>5. ASSUME NEW o \in Orders, payment'[o] = "REFUNDED", ~Announced(o)'
      PROVE  handling' # <<"ALLOCATE", o>> /\ \A r \in Live(o)' : Loaded(r)'
  <2>1. payment[o] = "REFUNDED" /\ ~Announced(o) /\ o # p
    BY <1>3, <1>5 DEF Announced
  <2>2. \A r \in Live(o)' : r \in Live(o)
    BY <1>1, <1>2, <2>1 DEF Live, Stock!PendingOfOrder, Stock!Pending
  <2> QED
    BY <1>3, <2>1, <2>2 DEF IRelease, Loaded, NoMessage
<1> QED
  BY <1>4, <1>5 DEF IRelease

\* A message that leads to a release or a confirmation is read while the consumer
\* has nothing else in hand; a cancellation's loads what is pending.
LEMMA TakeRelease ==
  ASSUME Columns, IRelease, NEW p \in Orders, NEW topic, NEW outcome,
         <<topic, outcome>> \in {<<"orders.cancelled", "CANCELLED">>,
                                 <<"picking.task_completed", "COMPLETED">>},
         TakeOutcome(p, topic, outcome)
  PROVE  IRelease'
<1>1. /\ op[Consumer] = "IDLE" /\ handling = NoMessage /\ handling' = NoMessage
      /\ UNCHANGED <<payment, allocated, dropped, resv>>
      /\ unread' = unread \ {<<topic, p>>}
      /\ op' = [op EXCEPT ![Consumer] = outcome]
      /\ todo' = [todo EXCEPT ![Consumer] = Stock!PendingOfOrder(p)]
  BY DEF TakeOutcome, ConsumerIsFree, Read, Stock!ConsumerLoad, Stock!Load
<1>2. op'[Consumer] = outcome /\ todo'[Consumer] = Stock!PendingOfOrder(p)
  BY <1>1 DEF Columns, Stock!Sessions
<1>3. allocated' \subseteq ResIds /\ \A r \in allocated' : resv'[r].status # "FREE"
  BY <1>1 DEF IRelease
<1>4. ASSUME NEW o \in Orders, payment'[o] = "REFUNDED", ~Announced(o)'
      PROVE  \A r \in Live(o)' : Loaded(r)'
  <2>1. payment[o] = "REFUNDED" /\ Live(o)' = Live(o)
    BY <1>1, <1>4 DEF Live, Stock!PendingOfOrder, Stock!Pending
  <2>2. CASE Announced(o)
    <3>1. topic = "orders.cancelled" /\ o = p
      BY <1>1, <1>4, <2>2 DEF Announced
    <3> QED
      BY <1>2, <2>1, <3>1 DEF Live, Loaded
  <2>3. CASE ~Announced(o)
    <3>1. Live(o) = {}
      BY <1>1, <2>1, <2>3 DEF IRelease, Loaded
    <3> QED
      BY <2>1, <3>1
  <2> QED
    BY <2>2, <2>3
<1>5. \A o \in Orders : handling' # <<"ALLOCATE", o>>
  BY <1>1 DEF NoMessage
<1> QED
  BY <1>3, <1>4, <1>5 DEF IRelease

LEMMA ReleaseStep ==
  ASSUME TypeOK, RefundedIsOver, Columns, IRelease, [FulfilmentNext]_all
  PROVE  IRelease'
<1>0. UNCHANGED <<resv, op, todo>> => \A r \in allocated : Keeps(r)
  BY DEF Keeps, Loaded, IRelease
<1>1. CASE UNCHANGED all
  BY <1>0, <1>1, KeepsRelease DEF all, vars, store, events, Announced
<1>2. CASE OrderRequest
  <2>1. UNCHANGED <<resv, op, todo, handling, allocated, dropped>> /\ Api
    BY <1>2 DEF OrderRequest, store
  <2>2. \A o \in Orders : /\ Announced(o) => Announced(o)'
                          /\ payment'[o] = "REFUNDED" => payment[o] = "REFUNDED" \/ Announced(o)'
    BY <2>1, ApiAnnounces DEF Announced
  <2>3. \A o \in Orders : handling' = <<"ALLOCATE", o>> => handling = handling'
    BY <2>1
  <2> QED
    BY <1>0, <2>1, <2>2, <2>3, KeepsRelease
<1>3. CASE StockRequest
  <2>1. UNCHANGED <<payment, unread, dropped, handling, allocated>>
    BY <1>3 DEF StockRequest, vars, events
  <2> QED
    BY <1>3, <2>1, StockRequestKeeps, KeepsRelease DEF Announced
<1>4. CASE FailOutcome
  <2>1. /\ UNCHANGED <<payment, unread, handling, allocated, resv>>
        /\ op'[Consumer] = "IDLE" /\ dropped \subseteq dropped'
        /\ op[Consumer] = "CANCELLED" => \A r \in todo[Consumer] : resv[r].order \in dropped'
    BY <1>4 DEF FailOutcome, Stock!Abandon, vars, events, Columns, Stock!Sessions
  <2>2. ASSUME NEW o \in Orders, payment'[o] = "REFUNDED", ~Announced(o)'
        PROVE  handling' # <<"ALLOCATE", o>> /\ Live(o)' = {}
    <3>1. payment[o] = "REFUNDED" /\ ~Announced(o) /\ Live(o)' = Live(o)
      BY <2>1, <2>2 DEF Announced, Live, Stock!PendingOfOrder, Stock!Pending
    <3>2. ASSUME NEW r \in Live(o) PROVE FALSE
      <4>1. Loaded(r) /\ resv[r].order = o
        BY <3>1, <3>2 DEF IRelease, Live, Stock!PendingOfOrder
      <4> QED
        BY <2>1, <2>2, <4>1 DEF Loaded, Announced
    <3> QED
      BY <2>1, <3>1, <3>2 DEF IRelease
  <2> QED
    BY <2>1, <2>2 DEF IRelease
<1>5. ASSUME NEW p \in Orders, RequestAllocation(p) PROVE IRelease'
  <2>1. payment[p] # "REFUNDED" /\ Allocate(p) /\ UNCHANGED <<vars, dropped, handling>>
    BY <1>5 DEF RequestAllocation, RefundedIsOver
  <2> QED
    BY <2>1, AllocateRelease
<1>6. ASSUME NEW p \in Orders, TakePayment(p) PROVE IRelease'
  <2>1. /\ UNCHANGED <<resv, op, todo, allocated, dropped, payment>>
        /\ unread' = unread \ {<<"payments.confirmed", p>>} /\ handling' = <<"CONFIRM", p>>
    BY <1>6 DEF TakePayment, Read, store
  <2> QED
    BY <1>0, <2>1, KeepsRelease DEF Announced
<1>7. ASSUME NEW p \in Orders, ConfirmPayment(p) PROVE IRelease'
  <2>1. /\ UNCHANGED <<resv, op, todo, allocated, dropped, unread>>
        /\ handling' = <<"ALLOCATE", p>>
        /\ payment' = [payment EXCEPT ![p] = "COMPLETED"]
    BY <1>7 DEF ConfirmPayment, ConfirmOrderPayment, store, events
  <2>2. \A o \in Orders : /\ payment'[o] = "REFUNDED" => payment[o] = "REFUNDED" \/ Announced(o)'
                          /\ handling' = <<"ALLOCATE", o>> => payment'[o] # "REFUNDED"
    BY <2>1 DEF TypeOK
  <2> QED
    BY <1>0, <2>1, <2>2, KeepsRelease DEF Announced
<1>8. ASSUME NEW p \in Orders, AllocatePaid(p) PROVE IRelease'
  <2>1. Allocate(p) /\ UNCHANGED <<vars, dropped>> /\ handling' = NoMessage
    BY <1>8 DEF AllocatePaid
  <2>2. payment[p] = "REFUNDED" => Announced(p)
    BY <1>8 DEF AllocatePaid, IRelease
  <2> QED
    BY <2>1, <2>2, AllocateRelease
<1>9. ASSUME NEW p \in Orders, SkipAllocation(p) \/ FailPayment(p) PROVE IRelease'
  <2>1. UNCHANGED <<resv, op, todo, allocated, dropped, payment, unread>> /\ handling' = NoMessage
    BY <1>9 DEF SkipAllocation, FailPayment, store, vars, events
  <2> QED
    BY <1>0, <2>1, KeepsRelease DEF Announced, NoMessage
<1>10. ASSUME NEW p \in Orders,
              \/ TakeOutcome(p, "orders.cancelled", "CANCELLED")
              \/ TakeOutcome(p, "picking.task_completed", "COMPLETED")
       PROVE  IRelease'
  BY <1>10, TakeRelease
<1>11. ASSUME NEW p \in Orders, LoseCancellation(p) PROVE IRelease'
  <2>1. /\ UNCHANGED <<resv, op, todo, allocated, handling, payment>>
        /\ unread' = unread \ {<<"orders.cancelled", p>>} /\ dropped' = dropped \cup {p}
    BY <1>11 DEF LoseCancellation, Read, store
  <2> QED
    BY <1>0, <2>1, KeepsRelease DEF Announced
<1> QED
  BY <1>1, <1>2, <1>3, <1>4, <1>5, <1>6, <1>7, <1>8, <1>9, <1>10, <1>11 DEF FulfilmentNext

(* The units of an order that is cancelled and refunded come back: whatever the
   API, the sweeper and the two transactions of a payment (process_message) do
   between the cancellation and its message, what is allocated to the order
   (allocate_order) is held until the consumer releases it, or hears of it. *)
THEOREM ReleasesAreOnTheirWay == FulfilmentSpec => []ReleaseIsOnItsWay
<1>1. Init => RefundedIsOver
  BY DEF Init, RefundedIsOver
<1>2. Spec => [](TypeOK /\ RefundedIsOver)
  BY <1>1, RefundedIsOverStep, TypeCorrect, PTL DEF Spec
<1>3. FulfilmentSpec => []Columns
  BY InitRelease, ColumnsStep, StepSimulation, PTL DEF FulfilmentSpec
<1>4. FulfilmentSpec => []IRelease
  BY <1>2, <1>3, InitRelease, ReleaseStep, ImplementsOrders, PTL DEF FulfilmentSpec
<1>5. IRelease => ReleaseIsOnItsWay
  BY DEF IRelease, ReleaseIsOnItsWay, Announced, Loaded
<1> QED
  BY <1>4, <1>5, PTL
=============================================================================
