# A TLA+ model of Accesco-IMS

Accesco-IMS is the back end of a quick-commerce operation: a FastAPI service
over PostgreSQL (`app/`), three worker processes beside it (`app/workers/`),
Kafka between them, and a separate Flask and MongoDB service for videos and ads
(`virtual-discovery/`). This directory holds TLA+ modules that model its
concurrent core, TLC configurations that check them on small instances, and
proofs that TLAPS checks for every value of the constants.

Paths below are relative to the repository.

## The system

| Part | State | Operations | Hard behaviour |
|---|---|---|---|
| Inventory (`app/modules/inventory`) | `inventory_items` (available, reserved), `inventory_reservations` | add stock, reserve, confirm, release | rows are locked, but the reservation objects are often read before; one transaction per reservation |
| Reservation sweeper (`app/workers/reservation_sweeper.py`) | none | release what has expired, every 10 s | races the consumer and the API; dies half-way |
| Orders (`app/modules/orders`) | `orders.status`, `payment_status` | place, change status, cancel, allocate, release, confirm payment | some handlers lock the row, some read and write it later |
| Payments (`app/modules/payments`) | none | webhook of the payment provider | repeated and late webhooks |
| Outbox (`app/core/events.py`, `app/workers/outbox_processor.py`) | `outbox_events` | write with the transaction; send in batches of 50 | a crash sends a batch again; a failed event is never retried |
| Kafka consumer (`app/workers/kafka_consumer.py`) | none | four topics, one message at a time | two transactions for a payment; redelivery; failures are dropped |
| Picking (`app/modules/picking`) | waves, tasks, items | generate a wave, assign, pick, complete | the last two tasks of a wave; a Redis lock with a timeout |
| Dispatch (`app/modules/dispatch`, `app/modules/riders`) | batches, offers, riders | ingest, offer, respond, deliver, sweep | offers that time out while they are answered; an ingestion that commits several times |
| Procurement and replenishment (`app/modules/procurement`, `app/modules/replenishment`) | purchase orders, recommendations | draft, receive, recommend, approve, convert | unlocked reads, a commit per item |
| Notifications (`app/modules/notifications`) | `notifications` | create, mark, delete | rows are announced after their commit |
| WebSocket manager (`app/modules/websocket`) | connections per user, a Redis channel | connect, broadcast, deliver | the sets change between two sends; instances restart and lose Redis |
| Ad billing and campaigns (`virtual-discovery/app`) | `campaigns`, `ad_impressions`, Redis | feed, view, click, budget, pause, resume | read-then-write without transactions |
| Video moderation and credits (`virtual-discovery/worker.py`, `ai_pipeline.py`, `ledger.py`) | `videos`, `credit_ledger`, files | upload, claim, moderate, transcode, decide, award | workers die and take each other's jobs; the monthly cap under snapshot isolation |
| Stores, products, communities, audit, auth, cart, rate limit, brands, reports | rows of their own | create, read, update, delete | little: nothing else depends on the order |
| User interfaces, forecasting, data scripts | | | outside the model |

The parts interact in three ways: by calls inside one database session (orders
call inventory), by rows they share (everything writes `orders.status`), and by
events: a handler writes an `OutboxEvent` in its transaction, the outbox
processor sends it to Kafka, and the consumer acts on `payments.confirmed`
(confirm and allocate), `orders.cancelled` (release), `picking.task_completed`
(deduct) and `inventory.low` (draft a purchase order).

What makes each part correct: stock is neither lost nor invented, and does not
stay held forever; an order's status and payment tell the truth; what a cancelled
order holds comes back; a wave is completed when it is picked, and only then; an
offer names a rider, and an order with a rider does not wait for another; an order of goods is
received once and in full; every client is told, once and in order, of what is
in the database and of nothing else; a view is paid for once, a cap holds, and
the books of a campaign agree; a video nobody could check is not approved, and
an approved one can be played and earns its credits once.

### Transactions, as the models see them

PostgreSQL runs at READ COMMITTED and the sessions are made with
`expire_on_commit=False, autoflush=False`. From this follow two rules used in
every module:

* a handler whose *first* read of a row is `SELECT ... FOR UPDATE` in a fresh
  session is one action: no one can interleave between its read and its commit;
* an object read *without* a lock stays in the session as it was. A later
  `FOR UPDATE` read of the same row locks it but returns that object with the
  attributes of the first read, since `populate_existing` is not used; the tests
  made on it are made on old data. Such a handler is a `...Load` action and a
  later `...Commit` or `Settle...` action, which writes whatever it had decided to.

## Modules

| Module | Models |
|---|---|
| `UnitSums` | the sum of quantities over a set (of reservations in `Inventory`, of users' rows in `Ads`), in a form that can be proved about |
| `Inventory` | rows, reservations, and the API, sweeper, consumer and release-order sessions that change them |
| `Orders` | the status and payment of an order and all their writers: order API, webhook, picking, dispatch |
| `Fulfilment` | `Orders`, which it extends, and an instance of `Inventory`, composed with the consumer over at-least-once and lossy messages |
| `Picking` | waves, their tasks and items, and the order statuses they write |
| `Outbox` | outbox rows, and any number of processors that send them in batches |
| `Delivery` | what becomes of an event that is announced; `Outbox` and `Realtime` implement it |
| `Dispatch` | offers, answers, batches, the steps of a delivery and the states of riders, with the sweep |
| `Procurement` | purchase orders and recommendations, the `inventory.low` handler, and the stock as far as buying sees it |
| `Realtime` | notifications, the sockets of every instance, the Redis channel and the deliveries |
| `Ads` | campaigns, the feed's choice of an ad, impressions, views and clicks |
| `Videos` | uploads, the workers' jobs, moderation, verdicts, credits and files |
| `InventoryProofs`, `FulfilmentProofs`, `PickingProofs`, `DeliveryProofs`, `DispatchProofs`, `ProcurementProofs`, `AdsProofs`, `VideosProofs` | theorems: those about `Orders` are in `FulfilmentProofs`, those about `Outbox` and `Realtime` in `DeliveryProofs` |
| `MC...` | an instance of each for TLC |

**Inventory.** `available` and `reserved` are the columns of `inventory_items`,
`resv` the table of reservations (`"FREE"`: the id is not used yet), `overdue`
those whose `expires_at` has passed. `op` and `todo` are what a session has
decided to write and the reservations it loaded as PENDING and has still to
settle. `AddStock`, `ReserveStock` and `ReleaseReservation` are the endpoints;
`AllocateOrder` is `allocate_order` (all lines in one transaction);
`ClerkLoad`/`ClerkCommit` are `release_order`, which holds the lock of the order
row in between, as `OrderIsFree` says; `SweepLoad`, `ConsumerLoad` and
`SettleOne` are the loops of the sweeper and the consumer, with a commit per
reservation. `Settle` writes an outcome without a test, because the code's test
is made on the loaded object. `Abandon` is a crash or an error that ends a
handler. `received`, `removed`, `releases` and `confirms` are histories; `emitted`
is the set of rows for which the last transaction wrote `inventory.low`, the only
inventory event that has a reader.

No schema, service, table or migration checks the sign of a quantity, so
`Quantities` are integers: `add_stock` of a negative one takes units, more than
there are if need be; a reservation of a negative one raises `available` and
makes `reserved` negative; and its release takes units and tests no level. Since
`max(0, reserved - quantity)` then depends on the order in which one transaction
settles several reservations, and a low-stock test on the order of an order's
lines, `AllocateOrder` and `ClerkCommit` take any order (`Orderings`), and
`WrittenOff` counts what `max` adds on the way.

**Orders.** One action per handler that writes `status`, `payment_status` or
`rider_id`. `CancelLoad`/`CancelCommit`, `GenerateWaveLoad`/`GenerateWaveCommit`
and `RiderLostLoad`/`RiderLostCommit` are handlers that read without a lock.
`overtaken` is a history: of the cancellations and waves that have read an order
and not written it (`InHand`), those that saw it end meanwhile (`Note`).
`sent` holds the events with a reader that were ever written, `unread` the ones
not read since they were last written: whatever is in `sent` may be delivered
again. `CompleteTask` may count a task as open that another picker is completing
at that moment (`counted`); which waves that leaves behind is a question for the
module `Picking`. Riders are reduced to whether an order has one.

**Fulfilment.** The variables of both, and `handling` (where the consumer is in
`payments.confirmed`). `TakePayment`, `ConfirmPayment` and `AllocatePaid` or
`SkipAllocation` are one message; the second transaction does not look at the
status of the order, because `allocate_order` gets the object that
`confirm_order_payment` left in the session. `LoseCancellation` is an event the
outbox marks FAILED, `FailPayment` and `FailOutcome` are handlers that end in an
error or a crash; `dropped` remembers the orders whose release was lost so. One
consumer process is assumed, which handles a message at a time.

**Picking.** A task is a pair of a wave and an order. `GenerateLoad` is the
unlocked read of `generate_wave`, `GenerateCommit` everything it writes.
`AssignTask` and `ExecutePick` are single steps, since they lock the task first;
the Redis lock around `assign_task` only turns requests away and is left out.
`CompleteCount` is `complete_task` up to its count of open tasks, `CompleteCommit`
the rest, with `_complete_wave` if nothing was counted; `closing` holds what was
counted, and stands for the lock on the task. `OtherHandler` is everybody else
who writes an order's status, at any time and to anything. `again` and `raced`
are histories of the two races. `Orders` has the same waves with less detail: its
`CompleteTask` takes the outcome of the count as given.

**Outbox.** `rows` is the status column of `outbox_events`; `batch`, `todo` and
`marked` are what a processor's session has selected, has still to send, and has
set to PROCESSED without having committed. `alive` says whether its transaction
holds the row locks, which `Locked` collects and `Free` skips. `Write` is a
handler's commit: events carry the time their transaction *began*
(`created_at` is `now()`), so an event may show up behind younger ones. `Publish`
and `PublishFails` are one turn of the loop, `Commit` the single commit at its
end. `BreakConnection` frees the locks while the processor goes on sending, as
it uses the connection again only for that commit, which then fails
(`Rollback`). `Crash` is the end of the process, which is started again.
`attempt` and `log` number the batches, so that the model can say which of them
sent an event, and `lost` those that never committed; no action reads `log`.
`Delivery` is the contract readers of events may count on; it is what
`Fulfilment` assumes of its messages (written, then read any number of times, or
lost when reported FAILED).

**Dispatch.** The columns of orders, batches and riders that dispatch writes.
`Ingest` is `ingest_new_order` up to the commit of the zone, which lets its lock
go; then an order is offered alone (`OfferSolo`) or looks for the batch of its
community (`LookUpBatch`), joins it or makes one, and offers it when it is full
(`CheckBatch`). Each of these steps writes what it has changed of objects it
loaded earlier, and nothing it left as it was (`Flush`).

Requests lock their order or batch, but read the rider with `db.get`, without a
lock: `respond_to_assignment` before it waits for the order, the steps of a
delivery after. `ReadRider` is such a read that is used later (`seen`), `Read`
one of now or of then, and `Put` the write, which leaves the rider alone if the
status it read is the one it wants, whatever it has become since. `Lock` is a
delivery step that holds its order and has read the rider (`serving`); the
others wait for the order (`Unlocked`), but anything may happen to the rider
until `PickupOrder`, `StartTransit`, `DeliverOrder` or `FailDelivery` commits, or
`Release` gives up. `AcceptOrder`, `DeclineOrder`, `AcceptBatch` and
`DeclineBatch` commit what is read of the order or batch under its lock.

The sweep locks nothing: `SweepOffer`/`TimeOut`, `SweepDraft`/`OfferDue`,
`SweepBatchOffer`/`TimeOutBatch` and `SweepRider`/`TakeOrder`/`OfferOrphan` are its
reads and its writes, one per commit. Its one session keeps the objects it
loaded: the orders of the draft batches it read first are to its later queries
what they were then (`AsLoaded`, `Holds`, the step `"loaded"` of `orphan`, until
`EndSweep`). `TakeOrder` takes one order of a silent rider and commits,
`OfferOrphan` offers it again from what the sweep has of it.

`crossed`, `declined`, `disturbed`, `blind` and `doubled`
are histories of who came between. Zone, distance, score, battery, shift and the
age of offers and heartbeats are any choice. What follows from the code and is
in no property: the members of a batch are counted from the collection that was
loaded before the order joined, so a batch is offered one order late;
a rider who is BATCHING or RETURNING gets offers it cannot accept; accepting a
batch leaves the status of its orders, which cannot be picked up until somebody
PATCHes them to RIDER_ASSIGNED; a rider who delivered the first of two orders
leaves the second PICKED_UP with no step to take; nothing offers an order again
whose offer timed out. The sweep runs on request only (`POST /dispatch/sweep`),
so no liveness is claimed.

**Procurement.** `ReceiveLoad` is the unlocked read of `receive_purchase_order`,
for the store the request names; `ReceiveItem` is one `add_stock` with its commit,
of which the first also commits RECEIVED. Stock and shortages are of a store and
a product, a purchase order names no store, so `AddStock` may fill one store
while another that is short stays so (`Elsewhere`). `Places` are the rows in view;
what is received anywhere else is not followed. Quantities have either sign, as in
`Inventory`: `ChangeStock` is `reserve_stock` or `add_stock` of any quantity, both of
which test the level, `ReleaseStock` a release, which does not. An order is created with
the status its caller gives, which nobody validates: `RECEIVED` is possible
(`born`), and any status but RECEIVED and CANCELLED is handled like DRAFT.
A product named twice in an order, and a row that a reception creates, are
abstracted from. `DecideLoad`/`DecideCommit` are approval and rejection,
`ConvertLoad`/`ConvertCommit` the conversion. `HandleLow` is the consumer's
`inventory.low` handler, whose message may come again; `LoseLow` a message the
outbox gave up or whose handler failed. `CheckStore` asks the ML engine (outside
the repository's back end, so any `Answer`) about each product; one failure
gives up the whole check. `raced`, `broken`, `born`, `untold` and `arrived` are histories.
(The client posts to `/api/v1/inventory/check`, as
`replenishment-engine/README.md` has it; `replenishment-api` offers
`/predict-replenishment` instead.)

**Realtime.** `Connect`, `Leave` and `Disconnect` are a socket's life as the
network and the endpoint see it. A delivery is a run of
`_deliver_to_local_clients`: it copies the users of its instance at the start
(`DeliveryOf`), turns to a user (`Reach`), awaits one send after another (`Send`)
and removes what failed (`Finish`, `Forget`). `Listen` is a turn of the Redis
listener, `ListenerBreaks` its end, after which nothing starts it again while
the instance still publishes: its clients hear nothing more. `CreateNotifications`,
`CommitNotifications`, `Broadcast` and `DeliverLocally` are a request that creates
notifications and announces each after its commit. `MarkLoad`/`MarkWrite`, `MarkMany` and `Delete`
are the other writers of a row. `send_to_user` has no caller and is left out;
`DELETE /notifications/read` is shadowed by `DELETE /notifications/{id}`, so
`delete_all_read` cannot be reached. A send has no timeout, so a delivery need
not end and no liveness is claimed. (Picking publishes `PICK_TASK_ASSIGNED`
and the `ORDER_STATUS_CHANGED` of a completed wave before its commit,
`picking/service.py:146` and `:315`, contrary to `websocket/events.py:28`;
`NotificationsAreDelivered` is about notifications.)

**Ads.** A request (`req`) reads and writes MongoDB and Redis step by step:
`Feed`, `Select`, `Record`, `Count` for an impression, `View`, `Find`,
`Record`, `Mark`, `Charge` for a view, `Click`, `Record`, `Count` for a click,
`FindPaused` and `Resume`. `SetBudget` and `Pause` are single updates. `Charge`
writes what the request read plus the cost of a view, so that overlapping views
lose charges (`raced`). `Fail` is a write that was not made, `LoseAnswer` one that
was made and whose answer was lost (`missed`); both end the request. One day of 24 hours, with Redis up: without it every view
is billed. Dates and scores of campaigns are any choice. The feed caches the list
of active campaigns for five minutes, an empty one too, so that a paused or
exhausted campaign goes on being shown, though `campaign.py:255` says "ads stop
appearing". The admin's approval endpoints end in a NameError
(`campaign.py:381`), so which campaigns have a video to show is a constant
(`Showable`).

**Videos.** `at` is where a worker is with its `job`; each action is a stretch of
`worker.py` between two writes. `Start` takes back everything in processing,
also from a worker that is still at it (`raced`). `Moderate` is the pipeline up
to its last check. What the models find in a video is a constant (`Flaws`); each
of them says so or fails (`Says`), and a failure counts as a failed check. Of the
sound there may be no word at all (`Unscored`): TorchServe is switched off, or it
answers 200 without `confidence_score`, which `ai_pipeline.py:291` takes as 0.0. So
the fail-safe of `torchserve_client.py:67` does not cover an answer without a score;
the repository's own handler always gives one. `unheard` remembers the videos that passed so.
`Transcode`, `Reject`, `RemoveOutput`, `Approve` and `Cleanup` write the files
and the verdict; `ReadEarned` and `AwardCredits` are the transaction of
`award_credits`, two of which overlap unless they insert the same video.
`Insert`, `Link` and `LinkFails` are the uploads. `VerdictFails`, `ClaimFails`,
`AwardFails`, `Raise` and `Die` are what can go wrong, each at most
`MaxTroubles` times together: a video that kills its worker every time would be
taken back for ever. The unique index made by `setup-db` is assumed; retention
and the change of the month are left out. What follows from the code and is in
no property: a database error while a video is approved removes its raw file, and
after a restart it is rejected as missing; an award that failed is never made
up for.

## Runs

| Run | Question | Bounds |
|---|---|---|
| `inventory` | quantities, holds, books, settlements, low-stock events under all interleavings | one row, two reservations, one order of two lines on that row, quantities -1, 1 and 2, one unit taken by `add_stock`, one release-order call, one failure |
| `inventory_sweep` | overdue stock comes back | two rows, an order on both, one crash |
| `inventory_oversold` | *violated*: the locks prevent anomalies | as `inventory`, no failures |
| `orders` | refunds are announced; how an ended order can move | one order, one wave, all statuses |
| `fulfilment` | stock of cancelled orders is on its way back | one order of one unit, one reservation, one wave, statuses up to `READY_FOR_DISPATCH`, one failure, any message lost |
| `outbox` | what the outbox delivers, how often, and that it settles every event | three events, two of them of one transaction, two processors, batches of two, one lost transaction |
| `picking` | what a completed wave means; the two races of waves | two orders, one of two units and one of two items, two waves, two pickers (waves and pickers symmetric) |
| `dispatch` | deliveries that can go on, offers with a rider, drafts, one rider at a time | two orders, two riders, two batches of one order, four requests, a load of one |
| `procurement` | goods arrive once and in full, a recommendation is bought once, shortages are known | two products, the first followed in two stores, two orders, one recommendation, two requests at once, changes of one unit either way, stock 0 or 1 |
| `realtime` | nobody is skipped, once and in order, the hub keeps the promise of `Delivery` | two instances, two sockets of one user at one of them, two notifications, two disturbances |
| `ads` | the books of a campaign, one charge a day, the frequency cap | one campaign, two users, two requests at once, four in all, a cap of two, budgets 1 and 2, one failure |
| `videos` | files, verdicts and credits, and that every video is decided | two videos of one user, one with a flaw in its sound, two workers, an award of two, a cap of three, one trouble |

Why the bounds are enough: the hazards of this code are races of two sessions
over one reservation, one row or one order, and two units make a partial
settlement visible. Two lines on one row are there because the test of the
second line sees what the first one took. Statuses after `READY_FOR_DISPATCH`
are left out of `fulfilment` (constant `Reach`), since neither allocation nor
the consumer tells them apart; `orders` has them all. Units received, units taken and crashes
are capped by `MaxReceived`, `MaxRemoved` and `MaxFailures`; nothing else is unbounded. The
view of `MCInventory` leaves out what nothing tells apart any more, such as the way
a reservation was settled but for how often and whether it was sold; the
view of `MCFulfilment` leaves out histories and `emitted`, which no action
reads, and which payments and picks are still unread, which decides nothing
since they may be read again at any time.

In `outbox` two processors and one broken connection are enough for the worst
case, in which both send the same event at the same time; a batch of two with
three events leaves one behind, and one batch can be sent in part. `MaxLost`
caps the transactions that are lost.

`dispatch` needs two of everything for an order to be answered by one rider while
it is offered to another and for two drafts to meet; four requests are an
ingestion of both, an answer and a sweep, or an ingestion, an unlocked read of the
rider, the answer that uses it and what came between (`ReadRider` counts as a
request). Orders begin PENDING and get READY by a PATCH. A batch is full with its first order
(`MaxBatch`), and managers are kept from moving orders and riders but to READY
and IDLE (`Reach`, `Forced`). `procurement` stops when the ids of orders run out
(no deadlock check); two requests are enough to read one row at once, and a lot of
two products can fail between its items, and the second store is where goods of
a shortage in the first may go. In `realtime` the second instance has no
clients, it only publishes: ordering needs two senders, the sets of sockets one
instance with two of them. `MaxUpsets` bounds departures, failures, restarts,
reads and deletions together. In `ads` two requests race, and four are enough
to race, to spend the budget and to exceed the cap. In `videos` an award and a
half reach the cap, so the last one has to be cut.

What the runs show:

* `NegativeStockPrevention`, `HoldIsCovered`: of a row whose reservations are of
  no negative quantity (`Positive`), `max(0, ...)` keeps `reserved` from going
  negative, what is reserved never exceeds the pending reservations, though a second
  settlement can make it *less*, and only `add_stock` can overdraw it. With a
  negative reservation neither holds: reserve -5 and +3 and release the +3, and
  0 is held over a pending sum of -5.
* `BooksBalance`: as long as none of its reservations was settled twice, every unit
  a row received is available, pending, sold or taken back, for any signs; what is
  reserved is what is pending, if no reservation is negative. `inventory_oversold`
  shows that one can be settled twice: the consumer
  loads a PENDING reservation, the API releases it, the consumer releases it
  again, and the row offers a unit it never received.
* `OutcomeChangesAreStale`, `SettlementsBounded`: that is the only way, and it
  can happen at most as often as sessions held the reservation.
* `LowStockAnnounced`: a step that takes units and ends at or below the reorder
  level writes `inventory.low` in its transaction, whatever the sign of its
  quantity, except for the release of a negative reservation, which tests no level.
* `OverdueIsSettled`: see fairness.
* `EndedOrdersMoveByRacesOnly`: a late payment and a rider's acceptance move an
  ended order (CANCELLED, FAILED or RETURNED); a wave or a cancellation only if it
  had read the order before it ended (`overtaken`). The exception needs no race:
  `cancel_order` does not list RETURNED, so that a returned order can be cancelled
  and refunded by a plain request.
* `ReleaseIsOnItsWay`: an order cancelled between the two transactions of its
  payment is allocated all the same, but its `orders.cancelled` event is then
  still unread, because the consumer is busy with the payment: the stock comes
  back, unless the event is lost. (Two things the same model allows are in no
  property. A reservation lasts 15 minutes whatever the order is doing; if it
  expires before the picking message is handled, the units go back on sale although
  they left the shelf. And the idempotency test of `allocate_order` sees only
  PENDING reservations: once they were deducted, a repeated payment reserves the
  units again.)
* `CompletedWavesArePicked`: what `complete_task` counted stays true until it
  commits: a COMPLETED wave has no open task and no item short.
* `OpenWavesRaced`: the count can be wrong the other way: two completions under
  way at once leave a wave whose tasks are all COMPLETED and that nobody will
  complete; its orders stay READY_FOR_PICKING until a manager changes them by hand.
* `OnePickPerOrder`: goods are picked twice only if two `generate_wave` overlap or
  another handler (a late payment, in `Orders`) makes the order CONFIRMED again.
* `ResentOnlyAfterLoss`: of all the batches that sent an event, at most one kept
  its transaction. So two processors never both send an event, and a FAILED one
  is never sent again, unless a crash or a broken connection came between.
* `ImplementsDelivery`: an event is sent only if its transaction committed, a
  PROCESSED event was sent, and reports are final. FAILED says nothing: the
  broker may have the event.
* `EverySettled`: see fairness.
* `NextStepIsOpen`: the handlers of a delivery move the order and its rider
  together, though none locks the rider, so the next one is refused only if something
  else moved the rider since the last of them read it: another order, an answer, a
  time-out, the sweep, or a manager. (The way there is short: an acceptance reads
  the rider as ASSIGNED, a time-out makes it IDLE, and the acceptance, for which
  nothing changed, leaves it so: an order RIDER_ASSIGNED that cannot be picked up.)
* `OffersNameRider`: an order on offer to nobody comes only of an answer or
  time-out between the read of the order and the write of what changed, or of a
  time-out that writes what its sweep had read before the offer.
* `OneOpenDraft`: two open drafts, with which every ingestion of the community
  fails, take an ingestion that had looked before the other draft was there, or a
  batch that came back to DRAFT.
* `OneRiderAtATime`: an order that has a rider does not wait for one, and an order
  that is assigned has one, unless its acceptance (alone or in a batch) crossed an
  ingestion or a sweep that was about to write what it had read before, or it was
  declined after somebody had it. So the tests that many handlers share keep an order
  of one rider from being offered to another, but for those two.
* `ReceivedOnceInFull`, `BoughtOnce`: two requests that had both read the row, or
  a reception that failed after its first item, are the only ways for goods to
  arrive twice or in part, or for a recommendation to be bought twice. A broken
  reception cannot be repeated: the order is RECEIVED. Neither can an order be
  received that was created RECEIVED (`schemas.py:20` takes any status): its goods
  never arrive.
* `ShortageIsKnown`: the messages, drafts and receptions that run at once leave no
  product at its reorder level in a store that nobody knows of, unless a message or
  a reception was lost, the product was received in another store, or the release of
  a negative reservation took it (`untold`): nothing reports it a second time.
* `NobodyIsSkipped`: sockets that come, leave and fail between two sends do not
  keep another client from an event.
* `OnceAndInOrder`: events of the Redis channel, as one listener awaits each
  delivery before it reads on. Events delivered without Redis may overtake them
  or come twice.
* `NotificationsAreDelivered`: the hub implements `Delivery`, with clients as readers
  and without reports: no client hears of a notification that was not committed.
* `BooksAgree`, `BilledOnceADay`, `CapIsExceededByRacesOnly`: the histories name
  the only ways out: overlapping requests of one user, a failed write, a charge or
  a resume written from an old read, a budget below what was spent.
* `FilesAreThere`, `VerdictIsFinal`: but for a job taken back from a worker that
  was still at it, which then decides after the other, and may remove the files of
  a video the other approved.
* `NothingUncleanIsApproved`: whatever fails on the way, in the frames, the transcript,
  the sound or the product, a video in which a model finds something is not
  approved, unless that is its sound and nobody scored it (`unheard`), or two workers
  were writing its files at once.
* `CreditsAreSound`: the unique index pays a video once, and only two
  awards at once exceed the cap: they insert different documents, so that, contrary
  to `ledger.py:18`, the transaction does not prevent it.
* `EveryVideoIsDecided`: see fairness.

Fairness: `inventory_sweep` assumes weak fairness of the sweeper's three steps.
Its `main` loops for ever and swallows every error of a sweep; nothing is
assumed of requests, messages or time. A crash is bounded (`MaxFailures`): a
sweeper that dies in every sweep settles nothing. `outbox` assumes the same of a
processor's loop, whose `main` polls for ever and whose every send ends in a
result or an exception, with transactions lost at most `MaxLost` times. `videos`
assumes it of each worker's steps (`Work`): the loop of `worker.py` polls for
ever, its commands end or time out, and its process is started again; uploads
and troubles are not fair. A video whose claim or verdict met a database error
stays in processing until some worker starts (`orphaned`). The
repository starts neither the sweeper nor the outbox processor in its
`docker-compose.yml`; that a worker
which died is started again is an assumption about its operation.

## Proofs

Each module of theorems extends the module it is about and assumes only what that
module assumes of its constants. `DispatchProofs` also uses `ForcedAssumption` (a
manager forces a rider into one of the seven states only, `validate_status` of
`app/models/rider.py` refusing any other) and that there are finitely many orders, since it counts them.

`InventoryProofs` proves for every set of rows, orders, reservations, sessions
and quantities, from `InventoryAssumption` (quantities are integers, of either sign) and from lemmas on
`UnitSums` (sums are integers, natural numbers if every member is, and split over
disjoint sets; what one, none and equal members add):

* `TypeCorrect`: `TypeOK` and `LedgerOK`. `LedgerOK` is the strengthening the
  others need: a reservation has a settled status exactly if it was settled at
  least once, an unused one has no quantity, and sessions hold only reservations that exist.
* `StockSafe`, `HoldsAreCovered`, `BooksStayBalanced`, from one invariant (`IBooks`)
  that is inductive given `TypeCorrect`: a settlement by a stale session
  drops a hold whose reservation is not pending any more, which keeps
  `reserved <= pending` because the pending sum does not change and `reserved`
  only falls; the balance is claimed only while `Times(r) <= 1`, and a second
  settlement leaves that premise.
* `LowStockIsAnnounced`, `OutcomesAreFinal`: action properties, from the type
  invariant and one step per action.
* `BoundedSettlements`: each settlement by a session takes the reservation from
  the set that session holds, so the sum of both does not grow; only the loss of
  the PENDING status can add one, and that happens once.

`FulfilmentProofs` proves, for any orders, waves and statuses within reach:

* of `Orders`, `TypeCorrect` with the messages of orders that exist;
  `RefundsAreAnnounced`, because only the commit of a cancellation writes REFUNDED,
  in the transaction of its event, and no event is withdrawn; `EndedOrdersStay`, an
  action property, one step per handler (`EndedStep`), with an invariant for the excuse:
  who holds an order that has ended since is in `overtaken`, unless it is the
  cancellation of a RETURNED one (`RacesAreKnown`).
* `ImplementsInventory` and `ImplementsOrders`: every behaviour of `Fulfilment` is a
  behaviour of both its parts. `Inventory` allows any message at any time,
  `Orders` only those that were sent, for which a payment the consumer is confirming
  must be one it was told of (`HandledWasSent`). So what is proved of either part
  holds of the composition.
* `ReleasesAreOnTheirWay`: an order that is refunded is never again PENDING or
  CONFIRMED (`RefundedIsOver`), so nothing is allocated to it but by the payment
  that is being handled; and while that is so the consumer cannot have read the
  cancellation (`IRelease`). `Columns` are the types of the inventory's rows the
  argument needs.

`PickingProofs` proves, for any orders, waves, pickers and quantities:

* `TypeCorrect`, with `picked <= Expected`.
* `WavesArePicked` and `OnlyRacesLeaveWavesOpen`, from one inductive invariant: a
  task that is being closed is fully picked (`DoneIsPicked`); who counted no open
  task is right until his commit (`LastIsLast`), because tasks are created with
  their wave and a COMPLETED task stays so; who counted one is right unless the
  wave is in `raced` (`MoreIsMore`), because only another completion could have
  closed it.
* `PickedOnce`: an order that was never made CONFIRMED again is claimed by at most
  one wave, and is not CONFIRMED while it is in one (`ClaimedOnce`).

`DeliveryProofs` proves of `Outbox`, for any events, processors, time stamps and
batch size:

* `TypeCorrect`, and with it that a processor marks only what it holds and tried
  to send.
* `SentOnceUnlessLost`: `ResentOnlyAfterLoss`. Its inductive invariant `IInv` adds
  that batches in progress have numbers of their own (`AttemptsApart`), that a
  row held by an unbroken transaction is PENDING and held once (`RowsHeld`), and
  the step the argument turns on (`SentIsHeldOrSettled`): an event sent by a batch
  that is not lost is settled, or still held by that batch. So nobody else can
  have it to send.
* `OutboxImplementsDelivery`: the refinement, with `MarksAreSent` (a mark in a
  session stands for an event the broker has).

and of `Realtime`, for any instances, users, sockets and notifications:

* `ConnectionsTypeCorrect`: a socket is registered under its own instance and user
  only, until it is closed (`Connected`).
* `ClientsAreServed`: `NobodyIsSkipped`. Every open socket is registered
  (`Reachable`), and only closed or abandoned ones are marked for removal
  (`Buries`), so a delivery drops a user only when none of the user's sockets is open.
* `HubImplementsDelivery`: the refinement. Whatever is on its way (in a channel, a
  delivery or a client, `Spread`) has a row, and no two requests announce the same
  notification (`IRows`); the commit of a request is the promise, a send the receipt.
* `EventsStayInOrder`: `OnceAndInOrder`. The relation `Ahead` extends the order in
  which a client heard two events to the way there: heard, being delivered by the
  listener, waiting in its mail. No step but a broadcast puts two events in an order
  they were not in (`Follows`), and what is broadcast has spread nowhere before, so
  that it comes last everywhere. It needs that a listener delivers one event at a
  time and a delivery turns to one user at a time (`IPipe`).

`DispatchProofs` proves, for any orders, riders, batches and communities, all that
the run checks:

* `TypeCorrect`, with what each kind of request may have read (`ISessions`).
* `DeliveriesGoOn`: the rider of an order that nothing disturbed is exactly where the
  status of the order says (`IPlaced`); that the graph of states has the next step
  from there is then a fact about `VALID_TRANSITIONS`.
* `OffersCanBeAnswered`: batches at any time (`BatchesNameRider`); for an order,
  unless an answer crossed, what a request read of the offer is still so
  (`IOffers`), as it writes back only what it changed.
* `OneBatchIsOpen`: without a race there is one open draft at most, and none while
  somebody who found none has not been overtaken (`IDrafts`).
* `RidersAreAssignedOnce`: nobody is about to write a rider, or the want of one, that
  the order does not have (`Held`): who is to offer it, or to take an offer back, read
  it without a rider, and so did the sweep unless it found it taken.

`ProcurementProofs` proves, for any products, stores, orders, recommendations,
requests, levels and quantities of either sign, all that the run checks:

* `TypeCorrect`.
* `ReceivedOnce`, from the inductive `Received`: what has arrived of an order made it
  RECEIVED, and a request that still has a DRAFT order has all of its items
  (`Sound`); nobody else is at a row that is not in `raced` (`Alone`); what is
  left of such an order has not arrived (`LeftIsNew`); what has not arrived of a
  received order is left to a request that has *begun* (`BegunOrBroken`), without
  which the failure of another request that had read the order too would go unnoticed.
* `RecommendationsAreBoughtOnce`: a recommendation that is not in `raced` is still
  as its request read it (`StillAsRead`), so a conversion finds it without an order.
* `ShortagesAreKnown`, from `Known`: a reception tells of a shortage only while
  the item has not arrived of that order; when it arrives, `add_stock` reports it
  again, if it is still short, and the other stores that are short go into `untold`.
  The step of a failing reception needs `BegunOrBroken`.

`AdsProofs` proves, for any campaigns, users, requests, cap and budgets:

* `TypeCorrect`, with what a request carries at each of its steps (`Carries`).
* `ViewsAreBilledOnce`: of a user whose views of a campaign never overlapped one
  request at most is on its way to a charge; it marks the user first, and nobody
  who is marked begins another (`IViews`).
* `CapIsKept`: one request at most is about to write such a user's impression, and the cap was not
  reached when it read the rows (`IShows`): it reads them from the database, not
  from the cached list.
* `AdsBooksAgree`: a row is counted or its request has still to count it
  (`ICounts`), and without a race a campaign that is active or paused has budget left
  and has spent the price of its views (`IMoney`). The paused ones are the
  strengthening: `BooksAgree` alone is not inductive, since a campaign resumes.

`VideosProofs` proves, for any videos, authors, workers, awards, caps and number of
troubles:

* `TypeCorrect`.
* `ApprovedIsClean`: the flaw of a video that a worker has passed and not decided is
  excused already, and what excuses it is not withdrawn before it is decided.
* `ApprovedIsPlayable` and `VerdictsStay`, from the inductive `Jobs`: of a video that
  was not taken back, one worker is at it alone, and where the worker is tells its
  status (`JobIsMine`).
* `PaidOnceWithinTheCap`, from `Credited`: two transactions of an author that are
  open at once make an overlap, so that otherwise what a transaction read is still
  what the author has earned when it inserts.

So every invariant and action property of the passing runs is also proved, and both
implementations of `Delivery`. Model-checked only: the three liveness properties
(`OverdueIsSettled`, `EverySettled`, `EveryVideoIsDecided`), which are out of this
prover's reach, like ENABLED.

## Not modelled, and the plan

Every module of the table above is done, with its theorems. What is left, most
important first:

1. An abstract ledger (units on hand, held, sold) that `Inventory` implements
   while no reservation is settled twice, and the refinement proved from `IBooks`.
2. The dispatch actions of `Orders` (accept, pick up, deliver, fail) refined by
   `Dispatch`, and `AddStock` of `Inventory` by `Procurement`.
3. That messages of `Fulfilment` behave as `Delivery` promises: written, read any
   number of times or lost.
4. The cart and the lock helper of `app/core/redis.py`, whose `release_lock` deletes
   a key it may no longer hold. Its one user, picking, locks the row as well.

Left out for good: forecasting, the moderation models and data scripts
(numerical, no protocol), the React front ends, authentication and the rate limit
(one atomic Redis script), reference data and reports (single-row operations),
the cart and brands of the discovery app, formatting, audit entries and events
nobody reads.
