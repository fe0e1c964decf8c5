------------------------------ MODULE Dispatch ------------------------------
(***************************************************************************)
(* Dispatch and riders (app/modules/dispatch, app/modules/riders).  An     *)
(* order is ingested: it is offered to a rider, or joins the DRAFT batch   *)
(* of its community, which is offered as a whole when it is full or due.   *)
(* Riders accept and decline through the API; a sweep times offers out,    *)
(* offers due batches and takes orders from riders who fell silent.        *)
(*                                                                         *)
(* An action is what a transaction commits.  Requests read their order or  *)
(* batch under its lock, but the row of the rider without one, long before *)
(* if they wait for the other; an ingestion commits several times, and the *)
(* sweep locks nothing it reads.  All write what they have changed of the  *)
(* objects they loaded, and only that.                                     *)
(*                                                                         *)
(* Distances, battery, shift, score and the age of heartbeats and offers   *)
(* are left to chance: any order may lie in the community, any rider fail  *)
(* those tests, any offer be too old.                                      *)
(***************************************************************************)
EXTENDS Naturals, FiniteSets

CONSTANTS
  Orders, Riders, Batches,
  Nobody,       \* no rider
  NoBatch,
  MaxBatch,     \* communities.max_batch_size
  MaxLoad,      \* 3 in the code
  MaxRequests,  \* bound: ingestions, answers, sweeps, interventions, and reads
                \* of a rider that a request uses only later
  Forced,       \* bound: states a manager forces a rider into
  Reach         \* bound: statuses set by PATCH /orders/{id}/status

ASSUME DispatchAssumption ==
  /\ Nobody \notin Riders
  /\ NoBatch \notin Batches
  /\ MaxBatch \in Nat \ {0} /\ MaxLoad \in Nat
  /\ IsFiniteSet(Orders)

VARIABLES
  state,       \* riders.status
  seen,        \* the status of each rider as an open request read it, or "none"
  serving,     \* the same for the request that delivers each order and locks it
  status,      \* orders.status
  assignment,  \* orders.assignment_status
  rider,       \* orders.rider_id
  offered,     \* orders.offered_rider_id
  batchOf,     \* orders.batch_id
  batch,       \* batches.status, "NONE" before it is made
  batchOffer,  \* batches.offered_rider_id
  open,        \* batches whose dispatch_by lies ahead
  ingest,      \* the request that is ingesting each order
  timing,      \* the offer the sweep is timing out, as it read it
  orphan,      \* orders the sweep holds, as it read them, to take from a silent rider
  due,         \* batches the sweep read as DRAFT
  late,        \* the rider of each batch whose offer the sweep is timing out
  crossed,     \* history: orders answered, or timed out, while somebody was to
               \* write what he had read of them before
  declined,    \* history: orders declined after they had a rider
  disturbed,   \* history: orders whose rider something else moved since the last of
               \* their handlers read it
  blind,       \* history: orders that found no batch before one was opened
  doubled,     \* history: one of those made a batch, or a batch was reopened,
               \* beside an open one
  requests     \* requests so far

riders   == <<state, seen, serving>>
orders   == <<status, assignment, rider, offered, batchOf>>
batches  == <<batch, batchOffer, open>>
sessions == <<ingest, timing, orphan, due, late>>
drafts   == <<blind, doubled>>
answers  == <<crossed, declined>>
history  == <<answers, disturbed, drafts>>
vars     == <<riders, orders, batches, sessions, history, requests>>

----------------------------------------------------------------------------
\* Mutant: a rider who delivers has to go offline first.
TransitionsWithoutReturn ==
  [IDLE            |-> {"ASSIGNED", "OFFLINE"},
   ASSIGNED        |-> {"EN_ROUTE_PICKUP", "IDLE", "OFFLINE"},
   EN_ROUTE_PICKUP |-> {"DELIVERING", "IDLE", "OFFLINE"},
   DELIVERING      |-> {"BATCHING", "IDLE", "OFFLINE"},
   RETURNING       |-> {"BATCHING", "IDLE", "OFFLINE"},
   BATCHING        |-> {"DELIVERING", "IDLE", "OFFLINE"},
   OFFLINE         |-> {"IDLE"}]

VALID_TRANSITIONS ==
  [IDLE            |-> {"ASSIGNED", "OFFLINE"},
   ASSIGNED        |-> {"EN_ROUTE_PICKUP", "IDLE", "OFFLINE"},
   EN_ROUTE_PICKUP |-> {"DELIVERING", "IDLE", "OFFLINE"},
   DELIVERING      |-> {"RETURNING", "IDLE", "OFFLINE"},
   RETURNING       |-> {"BATCHING", "IDLE", "OFFLINE"},
   BATCHING        |-> {"DELIVERING", "IDLE", "OFFLINE"},
   OFFLINE         |-> {"IDLE"}]

RiderState == DOMAIN VALID_TRANSITIONS

\* Rider.validate_status refuses any other.
ASSUME ForcedAssumption == Forced \subseteq RiderState

Status == {"PENDING", "READY", "RIDER_ASSIGNED", "DISPATCHED", "PICKED_UP",
           "IN_TRANSIT", "DELIVERED", "FAILED", "CANCELLED"}
Assignment == {"UNASSIGNED", "QUEUED", "OFFERED", "ASSIGNED", "COMPLETED", "FAILED"}

\* PATCH /orders/{id}/status; READY stands for CONFIRMED to READY_FOR_DISPATCH.
OrderTransitions ==
  [PENDING        |-> {"READY", "CANCELLED"},
   READY          |-> {"RIDER_ASSIGNED", "CANCELLED"},
   RIDER_ASSIGNED |-> {"DISPATCHED", "CANCELLED"},
   DISPATCHED     |-> {"PICKED_UP", "CANCELLED", "FAILED"},
   PICKED_UP      |-> {"IN_TRANSIT", "FAILED"},
   IN_TRANSIT     |-> {"DELIVERED", "FAILED"},
   DELIVERED      |-> {}, FAILED |-> {}, CANCELLED |-> {}]

Init ==
  /\ state = [r \in Riders |-> "IDLE"]
  /\ seen = [r \in Riders |-> "none"] /\ serving = [o \in Orders |-> "none"]
  /\ status = [o \in Orders |-> "PENDING"]
  /\ assignment = [o \in Orders |-> "UNASSIGNED"]
  /\ rider = [o \in Orders |-> Nobody]
  /\ offered = [o \in Orders |-> Nobody]
  /\ batchOf = [o \in Orders |-> NoBatch]
  /\ batch = [b \in Batches |-> "NONE"]
  /\ batchOffer = [b \in Batches |-> Nobody]
  /\ open = {}
  /\ ingest = [o \in Orders |-> [at |-> "no"]]
  /\ timing = [o \in Orders |-> [at |-> "no"]]
  /\ orphan = [o \in Orders |-> [at |-> "no"]]
  /\ due = {} /\ late = [b \in Batches |-> Nobody]
  /\ crossed = {} /\ declined = {} /\ disturbed = {} /\ blind = {} /\ doubled = FALSE
  /\ requests = 0

\* The statuses in which an order is with its rider, and what it needs next.
NextState == [RIDER_ASSIGNED |-> "EN_ROUTE_PICKUP", DISPATCHED |-> "EN_ROUTE_PICKUP",
              PICKED_UP |-> "DELIVERING", IN_TRANSIT |-> "RETURNING"]
UnderWay(o) == status[o] \in DOMAIN NextState
With(r) == {o \in Orders : rider[o] = r /\ UnderWay(o)}
In(b) == {o \in Orders : batchOf[o] = b}

\* The lock on an order whose delivery is being written: who writes it waits.
Unlocked(o) == serving[o] = "none"

\* What a flush leaves of an attribute: the session writes it only if it
\* changed the value it had loaded.
Flush(loaded, new, stored) == IF new = loaded THEN stored ELSE new

\* The rider as a request read it: now, or when it was opened.
Read(r, v) ==
  \/ v = state[r] /\ UNCHANGED seen
  \/ seen[r] # "none" /\ v = seen[r] /\ seen' = [seen EXCEPT ![r] = "none"]

\* The write, which waits for a sweep that has written the rider and not committed.
Put(r, v, to) ==
  /\ v = to \/ \A o \in Orders : ~(orphan[o].at = "first" /\ orphan[o].rider = r)
  /\ state' = [state EXCEPT ![r] = Flush(v, to, @)]

\* Orders that find their rider elsewhere: all the rider's when the rider is moved,
\* but for those it is moved for, which do if it is not where it was read to be.
Disturb(r, to, O) ==
  disturbed' = (disturbed \ O)
    \cup (IF state'[r] = state[r] THEN {} ELSE With(r) \ O)
    \cup (IF state'[r] = to THEN {} ELSE O)

\* validate_state_transition and update_rider_state, on behalf of orders O.
Valid(from, to) == from = to \/ to \in VALID_TRANSITIONS[from]
Move(r, to, O) ==
  /\ \E v \in RiderState : Read(r, v) /\ Valid(v, to) /\ Put(r, v, to)
  /\ Disturb(r, to, O)
  /\ UNCHANGED serving

\* A request reads its rider, and goes on later.
ReadRider(r) ==
  /\ seen[r] = "none"
  /\ seen' = [seen EXCEPT ![r] = state[r]]
  /\ UNCHANGED <<state, serving, orders, batches, sessions, history>>

\* The riders an order or batch may be offered to.
Load(r) == Cardinality({o \in Orders :
                          rider[o] = r /\ status[o] \in {"PENDING", "DISPATCHED"}})
Available == {r \in Riders : state[r] \in {"IDLE", "BATCHING", "RETURNING"}}
Eligible == {r \in Available : Load(r) < MaxLoad}

OpenDrafts == {b \in open : batch[b] = "DRAFT"}
Looking == {o \in Orders : ingest[o].at = "join" /\ ingest[o].batch = NoBatch}
Reopens(b) == /\ blind' = blind \cup Looking
              /\ doubled' = (doubled \/ OpenDrafts \ {b} # {})

----------------------------------------------------------------------------
(* Ingestion of an order: POST /dispatch/assign/{order_id} *)

\* The order is tested under a lock, which the commit of its zone lets go; then
\* it goes its way: alone (zone D, no community) or with its community.
Ingest(o) ==
  /\ ingest[o].at = "no" /\ Unlocked(o)
  /\ status[o] # "CANCELLED"
  /\ assignment[o] # "ASSIGNED" /\ rider[o] = Nobody
  /\ \E way \in {"look", "solo"} : ingest' = [ingest EXCEPT ![o] =
       [at |-> way, assignment |-> assignment[o], offered |-> offered[o]]]
  /\ UNCHANGED <<riders, orders, batches, timing, orphan, due, late, history>>

IngestEnds(o) == ingest' = [ingest EXCEPT ![o] = [at |-> "no"]]

\* find_and_offer_solo_rider, of an order as it was loaded
Offer(o, loaded) ==
  /\ Unlocked(o)
  /\ \/ /\ assignment' = [assignment EXCEPT ![o] = Flush(loaded.assignment, "QUEUED", @)]
        /\ UNCHANGED offered
     \/ \E r \in Eligible :
          /\ assignment' = [assignment EXCEPT ![o] = Flush(loaded.assignment, "OFFERED", @)]
          /\ offered' = [offered EXCEPT ![o] = Flush(loaded.offered, r, @)]

OfferSolo(o) ==
  /\ ingest[o].at = "solo"
  /\ Offer(o, ingest[o])
  /\ IngestEnds(o)
  /\ UNCHANGED <<riders, status, rider, batchOf, batches, timing, orphan, due, late,
                 history>>

\* Mutant: a batch that is full is not found.
LookUpBatchNotFull(o) ==
  /\ ingest[o].at = "look"
  /\ LET found == {b \in OpenDrafts : Cardinality(In(b)) < MaxBatch}
     IN \/ /\ Cardinality(found) = 1
           /\ \E b \in found : ingest' = [ingest EXCEPT ![o] =
                [at |-> "join", batch |-> b, count |-> Cardinality(In(b))]]
        \/ /\ found = {}
           /\ ingest' = [ingest EXCEPT ![o] =
                           [at |-> "join", batch |-> NoBatch, count |-> 0]]
        \/ Cardinality(found) > 1 /\ IngestEnds(o)
  /\ UNCHANGED <<riders, orders, batches, timing, orphan, due, late, history>>

\* get_active_batch_for_community: none, one with its orders, or an exception.
LookUpBatch(o) ==
  /\ ingest[o].at = "look"
  /\ \/ /\ Cardinality(OpenDrafts) = 1
        /\ \E b \in OpenDrafts : ingest' = [ingest EXCEPT ![o] =
             [at |-> "join", batch |-> b, count |-> Cardinality(In(b))]]
     \/ /\ OpenDrafts = {}
        /\ ingest' = [ingest EXCEPT ![o] =
                        [at |-> "join", batch |-> NoBatch, count |-> 0]]
     \/ Cardinality(OpenDrafts) > 1 /\ IngestEnds(o)
  /\ UNCHANGED <<riders, orders, batches, timing, orphan, due, late, history>>

\* The order joins the batch it found, whatever that has become ...
JoinBatch(o) ==
  /\ ingest[o].at = "join" /\ ingest[o].batch # NoBatch /\ Unlocked(o)
  /\ batchOf' = [batchOf EXCEPT ![o] = ingest[o].batch]
  /\ ingest' = [ingest EXCEPT ![o].at = "check"]
  /\ UNCHANGED <<riders, status, assignment, rider, offered, batches, timing, orphan,
                 due, late, history>>

\* ... or makes one.
MakeBatch(o) ==
  /\ ingest[o].at = "join" /\ ingest[o].batch = NoBatch /\ Unlocked(o)
  /\ \E b \in Batches :
       /\ batch[b] = "NONE"
       /\ batch' = [batch EXCEPT ![b] = "DRAFT"]
       /\ open' = open \cup {b}
       /\ batchOf' = [batchOf EXCEPT ![o] = b]
       /\ ingest' = [ingest EXCEPT ![o] = [at |-> "check", batch |-> b, count |-> 0]]
  /\ blind' = (blind \cup Looking) \ {o}
  /\ doubled' = (doubled \/ (OpenDrafts # {} /\ o \in blind))
  /\ UNCHANGED <<riders, status, assignment, rider, offered, batchOffer, timing, orphan,
                 due, late, answers, disturbed>>

\* trigger_batch_assignment of a batch loaded as DRAFT.
OfferBatch(b) ==
  \/ /\ open' = open \cup {b}
     /\ Reopens(b)
     /\ UNCHANGED <<batch, batchOffer>>
  \/ \E r \in Eligible :
       /\ batch' = [batch EXCEPT ![b] = "OFFERED"]
       /\ batchOffer' = [batchOffer EXCEPT ![b] = r]
       /\ UNCHANGED <<open, drafts>>

\* The orders of a batch it found are the ones it loaded with it, without its
\* own; those of a batch it made are read here.
CheckBatch(o) ==
  /\ ingest[o].at = "check"
  /\ LET b == ingest[o].batch
         size == IF ingest[o].count > 0 THEN ingest[o].count ELSE Cardinality(In(b))
     IN \/ size >= MaxBatch /\ OfferBatch(b)
        \/ size < MaxBatch /\ UNCHANGED <<batches, drafts>>
  /\ IngestEnds(o)
  /\ UNCHANGED <<riders, orders, timing, orphan, due, late, answers, disturbed>>

----------------------------------------------------------------------------
(* Answers: POST /dispatch/rider/respond, by any rider about anything *)

\* Someone else is about to write what it has read of the order, to offer it ...
Offering(o) == ingest[o].at = "solo" \/ orphan[o].at # "no"
Crosses(o) == crossed' = IF Offering(o) THEN crossed \cup {o} ELSE crossed

\* ... or to take an offer back.  After an acceptance that is all that can go wrong.
Accepted(O) ==
  /\ crossed' = (crossed \ O) \cup {o \in O : Offering(o) \/ timing[o].at = "read"}
  /\ declined' = declined \ O

AcceptOrder(r, o) ==
  /\ Unlocked(o)
  /\ Move(r, "ASSIGNED", {o})
  /\ status' = [status EXCEPT ![o] = "RIDER_ASSIGNED"]
  /\ assignment' = [assignment EXCEPT ![o] = "ASSIGNED"]
  /\ rider' = [rider EXCEPT ![o] = r]
  /\ offered' = [offered EXCEPT ![o] = Nobody]
  /\ Accepted({o})
  /\ UNCHANGED <<batchOf, batches, sessions, drafts>>

\* The orders get the rider; their status stays, whatever it is.
AcceptBatch(r, b) ==
  /\ batch[b] # "NONE" /\ In(b) # {}
  /\ \A o \in In(b) : Unlocked(o)
  /\ \E v \in RiderState : Read(r, v) /\ Valid(v, "ASSIGNED") /\ Put(r, v, "ASSIGNED")
  /\ batch' = [batch EXCEPT ![b] = "ASSIGNED"]
  /\ batchOffer' = [batchOffer EXCEPT ![b] = Nobody]
  /\ rider' = [o \in Orders |-> IF o \in In(b) THEN r ELSE rider[o]]
  /\ assignment' = [o \in Orders |-> IF o \in In(b) THEN "ASSIGNED" ELSE assignment[o]]
  /\ Accepted(In(b))
  /\ disturbed' = disturbed \cup {o \in With(r) : state'[r] # state[r]}
                            \cup {o \in In(b) : UnderWay(o)}
  /\ UNCHANGED <<serving, status, offered, batchOf, open, sessions, drafts>>

\* An answer that names neither an order nor a batch.
Respond(r) ==
  /\ \E s \in {"ASSIGNED", "IDLE"} : Move(r, s, {})
  /\ UNCHANGED <<orders, batches, sessions, answers, drafts>>

\* Mutant: the order stays on offer, to nobody.
DeclineOrderKeepingStatus(r, o) ==
  /\ Unlocked(o)
  /\ Move(r, "IDLE", {})
  /\ offered' = [offered EXCEPT ![o] = Nobody]
  /\ Crosses(o)
  /\ declined' = IF rider[o] = Nobody THEN declined ELSE declined \cup {o}
  /\ UNCHANGED <<status, assignment, rider, batchOf, batches, sessions, drafts>>

\* Whoever the order was offered to, and whoever has it.
DeclineOrder(r, o) ==
  /\ Unlocked(o)
  /\ Move(r, "IDLE", {})
  /\ assignment' = [assignment EXCEPT ![o] = "UNASSIGNED"]
  /\ offered' = [offered EXCEPT ![o] = Nobody]
  /\ Crosses(o)
  /\ declined' = IF rider[o] = Nobody THEN declined ELSE declined \cup {o}
  /\ UNCHANGED <<status, rider, batchOf, batches, sessions, drafts>>

Withdraw(b) ==
  /\ batch' = [batch EXCEPT ![b] = "DRAFT"]
  /\ batchOffer' = [batchOffer EXCEPT ![b] = Nobody]
  /\ IF b \in open THEN Reopens(b) ELSE UNCHANGED drafts
  /\ UNCHANGED open

DeclineBatch(r, b) ==
  /\ batch[b] # "NONE"
  /\ Move(r, "IDLE", {})
  /\ Withdraw(b)
  /\ UNCHANGED <<orders, sessions, answers>>

----------------------------------------------------------------------------
(* Delivery: the order is locked, its rider read and moved with it *)

Lock(o) ==
  /\ Unlocked(o)
  /\ UnderWay(o) /\ rider[o] # Nobody
  /\ serving' = [serving EXCEPT ![o] = state[rider[o]]]
  /\ UNCHANGED <<state, seen, orders, batches, sessions, history>>

\* The handler refuses, or two wait for each other and the database ends one.
Release(o) ==
  /\ ~Unlocked(o)
  /\ serving' = [serving EXCEPT ![o] = "none"]
  /\ UNCHANGED <<state, seen, orders, batches, sessions, history>>

Deliver(o, from, to) ==
  LET r == rider[o] IN
  /\ status[o] \in from /\ ~Unlocked(o)
  /\ Valid(serving[o], to)
  /\ Put(r, serving[o], to)
  /\ Disturb(r, to, {o})
  /\ serving' = [serving EXCEPT ![o] = "none"]
  /\ UNCHANGED <<seen, rider, offered, batchOf, batches, sessions, answers, drafts>>

PickupOrder(o) ==
  /\ Deliver(o, {"RIDER_ASSIGNED", "DISPATCHED"}, "EN_ROUTE_PICKUP")
  /\ status' = [status EXCEPT ![o] = "PICKED_UP"]
  /\ UNCHANGED assignment

StartTransit(o) ==
  /\ Deliver(o, {"PICKED_UP"}, "DELIVERING")
  /\ status' = [status EXCEPT ![o] = "IN_TRANSIT"]
  /\ UNCHANGED assignment

\* Mutant: the name ingest_new_order has for a delivered order.
DeliverOrderCompleted(o) ==
  /\ Deliver(o, {"IN_TRANSIT"}, "RETURNING")
  /\ status' = [status EXCEPT ![o] = "COMPLETED"]
  /\ assignment' = [assignment EXCEPT ![o] = "COMPLETED"]

DeliverOrder(o) ==
  /\ Deliver(o, {"IN_TRANSIT"}, "RETURNING")
  /\ status' = [status EXCEPT ![o] = "DELIVERED"]
  /\ assignment' = [assignment EXCEPT ![o] = "COMPLETED"]

FailDelivery(o) ==
  /\ status' = [status EXCEPT ![o] = "FAILED"]
  /\ assignment' = [assignment EXCEPT ![o] = "FAILED"]
  /\ \/ Deliver(o, {"DISPATCHED", "PICKED_UP", "IN_TRANSIT"}, "IDLE")
     \/ /\ status[o] \in {"DISPATCHED", "PICKED_UP", "IN_TRANSIT"} /\ rider[o] = Nobody
        /\ UNCHANGED <<riders, rider, offered, batchOf, batches, sessions, history>>

----------------------------------------------------------------------------
(* The sweep: POST /dispatch/sweep *)

\* Draft batches that are due, or whose orders are late, are offered.  Their orders
\* stay as they were loaded with them to the end of the sweep.
AsLoaded(o, step) == [at |-> step, had |-> rider[o], assignment |-> assignment[o],
                      offered |-> offered[o]]

SweepDraft(b) ==
  /\ batch[b] = "DRAFT" /\ In(b) # {} /\ b \notin due
  /\ due' = due \cup {b}
  /\ orphan' = [o \in Orders |-> IF o \in In(b) /\ orphan[o].at = "no"
                                  THEN AsLoaded(o, "loaded") ELSE orphan[o]]
  /\ UNCHANGED <<riders, orders, batches, ingest, timing, late, history>>

EndSweep ==
  /\ \E o \in Orders : orphan[o].at = "loaded"
  /\ orphan' = [o \in Orders |-> IF orphan[o].at = "loaded" THEN [at |-> "no"] ELSE orphan[o]]
  /\ UNCHANGED <<riders, orders, batches, ingest, timing, due, late, history>>

OfferDue(b) ==
  /\ b \in due
  /\ OfferBatch(b)
  /\ due' = due \ {b}
  /\ UNCHANGED <<riders, orders, ingest, timing, orphan, late, answers, disturbed>>

\* What the sweep has of an order that a query finds: as it is now, or as this sweep
\* has loaded it already.
Holds(o, loaded) ==
  \/ loaded = AsLoaded(o, "loaded")
  \/ orphan[o].at = "loaded" /\ loaded = orphan[o]

\* Mutant: the sweep reads any order that names a rider, on offer or not.
SweepOffered(o) ==
  /\ offered[o] # Nobody \/ rider[o] # Nobody
  /\ timing[o].at = "no"
  /\ \E loaded \in {AsLoaded(o, "loaded"), orphan[o]} :
       /\ Holds(o, loaded)
       /\ timing' = [timing EXCEPT ![o] = [at |-> "read", rider |-> loaded.offered,
                                           assignment |-> loaded.assignment]]
  /\ UNCHANGED <<riders, orders, batches, ingest, orphan, due, late, history>>

\* Offers of more than 45 seconds are read, then timed out one by one.
SweepOffer(o) ==
  /\ assignment[o] = "OFFERED" /\ timing[o].at = "no"
  /\ \E loaded \in {AsLoaded(o, "loaded"), orphan[o]} :
       /\ Holds(o, loaded)
       /\ timing' = [timing EXCEPT ![o] = [at |-> "read", rider |-> loaded.offered,
                                           assignment |-> loaded.assignment]]
  /\ UNCHANGED <<riders, orders, batches, ingest, orphan, due, late, history>>

TimeOut(o) ==
  /\ timing[o].at = "read" /\ Unlocked(o)
  /\ LET r == timing[o].rider
     IN /\ \/ r # Nobody /\ Move(r, "IDLE", {})
           \/ r = Nobody /\ UNCHANGED <<riders, disturbed>>
        /\ offered' = [offered EXCEPT ![o] = Flush(r, Nobody, @)]
  /\ assignment' = [assignment EXCEPT ![o] = Flush(timing[o].assignment, "UNASSIGNED", @)]
  /\ timing' = [timing EXCEPT ![o] = [at |-> "no"]]
  /\ crossed' = IF Offering(o) \/ timing[o].assignment = "UNASSIGNED" THEN crossed \cup {o}
                ELSE crossed
  /\ UNCHANGED <<status, rider, batchOf, batches, ingest, orphan, due, late, declined, drafts>>

SweepBatchOffer(b) ==
  /\ batch[b] = "OFFERED" /\ late[b] = Nobody
  /\ late' = [late EXCEPT ![b] = batchOffer[b]]
  /\ UNCHANGED <<riders, orders, batches, ingest, timing, orphan, due, history>>

TimeOutBatch(b) ==
  /\ late[b] # Nobody
  /\ Move(late[b], "IDLE", {})
  /\ Withdraw(b)
  /\ late' = [late EXCEPT ![b] = Nobody]
  /\ UNCHANGED <<orders, ingest, timing, orphan, due, answers>>

\* The orders it finds with a silent rider, some of them as it had loaded them before.
Found(r, lost, old) ==
  [o \in Orders |->
     IF o \notin lost THEN orphan[o]
     ELSE LET loaded == IF o \in old THEN orphan[o] ELSE AsLoaded(o, "loaded")
          IN [at |-> "first", rider |-> r, had |-> loaded.had,
              assignment |-> loaded.assignment, offered |-> loaded.offered]]

\* A silent rider goes OFFLINE in the transaction that takes the first of its
\* orders away, read before without a lock.
SweepRider(r) ==
  /\ state[r] # "OFFLINE"
  /\ \A o \in Orders : orphan[o].at \in {"no", "loaded"}
  /\ LET lost == {o \in Orders : rider[o] = r /\ status[o] = "PENDING"}
     IN \/ /\ lost = {}
           /\ Move(r, "OFFLINE", {})
           /\ UNCHANGED orphan
        \/ /\ lost # {}
           /\ \E old \in SUBSET {o \in lost : orphan[o].at = "loaded"} :
                orphan' = Found(r, lost, old)
           /\ UNCHANGED <<riders, disturbed>>
  /\ UNCHANGED <<orders, batches, ingest, timing, due, late, answers, drafts>>

\* Each order is taken, and committed ...
TakeOrder(o) ==
  LET r == orphan[o].rider IN
  /\ orphan[o].at \in {"first", "next"} /\ Unlocked(o)
  /\ \A p \in Orders : orphan[p].at # "offer"
  /\ \/ /\ orphan[o].at = "first"
        /\ state' = [state EXCEPT ![r] = "OFFLINE"]
        /\ disturbed' = disturbed \cup {o} \cup With(r)
     \/ /\ orphan[o].at = "next"
        /\ disturbed' = disturbed \cup {o}
        /\ UNCHANGED state
  /\ rider' = [rider EXCEPT ![o] = Flush(orphan[o].had, Nobody, @)]
  /\ assignment' = [assignment EXCEPT ![o] = Flush(orphan[o].assignment, "UNASSIGNED", @)]
  /\ orphan' = [p \in Orders |->
       IF p = o THEN [at |-> "offer", assignment |-> "UNASSIGNED", offered |-> orphan[o].offered]
       ELSE IF orphan[p].at = "first" THEN [orphan[p] EXCEPT !.at = "next"]
       ELSE orphan[p]]
  /\ UNCHANGED <<seen, serving, status, offered, batchOf, batches, ingest, timing, due, late,
                 answers, drafts>>

\* ... and offered again, as the sweep has it.
OfferOrphan(o) ==
  /\ orphan[o].at = "offer"
  /\ Offer(o, orphan[o])
  /\ orphan' = [orphan EXCEPT ![o] = [at |-> "no"]]
  /\ UNCHANGED <<riders, status, rider, batchOf, batches, ingest, timing, due, late, history>>

----------------------------------------------------------------------------
(* Everything else *)

\* A heartbeat brings a rider back that it reads as OFFLINE; managers move riders
\* by POST /dispatch/rider/transition.
Heartbeat(r) ==
  /\ Read(r, "OFFLINE")
  /\ Put(r, "OFFLINE", "IDLE")
  /\ Disturb(r, "IDLE", {})
  /\ UNCHANGED serving
  /\ UNCHANGED <<orders, batches, sessions, answers, drafts>>

ForceTransition(r, s) ==
  /\ Move(r, s, {})
  /\ UNCHANGED <<orders, batches, sessions, answers, drafts>>

\* PUT /riders/{id} sets the state without looking at the transitions.
UpdateRider(r, s) ==
  /\ \E v \in RiderState : Read(r, v) /\ Put(r, v, s)
  /\ Disturb(r, s, {})
  /\ UNCHANGED serving
  /\ UNCHANGED <<orders, batches, sessions, answers, drafts>>

UpdateOrderStatus(o, s) ==
  /\ s \in OrderTransitions[status[o]] \cap Reach /\ Unlocked(o)
  /\ status' = [status EXCEPT ![o] = s]
  /\ disturbed' = disturbed \cup {o}
  /\ UNCHANGED <<riders, assignment, rider, offered, batchOf, batches, sessions, answers,
                 drafts>>

\* dispatch_by of a batch passes.
BatchComesDue(b) ==
  /\ b \in open
  /\ open' = open \ {b}
  /\ UNCHANGED <<riders, orders, batch, batchOffer, sessions, history>>

Request ==
  \/ \E o \in Orders :
       \/ Ingest(o) \/ SweepOffer(o)
       \/ \E s \in Reach : UpdateOrderStatus(o, s)
  \/ \E r \in Riders :
       \/ ReadRider(r) \/ Respond(r) \/ SweepRider(r) \/ Heartbeat(r)
       \/ \E s \in Forced : ForceTransition(r, s) \/ UpdateRider(r, s)
       \/ \E o \in Orders : AcceptOrder(r, o) \/ DeclineOrder(r, o)
       \/ \E b \in Batches : AcceptBatch(r, b) \/ DeclineBatch(r, b)
  \/ \E b \in Batches : SweepDraft(b) \/ SweepBatchOffer(b)

Step ==
  \/ \E o \in Orders :
       \/ OfferSolo(o) \/ LookUpBatch(o) \/ JoinBatch(o) \/ MakeBatch(o) \/ CheckBatch(o)
       \/ Lock(o) \/ Release(o)
       \/ PickupOrder(o) \/ StartTransit(o) \/ DeliverOrder(o) \/ FailDelivery(o)
       \/ TimeOut(o) \/ TakeOrder(o) \/ OfferOrphan(o)
  \/ \E b \in Batches : OfferDue(b) \/ TimeOutBatch(b) \/ BatchComesDue(b)
  \/ EndSweep

Next ==
  \/ requests < MaxRequests /\ Request /\ requests' = requests + 1
  \/ Step /\ UNCHANGED requests

Spec == Init /\ [][Next]_vars

----------------------------------------------------------------------------
(* Properties *)

TypeOK ==
  /\ state \in [Riders -> RiderState]
  /\ seen \in [Riders -> RiderState \cup {"none"}]
  /\ serving \in [Orders -> RiderState \cup {"none"}]
  /\ \A o \in Orders : ~Unlocked(o) => UnderWay(o) /\ rider[o] # Nobody
  /\ status \in [Orders -> Status]
  /\ assignment \in [Orders -> Assignment]
  /\ rider \in [Orders -> Riders \cup {Nobody}]
  /\ offered \in [Orders -> Riders \cup {Nobody}]
  /\ batchOf \in [Orders -> Batches \cup {NoBatch}]
  /\ batch \in [Batches -> {"NONE", "DRAFT", "OFFERED", "ASSIGNED"}]
  /\ batchOffer \in [Batches -> Riders \cup {Nobody}]
  /\ open \subseteq Batches /\ due \subseteq Batches
  /\ late \in [Batches -> Riders \cup {Nobody}]
  /\ \A o \in Orders : /\ ingest[o].at \in {"no", "solo", "look", "join", "check"}
                       /\ timing[o].at \in {"no", "read"}
                       /\ orphan[o].at \in {"no", "loaded", "first", "next", "offer"}
  /\ crossed \cup declined \subseteq Orders /\ disturbed \subseteq Orders
  /\ blind \subseteq Orders /\ doubled \in BOOLEAN

\* The handlers of a delivery move the order and its rider together
\* (pickup_order, start_transit, deliver_order), though none locks the rider: the
\* next one is not refused for the rider's sake, unless something else moved the
\* rider (another order, an answer, a time-out, a silence, a manager) since the
\* last one read it.
NextStepIsOpen ==
  \A o \in Orders : UnderWay(o) /\ o \notin disturbed =>
    rider[o] # Nobody /\ Valid(state[rider[o]], NextState[status[o]])

\* An offer has someone to answer it: a batch on offer names its rider at any
\* time, an order on offer unless an answer or a time-out came between the read
\* of the order and the write of what changed, by who offered it, or the time-out
\* itself wrote what a sweep had read before the offer.
OffersNameRider ==
  /\ \A b \in Batches : batch[b] = "OFFERED" <=> batchOffer[b] # Nobody
  /\ \A o \in Orders : assignment[o] = "OFFERED" /\ offered[o] = Nobody => o \in crossed

\* get_active_batch_for_community raises when it finds two batches, and every
\* order of the community is turned away while they are both open: that takes
\* an ingestion that found none before the other batch was there and made one
\* after, or a batch that came back to DRAFT, or whose wait was extended, late.
OneOpenDraft == Cardinality(OpenDrafts) > 1 => doubled

\* An order that has a rider does not wait for one, and one that is assigned has one
\* (ingest_new_order: "Order already assigned"; the riders of orders that wait are
\* offered them): unless it was accepted, alone or in its batch, while an ingestion or
\* the sweep was about to write what it had read of it before, or it was declined
\* after somebody had it.
OneRiderAtATime ==
  \A o \in Orders \ (crossed \cup declined) :
    /\ rider[o] # Nobody => assignment[o] \in {"ASSIGNED", "COMPLETED", "FAILED"}
    /\ assignment[o] = "ASSIGNED" => rider[o] # Nobody
=============================================================================
