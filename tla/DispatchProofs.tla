--------------------------- MODULE DispatchProofs ---------------------------
(***************************************************************************)
(* Theorems about Dispatch: types, the riders of orders under way, offers, *)
(* open batches and accepted orders.                                       *)
(***************************************************************************)
EXTENDS Dispatch, FiniteSetTheorems, TLAPS

(* Types *)

\* What the requests and the sweep have read.
Ingests ==
  [at : {"no"}]
    \cup [at : {"solo", "look"}, assignment : Assignment \ {"ASSIGNED"},
          offered : Riders \cup {Nobody}]
    \cup [at : {"join"}, batch : Batches \cup {NoBatch}, count : Nat]
    \cup [at : {"check"}, batch : Batches, count : Nat]
Timings ==
  [at : {"no"}]
    \cup [at : {"read"}, rider : Riders \cup {Nobody}, assignment : Assignment]
Loads(step) == [at : {step}, had : Riders \cup {Nobody}, assignment : Assignment,
                offered : Riders \cup {Nobody}]
Takes == [at : {"first", "next"}, rider : Riders, had : Riders \cup {Nobody},
          assignment : Assignment, offered : Riders \cup {Nobody}]
Orphans ==
  [at : {"no"}] \cup Loads("loaded") \cup Takes
    \cup [at : {"offer"}, assignment : {"UNASSIGNED"}, offered : Riders \cup {Nobody}]

ISessions ==
  /\ ingest \in [Orders -> Ingests]
  /\ timing \in [Orders -> Timings]
  /\ orphan \in [Orders -> Orphans]

IType == TypeOK /\ ISessions

LEMMA Ways ==
  /\ \A q \in Ingests :
       /\ q.at \in {"no", "solo", "look", "join", "check"}
       /\ q.at \in {"solo", "look"} =>
            q.assignment \in Assignment \ {"ASSIGNED"} /\ q.offered \in Riders \cup {Nobody}
       /\ q.at \in {"join", "check"} => q.batch \in Batches \cup {NoBatch} /\ q.count \in Nat
       /\ q.at = "join" => q \in [at : {"join"}, batch : Batches \cup {NoBatch}, count : Nat]
       /\ q.at = "check" => q.batch \in Batches
  /\ \A q \in Timings :
       /\ q.at \in {"no", "read"}
       /\ q.at = "read" => q.rider \in Riders \cup {Nobody} /\ q.assignment \in Assignment
BY DEF Ingests, Timings

LEMMA OrphanWays ==
  ASSUME NEW q \in Orphans
  PROVE  /\ q.at \in {"no", "loaded", "first", "next", "offer"}
         /\ q.at = "loaded" => q \in Loads("loaded")
         /\ q.at \in {"first", "next"} =>
              /\ q \in Takes /\ q.rider \in Riders
              /\ q.had \in Riders \cup {Nobody} /\ q.assignment \in Assignment
              /\ q.offered \in Riders \cup {Nobody}
         /\ q.at = "offer" => q.assignment = "UNASSIGNED" /\ q.offered \in Riders \cup {Nobody}
BY DEF Orphans, Loads, Takes

LEMMA States ==
  /\ RiderState = {"IDLE", "ASSIGNED", "EN_ROUTE_PICKUP", "DELIVERING", "RETURNING",
                   "BATCHING", "OFFLINE"}
  /\ \A s \in RiderState : VALID_TRANSITIONS[s] \subseteq RiderState
  /\ "none" \notin RiderState
BY DEF RiderState, VALID_TRANSITIONS

\* A rider is read, moved and written, by whatever request.
LEMMA PutType ==
  ASSUME IType, NEW r \in Riders, NEW v, NEW to \in RiderState, Put(r, v, to)
  PROVE  /\ state' \in [Riders -> RiderState]
         /\ \A x \in Riders \ {r} : state'[x] = state[x]
BY DEF Put, Flush, IType, TypeOK

LEMMA ReadType ==
  ASSUME IType, NEW r \in Riders, NEW v, Read(r, v)
  PROVE  v \in RiderState /\ seen' \in [Riders -> RiderState \cup {"none"}]
BY DEF Read, IType, TypeOK

LEMMA DisturbType ==
  ASSUME IType, NEW r, NEW to, NEW O \in SUBSET Orders, Disturb(r, to, O)
  PROVE  disturbed' \subseteq Orders
BY DEF Disturb, With, IType, TypeOK

LEMMA MoveType ==
  ASSUME IType, NEW r \in Riders, NEW to, NEW O \in SUBSET Orders, Move(r, to, O)
  PROVE  /\ state' \in [Riders -> RiderState] /\ to \in RiderState
         /\ \A x \in Riders \ {r} : state'[x] = state[x]
         /\ seen' \in [Riders -> RiderState \cup {"none"}] /\ serving' = serving
         /\ disturbed' \subseteq Orders /\ Disturb(r, to, O)
<1>1. PICK v \in RiderState : Read(r, v) /\ Valid(v, to) /\ Put(r, v, to)
  BY DEF Move
<1>2. to \in RiderState
  BY <1>1, States DEF Valid
<1>3. Disturb(r, to, O) /\ serving' = serving
  BY DEF Move
<1> QED
  BY <1>1, <1>2, <1>3, PutType, ReadType, DisturbType

\* The lock on an order that is delivered, as long as nobody writes that order.
Locks == \A o \in Orders : ~Unlocked(o) => UnderWay(o) /\ rider[o] # Nobody

LEMMA LocksHold ==
  ASSUME IType, serving' = serving,
         \A p \in Orders : ~Unlocked(p) => rider'[p] = rider[p] /\ status'[p] = status[p]
  PROVE  Locks'
BY DEF Locks, Unlocked, UnderWay, IType, TypeOK

LEMMA ReopensType ==
  ASSUME IType, NEW b \in Batches, Reopens(b)
  PROVE  blind' \subseteq Orders /\ doubled' \in BOOLEAN
BY DEF Reopens, Looking, IType, TypeOK

LEMMA OfferBatchType ==
  ASSUME IType, NEW b \in Batches, OfferBatch(b)
  PROVE  /\ batch' \in [Batches -> {"NONE", "DRAFT", "OFFERED", "ASSIGNED"}]
         /\ batchOffer' \in [Batches -> Riders \cup {Nobody}]
         /\ open' \subseteq Batches
         /\ blind' \subseteq Orders /\ doubled' \in BOOLEAN
<1>1. CASE /\ open' = open \cup {b}
           /\ Reopens(b)
           /\ UNCHANGED <<batch, batchOffer>>
  BY <1>1, ReopensType DEF IType, TypeOK
<1>2. CASE \E r \in Eligible :
             /\ batch' = [batch EXCEPT ![b] = "OFFERED"]
             /\ batchOffer' = [batchOffer EXCEPT ![b] = r]
             /\ UNCHANGED <<open, drafts>>
  <2>1. Eligible \subseteq Riders
    BY DEF Eligible, Available
  <2> QED
    BY <1>2, <2>1 DEF drafts, IType, TypeOK
<1> QED
  BY <1>1, <1>2 DEF OfferBatch

LEMMA WithdrawType ==
  ASSUME IType, NEW b \in Batches, Withdraw(b)
  PROVE  /\ batch' \in [Batches -> {"NONE", "DRAFT", "OFFERED", "ASSIGNED"}]
         /\ batchOffer' \in [Batches -> Riders \cup {Nobody}]
         /\ open' \subseteq Batches
         /\ blind' \subseteq Orders /\ doubled' \in BOOLEAN
BY ReopensType DEF Withdraw, drafts, IType, TypeOK

LEMMA AcceptedType ==
  ASSUME IType, NEW O \in SUBSET Orders, Accepted(O)
  PROVE  crossed' \subseteq Orders /\ declined' \subseteq Orders
BY DEF Accepted, IType, TypeOK

\* find_and_offer_solo_rider, for whoever calls it.
LEMMA OfferType ==
  ASSUME IType, NEW o \in Orders, NEW loaded, Offer(o, loaded)
  PROVE  /\ assignment' \in [Orders -> Assignment]
         /\ offered' \in [Orders -> Riders \cup {Nobody}]
BY DEF Offer, Flush, Eligible, Available, Assignment, IType, TypeOK

LEMMA SizeType == \A b \in Batches : Cardinality(In(b)) \in Nat
<1>1. \A b \in Batches : In(b) \subseteq Orders
  BY DEF In
<1> QED
  BY <1>1, FS_Subset, FS_CardinalityType, DispatchAssumption DEF DispatchAssumption

\* An action that changes no session.
LEMMA SessionsWait ==
  ASSUME ISessions, UNCHANGED <<ingest, timing, orphan>>
  PROVE  ISessions'
BY DEF ISessions

\* An action that writes one of them.
LEMMA SessionWritten ==
  ASSUME ISessions, NEW o \in Orders, NEW q,
         \/ /\ q \in Ingests /\ ingest' = [ingest EXCEPT ![o] = q]
            /\ UNCHANGED <<timing, orphan>>
         \/ /\ q \in Timings /\ timing' = [timing EXCEPT ![o] = q]
            /\ UNCHANGED <<ingest, orphan>>
         \/ /\ q \in Orphans /\ orphan' = [orphan EXCEPT ![o] = q]
            /\ UNCHANGED <<ingest, timing>>
  PROVE  ISessions'
BY DEF ISessions

\* What the sweep has of an order.
LEMMA LoadedType ==
  ASSUME IType, NEW o \in Orders
  PROVE  /\ AsLoaded(o, "loaded") \in Loads("loaded")
         /\ orphan[o].at = "loaded" => orphan[o] \in Loads("loaded")
<1>1. AsLoaded(o, "loaded") \in Loads("loaded")
  BY DEF AsLoaded, Loads, IType, TypeOK
<1>2. orphan[o].at = "loaded" => orphan[o] \in Loads("loaded")
  BY OrphanWays DEF IType, ISessions
<1> QED
  BY <1>1, <1>2

LEMMA IngestSessions ==
  ASSUME IType, NEW o \in Orders,
         Ingest(o) \/ OfferSolo(o) \/ LookUpBatch(o) \/ JoinBatch(o) \/ MakeBatch(o) \/ CheckBatch(o)
  PROVE  ISessions'
<1>0. [at |-> "no"] \in Ingests
  BY DEF Ingests
<1>1. CASE Ingest(o)
  <2>1. PICK way \in {"look", "solo"} : ingest' = [ingest EXCEPT ![o] =
          [at |-> way, assignment |-> assignment[o], offered |-> offered[o]]]
    BY <1>1 DEF Ingest
  <2>2. [at |-> way, assignment |-> assignment[o], offered |-> offered[o]] \in Ingests
    BY <1>1 DEF Ingest, Ingests, IType, TypeOK
  <2> QED
    BY <1>1, <2>1, <2>2, SessionWritten DEF Ingest, IType
<1>2. CASE OfferSolo(o)
  BY <1>0, <1>2, SessionWritten DEF OfferSolo, IngestEnds, IType
<1>3. CASE LookUpBatch(o)
  <2>1. CASE IngestEnds(o)
    BY <1>0, <1>3, <2>1, SessionWritten DEF LookUpBatch, IngestEnds, IType
  <2>2. CASE ~IngestEnds(o)
    <3>1. PICK b \in Batches \cup {NoBatch}, n \in Nat :
            ingest' = [ingest EXCEPT ![o] = [at |-> "join", batch |-> b, count |-> n]]
      <4>1. OpenDrafts \subseteq Batches
        BY DEF OpenDrafts, IType, TypeOK
      <4> QED
        BY <1>3, <2>2, <4>1, SizeType DEF LookUpBatch
    <3>2. [at |-> "join", batch |-> b, count |-> n] \in Ingests
      BY DEF Ingests
    <3> QED
      BY <1>3, <3>1, <3>2, SessionWritten DEF LookUpBatch, IType
  <2> QED
    BY <2>1, <2>2
<1>4. CASE JoinBatch(o)
  <2>1. ingest' = [ingest EXCEPT ![o] = [ingest[o] EXCEPT !.at = "check"]]
    BY <1>4 DEF JoinBatch
  <2>2. ingest[o] \in [at : {"join"}, batch : Batches, count : Nat]
    BY <1>4, Ways DEF JoinBatch, IType, ISessions
  <2>3. [ingest[o] EXCEPT !.at = "check"] \in Ingests
    BY <2>2 DEF Ingests
  <2> QED
    BY <1>4, <2>1, <2>3, SessionWritten DEF JoinBatch, IType
<1>5. CASE MakeBatch(o)
  <2>1. PICK b \in Batches :
          ingest' = [ingest EXCEPT ![o] = [at |-> "check", batch |-> b, count |-> 0]]
    BY <1>5 DEF MakeBatch
  <2>2. [at |-> "check", batch |-> b, count |-> 0] \in Ingests
    BY DEF Ingests
  <2> QED
    BY <1>5, <2>1, <2>2, SessionWritten DEF MakeBatch, IType
<1>6. CASE CheckBatch(o)
  BY <1>0, <1>6, SessionWritten DEF CheckBatch, IngestEnds, IType
<1> QED
  BY <1>1, <1>2, <1>3, <1>4, <1>5, <1>6

LEMMA SweepSessions ==
  ASSUME IType,
         \/ \E o \in Orders : SweepOffer(o) \/ TimeOut(o) \/ TakeOrder(o) \/ OfferOrphan(o)
         \/ \E r \in Riders : SweepRider(r)
         \/ \E b \in Batches : SweepDraft(b)
         \/ EndSweep
  PROVE  ISessions'
<1>0. [at |-> "no"] \in Orphans /\ [at |-> "no"] \in Timings
  BY DEF Orphans, Timings
<1>1. ASSUME NEW o \in Orders, SweepOffer(o) PROVE ISessions'
  <2>1. PICK loaded \in {AsLoaded(o, "loaded"), orphan[o]} :
          /\ Holds(o, loaded)
          /\ timing' = [timing EXCEPT ![o] = [at |-> "read", rider |-> loaded.offered,
                                              assignment |-> loaded.assignment]]
    BY <1>1 DEF SweepOffer
  <2>2. loaded \in Loads("loaded")
    BY <2>1, LoadedType DEF Holds
  <2>3. [at |-> "read", rider |-> loaded.offered, assignment |-> loaded.assignment] \in Timings
    BY <2>2 DEF Timings, Loads
  <2> QED
    BY <1>1, <2>1, <2>3, SessionWritten DEF SweepOffer, IType
<1>2. ASSUME NEW o \in Orders, TimeOut(o) PROVE ISessions'
  BY <1>0, <1>2, SessionWritten DEF TimeOut, IType
<1>3. ASSUME NEW r \in Riders, SweepRider(r) PROVE ISessions'
  <2>1. UNCHANGED <<ingest, timing>>
    BY <1>3 DEF SweepRider
  <2>2. CASE UNCHANGED orphan
    BY <2>1, <2>2 DEF IType, ISessions
  <2>3. CASE ~UNCHANGED orphan
    <3>1. PICK lost \in SUBSET Orders, old \in SUBSET {o \in Orders : orphan[o].at = "loaded"} :
            orphan' = Found(r, lost, old)
      BY <1>3, <2>3 DEF SweepRider
    <3>2. ASSUME NEW o \in Orders, NEW q \in Loads("loaded")
          PROVE  [at |-> "first", rider |-> r, had |-> q.had, assignment |-> q.assignment,
                  offered |-> q.offered] \in Orphans
      BY DEF Orphans, Takes, Loads
    <3>3. ASSUME NEW o \in Orders PROVE orphan'[o] \in Orphans
      <4> DEFINE q == IF o \in old THEN orphan[o] ELSE AsLoaded(o, "loaded")
      <4>1. q \in Loads("loaded")
        BY <3>1, LoadedType
      <4>2. [at |-> "first", rider |-> r, had |-> q.had, assignment |-> q.assignment,
             offered |-> q.offered] \in Orphans
        BY <3>2, <4>1
      <4>3. orphan[o] \in Orphans
        BY DEF IType, ISessions
      <4>4. orphan'[o] = IF o \notin lost THEN orphan[o]
                         ELSE [at |-> "first", rider |-> r, had |-> q.had,
                               assignment |-> q.assignment, offered |-> q.offered]
        BY <3>1 DEF Found
      <4> QED
        BY <4>2, <4>3, <4>4
    <3>4. orphan' \in [Orders -> Orphans]
      BY <3>1, <3>3 DEF Found
    <3> QED
      BY <2>1, <3>4 DEF IType, ISessions
  <2> QED
    BY <2>2, <2>3
<1>4. ASSUME NEW o \in Orders, TakeOrder(o) PROVE ISessions'
  <2>1. /\ orphan' = [p \in Orders |->
             IF p = o THEN [at |-> "offer", assignment |-> "UNASSIGNED",
                            offered |-> orphan[o].offered]
             ELSE IF orphan[p].at = "first" THEN [orphan[p] EXCEPT !.at = "next"]
             ELSE orphan[p]]
        /\ orphan[o].at \in {"first", "next"} /\ UNCHANGED <<ingest, timing>>
    BY <1>4 DEF TakeOrder
  <2>2. [at |-> "offer", assignment |-> "UNASSIGNED", offered |-> orphan[o].offered] \in Orphans
    <3>1. orphan[o].offered \in Riders \cup {Nobody}
      BY <2>1, OrphanWays DEF IType, ISessions
    <3> QED
      BY <3>1 DEF Orphans
  <2>3. ASSUME NEW p \in Orders, orphan[p].at = "first"
        PROVE  [orphan[p] EXCEPT !.at = "next"] \in Orphans
    <3>1. orphan[p] \in Takes
      BY <2>3, OrphanWays DEF IType, ISessions
    <3> QED
      BY <3>1 DEF Orphans, Takes
  <2> QED
    BY <2>1, <2>2, <2>3 DEF IType, ISessions
<1>5. ASSUME NEW o \in Orders, OfferOrphan(o) PROVE ISessions'
  BY <1>0, <1>5, SessionWritten DEF OfferOrphan, IType
<1>6. ASSUME NEW b \in Batches, SweepDraft(b) PROVE ISessions'
  <2>1. /\ orphan' = [o \in Orders |-> IF o \in In(b) /\ orphan[o].at = "no"
                                        THEN AsLoaded(o, "loaded") ELSE orphan[o]]
        /\ UNCHANGED <<ingest, timing>>
    BY <1>6 DEF SweepDraft
  <2>2. \A o \in Orders : AsLoaded(o, "loaded") \in Orphans
    BY LoadedType DEF Orphans
  <2> QED
    BY <2>1, <2>2 DEF IType, ISessions
<1>7. CASE EndSweep
  BY <1>0, <1>7 DEF EndSweep, IType, ISessions
<1> QED
  BY <1>1, <1>2, <1>3, <1>4, <1>5, <1>6, <1>7

\* The actions by what they may write: an ingestion, a step of a delivery, an answer,
\* a step of the sweep, a change of somebody's status.
Ingesting(o) ==
  Ingest(o) \/ OfferSolo(o) \/ LookUpBatch(o) \/ JoinBatch(o) \/ MakeBatch(o) \/ CheckBatch(o)
Locking(o) == Lock(o) \/ Release(o)
Delivering(o) == PickupOrder(o) \/ StartTransit(o) \/ DeliverOrder(o) \/ FailDelivery(o)
Answering(r) ==
  \/ Respond(r)
  \/ \E o \in Orders : AcceptOrder(r, o) \/ DeclineOrder(r, o)
  \/ \E b \in Batches : AcceptBatch(r, b) \/ DeclineBatch(r, b)
Sweeping ==
  \/ \E o \in Orders : SweepOffer(o) \/ TimeOut(o) \/ TakeOrder(o) \/ OfferOrphan(o)
  \/ \E b \in Batches : SweepDraft(b) \/ OfferDue(b) \/ SweepBatchOffer(b) \/ TimeOutBatch(b)
  \/ \E r \in Riders : SweepRider(r)
  \/ EndSweep
Moving ==
  \/ \E r \in Riders : \/ ReadRider(r) \/ Heartbeat(r)
                        \/ \E s \in Forced : ForceTransition(r, s) \/ UpdateRider(r, s)
  \/ \E o \in Orders, s \in Reach : UpdateOrderStatus(o, s)
  \/ \E b \in Batches : BatchComesDue(b)

LEMMA Groups ==
  [Next]_vars => \/ UNCHANGED vars
                 \/ \E o \in Orders : Ingesting(o) \/ Locking(o) \/ Delivering(o)
                 \/ \E r \in Riders : Answering(r)
                 \/ Sweeping \/ Moving
BY DEF Next, Request, Step, Ingesting, Locking, Delivering, Answering, Sweeping, Moving

LEMMA IngestingType ==
  ASSUME IType, NEW o \in Orders, Ingesting(o)
  PROVE  IType'
<1> USE DEF IType, TypeOK
<1>7. ISessions'
  BY IngestSessions DEF Ingesting
<1>8. \A p \in Orders : /\ ingest'[p].at \in {"no", "solo", "look", "join", "check"}
                       /\ timing'[p].at \in {"no", "read"}
                       /\ orphan'[p].at \in {"no", "loaded", "first", "next", "offer"}
  BY <1>7, Ways, OrphanWays DEF ISessions
<1>9. UNCHANGED <<state, seen, serving, status, rider>>
  BY DEF Ingesting, Ingest, OfferSolo, LookUpBatch, JoinBatch, MakeBatch, CheckBatch, riders, orders
<1>10. Locks'
  BY <1>9, LocksHold
<1>11. TypeOK'
  <2> USE <1>7, <1>8, <1>9, <1>10 DEF Locks
  <2>1. CASE Ingest(o)
    BY <2>1 DEF Ingest, orders, batches, history, answers, drafts
  <2>2. CASE OfferSolo(o)
    <3>1. assignment' \in [Orders -> Assignment] /\ offered' \in [Orders -> Riders \cup {Nobody}]
      BY <2>2, OfferType DEF OfferSolo
    <3> QED
      BY <2>2, <3>1 DEF OfferSolo, batches, history, answers, drafts
  <2>3. CASE LookUpBatch(o)
    BY <2>3 DEF LookUpBatch, orders, batches, history, answers, drafts
  <2>4. CASE JoinBatch(o)
    <3>1. ingest[o].batch \in Batches \cup {NoBatch}
      BY <2>4, Ways DEF JoinBatch, ISessions
    <3> QED
      BY <2>4, <3>1 DEF JoinBatch, batches, history, answers, drafts
  <2>5. CASE MakeBatch(o)
    <3>1. PICK b \in Batches : batch' = [batch EXCEPT ![b] = "DRAFT"] /\ open' = open \cup {b}
                               /\ batchOf' = [batchOf EXCEPT ![o] = b]
      BY <2>5 DEF MakeBatch
    <3>2. blind' \subseteq Orders /\ doubled' \in BOOLEAN
      BY <2>5 DEF MakeBatch, Looking
    <3> QED
      BY <2>5, <3>1, <3>2 DEF MakeBatch, answers
  <2>6. CASE CheckBatch(o)
    <3>1. ingest[o].batch \in Batches
      BY <2>6, Ways DEF CheckBatch, ISessions
    <3>2. OfferBatch(ingest[o].batch) \/ UNCHANGED <<batches, drafts>>
      BY <2>6 DEF CheckBatch
    <3>3. /\ batch' \in [Batches -> {"NONE", "DRAFT", "OFFERED", "ASSIGNED"}]
          /\ batchOffer' \in [Batches -> Riders \cup {Nobody}]
          /\ open' \subseteq Batches
      BY <3>1, <3>2, OfferBatchType DEF batches
    <3>4. blind' \subseteq Orders /\ doubled' \in BOOLEAN
      BY <3>1, <3>2, OfferBatchType DEF drafts
    <3> QED
      BY <2>6, <3>3, <3>4 DEF CheckBatch, orders, answers
  <2> QED
    BY <2>1, <2>2, <2>3, <2>4, <2>5, <2>6 DEF Ingesting
<1> QED
  BY <1>7, <1>11

LEMMA LockingType ==
  ASSUME IType, NEW o \in Orders, Locking(o)
  PROVE  IType'
<1> USE DEF IType, TypeOK
<1>1. UNCHANGED <<state, seen, orders, batches, sessions, history>>
  BY DEF Locking, Lock, Release
<1>2. serving' \in [Orders -> RiderState \cup {"none"}]
  BY DEF Locking, Lock, Release
<1>3. Locks'
  BY <1>1 DEF Locking, Lock, Release, Locks, Unlocked, UnderWay, orders
<1> QED
  BY <1>1, <1>2, <1>3, SessionsWait DEF Locks, orders, batches, sessions, history, answers, drafts

LEMMA DeliverType ==
  ASSUME IType, NEW o \in Orders, NEW from, NEW to, Deliver(o, from, to)
  PROVE  /\ state' \in [Riders -> RiderState] /\ rider[o] \in Riders
         /\ \A x \in Riders \ {rider[o]} : state'[x] = state[x]
         /\ serving' = [serving EXCEPT ![o] = "none"]
         /\ disturbed' \subseteq Orders /\ Disturb(rider[o], to, {o})
<1>1. rider[o] \in Riders /\ serving[o] \in RiderState
  BY DEF Deliver, Unlocked, IType, TypeOK
<1>2. to \in RiderState
  BY <1>1, States DEF Deliver, Valid
<1>3. Put(rider[o], serving[o], to) /\ Disturb(rider[o], to, {o})
  BY DEF Deliver
<1> QED
  BY <1>1, <1>2, <1>3, PutType, DisturbType DEF Deliver

LEMMA DeliveringType ==
  ASSUME IType, NEW o \in Orders, Delivering(o)
  PROVE  IType'
<1> USE DEF IType, TypeOK
<1>1. UNCHANGED <<seen, rider, offered, batchOf, batches, sessions, answers, drafts>>
  BY DEF Delivering, PickupOrder, StartTransit, DeliverOrder, FailDelivery, Deliver, riders, history
<1>2. /\ status' \in [Orders -> Status]
      /\ \A p \in Orders \ {o} : status'[p] = status[p]
      /\ assignment' \in [Orders -> Assignment]
  BY DEF Delivering, PickupOrder, StartTransit, DeliverOrder, FailDelivery, Status, Assignment
<1>3. \/ UNCHANGED <<state, serving, disturbed>> /\ Unlocked(o)
      \/ \E from, to : Deliver(o, from, to)
  BY DEF Delivering, PickupOrder, StartTransit, DeliverOrder, FailDelivery, riders, history
<1>4. /\ state' \in [Riders -> RiderState] /\ disturbed' \subseteq Orders
      /\ serving' = serving \/ serving' = [serving EXCEPT ![o] = "none"]
      /\ Unlocked(o) \/ serving'[o] = "none"
  BY <1>3, DeliverType
<1>5. Locks'
  BY <1>1, <1>2, <1>4 DEF Locks, Unlocked, UnderWay
<1>6. serving' \in [Orders -> RiderState \cup {"none"}]
  BY <1>4
<1> QED
  BY <1>1, <1>2, <1>4, <1>5, <1>6, SessionsWait DEF Locks, batches, sessions, answers, drafts

LEMMA AnsweringType ==
  ASSUME IType, NEW r \in Riders, Answering(r)
  PROVE  IType'
<1> USE DEF IType, TypeOK
<1>0. ISessions'
  BY SessionsWait DEF Answering, Respond, AcceptOrder, DeclineOrder, AcceptBatch, DeclineBatch,
                      sessions
<1>1. CASE Respond(r)
  <2>1. \E to : Move(r, to, {})
    BY <1>1 DEF Respond
  <2>2. Locks'
    BY <1>1, <2>1, MoveType, LocksHold DEF Respond, orders
  <2> QED
    BY <1>0, <1>1, <2>1, <2>2, MoveType DEF Respond, Locks, orders, batches, sessions, answers, drafts
<1>2. ASSUME NEW o \in Orders, AcceptOrder(r, o) PROVE IType'
  <2>1. /\ state' \in [Riders -> RiderState] /\ disturbed' \subseteq Orders
        /\ seen' \in [Riders -> RiderState \cup {"none"}] /\ serving' = serving
    BY <1>2, MoveType DEF AcceptOrder
  <2>2. crossed' \subseteq Orders /\ declined' \subseteq Orders
    BY <1>2, AcceptedType DEF AcceptOrder
  <2>3. Locks'
    BY <1>2, <2>1, LocksHold DEF AcceptOrder
  <2> QED
    BY <1>0, <1>2, <2>1, <2>2, <2>3
       DEF AcceptOrder, Locks, Status, Assignment, batches, sessions, drafts
<1>3. ASSUME NEW o \in Orders, DeclineOrder(r, o) PROVE IType'
  <2>1. /\ state' \in [Riders -> RiderState] /\ disturbed' \subseteq Orders
        /\ seen' \in [Riders -> RiderState \cup {"none"}] /\ serving' = serving
    BY <1>3, MoveType DEF DeclineOrder
  <2>2. crossed' \subseteq Orders /\ declined' \subseteq Orders
    BY <1>3 DEF DeclineOrder, Crosses
  <2>3. Locks'
    BY <1>3, <2>1, LocksHold DEF DeclineOrder
  <2> QED
    BY <1>0, <1>3, <2>1, <2>2, <2>3
       DEF DeclineOrder, Locks, Assignment, batches, sessions, drafts
<1>4. ASSUME NEW b \in Batches, AcceptBatch(r, b) PROVE IType'
  <2>1. PICK v \in RiderState : Read(r, v) /\ Valid(v, "ASSIGNED") /\ Put(r, v, "ASSIGNED")
    BY <1>4 DEF AcceptBatch
  <2>2. state' \in [Riders -> RiderState] /\ seen' \in [Riders -> RiderState \cup {"none"}]
    BY <2>1, States, PutType, ReadType
  <2>3. /\ disturbed' \subseteq Orders /\ serving' = serving
        /\ rider' \in [Orders -> Riders \cup {Nobody}] /\ assignment' \in [Orders -> Assignment]
    BY <1>4 DEF AcceptBatch, With, In, Assignment
  <2>4. crossed' \subseteq Orders /\ declined' \subseteq Orders
    BY <1>4, AcceptedType DEF AcceptBatch, In
  <2>5. Locks'
    BY <1>4, <2>3, LocksHold DEF AcceptBatch
  <2> QED
    BY <1>0, <1>4, <2>2, <2>3, <2>4, <2>5 DEF AcceptBatch, Locks, sessions, drafts
<1>5. ASSUME NEW b \in Batches, DeclineBatch(r, b) PROVE IType'
  <2>1. Locks'
    BY <1>5, MoveType, LocksHold DEF DeclineBatch, orders
  <2> QED
    BY <1>0, <1>5, <2>1, MoveType, WithdrawType DEF DeclineBatch, Locks, orders, sessions, answers
<1> QED
  BY <1>1, <1>2, <1>3, <1>4, <1>5 DEF Answering

LEMMA SweepingType ==
  ASSUME IType, Sweeping
  PROVE  IType'
<1> USE DEF IType, TypeOK
<1>0. ISessions'
  BY SweepSessions, SessionsWait
     DEF Sweeping, OfferDue, SweepBatchOffer, TimeOutBatch
<1>9. \A p \in Orders : /\ ingest'[p].at \in {"no", "solo", "look", "join", "check"}
                       /\ timing'[p].at \in {"no", "read"}
                       /\ orphan'[p].at \in {"no", "loaded", "first", "next", "offer"}
  BY <1>0, Ways, OrphanWays DEF ISessions
<1> USE <1>9
<1>1. ASSUME NEW o \in Orders, SweepOffer(o) PROVE TypeOK'
  <2>1. Locks'
    BY <1>1, LocksHold DEF SweepOffer, riders, orders
  <2> QED
    BY <1>1, <2>1 DEF SweepOffer, Locks, riders, orders, batches, history, answers, drafts
<1>2. ASSUME NEW o \in Orders, TimeOut(o) PROVE TypeOK'
  <2>1. timing[o].rider \in Riders \cup {Nobody}
    BY <1>2, Ways DEF TimeOut, ISessions
  <2>2. /\ state' \in [Riders -> RiderState] /\ disturbed' \subseteq Orders
        /\ seen' \in [Riders -> RiderState \cup {"none"}] /\ serving' = serving
    BY <1>2, <2>1, MoveType DEF TimeOut, riders
  <2>3. offered' \in [Orders -> Riders \cup {Nobody}] /\ assignment' \in [Orders -> Assignment]
    BY <1>2 DEF TimeOut, Flush, Assignment
  <2>4. crossed' \subseteq Orders
    BY <1>2 DEF TimeOut
  <2>5. Locks'
    BY <1>2, <2>2, LocksHold DEF TimeOut
  <2> QED
    BY <1>2, <2>2, <2>3, <2>4, <2>5 DEF TimeOut, Locks, batches, drafts
<1>3. ASSUME NEW o \in Orders, TakeOrder(o) PROVE TypeOK'
  <2>1. orphan[o].rider \in Riders
    BY <1>3, OrphanWays DEF TakeOrder, ISessions
  <2>2. state' \in [Riders -> RiderState] /\ disturbed' \subseteq Orders
    BY <1>3, <2>1, States DEF TakeOrder, With
  <2>3. assignment' \in [Orders -> Assignment] /\ rider' \in [Orders -> Riders \cup {Nobody}]
    BY <1>3 DEF TakeOrder, Flush, Assignment
  <2>4. Locks'
    BY <1>3, LocksHold DEF TakeOrder
  <2> QED
    BY <1>3, <2>2, <2>3, <2>4 DEF TakeOrder, Locks, batches, answers, drafts
<1>8. ASSUME NEW o \in Orders, OfferOrphan(o) PROVE TypeOK'
  <2>1. assignment' \in [Orders -> Assignment] /\ offered' \in [Orders -> Riders \cup {Nobody}]
    BY <1>8, OfferType DEF OfferOrphan
  <2>2. Locks'
    BY <1>8, LocksHold DEF OfferOrphan, riders
  <2> QED
    BY <1>8, <2>1, <2>2 DEF OfferOrphan, Locks, riders, batches, history, answers, drafts
<1>4. ASSUME NEW b \in Batches, SweepDraft(b) \/ SweepBatchOffer(b) PROVE TypeOK'
  <2>1. Locks'
    BY <1>4, LocksHold DEF SweepDraft, SweepBatchOffer, riders, orders
  <2> QED
    BY <1>4, <2>1 DEF SweepDraft, SweepBatchOffer, Locks, riders, orders, batches, history, answers,
                      drafts
<1>5. ASSUME NEW b \in Batches, OfferDue(b) PROVE TypeOK'
  <2>1. Locks'
    BY <1>5, LocksHold DEF OfferDue, riders, orders
  <2> QED
    BY <1>5, <2>1, OfferBatchType DEF OfferDue, Locks, riders, orders, answers
<1>6. ASSUME NEW b \in Batches, TimeOutBatch(b) PROVE TypeOK'
  <2>1. late[b] \in Riders
    BY <1>6 DEF TimeOutBatch
  <2>2. Locks'
    BY <1>6, <2>1, MoveType, LocksHold DEF TimeOutBatch, orders
  <2> QED
    BY <1>6, <2>1, <2>2, MoveType, WithdrawType DEF TimeOutBatch, Locks, orders, answers
<1>7. ASSUME NEW r \in Riders, SweepRider(r) PROVE TypeOK'
  <2>1. /\ state' \in [Riders -> RiderState] /\ disturbed' \subseteq Orders
        /\ seen' \in [Riders -> RiderState \cup {"none"}] /\ serving' = serving
    BY <1>7, MoveType DEF SweepRider, riders
  <2>2. Locks'
    BY <1>7, <2>1, LocksHold DEF SweepRider, orders
  <2> QED
    BY <1>7, <2>1, <2>2 DEF SweepRider, Locks, orders, batches, answers, drafts
<1>10. CASE EndSweep
  <2>1. Locks'
    BY <1>10, LocksHold DEF EndSweep, riders, orders
  <2>2. TypeOK'
    BY <1>10, <2>1 DEF EndSweep, Locks, riders, orders, batches, history, answers, drafts
  <2> QED
    BY <1>0, <2>2
<1> QED
  BY <1>0, <1>1, <1>2, <1>3, <1>4, <1>5, <1>6, <1>7, <1>8, <1>10 DEF Sweeping

LEMMA MovingType ==
  ASSUME IType, Moving
  PROVE  IType'
<1> USE DEF IType, TypeOK
<1>0. ISessions'
  BY SessionsWait DEF Moving, ReadRider, Heartbeat, ForceTransition, UpdateRider, UpdateOrderStatus,
                      BatchComesDue, sessions
<1>1. ASSUME NEW r \in Riders, NEW s \in Forced, ForceTransition(r, s) PROVE IType'
  <2>1. Locks'
    BY <1>1, MoveType, LocksHold DEF ForceTransition, orders
  <2> QED
    BY <1>0, <1>1, <2>1, MoveType
       DEF ForceTransition, Locks, orders, batches, sessions, answers, drafts
<1>2. ASSUME NEW r \in Riders, NEW v, NEW s \in RiderState, Read(r, v), Put(r, v, s),
             Disturb(r, s, {}), UNCHANGED <<serving, orders, batches, sessions, answers, drafts>>
      PROVE  IType'
  <2>1. /\ state' \in [Riders -> RiderState] /\ seen' \in [Riders -> RiderState \cup {"none"}]
        /\ disturbed' \subseteq Orders
    BY <1>2, PutType, ReadType, DisturbType
  <2>2. Locks'
    BY <1>2, LocksHold DEF orders
  <2> QED
    BY <1>0, <1>2, <2>1, <2>2 DEF Locks, orders, batches, sessions, answers, drafts
<1>3. ASSUME NEW r \in Riders, Heartbeat(r) \/ \E s \in Forced : UpdateRider(r, s) PROVE IType'
  BY <1>2, <1>3, ForcedAssumption, States DEF ForcedAssumption, Heartbeat, UpdateRider
<1>4. ASSUME NEW r \in Riders, ReadRider(r) PROVE IType'
  <2>1. Locks'
    BY <1>4, LocksHold DEF ReadRider, orders
  <2> QED
    BY <1>0, <1>4, <2>1 DEF ReadRider, Locks, orders, batches, sessions, history, answers, drafts
<1>5. ASSUME NEW o \in Orders, NEW s \in Reach, UpdateOrderStatus(o, s) PROVE IType'
  <2>1. s \in Status
    BY <1>5 DEF UpdateOrderStatus, OrderTransitions, Status
  <2>2. Locks'
    BY <1>5, LocksHold DEF UpdateOrderStatus, riders
  <2> QED
    BY <1>0, <1>5, <2>1, <2>2 DEF UpdateOrderStatus, Locks, riders, batches, sessions, answers, drafts
<1>6. ASSUME NEW b \in Batches, BatchComesDue(b) PROVE IType'
  <2>1. Locks'
    BY <1>6, LocksHold DEF BatchComesDue, riders, orders
  <2> QED
    BY <1>0, <1>6, <2>1 DEF BatchComesDue, Locks, riders, orders, sessions, history, answers, drafts
<1> QED
  BY <1>1, <1>3, <1>4, <1>5, <1>6 DEF Moving

LEMMA InitType == Init => IType
<1> SUFFICES ASSUME Init PROVE IType
  OBVIOUS
<1>1. ISessions
  BY DEF Init, ISessions, Ingests, Timings, Orphans
<1>2. /\ state \in [Riders -> RiderState] /\ status \in [Orders -> Status]
      /\ assignment \in [Orders -> Assignment]
      /\ seen \in [Riders -> RiderState \cup {"none"}]
      /\ serving \in [Orders -> RiderState \cup {"none"}]
      /\ \A o \in Orders : Unlocked(o)
  BY States DEF Init, Status, Assignment, Unlocked
<1>3. /\ rider \in [Orders -> Riders \cup {Nobody}]
      /\ offered \in [Orders -> Riders \cup {Nobody}]
      /\ batchOf \in [Orders -> Batches \cup {NoBatch}]
      /\ batch \in [Batches -> {"NONE", "DRAFT", "OFFERED", "ASSIGNED"}]
      /\ batchOffer \in [Batches -> Riders \cup {Nobody}]
      /\ late \in [Batches -> Riders \cup {Nobody}]
  BY DEF Init
<1>4. \A o \in Orders : /\ ingest[o].at = "no" /\ timing[o].at = "no" /\ orphan[o].at = "no"
  BY DEF Init
<1> QED
  BY <1>1, <1>2, <1>3, <1>4 DEF Init, IType, TypeOK

LEMMA NextType == IType /\ [Next]_vars => IType'
<1>1. IType /\ UNCHANGED vars => IType'
  BY DEF IType, TypeOK, ISessions, Unlocked, UnderWay, vars, riders, orders, batches, sessions,
         history, answers, drafts
<1> QED
  BY <1>1, Groups, IngestingType, LockingType, DeliveringType, AnsweringType, SweepingType, MovingType

(* Every session of an ingestion and of the sweep keeps what its later steps write
   (AssignmentService, the sweep of dispatch), and every row the values its columns
   may have, in whatever order the steps are taken. *)
THEOREM TypeCorrect == Spec => []TypeOK
<1>1. IType => TypeOK
  BY DEF IType
<1> QED
  BY <1>1, InitType, NextType, PTL DEF Spec
-----------------------------------------------------------------------------

(* The rider of an order under way *)

\* Where the rider of an order is that nothing but its own handlers moved.
Placed == [RIDER_ASSIGNED |-> "ASSIGNED", PICKED_UP |-> "EN_ROUTE_PICKUP",
           IN_TRANSIT |-> "DELIVERING"]

IPlacedFor(o) ==
  UnderWay(o) /\ o \notin disturbed =>
    rider[o] # Nobody /\ status[o] \in DOMAIN Placed /\ state[rider[o]] = Placed[status[o]]

IPlaced == \A o \in Orders : IPlacedFor(o)

\* An order keeps its place when a rider is written on behalf of others ...
LEMMA MovePlaces ==
  ASSUME IType, NEW r \in Riders, NEW to, NEW O \in SUBSET Orders, Disturb(r, to, O),
         \A x \in Riders \ {r} : state'[x] = state[x],
         NEW p \in Orders \ O, IPlacedFor(p), rider'[p] = rider[p], status'[p] = status[p]
  PROVE  IPlacedFor(p)'
<1> SUFFICES ASSUME UnderWay(p), p \notin disturbed'
             PROVE  state'[rider[p]] = state[rider[p]] /\ p \notin disturbed
  BY DEF IPlacedFor, UnderWay
<1>1. p \notin disturbed
  BY DEF Disturb
<1>2. CASE rider[p] = r
  <2>1. state'[r] = state[r]
    BY <1>2 DEF Disturb, With
  <2> QED
    BY <1>1, <1>2, <2>1
<1>3. CASE rider[p] # r
  <2>1. rider[p] \in Riders
    BY <1>1 DEF IPlacedFor, IType, TypeOK
  <2> QED
    BY <1>1, <1>3, <2>1
<1> QED
  BY <1>2, <1>3

\* ... and when nobody moves; one it is written for finds the rider there, or is marked.
LEMMA StillPlaced ==
  ASSUME NEW p \in Orders, IPlacedFor(p), rider'[p] = rider[p], status'[p] = status[p],
         UNCHANGED state, disturbed \subseteq disturbed'
  PROVE  IPlacedFor(p)'
BY DEF IPlacedFor, UnderWay

LEMMA ServedPlaces ==
  ASSUME NEW o \in Orders, NEW r \in Riders, NEW to, Disturb(r, to, {o}), rider'[o] = r,
         status'[o] \in DOMAIN Placed, Placed[status'[o]] = to
  PROVE  IPlacedFor(o)'
<1> SUFFICES ASSUME o \notin disturbed'
             PROVE  rider'[o] # Nobody /\ state'[rider'[o]] = Placed[status'[o]]
  BY DEF IPlacedFor
<1>1. state'[r] = to
  BY DEF Disturb
<1> QED
  BY <1>1, DispatchAssumption DEF DispatchAssumption

LEMMA DeliveringPlaces ==
  ASSUME IType, IPlaced, NEW o \in Orders, Delivering(o)
  PROVE  IPlaced'
<1> SUFFICES ASSUME NEW p \in Orders PROVE IPlacedFor(p)'
  BY DEF IPlaced
<1>0. IPlacedFor(p)
  BY DEF IPlaced
<1>1. rider' = rider /\ \A q \in Orders \ {o} : status'[q] = status[q]
  BY DEF Delivering, PickupOrder, StartTransit, DeliverOrder, FailDelivery, Deliver, IType, TypeOK
<1>2. CASE p # o
  <2>1. CASE UNCHANGED <<state, disturbed>>
    BY <1>0, <1>1, <1>2, <2>1, StillPlaced
  <2>2. ASSUME NEW from, NEW to, Deliver(o, from, to) PROVE IPlacedFor(p)'
    <3>1. /\ rider[o] \in Riders /\ Disturb(rider[o], to, {o})
          /\ \A x \in Riders \ {rider[o]} : state'[x] = state[x]
      BY <2>2, DeliverType
    <3>2. p \in Orders \ {o} /\ {o} \in SUBSET Orders
      BY <1>2
    <3> QED
      BY <1>0, <1>1, <3>1, <3>2, MovePlaces
  <2> QED
    BY <2>1, <2>2
       DEF Delivering, PickupOrder, StartTransit, DeliverOrder, FailDelivery, riders, history
<1>3. ASSUME NEW from, NEW to, Deliver(o, from, to), status'[o] \in DOMAIN Placed,
             Placed[status'[o]] = to
      PROVE  IPlacedFor(o)'
  BY <1>1, <1>3, DeliverType, ServedPlaces
<1>4. CASE p = o
  <2>1. CASE PickupOrder(o)
    <3>1. status'[o] = "PICKED_UP"
      BY <2>1 DEF PickupOrder, IType, TypeOK
    <3> QED
      BY <1>3, <1>4, <2>1, <3>1 DEF PickupOrder, Placed
  <2>2. CASE StartTransit(o)
    <3>1. status'[o] = "IN_TRANSIT"
      BY <2>2 DEF StartTransit, IType, TypeOK
    <3> QED
      BY <1>3, <1>4, <2>2, <3>1 DEF StartTransit, Placed
  <2>3. CASE DeliverOrder(o) \/ FailDelivery(o)
    <3>1. status'[o] \in {"DELIVERED", "FAILED"}
      BY <2>3 DEF DeliverOrder, FailDelivery, IType, TypeOK
    <3> QED
      BY <1>4, <3>1 DEF IPlacedFor, UnderWay, NextState
  <2> QED
    BY <2>1, <2>2, <2>3 DEF Delivering
<1> QED
  BY <1>2, <1>4

LEMMA AnsweringPlaces ==
  ASSUME IType, IPlaced, NEW r \in Riders, Answering(r)
  PROVE  IPlaced'
<1> SUFFICES ASSUME NEW p \in Orders PROVE IPlacedFor(p)'
  BY DEF IPlaced
<1>0. IPlacedFor(p)
  BY DEF IPlaced
<1>1. CASE \/ Respond(r)
           \/ \E o \in Orders : DeclineOrder(r, o)
           \/ \E b \in Batches : DeclineBatch(r, b)
  <2>1. (\E to : Move(r, to, {})) /\ rider' = rider /\ status' = status
    BY <1>1 DEF Respond, DeclineOrder, DeclineBatch, orders
  <2> QED
    BY <1>0, <2>1, MoveType, MovePlaces
<1>2. ASSUME NEW o \in Orders, AcceptOrder(r, o) PROVE IPlacedFor(p)'
  <2>1. Disturb(r, "ASSIGNED", {o}) /\ \A x \in Riders \ {r} : state'[x] = state[x]
    BY <1>2, MoveType DEF AcceptOrder
  <2>2. CASE p # o
    <3>1. rider'[p] = rider[p] /\ status'[p] = status[p]
      BY <1>2, <2>2 DEF AcceptOrder, IType, TypeOK
    <3> QED
      BY <1>0, <2>1, <2>2, <3>1, MovePlaces
  <2>3. CASE p = o
    <3>1. rider'[o] = r /\ status'[o] = "RIDER_ASSIGNED"
      BY <1>2 DEF AcceptOrder, IType, TypeOK
    <3> QED
      BY <2>1, <2>3, <3>1, ServedPlaces DEF Placed
  <2> QED
    BY <2>2, <2>3
<1>3. ASSUME NEW b \in Batches, AcceptBatch(r, b) PROVE IPlacedFor(p)'
  <2>1. PICK v \in RiderState : Put(r, v, "ASSIGNED")
    BY <1>3 DEF AcceptBatch
  <2>2. /\ status' = status
        /\ disturbed' = disturbed \cup {o \in With(r) : state'[r] # state[r]}
                                  \cup {o \in In(b) : UnderWay(o)}
        /\ rider'[p] = IF p \in In(b) THEN r ELSE rider[p]
    BY <1>3 DEF AcceptBatch
  <2>3. \A x \in Riders \ {r} : state'[x] = state[x]
    BY <2>1, States, PutType
  <2>4. CASE p \in In(b) \/ ~UnderWay(p)
    BY <2>2, <2>4 DEF IPlacedFor, UnderWay
  <2>5. CASE p \notin In(b) /\ UnderWay(p)
    <3>1. CASE rider[p] = r /\ state'[r] # state[r]
      <4>1. p \in disturbed'
        BY <2>2, <2>5, <3>1 DEF With
      <4> QED
        BY <4>1 DEF IPlacedFor
    <3>2. CASE rider[p] # r \/ state'[r] = state[r]
      <4>1. rider[p] \in Riders => state'[rider[p]] = state[rider[p]]
        BY <2>3, <3>2
      <4>2. rider[p] \in Riders \cup {Nobody}
        BY DEF IType, TypeOK
      <4> QED
        BY <1>0, <2>2, <2>5, <4>1, <4>2 DEF IPlacedFor, UnderWay
    <3> QED
      BY <3>1, <3>2
  <2> QED
    BY <2>4, <2>5
<1> QED
  BY <1>1, <1>2, <1>3 DEF Answering

LEMMA SweepingPlaces ==
  ASSUME IType, IPlaced, Sweeping
  PROVE  IPlaced'
<1> SUFFICES ASSUME NEW p \in Orders PROVE IPlacedFor(p)'
  BY DEF IPlaced
<1>0. IPlacedFor(p)
  BY DEF IPlaced
<1>1. CASE \/ \E o \in Orders : SweepOffer(o) \/ OfferOrphan(o)
           \/ \E b \in Batches : SweepDraft(b) \/ OfferDue(b) \/ SweepBatchOffer(b)
           \/ EndSweep
  BY <1>0, <1>1, StillPlaced DEF SweepOffer, OfferOrphan, SweepDraft, OfferDue, SweepBatchOffer,
                                 EndSweep, riders, orders, history
<1>2. ASSUME NEW o \in Orders, TimeOut(o) PROVE IPlacedFor(p)'
  <2>1. timing[o].rider \in Riders \cup {Nobody} /\ rider' = rider /\ status' = status
    BY <1>2, Ways DEF TimeOut, IType, ISessions
  <2>2. CASE timing[o].rider # Nobody
    BY <1>0, <1>2, <2>1, <2>2, MoveType, MovePlaces DEF TimeOut
  <2>3. CASE timing[o].rider = Nobody
    BY <1>0, <1>2, <2>1, <2>3, StillPlaced DEF TimeOut, riders
  <2> QED
    BY <2>2, <2>3
<1>3. ASSUME NEW b \in Batches, TimeOutBatch(b) PROVE IPlacedFor(p)'
  <2>1. late[b] \in Riders /\ Move(late[b], "IDLE", {}) /\ rider' = rider /\ status' = status
    BY <1>3 DEF TimeOutBatch, orders, IType, TypeOK
  <2> QED
    BY <1>0, <2>1, MoveType, MovePlaces
<1>4. ASSUME NEW r \in Riders, SweepRider(r) PROVE IPlacedFor(p)'
  <2>1. rider' = rider /\ status' = status
    BY <1>4 DEF SweepRider, orders
  <2>2. CASE Move(r, "OFFLINE", {})
    BY <1>0, <2>1, <2>2, MoveType, MovePlaces
  <2>3. CASE UNCHANGED <<state, disturbed>>
    BY <1>0, <2>1, <2>3, StillPlaced
  <2> QED
    BY <1>4, <2>2, <2>3 DEF SweepRider, riders
<1>5. ASSUME NEW o \in Orders, TakeOrder(o) PROVE IPlacedFor(p)'
  <2>1. o \in disturbed' /\ disturbed \subseteq disturbed' /\ status' = status
    BY <1>5 DEF TakeOrder
  <2>2. CASE p # o
    <3>1. rider'[p] = rider[p]
      BY <1>5, <2>2 DEF TakeOrder, IType, TypeOK
    <3>2. CASE UNCHANGED state
      BY <1>0, <2>1, <3>1, <3>2, StillPlaced
    <3>3. CASE /\ state' = [state EXCEPT ![orphan[o].rider] = "OFFLINE"]
               /\ With(orphan[o].rider) \subseteq disturbed'
      <4>1. CASE rider[p] = orphan[o].rider /\ UnderWay(p)
        BY <3>3, <4>1 DEF IPlacedFor, With
      <4>2. CASE ~UnderWay(p)
        BY <2>1, <4>2 DEF IPlacedFor, UnderWay
      <4>3. CASE rider[p] # orphan[o].rider
        <5>1. rider[p] \in Riders => state'[rider[p]] = state[rider[p]]
          BY <3>3, <4>3 DEF IType, TypeOK
        <5>2. rider[p] \in Riders \cup {Nobody}
          BY DEF IType, TypeOK
        <5> QED
          BY <1>0, <2>1, <3>1, <5>1, <5>2 DEF IPlacedFor, UnderWay
      <4> QED
        BY <4>1, <4>2, <4>3
    <3> QED
      BY <1>5, <3>2, <3>3 DEF TakeOrder
  <2>3. CASE p = o
    BY <2>1, <2>3 DEF IPlacedFor
  <2> QED
    BY <2>2, <2>3
<1> QED
  BY <1>1, <1>2, <1>3, <1>4, <1>5 DEF Sweeping

LEMMA MovingPlaces ==
  ASSUME IType, IPlaced, Moving
  PROVE  IPlaced'
<1> SUFFICES ASSUME NEW p \in Orders PROVE IPlacedFor(p)'
  BY DEF IPlaced
<1>0. IPlacedFor(p)
  BY DEF IPlaced
<1>1. ASSUME NEW r \in Riders, NEW s \in Forced, ForceTransition(r, s) PROVE IPlacedFor(p)'
  BY <1>0, <1>1, MoveType, MovePlaces DEF ForceTransition, orders
<1>2. ASSUME NEW r \in Riders, Heartbeat(r) \/ \E s \in Forced : UpdateRider(r, s)
      PROVE  IPlacedFor(p)'
  <2>1. PICK v, s \in RiderState : Put(r, v, s) /\ Disturb(r, s, {})
    BY <1>2, ForcedAssumption, States DEF ForcedAssumption, Heartbeat, UpdateRider
  <2>2. rider' = rider /\ status' = status
    BY <1>2 DEF Heartbeat, UpdateRider, orders
  <2> QED
    BY <1>0, <2>1, <2>2, PutType, MovePlaces
<1>3. ASSUME NEW o \in Orders, NEW s \in Reach, UpdateOrderStatus(o, s) PROVE IPlacedFor(p)'
  <2>1. CASE p = o
    BY <1>3, <2>1 DEF UpdateOrderStatus, IPlacedFor
  <2>2. CASE p # o
    <3>1. status'[p] = status[p]
      BY <1>3, <2>2 DEF UpdateOrderStatus, IType, TypeOK
    <3> QED
      BY <1>0, <1>3, <3>1, StillPlaced DEF UpdateOrderStatus, riders
  <2> QED
    BY <2>1, <2>2
<1>4. CASE (\E r \in Riders : ReadRider(r)) \/ \E b \in Batches : BatchComesDue(b)
  BY <1>0, <1>4, StillPlaced DEF ReadRider, BatchComesDue, riders, orders, history
<1> QED
  BY <1>1, <1>2, <1>3, <1>4 DEF Moving

LEMMA NextPlaces == IType /\ IPlaced /\ [Next]_vars => IPlaced'
<1> SUFFICES ASSUME IType, IPlaced, [Next]_vars PROVE IPlaced'
  OBVIOUS
<1>1. CASE UNCHANGED <<state, status, rider, disturbed>>
  BY <1>1, StillPlaced DEF IPlaced
<1>2. CASE UNCHANGED vars
  BY <1>1, <1>2 DEF vars, riders, orders, history
<1>3. ASSUME NEW o \in Orders, Ingesting(o) \/ Locking(o) PROVE IPlaced'
  <2>1. UNCHANGED <<state, status, rider, disturbed>>
    BY <1>3 DEF Ingesting, Ingest, OfferSolo, LookUpBatch, JoinBatch, MakeBatch, CheckBatch,
                Locking, Lock, Release, riders, orders, history
  <2> QED
    BY <1>1, <2>1
<1> QED
  BY <1>2, <1>3, Groups, DeliveringPlaces, AnsweringPlaces, SweepingPlaces, MovingPlaces

(* The handlers of a delivery (pickup_order, start_transit, deliver_order) find the
   rider where the one before left it, unless another order, an answer, a time-out, a
   silence or a manager moved the rider: whatever else goes on, and however often. *)
THEOREM DeliveriesGoOn == Spec => []NextStepIsOpen
<1>1. Init => IPlaced
  BY DEF Init, IPlaced, IPlacedFor, UnderWay, NextState
<1>2. IType /\ IPlaced => NextStepIsOpen
  BY DEF NextStepIsOpen, IPlaced, IPlacedFor, Placed, NextState, Valid, VALID_TRANSITIONS
<1> QED
  BY <1>1, <1>2, InitType, NextType, NextPlaces, PTL DEF Spec
-----------------------------------------------------------------------------

(* Offers *)

\* A batch has a rider to answer for it exactly as long as it is on offer.
BatchesNameRider == \A b \in Batches : batch[b] = "OFFERED" <=> batchOffer[b] # Nobody

\* Who read that an order was offered still finds it offered, unless it was answered.
ReadsHold(o) ==
  /\ ingest[o].at = "solo" /\ ingest[o].offered # Nobody => offered[o] # Nobody
  /\ orphan[o].at # "no" /\ orphan[o].offered # Nobody => offered[o] # Nobody
OfferNamesRider(o) == assignment[o] = "OFFERED" => offered[o] # Nobody

IOffersFor(o) == o \notin crossed => ReadsHold(o) /\ OfferNamesRider(o)
IOffers == \A o \in Orders : IOffersFor(o)

LEMMA OfferBatchNames ==
  ASSUME IType, BatchesNameRider, NEW b \in Batches, OfferBatch(b)
  PROVE  BatchesNameRider'
BY DispatchAssumption DEF OfferBatch, Eligible, Available, BatchesNameRider, IType, TypeOK,
                          DispatchAssumption

LEMMA WithdrawNames ==
  ASSUME IType, BatchesNameRider, NEW b \in Batches, Withdraw(b)
  PROVE  BatchesNameRider'
BY DEF Withdraw, BatchesNameRider, IType, TypeOK

LEMMA NextBatchesNameRider == IType /\ BatchesNameRider /\ [Next]_vars => BatchesNameRider'
<1> SUFFICES ASSUME IType, BatchesNameRider, [Next]_vars PROVE BatchesNameRider'
  OBVIOUS
<1>0. ASSUME UNCHANGED <<batch, batchOffer>> PROVE BatchesNameRider'
  BY <1>0 DEF BatchesNameRider
<1>1. CASE UNCHANGED vars \/ \E o \in Orders : Locking(o)
  BY <1>0, <1>1 DEF vars, Locking, Lock, Release, batches
<1>2. ASSUME NEW o \in Orders, Ingesting(o) PROVE BatchesNameRider'
  <2>1. CASE MakeBatch(o)
    BY <2>1 DEF MakeBatch, BatchesNameRider, IType, TypeOK
  <2>2. CASE CheckBatch(o)
    <3>1. ingest[o].batch \in Batches
      BY <2>2, Ways DEF CheckBatch, IType, ISessions
    <3>2. OfferBatch(ingest[o].batch) \/ UNCHANGED <<batch, batchOffer>>
      BY <2>2 DEF CheckBatch, batches
    <3> QED
      BY <1>0, <3>1, <3>2, OfferBatchNames
  <2> QED
    BY <1>0, <1>2, <2>1, <2>2 DEF Ingesting, Ingest, OfferSolo, LookUpBatch, JoinBatch, batches
<1>3. ASSUME NEW o \in Orders, Delivering(o) PROVE BatchesNameRider'
  BY <1>0, <1>3
     DEF Delivering, PickupOrder, StartTransit, DeliverOrder, FailDelivery, Deliver, batches
<1>4. ASSUME NEW r \in Riders, Answering(r) PROVE BatchesNameRider'
  <2>1. ASSUME NEW b \in Batches, AcceptBatch(r, b) PROVE BatchesNameRider'
    BY <2>1 DEF AcceptBatch, BatchesNameRider, IType, TypeOK
  <2>2. ASSUME NEW b \in Batches, DeclineBatch(r, b) PROVE BatchesNameRider'
    BY <2>2, WithdrawNames DEF DeclineBatch
  <2> QED
    BY <1>0, <1>4, <2>1, <2>2 DEF Answering, Respond, AcceptOrder, DeclineOrder, batches
<1>5. CASE Sweeping
  <2>1. ASSUME NEW b \in Batches, OfferDue(b) \/ TimeOutBatch(b) PROVE BatchesNameRider'
    BY <2>1, OfferBatchNames, WithdrawNames DEF OfferDue, TimeOutBatch
  <2> QED
    BY <1>0, <1>5, <2>1 DEF Sweeping, SweepOffer, TimeOut, TakeOrder, OfferOrphan, SweepDraft,
                            SweepBatchOffer, SweepRider, EndSweep, batches
<1>6. CASE Moving
  BY <1>0, <1>6 DEF Moving, ReadRider, Heartbeat, ForceTransition, UpdateRider, UpdateOrderStatus,
                    BatchComesDue, batches
<1> QED
  BY <1>1, <1>2, <1>3, <1>4, <1>5, <1>6, Groups

\* A step that neither offers an order, nor takes an offer back, nor reads one.
LEMMA OfferStays ==
  ASSUME NEW p \in Orders, IOffersFor(p), p \in crossed => p \in crossed',
         offered'[p] = offered[p],
         ingest'[p] = ingest[p] \/ ingest'[p].at # "solo",
         orphan'[p] = orphan[p] \/ orphan'[p].at = "no",
         assignment'[p] = "OFFERED" => assignment[p] = "OFFERED"
  PROVE  IOffersFor(p)'
<1> SUFFICES ASSUME p \notin crossed' PROVE ReadsHold(p)' /\ OfferNamesRider(p)'
  BY DEF IOffersFor
<1>1. ReadsHold(p) /\ OfferNamesRider(p)
  BY DEF IOffersFor
<1>2. ReadsHold(p)'
  BY <1>1 DEF ReadsHold
<1>3. OfferNamesRider(p)'
  BY <1>1 DEF OfferNamesRider
<1> QED
  BY <1>2, <1>3

\* What an ingestion does after it has looked for a batch.
LEMMA NotSolo ==
  ASSUME IType, NEW o \in Orders,
         LookUpBatch(o) \/ JoinBatch(o) \/ MakeBatch(o) \/ CheckBatch(o)
  PROVE  ingest'[o].at # "solo" /\ \A p \in Orders \ {o} : ingest'[p] = ingest[p]
<1>1. CASE JoinBatch(o)
  <2>1. ingest[o] \in [at : {"join"}, batch : Batches \cup {NoBatch}, count : Nat]
    BY <1>1, Ways DEF JoinBatch, IType, ISessions
  <2>2. ingest' = [ingest EXCEPT ![o] = [ingest[o] EXCEPT !.at = "check"]]
    BY <1>1 DEF JoinBatch
  <2> QED
    BY <2>1, <2>2 DEF IType, ISessions
<1>2. CASE LookUpBatch(o) \/ MakeBatch(o) \/ CheckBatch(o)
  BY <1>2 DEF LookUpBatch, MakeBatch, CheckBatch, IngestEnds, IType, ISessions
<1> QED
  BY <1>1, <1>2

\* An answer about o, or a time-out, while nobody is about to offer it.
LEMMA AnswerOffers ==
  ASSUME NEW o \in Orders, ~Offering(o), UNCHANGED <<ingest, orphan>>, assignment'[o] # "OFFERED"
  PROVE  IOffersFor(o)'
BY DEF Offering, IOffersFor, ReadsHold, OfferNamesRider

\* find_and_offer_solo_rider writes the rider it offers to, unless it had read the same:
\* then the order is still on offer to somebody.
LEMMA OfferWrites ==
  ASSUME IType, NEW o \in Orders, NEW loaded, Offer(o, loaded), OfferNamesRider(o),
         loaded.offered # Nobody => offered[o] # Nobody
  PROVE  /\ OfferNamesRider(o)'
         /\ \A p \in Orders \ {o} : assignment'[p] = assignment[p] /\ offered'[p] = offered[p]
         /\ offered[o] # Nobody => offered'[o] # Nobody
<1>1. \A p \in Orders \ {o} : assignment'[p] = assignment[p] /\ offered'[p] = offered[p]
  BY DEF Offer, IType, TypeOK
<1>2. CASE /\ assignment' = [assignment EXCEPT ![o] = Flush(loaded.assignment, "QUEUED", @)]
           /\ UNCHANGED offered
  <2>1. assignment'[o] \in {"QUEUED", assignment[o]}
    BY <1>2 DEF Flush, IType, TypeOK
  <2> QED
    BY <1>1, <1>2, <2>1 DEF OfferNamesRider
<1>3. ASSUME NEW r \in Riders, offered' = [offered EXCEPT ![o] = Flush(loaded.offered, r, @)]
      PROVE  offered'[o] # Nobody
  <2>1. r # Nobody
    BY DispatchAssumption DEF DispatchAssumption
  <2>2. offered'[o] = Flush(loaded.offered, r, offered[o])
    BY <1>3 DEF IType, TypeOK
  <2> QED
    BY <2>1, <2>2 DEF Flush
<1> QED
  BY <1>1, <1>2, <1>3 DEF Offer, Eligible, Available, OfferNamesRider

\* What the sweep has of the orders of a silent rider.
LEMMA SweepRiderLoads ==
  ASSUME NEW r \in Riders, SweepRider(r), NEW p \in Orders
  PROVE  \/ orphan'[p] = orphan[p]
         \/ \E loaded \in {orphan[p], AsLoaded(p, "loaded")} :
              /\ loaded.at = "loaded"
              /\ orphan'[p] = [at |-> "first", rider |-> r, had |-> loaded.had,
                               assignment |-> loaded.assignment, offered |-> loaded.offered]
<1>1. CASE UNCHANGED orphan
  BY <1>1
<1>2. CASE ~UNCHANGED orphan
  <2>1. PICK lost \in SUBSET Orders, old \in SUBSET {o \in Orders : orphan[o].at = "loaded"} :
            orphan' = Found(r, lost, old)
    BY <1>2 DEF SweepRider
  <2>2. AsLoaded(p, "loaded").at = "loaded"
    BY DEF AsLoaded
  <2>3. CASE p \notin lost
    BY <2>1, <2>3 DEF Found
  <2>4. CASE p \in lost /\ p \in old
    BY <2>1, <2>4 DEF Found
  <2>5. CASE p \in lost /\ p \notin old
    BY <2>1, <2>2, <2>5 DEF Found
  <2> QED
    BY <2>3, <2>4, <2>5
<1> QED
  BY <1>1, <1>2

LEMMA IngestingOffers ==
  ASSUME IType, IOffers, NEW o \in Orders, Ingesting(o)
  PROVE  IOffers'
<1> SUFFICES ASSUME NEW p \in Orders PROVE IOffersFor(p)'
  BY DEF IOffers
<1>0. IOffersFor(p) /\ IOffersFor(o)
  BY DEF IOffers
<1>1. UNCHANGED <<orphan, crossed>>
  BY DEF Ingesting, Ingest, OfferSolo, LookUpBatch, JoinBatch, MakeBatch, CheckBatch, history,
         answers
<1>2. CASE LookUpBatch(o) \/ JoinBatch(o) \/ MakeBatch(o) \/ CheckBatch(o)
  <2>1. UNCHANGED <<offered, assignment>>
    BY <1>2 DEF LookUpBatch, JoinBatch, MakeBatch, CheckBatch, orders
  <2>2. ingest'[p] = ingest[p] \/ ingest'[p].at # "solo"
    BY <1>2, NotSolo
  <2> QED
    BY <1>0, <1>1, <2>1, <2>2, OfferStays
<1>3. CASE Ingest(o)
  <2>1. /\ UNCHANGED <<assignment, offered>> /\ ingest'[o].offered = offered[o]
        /\ \A q \in Orders \ {o} : ingest'[q] = ingest[q]
    BY <1>3 DEF Ingest, orders, IType, ISessions
  <2> QED
    BY <1>0, <1>1, <2>1 DEF IOffersFor, ReadsHold, OfferNamesRider
<1>4. CASE OfferSolo(o)
  <2>1. /\ Offer(o, ingest[o]) /\ ingest[o].at = "solo" /\ ingest'[o].at = "no"
        /\ \A q \in Orders \ {o} : ingest'[q] = ingest[q]
    BY <1>4 DEF OfferSolo, IngestEnds, IType, ISessions
  <2>2. CASE p # o
    <3>1. assignment'[p] = assignment[p] /\ offered'[p] = offered[p]
      BY <2>1, <2>2 DEF Offer, IType, TypeOK
    <3> QED
      BY <1>0, <1>1, <2>1, <2>2, <3>1, OfferStays
  <2>3. CASE p = o /\ o \notin crossed
    <3>1. ReadsHold(o) /\ OfferNamesRider(o)
      BY <1>0, <2>3 DEF IOffersFor
    <3>2. OfferNamesRider(o)' /\ (offered[o] # Nobody => offered'[o] # Nobody)
      BY <2>1, <3>1, OfferWrites DEF ReadsHold
    <3>3. ReadsHold(o)'
      BY <1>1, <2>1, <3>1, <3>2 DEF ReadsHold
    <3> QED
      BY <2>3, <3>2, <3>3 DEF IOffersFor
  <2>4. CASE p = o /\ o \in crossed
    BY <1>1, <2>4 DEF IOffersFor
  <2> QED
    BY <2>2, <2>3, <2>4
<1> QED
  BY <1>2, <1>3, <1>4 DEF Ingesting

LEMMA AnsweringOffers ==
  ASSUME IType, IOffers, NEW r \in Riders, Answering(r)
  PROVE  IOffers'
<1> SUFFICES ASSUME NEW p \in Orders PROVE IOffersFor(p)'
  BY DEF IOffers
<1>0. IOffersFor(p)
  BY DEF IOffers
<1>1. CASE Respond(r) \/ \E b \in Batches : DeclineBatch(r, b)
  BY <1>0, <1>1, OfferStays DEF Respond, DeclineBatch, orders, sessions, answers
<1>2. ASSUME NEW o \in Orders, AcceptOrder(r, o) \/ DeclineOrder(r, o) PROVE IOffersFor(p)'
  <2>1. /\ UNCHANGED <<ingest, orphan>> /\ assignment'[o] # "OFFERED"
        /\ \A q \in Orders \ {o} : /\ assignment'[q] = assignment[q] /\ offered'[q] = offered[q]
                                   /\ q \in crossed => q \in crossed'
        /\ Offering(o) => o \in crossed'
    BY <1>2 DEF AcceptOrder, DeclineOrder, Accepted, Crosses, sessions, IType, TypeOK
  <2>2. CASE p # o
    BY <1>0, <2>1, <2>2, OfferStays
  <2>3. CASE p = o
    BY <2>1, <2>3, AnswerOffers DEF IOffersFor
  <2> QED
    BY <2>2, <2>3
<1>3. ASSUME NEW b \in Batches, AcceptBatch(r, b) PROVE IOffersFor(p)'
  <2>1. /\ UNCHANGED <<offered, ingest, orphan>>
        /\ assignment'[p] = IF p \in In(b) THEN "ASSIGNED" ELSE assignment[p]
        /\ p \notin In(b) => (p \in crossed => p \in crossed')
        /\ p \in In(b) /\ Offering(p) => p \in crossed'
    BY <1>3 DEF AcceptBatch, Accepted, sessions
  <2>2. CASE p \notin In(b)
    BY <1>0, <2>1, <2>2, OfferStays
  <2>3. CASE p \in In(b)
    BY <2>1, <2>3, AnswerOffers DEF IOffersFor
  <2> QED
    BY <2>2, <2>3
<1> QED
  BY <1>1, <1>2, <1>3 DEF Answering

LEMMA SweepingOffers ==
  ASSUME IType, IOffers, Sweeping
  PROVE  IOffers'
<1> SUFFICES ASSUME NEW p \in Orders PROVE IOffersFor(p)'
  BY DEF IOffers
<1>0. IOffersFor(p)
  BY DEF IOffers
<1>1. CASE \/ \E o \in Orders : SweepOffer(o)
           \/ \E b \in Batches : OfferDue(b) \/ SweepBatchOffer(b) \/ TimeOutBatch(b)
           \/ EndSweep
  BY <1>0, <1>1, OfferStays DEF SweepOffer, OfferDue, SweepBatchOffer, TimeOutBatch, EndSweep,
                                orders, history, answers
<1>2. ASSUME NEW o \in Orders, TimeOut(o) PROVE IOffersFor(p)'
  <2>1. /\ UNCHANGED <<ingest, orphan>> /\ crossed \subseteq crossed'
        /\ \A q \in Orders \ {o} : assignment'[q] = assignment[q] /\ offered'[q] = offered[q]
        /\ assignment'[o] = Flush(timing[o].assignment, "UNASSIGNED", assignment[o])
        /\ Offering(o) \/ timing[o].assignment = "UNASSIGNED" => o \in crossed'
    BY <1>2 DEF TimeOut, IType, TypeOK
  <2>2. CASE p # o
    BY <1>0, <2>1, <2>2, OfferStays
  <2>3. CASE p = o /\ o \notin crossed'
    BY <2>1, <2>3, AnswerOffers DEF Flush
  <2> QED
    BY <2>2, <2>3 DEF IOffersFor
<1>3. ASSUME NEW o \in Orders, TakeOrder(o) PROVE IOffersFor(p)'
  <2>1. /\ UNCHANGED <<offered, ingest, crossed>>
        /\ assignment'[p] = "OFFERED" => assignment[p] = "OFFERED"
        /\ orphan[o].at # "no"
        /\ orphan'[p] = IF p = o THEN [at |-> "offer", assignment |-> "UNASSIGNED",
                                       offered |-> orphan[o].offered]
                        ELSE IF orphan[p].at = "first" THEN [orphan[p] EXCEPT !.at = "next"]
                        ELSE orphan[p]
    BY <1>3 DEF TakeOrder, Flush, answers, IType, TypeOK
  <2>2. CASE p = o
    BY <1>0, <2>1, <2>2 DEF IOffersFor, ReadsHold, OfferNamesRider
  <2>3. CASE p # o /\ orphan[p].at = "first"
    <3>1. orphan[p] \in Takes
      BY <2>3, OrphanWays DEF IType, ISessions
    <3>2. orphan'[p].offered = orphan[p].offered
      BY <2>1, <2>3, <3>1 DEF Takes
    <3> QED
      BY <1>0, <2>1, <2>3, <3>2 DEF IOffersFor, ReadsHold, OfferNamesRider
  <2>4. CASE p # o /\ orphan[p].at # "first"
    BY <1>0, <2>1, <2>4, OfferStays
  <2> QED
    BY <2>2, <2>3, <2>4
<1>4. ASSUME NEW o \in Orders, OfferOrphan(o) PROVE IOffersFor(p)'
  <2>1. /\ UNCHANGED <<ingest, crossed>> /\ Offer(o, orphan[o])
        /\ orphan[o].at = "offer" /\ orphan'[o].at = "no"
        /\ \A q \in Orders \ {o} : orphan'[q] = orphan[q]
    BY <1>4 DEF OfferOrphan, history, answers, IType, ISessions
  <2>2. CASE p # o
    <3>1. assignment'[p] = assignment[p] /\ offered'[p] = offered[p]
      BY <2>1, <2>2 DEF Offer, IType, TypeOK
    <3> QED
      BY <1>0, <2>1, <2>2, <3>1, OfferStays
  <2>3. CASE p = o /\ o \notin crossed
    <3>1. ReadsHold(o) /\ OfferNamesRider(o)
      BY <1>0, <2>3 DEF IOffersFor
    <3>2. OfferNamesRider(o)' /\ (offered[o] # Nobody => offered'[o] # Nobody)
      BY <2>1, <3>1, OfferWrites DEF ReadsHold
    <3>3. ReadsHold(o)'
      BY <2>1, <3>1, <3>2 DEF ReadsHold
    <3> QED
      BY <2>3, <3>2, <3>3 DEF IOffersFor
  <2>4. CASE p = o /\ o \in crossed
    BY <2>1, <2>4 DEF IOffersFor
  <2> QED
    BY <2>2, <2>3, <2>4
<1>5. ASSUME NEW b \in Batches, SweepDraft(b) PROVE IOffersFor(p)'
  <2>1. /\ UNCHANGED <<assignment, offered, ingest, crossed>>
        /\ orphan'[p] = orphan[p] \/ orphan'[p] = AsLoaded(p, "loaded")
    BY <1>5 DEF SweepDraft, orders, history, answers
  <2> QED
    BY <1>0, <2>1 DEF AsLoaded, IOffersFor, ReadsHold, OfferNamesRider
<1>6. ASSUME NEW r \in Riders, SweepRider(r) PROVE IOffersFor(p)'
  <2>1. UNCHANGED <<assignment, offered, ingest, crossed>>
    BY <1>6 DEF SweepRider, orders, answers
  <2>2. \/ orphan'[p] = orphan[p]
        \/ \E loaded \in {orphan[p], AsLoaded(p, "loaded")} :
             loaded.at = "loaded" /\ orphan'[p].offered = loaded.offered
    <3>1. \/ orphan'[p] = orphan[p]
          \/ \E loaded \in {orphan[p], AsLoaded(p, "loaded")} :
               /\ loaded.at = "loaded"
               /\ orphan'[p] = [at |-> "first", rider |-> r, had |-> loaded.had,
                                assignment |-> loaded.assignment, offered |-> loaded.offered]
      BY <1>6, SweepRiderLoads
    <3> QED
      BY <3>1
  <2> QED
    BY <1>0, <2>1, <2>2 DEF AsLoaded, IOffersFor, ReadsHold, OfferNamesRider
<1> QED
  BY <1>1, <1>2, <1>3, <1>4, <1>5, <1>6 DEF Sweeping

LEMMA NextOffers == IType /\ IOffers /\ [Next]_vars => IOffers'
<1> SUFFICES ASSUME IType, IOffers, [Next]_vars PROVE IOffers'
  OBVIOUS
<1>0. ASSUME UNCHANGED <<offered, ingest, orphan, crossed>>,
             \A p \in Orders : assignment'[p] = "OFFERED" => assignment[p] = "OFFERED"
      PROVE  IOffers'
  BY <1>0, OfferStays DEF IOffers
<1>1. CASE UNCHANGED vars
  BY <1>0, <1>1 DEF vars, orders, sessions, history, answers
<1>2. ASSUME NEW o \in Orders, Locking(o) \/ Delivering(o) PROVE IOffers'
  <2>1. UNCHANGED <<offered, ingest, orphan, crossed>>
    BY <1>2 DEF Locking, Lock, Release, Delivering, PickupOrder, StartTransit, DeliverOrder,
                FailDelivery, Deliver, orders, sessions, history, answers
  <2>2. \A p \in Orders : assignment'[p] = "OFFERED" => assignment[p] = "OFFERED"
    BY <1>2 DEF Locking, Lock, Release, Delivering, PickupOrder, StartTransit, DeliverOrder,
                FailDelivery, orders, IType, TypeOK
  <2> QED
    BY <1>0, <2>1, <2>2
<1>3. CASE Moving
  BY <1>0, <1>3 DEF Moving, ReadRider, Heartbeat, ForceTransition, UpdateRider, UpdateOrderStatus,
                    BatchComesDue, orders, sessions, history, answers
<1> QED
  BY <1>1, <1>2, <1>3, Groups, IngestingOffers, AnsweringOffers, SweepingOffers

(* An order or a batch on offer can be answered (find_and_offer_solo_rider,
   trigger_batch_assignment, respond_to_assignment): its offer names a rider, for an
   order unless an answer or a time-out fell between the read of the order and the
   write of an ingestion. *)
THEOREM OffersCanBeAnswered == Spec => []OffersNameRider
<1>1. Init => BatchesNameRider /\ IOffers
  BY DEF Init, BatchesNameRider, IOffers, IOffersFor, ReadsHold, OfferNamesRider
<1>2. BatchesNameRider /\ IOffers => OffersNameRider
  BY DEF BatchesNameRider, IOffers, IOffersFor, OfferNamesRider, OffersNameRider
<1> QED
  BY <1>1, <1>2, InitType, NextType, NextBatchesNameRider, NextOffers, PTL DEF Spec
-----------------------------------------------------------------------------

(* Open batches *)

\* Without one of the two races there is one open batch at most, and none as long as
\* somebody who found none is not among those who found none too early.
IDrafts ==
  ~doubled => /\ \A a, b \in OpenDrafts : a = b
              /\ Looking \subseteq blind \/ OpenDrafts = {}

LEMMA DraftsStay ==
  ASSUME IDrafts, OpenDrafts' \subseteq OpenDrafts, Looking' \subseteq Looking,
         UNCHANGED drafts
  PROVE  IDrafts'
BY DEF IDrafts, drafts

LEMMA ReopenDrafts ==
  ASSUME IDrafts, NEW b, Reopens(b), OpenDrafts' \subseteq OpenDrafts \cup {b},
         Looking' \subseteq Looking
  PROVE  IDrafts'
BY DEF IDrafts, Reopens

LEMMA OfferBatchDrafts ==
  ASSUME IType, IDrafts, NEW b \in Batches, OfferBatch(b), Looking' \subseteq Looking
  PROVE  IDrafts'
<1>1. CASE open' = open \cup {b} /\ Reopens(b) /\ UNCHANGED <<batch, batchOffer>>
  <2>1. OpenDrafts' \subseteq OpenDrafts \cup {b}
    BY <1>1 DEF OpenDrafts
  <2> QED
    BY <1>1, <2>1, ReopenDrafts
<1>2. CASE batch' = [batch EXCEPT ![b] = "OFFERED"] /\ UNCHANGED <<open, drafts>>
  <2>1. OpenDrafts' \subseteq OpenDrafts
    BY <1>2 DEF OpenDrafts, IType, TypeOK
  <2> QED
    BY <1>2, <2>1, DraftsStay
<1> QED
  BY <1>1, <1>2 DEF OfferBatch

LEMMA WithdrawDrafts ==
  ASSUME IType, IDrafts, NEW b \in Batches, Withdraw(b), Looking' \subseteq Looking
  PROVE  IDrafts'
<1>1. OpenDrafts' \subseteq OpenDrafts \cup {b} /\ (b \notin open => OpenDrafts' \subseteq OpenDrafts)
  BY DEF Withdraw, OpenDrafts, IType, TypeOK
<1> QED
  BY <1>1, ReopenDrafts, DraftsStay DEF Withdraw

LEMMA IngestingDrafts ==
  ASSUME IType, IDrafts, NEW o \in Orders, Ingesting(o)
  PROVE  IDrafts'
<1>0. \A p \in Orders \ {o} : ingest'[p] = ingest[p]
  BY DEF Ingesting, Ingest, OfferSolo, LookUpBatch, JoinBatch, MakeBatch, CheckBatch, IngestEnds,
         IType, ISessions
<1>1. ASSUME ingest'[o].at # "join" PROVE Looking' \subseteq Looking \ {o}
  BY <1>0, <1>1 DEF Looking
<1>2. CASE LookUpBatch(o)
  <2>1. UNCHANGED <<open, batch, drafts>>
    BY <1>2 DEF LookUpBatch, batches, history
  <2>2. OpenDrafts' = OpenDrafts
    BY <2>1 DEF OpenDrafts
  <2>3. CASE OpenDrafts = {}
    BY <2>2, <2>3 DEF IDrafts
  <2>4. CASE OpenDrafts # {}
    <3>1. OpenDrafts \subseteq Batches
      BY DEF OpenDrafts, IType, TypeOK
    <3>2. ingest'[o].at = "join" => ingest'[o].batch # NoBatch
      BY <1>2, <2>4, <3>1, DispatchAssumption
         DEF LookUpBatch, IngestEnds, IType, ISessions, DispatchAssumption
    <3>3. Looking' \subseteq Looking
      BY <1>0, <3>2 DEF Looking
    <3> QED
      BY <2>1, <2>2, <3>3, DraftsStay
  <2> QED
    BY <2>3, <2>4
<1>3. CASE MakeBatch(o)
  <2>1. PICK b \in Batches : batch' = [batch EXCEPT ![b] = "DRAFT"] /\ open' = open \cup {b}
    BY <1>3 DEF MakeBatch
  <2>2. OpenDrafts' \subseteq OpenDrafts \cup {b}
    BY <2>1 DEF OpenDrafts, IType, TypeOK
  <2>3. Looking' \subseteq Looking \ {o}
    BY <1>1, <1>3 DEF MakeBatch, IType, ISessions
  <2>4. o \in Looking
    BY <1>3 DEF MakeBatch, Looking
  <2>5. /\ blind' = (blind \cup Looking) \ {o}
        /\ doubled' = (doubled \/ (OpenDrafts # {} /\ o \in blind))
    BY <1>3 DEF MakeBatch
  <2> QED
    BY <2>2, <2>3, <2>4, <2>5 DEF IDrafts
<1>4. CASE CheckBatch(o)
  <2>1. ingest[o].batch \in Batches
    BY <1>4, Ways DEF CheckBatch, IType, ISessions
  <2>2. OfferBatch(ingest[o].batch) \/ UNCHANGED <<batches, drafts>>
    BY <1>4 DEF CheckBatch
  <2>3. Looking' \subseteq Looking
    BY <1>1, <1>4 DEF CheckBatch, IngestEnds, IType, ISessions
  <2> QED
    BY <2>1, <2>2, <2>3, OfferBatchDrafts, DraftsStay DEF batches, OpenDrafts
<1>5. CASE Ingest(o) \/ OfferSolo(o) \/ JoinBatch(o)
  <2>1. UNCHANGED <<open, batch, drafts>>
    BY <1>5 DEF Ingest, OfferSolo, JoinBatch, batches, history
  <2>2. ingest'[o].at # "join"
    <3>1. CASE Ingest(o) \/ OfferSolo(o)
      BY <3>1 DEF Ingest, OfferSolo, IngestEnds, IType, ISessions
    <3>2. CASE JoinBatch(o)
      <4>1. ingest[o] \in [at : {"join"}, batch : Batches \cup {NoBatch}, count : Nat]
        BY <3>2, Ways DEF JoinBatch, IType, ISessions
      <4>2. ingest'[o] = [ingest[o] EXCEPT !.at = "check"]
        BY <3>2 DEF JoinBatch, IType, ISessions
      <4> QED
        BY <4>1, <4>2
    <3> QED
      BY <1>5, <3>1, <3>2
  <2> QED
    BY <1>1, <2>1, <2>2, DraftsStay DEF OpenDrafts
<1> QED
  BY <1>2, <1>3, <1>4, <1>5 DEF Ingesting

LEMMA NextDrafts == IType /\ IDrafts /\ [Next]_vars => IDrafts'
<1> SUFFICES ASSUME IType, IDrafts, [Next]_vars PROVE IDrafts'
  OBVIOUS
<1>0. ASSUME UNCHANGED <<batch, open, ingest, drafts>> PROVE IDrafts'
  BY <1>0, DraftsStay DEF OpenDrafts, Looking
<1>1. CASE UNCHANGED vars
  BY <1>0, <1>1 DEF vars, batches, sessions, history
<1>2. ASSUME NEW o \in Orders, Locking(o) \/ Delivering(o) PROVE IDrafts'
  BY <1>0, <1>2 DEF Locking, Lock, Release, history, Delivering, PickupOrder, StartTransit, DeliverOrder, FailDelivery, Deliver,
                    batches, sessions
<1>3. ASSUME NEW r \in Riders, Answering(r) PROVE IDrafts'
  <2>1. ASSUME NEW b \in Batches, AcceptBatch(r, b) PROVE IDrafts'
    <3>1. OpenDrafts' \subseteq OpenDrafts
      BY <2>1 DEF AcceptBatch, OpenDrafts, IType, TypeOK
    <3> QED
      BY <2>1, <3>1, DraftsStay DEF AcceptBatch, sessions, Looking
  <2>2. ASSUME NEW b \in Batches, DeclineBatch(r, b) PROVE IDrafts'
    BY <2>2, WithdrawDrafts DEF DeclineBatch, sessions, Looking
  <2> QED
    BY <1>0, <1>3, <2>1, <2>2 DEF Answering, Respond, AcceptOrder, DeclineOrder, batches, sessions
<1>4. CASE Sweeping
  <2>1. ASSUME NEW b \in Batches, OfferDue(b) \/ TimeOutBatch(b) PROVE IDrafts'
    BY <2>1, OfferBatchDrafts, WithdrawDrafts DEF OfferDue, TimeOutBatch, Looking
  <2> QED
    BY <1>0, <1>4, <2>1 DEF Sweeping, SweepOffer, TimeOut, TakeOrder, OfferOrphan,
                            SweepDraft, SweepBatchOffer, SweepRider, EndSweep, batches, history
<1>5. CASE Moving
  <2>1. ASSUME NEW b \in Batches, BatchComesDue(b) PROVE IDrafts'
    BY <2>1, DraftsStay DEF BatchComesDue, sessions, history, OpenDrafts, Looking
  <2> QED
    BY <1>0, <1>5, <2>1 DEF Moving, ReadRider, Heartbeat, ForceTransition, UpdateRider,
                            UpdateOrderStatus, batches, sessions, history
<1> QED
  BY <1>1, <1>2, <1>3, <1>4, <1>5, IngestingDrafts, Groups

(* get_active_batch_for_community finds two batches, and turns every order of the
   community away, only after two ingestions that both found none, or after a batch
   came back beside another: with however many orders and batches. *)
THEOREM OneBatchIsOpen == Spec => []OneOpenDraft
<1>1. Init => IDrafts
  BY DEF Init, IDrafts, OpenDrafts, Looking
<1>2. IDrafts => OneOpenDraft
  <2> SUFFICES ASSUME IDrafts, ~doubled PROVE ~(Cardinality(OpenDrafts) > 1)
    BY DEF OneOpenDraft
  <2>1. CASE OpenDrafts = {}
    BY <2>1, FS_EmptySet
  <2>2. CASE OpenDrafts # {}
    <3>1. PICK b : OpenDrafts = {b}
      BY <2>2 DEF IDrafts
    <3> QED
      BY <3>1, FS_Singleton
  <2> QED
    BY <2>1, <2>2
<1> QED
  BY <1>1, <1>2, InitType, NextType, NextDrafts, PTL DEF Spec
-----------------------------------------------------------------------------

(* One rider at a time *)

\* Nobody will write a rider, or the want of one, that the order does not have: who
\* is to offer it, or to take an offer back, read it without a rider, and so did the
\* sweep unless it found it taken.
Held(o) ==
  /\ ingest[o].at = "solo" => rider[o] = Nobody
  /\ timing[o].at = "read" => rider[o] = Nobody
  /\ orphan[o].at \in {"loaded", "first", "next"} =>
       /\ orphan[o].had = Nobody => rider[o] = Nobody
       /\ orphan[o].had # Nobody => orphan[o].assignment # "UNASSIGNED"
  /\ orphan[o].at = "offer" => rider[o] = Nobody
OneRider(o) ==
  /\ rider[o] # Nobody => assignment[o] \in {"ASSIGNED", "COMPLETED", "FAILED"}
  /\ assignment[o] = "ASSIGNED" => rider[o] # Nobody

IOneRiderFor(o) == o \notin crossed \cup declined => Held(o) /\ OneRider(o)
IOneRider == \A o \in Orders : IOneRiderFor(o)

\* A step that does not touch the rider of an order, and reads nothing of it.
LEMMA RiderStays ==
  ASSUME NEW p \in Orders, IOneRiderFor(p),
         crossed \subseteq crossed', declined \subseteq declined', rider'[p] = rider[p],
         assignment'[p] = assignment[p] \/ assignment'[p] \in {"COMPLETED", "FAILED"},
         ingest'[p].at = "solo" => ingest[p].at = "solo",
         timing'[p].at = "read" => timing[p].at = "read",
         orphan'[p] = orphan[p] \/ orphan'[p].at = "no"
  PROVE  IOneRiderFor(p)'
<1> SUFFICES ASSUME p \notin crossed' \cup declined' PROVE Held(p)' /\ OneRider(p)'
  BY DEF IOneRiderFor
<1>1. Held(p) /\ OneRider(p)
  BY DEF IOneRiderFor
<1>2. Held(p)'
  BY <1>1 DEF Held
<1>3. OneRider(p)'
  BY <1>1 DEF OneRider
<1> QED
  BY <1>2, <1>3

\* An offer, by an ingestion or by the sweep.
LEMMA OfferedHasNoRider ==
  ASSUME IType, NEW o \in Orders, NEW loaded, Offer(o, loaded), rider[o] = Nobody, OneRider(o),
         rider' = rider
  PROVE  OneRider(o)'
<1>1. assignment'[o] \in {"QUEUED", "OFFERED", assignment[o]}
  BY DEF Offer, Flush, IType, TypeOK
<1> QED
  BY <1>1 DEF OneRider

LEMMA IngestingRider ==
  ASSUME IType, IOneRider, NEW o \in Orders, Ingesting(o)
  PROVE  IOneRider'
<1> SUFFICES ASSUME NEW p \in Orders PROVE IOneRiderFor(p)'
  BY DEF IOneRider
<1>0. IOneRiderFor(p)
  BY DEF IOneRider
<1>1. /\ UNCHANGED <<rider, timing, orphan, crossed, declined>>
      /\ \A x \in Orders \ {o} : ingest'[x] = ingest[x] /\ assignment'[x] = assignment[x]
  BY DEF Ingesting, Ingest, OfferSolo, Offer, LookUpBatch, JoinBatch, MakeBatch, CheckBatch,
         IngestEnds, orders, history, answers, IType, TypeOK, ISessions
<1>2. CASE p # o
  BY <1>0, <1>1, <1>2, RiderStays
<1>3. CASE Ingest(o) /\ p = o
  <2>1. rider[o] = Nobody /\ assignment' = assignment
    BY <1>3 DEF Ingest, orders
  <2> QED
    BY <1>0, <1>1, <1>3, <2>1 DEF IOneRiderFor, Held, OneRider
<1>4. CASE OfferSolo(o) /\ p = o
  <2> SUFFICES ASSUME o \notin crossed' \cup declined' PROVE Held(o)' /\ OneRider(o)'
    BY <1>4 DEF IOneRiderFor
  <2>1. Held(o) /\ OneRider(o)
    BY <1>0, <1>1, <1>4 DEF IOneRiderFor
  <2>2. rider[o] = Nobody
    BY <1>4, <2>1 DEF OfferSolo, Held
  <2>3. ingest'[o].at = "no"
    BY <1>4 DEF OfferSolo, IngestEnds, IType, ISessions
  <2>4. Held(o)'
    BY <1>1, <2>1, <2>3 DEF Held
  <2> QED
    BY <1>1, <1>4, <2>1, <2>2, <2>4, OfferedHasNoRider DEF OfferSolo
<1>5. CASE (LookUpBatch(o) \/ JoinBatch(o) \/ MakeBatch(o) \/ CheckBatch(o)) /\ p = o
  <2>1. assignment' = assignment
    BY <1>5 DEF LookUpBatch, JoinBatch, MakeBatch, CheckBatch, orders
  <2>2. ingest'[o].at # "solo"
    BY <1>5, NotSolo
  <2> QED
    BY <1>0, <1>1, <1>5, <2>1, <2>2, RiderStays
<1> QED
  BY <1>2, <1>3, <1>4, <1>5 DEF Ingesting

\* An acceptance: nobody else is about to write the order, or it is marked.
LEMMA AcceptedHasRider ==
  ASSUME NEW O \in SUBSET Orders, NEW o \in O, NEW r \in Riders, Accepted(O), UNCHANGED sessions,
         rider'[o] = r, assignment'[o] = "ASSIGNED"
  PROVE  IOneRiderFor(o)'
<1> SUFFICES ASSUME o \notin crossed' \cup declined' PROVE Held(o)' /\ OneRider(o)'
  BY DEF IOneRiderFor
<1>1. ingest'[o].at # "solo" /\ orphan'[o].at = "no" /\ timing'[o].at # "read"
  BY DEF Accepted, Offering, sessions
<1>2. r # Nobody
  BY DispatchAssumption DEF DispatchAssumption
<1> QED
  BY <1>1, <1>2 DEF Held, OneRider

LEMMA AnsweringRider ==
  ASSUME IType, IOneRider, NEW r \in Riders, Answering(r)
  PROVE  IOneRider'
<1> SUFFICES ASSUME NEW p \in Orders PROVE IOneRiderFor(p)'
  BY DEF IOneRider
<1>0. IOneRiderFor(p)
  BY DEF IOneRider
<1>1. CASE Respond(r) \/ \E b \in Batches : DeclineBatch(r, b)
  BY <1>0, <1>1, RiderStays DEF Respond, DeclineBatch, orders, sessions, answers
<1>2. ASSUME NEW o \in Orders, AcceptOrder(r, o) PROVE IOneRiderFor(p)'
  <2>1. CASE p = o
    <3>1. rider'[o] = r /\ assignment'[o] = "ASSIGNED"
      BY <1>2 DEF AcceptOrder, IType, TypeOK
    <3> QED
      BY <1>2, <2>1, <3>1, AcceptedHasRider DEF AcceptOrder
  <2>2. CASE p # o
    <3>1. /\ rider'[p] = rider[p] /\ assignment'[p] = assignment[p] /\ UNCHANGED sessions
          /\ p \in crossed' <=> p \in crossed
          /\ p \in declined' <=> p \in declined
      BY <1>2, <2>2 DEF AcceptOrder, Accepted, IType, TypeOK
    <3> QED
      BY <1>0, <3>1 DEF IOneRiderFor, Held, OneRider, sessions
  <2> QED
    BY <2>1, <2>2
<1>3. ASSUME NEW b \in Batches, AcceptBatch(r, b) PROVE IOneRiderFor(p)'
  <2>1. CASE p \in In(b)
    <3>1. rider'[p] = r /\ assignment'[p] = "ASSIGNED"
      BY <1>3, <2>1 DEF AcceptBatch
    <3>2. In(b) \in SUBSET Orders /\ Accepted(In(b)) /\ UNCHANGED sessions
      BY <1>3 DEF AcceptBatch, In
    <3> QED
      BY <2>1, <3>1, <3>2, AcceptedHasRider
  <2>2. CASE p \notin In(b)
    <3>1. /\ rider'[p] = rider[p] /\ assignment'[p] = assignment[p] /\ UNCHANGED sessions
          /\ p \in crossed' <=> p \in crossed
          /\ p \in declined' <=> p \in declined
      BY <1>3, <2>2 DEF AcceptBatch, Accepted
    <3> QED
      BY <1>0, <3>1 DEF IOneRiderFor, Held, OneRider, sessions
  <2> QED
    BY <2>1, <2>2
<1>4. ASSUME NEW o \in Orders, DeclineOrder(r, o) PROVE IOneRiderFor(p)'
  <2>1. /\ UNCHANGED <<rider, sessions>> /\ crossed \subseteq crossed' /\ declined \subseteq declined'
        /\ assignment' = [assignment EXCEPT ![o] = "UNASSIGNED"]
        /\ rider[o] = Nobody \/ o \in declined'
    BY <1>4 DEF DeclineOrder, Crosses
  <2>2. CASE p = o
    BY <1>0, <2>1, <2>2 DEF IOneRiderFor, Held, OneRider, sessions, IType, TypeOK
  <2>3. CASE p # o
    BY <1>0, <2>1, <2>3, RiderStays DEF sessions, IType, TypeOK
  <2> QED
    BY <2>2, <2>3
<1> QED
  BY <1>1, <1>2, <1>3, <1>4 DEF Answering

LEMMA SweepingRider ==
  ASSUME IType, IOneRider, Sweeping
  PROVE  IOneRider'
<1> SUFFICES ASSUME NEW p \in Orders PROVE IOneRiderFor(p)'
  BY DEF IOneRider
<1>0. IOneRiderFor(p)
  BY DEF IOneRider
<1>1. CASE \E b \in Batches : OfferDue(b) \/ SweepBatchOffer(b) \/ TimeOutBatch(b)
  BY <1>0, <1>1, RiderStays
     DEF OfferDue, SweepBatchOffer, TimeOutBatch, orders, history, answers
<1>2. ASSUME NEW o \in Orders, SweepOffer(o) PROVE IOneRiderFor(p)'
  <2>1. /\ UNCHANGED <<rider, assignment, ingest, orphan, crossed, declined>>
        /\ assignment[o] = "OFFERED" /\ \A x \in Orders \ {o} : timing'[x] = timing[x]
    BY <1>2 DEF SweepOffer, orders, history, answers, IType, ISessions
  <2>2. CASE p = o
    BY <1>0, <2>1, <2>2 DEF IOneRiderFor, Held, OneRider
  <2>3. CASE p # o
    BY <1>0, <2>1, <2>3, RiderStays
  <2> QED
    BY <2>2, <2>3
<1>3. ASSUME NEW o \in Orders, TimeOut(o) PROVE IOneRiderFor(p)'
  <2>1. /\ UNCHANGED <<rider, ingest, orphan, declined>> /\ crossed \subseteq crossed'
        /\ timing[o].at = "read" /\ timing'[o].at = "no"
        /\ assignment'[o] \in {"UNASSIGNED", assignment[o]}
        /\ \A x \in Orders \ {o} : timing'[x] = timing[x] /\ assignment'[x] = assignment[x]
    BY <1>3 DEF TimeOut, Flush, IType, TypeOK, ISessions
  <2>2. CASE p = o
    BY <1>0, <2>1, <2>2 DEF IOneRiderFor, Held, OneRider
  <2>3. CASE p # o
    BY <1>0, <2>1, <2>3, RiderStays
  <2> QED
    BY <2>2, <2>3
<1>4. ASSUME NEW o \in Orders, TakeOrder(o) PROVE IOneRiderFor(p)'
  <2>1. /\ UNCHANGED <<ingest, timing, crossed, declined>>
        /\ orphan[o].at \in {"first", "next"}
        /\ rider' = [rider EXCEPT ![o] = Flush(orphan[o].had, Nobody, rider[o])]
        /\ assignment' = [assignment EXCEPT
                            ![o] = Flush(orphan[o].assignment, "UNASSIGNED", assignment[o])]
        /\ orphan'[p] = IF p = o THEN [at |-> "offer", assignment |-> "UNASSIGNED",
                                       offered |-> orphan[o].offered]
                        ELSE IF orphan[p].at = "first" THEN [orphan[p] EXCEPT !.at = "next"]
                        ELSE orphan[p]
    BY <1>4 DEF TakeOrder, answers
  <2>2. CASE p = o
    <3> SUFFICES ASSUME o \notin crossed \cup declined PROVE Held(o)' /\ OneRider(o)'
      BY <2>1, <2>2 DEF IOneRiderFor
    <3>1. Held(o) /\ OneRider(o)
      BY <1>0, <2>2 DEF IOneRiderFor
    <3>2. rider'[o] = Nobody
      BY <2>1, <3>1 DEF Held, Flush, IType, TypeOK
    <3>3. assignment'[o] # "ASSIGNED"
      <4>1. CASE orphan[o].assignment # "UNASSIGNED"
        BY <2>1, <4>1 DEF Flush, IType, TypeOK
      <4>2. CASE orphan[o].assignment = "UNASSIGNED"
        <5>1. rider[o] = Nobody
          BY <2>1, <3>1, <4>2 DEF Held
        <5>2. assignment'[o] = assignment[o]
          BY <2>1, <4>2 DEF Flush, IType, TypeOK
        <5> QED
          BY <3>1, <5>1, <5>2 DEF OneRider
      <4> QED
        BY <4>1, <4>2
    <3>4. orphan'[o].at = "offer"
      BY <2>1, <2>2
    <3> QED
      BY <3>2, <3>3, <3>4 DEF Held, OneRider
  <2>3. CASE p # o
    <3>1. rider'[p] = rider[p] /\ assignment'[p] = assignment[p]
      BY <2>1, <2>3 DEF IType, TypeOK
    <3>2. CASE orphan[p].at # "first"
      BY <1>0, <2>1, <2>3, <3>1, <3>2, RiderStays
    <3>3. CASE orphan[p].at = "first"
      <4>1. orphan[p] \in Takes
        BY <3>3, OrphanWays DEF IType, ISessions
      <4>2. /\ orphan'[p].at = "next" /\ orphan'[p].had = orphan[p].had
            /\ orphan'[p].assignment = orphan[p].assignment
        BY <2>1, <2>3, <3>3, <4>1 DEF Takes
      <4> QED
        BY <1>0, <2>1, <3>1, <3>3, <4>2 DEF IOneRiderFor, Held, OneRider
    <3> QED
      BY <3>2, <3>3
  <2> QED
    BY <2>2, <2>3
<1>5. ASSUME NEW o \in Orders, OfferOrphan(o) PROVE IOneRiderFor(p)'
  <2>1. /\ UNCHANGED <<rider, ingest, timing, crossed, declined>>
        /\ orphan[o].at = "offer" /\ orphan'[o].at = "no" /\ Offer(o, orphan[o])
        /\ \A x \in Orders \ {o} : orphan'[x] = orphan[x] /\ assignment'[x] = assignment[x]
    BY <1>5 DEF OfferOrphan, Offer, history, answers, IType, TypeOK, ISessions
  <2>2. CASE p = o
    <3> SUFFICES ASSUME o \notin crossed \cup declined PROVE Held(o)' /\ OneRider(o)'
      BY <2>1, <2>2 DEF IOneRiderFor
    <3>1. Held(o) /\ OneRider(o)
      BY <1>0, <2>2 DEF IOneRiderFor
    <3>2. rider[o] = Nobody
      BY <2>1, <3>1 DEF Held
    <3>3. Held(o)'
      BY <2>1, <3>1 DEF Held
    <3> QED
      BY <2>1, <3>1, <3>2, <3>3, OfferedHasNoRider
  <2>3. CASE p # o
    BY <1>0, <2>1, <2>3, RiderStays
  <2> QED
    BY <2>2, <2>3
<1>6. ASSUME NEW b \in Batches, SweepDraft(b) PROVE IOneRiderFor(p)'
  <2>1. /\ UNCHANGED <<rider, assignment, ingest, timing, crossed, declined>>
        /\ orphan'[p] = orphan[p] \/ orphan'[p] = AsLoaded(p, "loaded")
    BY <1>6 DEF SweepDraft, orders, history, answers
  <2> QED
    BY <1>0, <2>1 DEF AsLoaded, IOneRiderFor, Held, OneRider
<1>7. CASE EndSweep
  BY <1>0, <1>7, RiderStays DEF EndSweep, orders, history, answers
<1>8. ASSUME NEW r \in Riders, SweepRider(r) PROVE IOneRiderFor(p)'
  <2>1. UNCHANGED <<rider, assignment, ingest, timing, crossed, declined>>
    BY <1>8 DEF SweepRider, orders, answers
  <2>2. \/ orphan'[p] = orphan[p]
        \/ \E loaded \in {orphan[p], AsLoaded(p, "loaded")} :
             /\ loaded.at = "loaded"
             /\ orphan'[p] = [at |-> "first", rider |-> r, had |-> loaded.had,
                              assignment |-> loaded.assignment, offered |-> loaded.offered]
    BY <1>8, SweepRiderLoads
  <2> QED
    BY <1>0, <2>1, <2>2 DEF AsLoaded, IOneRiderFor, Held, OneRider
<1> QED
  BY <1>1, <1>2, <1>3, <1>4, <1>5, <1>6, <1>7, <1>8 DEF Sweeping

LEMMA NextRider == IType /\ IOneRider /\ [Next]_vars => IOneRider'
<1> SUFFICES ASSUME IType, IOneRider, [Next]_vars PROVE IOneRider'
  OBVIOUS
<1>0. ASSUME UNCHANGED <<rider, sessions, answers>>,
             \A p \in Orders : \/ assignment'[p] = assignment[p]
                               \/ assignment'[p] \in {"COMPLETED", "FAILED"}
      PROVE  IOneRider'
  BY <1>0, RiderStays DEF IOneRider, sessions, answers
<1>1. CASE UNCHANGED vars
  BY <1>0, <1>1 DEF vars, orders, history
<1>2. ASSUME NEW o \in Orders, Locking(o) \/ Delivering(o) PROVE IOneRider'
  <2>1. UNCHANGED <<rider, sessions, answers>>
    BY <1>2 DEF Locking, Lock, Release, Delivering, PickupOrder, StartTransit, DeliverOrder,
                FailDelivery, Deliver, orders, history
  <2>2. \A p \in Orders : \/ assignment'[p] = assignment[p]
                          \/ assignment'[p] \in {"COMPLETED", "FAILED"}
    BY <1>2 DEF Locking, Lock, Release, Delivering, PickupOrder, StartTransit, DeliverOrder,
                FailDelivery, orders, IType, TypeOK
  <2> QED
    BY <1>0, <2>1, <2>2
<1>3. CASE Moving
  BY <1>0, <1>3 DEF Moving, ReadRider, Heartbeat, ForceTransition, UpdateRider, UpdateOrderStatus,
                    BatchComesDue, orders, history
<1> QED
  BY <1>1, <1>2, <1>3, Groups, IngestingRider, AnsweringRider, SweepingRider

(* An order that has a rider is not on offer or waiting, and an assigned one has a
   rider (ingest_new_order, respond_to_assignment and the sweep, which commit between
   their steps and write what they read before): unless it was accepted while one of
   those had read it, or declined after it had a rider.  Whatever the number of orders
   and riders, and however often they are offered, taken back and batched. *)
THEOREM RidersAreAssignedOnce == Spec => []OneRiderAtATime
<1>1. Init => IOneRider
  BY DEF Init, IOneRider, IOneRiderFor, Held, OneRider
<1>2. IOneRider => OneRiderAtATime
  BY DEF IOneRider, IOneRiderFor, OneRider, OneRiderAtATime
<1> QED
  BY <1>1, <1>2, InitType, NextType, NextRider, PTL DEF Spec
=============================================================================
