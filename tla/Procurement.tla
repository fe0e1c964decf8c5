---------------------------- MODULE Procurement ----------------------------
(***************************************************************************)
(* Buying stock (app/modules/procurement, app/modules/replenishment and    *)
(* the inventory.low handler of app/workers/kafka_consumer.py).  A         *)
(* shortage drafts a purchase order; a manager may also ask the ML engine, *)
(* approve what it recommends and convert it to an order.  Receiving an    *)
(* order adds its items to the stock, which may report a shortage again.   *)
(* A shortage is of one store; an order names none, and whoever receives   *)
(* it chooses the store.  Quantities may have either sign: nothing         *)
(* refuses a negative one.                                                 *)
(*                                                                         *)
(* No handler locks a purchase order or a recommendation: each reads it,   *)
(* tests its status and writes it later.  A reception commits its status   *)
(* with its first item and every other item on its own.                    *)
(***************************************************************************)
EXTENDS Integers, FiniteSets

CONSTANTS
  Products, Stores,
  Places,         \* bound: the rows of inventory_items, <<store, product>>, in view
  POs, Recs,      \* ids of purchase_orders and of replenishment_recommendations
  product,        \* replenishment_recommendations.product_id
  None,           \* no recommendation, no purchase order
  Managers,       \* requests that work at once
  Lots,           \* the sets of products a manager orders by hand
  Level,          \* inventory_items.reorder_level
  Changes,        \* what one request changes the stock of a product by
  Amounts         \* bound: units of a product in the stock of a store

ASSUME ProcurementAssumption ==
  /\ Places \subseteq Stores \X Products
  /\ product \in [Recs -> Products]
  /\ None \notin POs \cup Recs
  /\ Lots \subseteq SUBSET Products
  /\ Level \in Int /\ Changes \subseteq Int /\ Amounts \subseteq Int

VARIABLES
  stock,     \* available units, of a store and a product
  low,       \* places with an inventory.low message to handle
  po,        \* purchase_orders.status, "NONE" before it is made
  items,     \* its products
  origin,    \* the recommendation it was made from
  rec,       \* recommendation status, "NONE" before it is made
  link,      \* recommendations.purchase_order_id
  desk,      \* what each request has read, and has still to write
  untold,    \* history: shortages since whose last message one was lost, the
             \* product went to another store, or it shrank untested
  arrived,   \* history: how often each item of an order was added to the stock
  born,      \* history: orders created RECEIVED
  broken,    \* history: orders whose reception failed after its first item
  raced      \* history: orders and recommendations two requests had read at once

order   == <<po, items, origin>>
advice  == <<rec, link>>
history == <<arrived, born, broken, raced>>
vars    == <<stock, low, order, advice, desk, untold, history>>

Idle == [doing |-> "NOTHING"]

Init ==
  /\ stock = [i \in Places |-> Level + 1]
  /\ low = {} /\ untold = {}
  /\ po = [n \in POs |-> "NONE"]
  /\ items = [n \in POs |-> {}]
  /\ origin = [n \in POs |-> None]
  /\ rec = [c \in Recs |-> "NONE"]
  /\ link = [c \in Recs |-> None]
  /\ desk = [m \in Managers |-> Idle]
  /\ arrived = [n \in POs |-> [p \in Products |-> 0]]
  /\ born = {} /\ broken = {} /\ raced = {}

----------------------------------------------------------------------------
(* Stock, as far as buying sees it *)

\* Mutant: only what lies below the level is low.
LowBelow(i) == stock'[i] < Level

\* The level itself is low, in reserve_stock and in add_stock.
Low(i) == stock'[i] <= Level

Short(i) == stock[i] <= Level

Change(i, q) ==
  /\ stock[i] + q \in Amounts
  /\ stock' = [stock EXCEPT ![i] = @ + q]

\* What is low is announced, again if it was before; else U may stay untold.
Report(i, U) ==
  /\ low' = IF Low(i) THEN low \cup {i} ELSE low
  /\ untold' = U \ {i}

\* reserve_stock of -q units, or add_stock of q
ChangeStock(i, q) ==
  /\ Change(i, q)
  /\ Report(i, untold)
  /\ UNCHANGED <<order, advice, desk, history>>

\* release_reservation gives q units back and tests no level: a reservation of a
\* negative quantity takes them.
ReleaseStock(i, q) ==
  /\ Change(i, q)
  /\ untold' = IF ~Short(i) /\ Short(i)' THEN untold \cup {i} ELSE untold
  /\ UNCHANGED <<low, order, advice, desk, history>>

----------------------------------------------------------------------------
(* Purchase orders *)

\* create_purchase_order; the status is the caller's, and REQUESTED or any other
\* that is not below is handled like DRAFT.
Statuses == {"DRAFT", "RECEIVED", "CANCELLED"}
Create(n, P, c, s) ==
  /\ po[n] = "NONE" /\ P # {}
  /\ po' = [po EXCEPT ![n] = s]
  /\ items' = [items EXCEPT ![n] = P]
  /\ origin' = [origin EXCEPT ![n] = c]

CreatePurchaseOrder(n, P, s) ==
  /\ Create(n, P, None, s)
  /\ born' = IF s = "RECEIVED" THEN born \cup {n} ELSE born
  /\ UNCHANGED <<stock, low, advice, desk, untold, arrived, broken, raced>>

\* The consumer drafts an order for every message: of its product, whatever its
\* store.  Others of the place, or the same one again, may be left.
HandleLow(i, n) ==
  /\ i \in low
  /\ Create(n, {i[2]}, None, "DRAFT")
  /\ low' \in {low, low \ {i}}
  /\ UNCHANGED <<stock, advice, desk, untold, history>>

\* The message is marked FAILED by the outbox, or its handler fails.
LoseLow(i) ==
  /\ i \in low
  /\ low' = low \ {i}
  /\ untold' = untold \cup {i}
  /\ UNCHANGED <<stock, order, advice, desk, history>>

Begin(m, d) ==
  /\ desk[m] = Idle
  /\ desk' = [desk EXCEPT ![m] = d]
  /\ raced' = IF \E k \in Managers : desk[k] # Idle /\ desk[k].of = d.of
              THEN raced \cup {d.of} ELSE raced
At(m, doing) == desk[m].doing = doing
Done(m) == desk' = [desk EXCEPT ![m] = Idle]

Reception(n, s) == [doing |-> "RECEIVE", of |-> n, left |-> items[n], at |-> s]

\* Mutant: an order that was received may be received again.
ReceiveLoadAgain(m, n, s) ==
  /\ po[n] \notin {"NONE", "CANCELLED"}
  /\ Begin(m, Reception(n, s))
  /\ UNCHANGED <<stock, low, order, advice, untold, arrived, born, broken>>

\* receive_purchase_order, for the store the request names, reads the order and
\* tests its status ...
ReceiveLoad(m, n, s) ==
  /\ po[n] \notin {"NONE", "RECEIVED", "CANCELLED"}
  /\ Begin(m, Reception(n, s))
  /\ UNCHANGED <<stock, low, order, advice, untold, arrived, born, broken>>

\* The other stores that are short of p and have no message.
Elsewhere(s, p) == {i \in Places : i[1] # s /\ i[2] = p /\ Short(i) /\ i \notin low}

\* add_stock of q units of p, ordered for any store, to store s
AddStock(s, p, q) ==
  LET i == <<s, p>>
      U == untold \cup Elsewhere(s, p) IN
  \/ i \in Places /\ Change(i, q) /\ Report(i, U)
  \/ i \notin Places /\ UNCHANGED <<stock, low>> /\ untold' = U

\* ... and adds its items one by one: the commit of the first one makes the
\* order RECEIVED.
ReceiveItem(m, p, q) ==
  LET n == desk[m].of
      left == desk[m].left \ {p} IN
  /\ At(m, "RECEIVE") /\ p \in desk[m].left
  /\ AddStock(desk[m].at, p, q)
  /\ po' = [po EXCEPT ![n] = "RECEIVED"]
  /\ arrived' = [arrived EXCEPT ![n][p] = @ + 1]
  /\ desk' = [desk EXCEPT ![m] = IF left = {} THEN Idle ELSE [@ EXCEPT !.left = left]]
  /\ UNCHANGED <<items, origin, advice, born, broken, raced>>

\* The request fails, or its process dies, before its next commit.
Fail(m) ==
  /\ desk[m] # Idle
  /\ broken' = IF At(m, "RECEIVE") /\ desk[m].left # items[desk[m].of]
               THEN broken \cup {desk[m].of} ELSE broken
  /\ Done(m)
  /\ UNCHANGED <<stock, low, order, advice, untold, arrived, born, raced>>

----------------------------------------------------------------------------
(* Recommendations *)

\* What comes of asking the ML engine about a product: it times out, cannot be
\* reached or answers with an error, all the same to its client.
Answer == {"AUTOMATED_PO_TRIGGERED", "STABLE", "UNAVAILABLE"}

\* check_store_replenishment asks about each product of a store (or of a choice of
\* them), and commits a recommendation for each the engine flags: none of them if
\* the engine fails once.  R are those it makes.
CheckStore(answer, R) ==
  LET flagged == {p \in DOMAIN answer : answer[p] = "AUTOMATED_PO_TRIGGERED"} IN
  /\ \A p \in DOMAIN answer : answer[p] # "UNAVAILABLE"
  /\ R # {} /\ \A c \in R : rec[c] = "NONE"
  /\ {product[c] : c \in R} = flagged
  /\ \A c, d \in R : product[c] = product[d] => c = d
  /\ rec' = [c \in Recs |-> IF c \in R THEN "PENDING" ELSE rec[c]]
  /\ UNCHANGED <<stock, low, order, link, desk, untold, history>>

\* approve_recommendation and reject_recommendation take a PENDING one ...
DecideLoad(m, c, doing) ==
  /\ rec[c] = "PENDING"
  /\ Begin(m, [doing |-> doing, of |-> c])
  /\ UNCHANGED <<stock, low, order, advice, untold, arrived, born, broken>>

\* Mutant: the name of the request for the status.
DecideCommitVerb(m, doing, s) ==
  /\ At(m, doing)
  /\ rec' = [rec EXCEPT ![desk[m].of] = doing]
  /\ Done(m)
  /\ UNCHANGED <<stock, low, order, link, untold, history>>

\* ... and write their decision, whatever was decided meanwhile.
DecideCommit(m, doing, s) ==
  /\ At(m, doing)
  /\ rec' = [rec EXCEPT ![desk[m].of] = s]
  /\ Done(m)
  /\ UNCHANGED <<stock, low, order, link, untold, history>>

ConvertLoad(m, c) ==
  /\ rec[c] = "APPROVED"
  /\ Begin(m, [doing |-> "CONVERT", of |-> c])
  /\ UNCHANGED <<stock, low, order, advice, untold, arrived, born, broken>>

\* Mutant: the recommendation keeps its status.
ConvertCommitUnmarked(m, n) ==
  LET c == desk[m].of IN
  /\ At(m, "CONVERT")
  /\ Create(n, {product[c]}, c, "DRAFT")
  /\ link' = [link EXCEPT ![c] = n]
  /\ Done(m)
  /\ UNCHANGED <<stock, low, rec, untold, history>>

\* convert_to_purchase_order commits the order and the link together.
ConvertCommit(m, n) ==
  LET c == desk[m].of IN
  /\ At(m, "CONVERT")
  /\ Create(n, {product[c]}, c, "DRAFT")
  /\ link' = [link EXCEPT ![c] = n]
  /\ rec' = [rec EXCEPT ![c] = "CONVERTED"]
  /\ Done(m)
  /\ UNCHANGED <<stock, low, untold, history>>

----------------------------------------------------------------------------
Next ==
  \/ \E i \in Places : \/ \E q \in Changes : ChangeStock(i, q) \/ ReleaseStock(i, q)
                       \/ LoseLow(i)
                       \/ \E n \in POs : HandleLow(i, n)
  \/ \E n \in POs, P \in Lots, s \in Statuses : CreatePurchaseOrder(n, P, s)
  \/ \E P \in SUBSET Products : \E answer \in [P -> Answer], R \in SUBSET Recs :
       CheckStore(answer, R)
  \/ \E m \in Managers :
       \/ Fail(m)
       \/ \E n \in POs : ConvertCommit(m, n) \/ \E s \in Stores : ReceiveLoad(m, n, s)
       \/ \E p \in Products, q \in Changes : ReceiveItem(m, p, q)
       \/ \E c \in Recs : \/ DecideLoad(m, c, "APPROVE") \/ DecideLoad(m, c, "REJECT")
                          \/ ConvertLoad(m, c)
       \/ DecideCommit(m, "APPROVE", "APPROVED") \/ DecideCommit(m, "REJECT", "REJECTED")

Spec == Init /\ [][Next]_vars

----------------------------------------------------------------------------
(* Properties *)

Receiving == [doing : {"RECEIVE"}, of : POs, left : SUBSET Products, at : Stores]
Deciding == [doing : {"APPROVE", "REJECT", "CONVERT"}, of : Recs]

TypeOK ==
  /\ stock \in [Places -> Int]
  /\ low \subseteq Places /\ untold \subseteq Places
  /\ po \in [POs -> {"NONE"} \cup Statuses]
  /\ items \in [POs -> SUBSET Products]
  /\ origin \in [POs -> Recs \cup {None}]
  /\ rec \in [Recs -> {"NONE", "PENDING", "APPROVED", "REJECTED", "CONVERTED"}]
  /\ link \in [Recs -> POs \cup {None}]
  /\ desk \in [Managers -> {Idle} \cup Receiving \cup Deciding]
  /\ arrived \in [POs -> [Products -> Nat]]
  /\ born \subseteq POs /\ broken \subseteq POs /\ raced \subseteq POs \cup Recs

\* "Purchase Order ... has already been received" (procurement/service.py:68):
\* an order is added to the stock once, unless two receptions had read it open
\* at once; and all of it is, unless the reception failed on the way, for a
\* received order cannot be received again.  For the same reason nothing ever
\* comes of an order that was created RECEIVED.
ReceivedOnceInFull ==
  \A n \in POs :
    /\ n \notin raced => \A p \in Products : arrived[n][p] <= 1
    /\ n \in born => \A p \in Products : arrived[n][p] = 0
    /\ po[n] = "RECEIVED" /\ n \notin broken \cup born =>
         \A p \in items[n] :
           \/ arrived[n][p] >= 1
           \/ \E m \in Managers : At(m, "RECEIVE") /\ desk[m].of = n /\ p \in desk[m].left

\* A recommendation is bought once: unless two requests had read it at once, it
\* has at most one order, the one it is linked to, and it has one exactly when
\* it is CONVERTED; a rejected one has none.
BoughtOnce ==
  \A c \in Recs \ raced :
    {n \in POs : origin[n] = c} = IF rec[c] = "CONVERTED" THEN {link[c]} ELSE {}

\* Nothing but inventory.low tells the buyers of a shortage, and nothing tells
\* them twice (reserve_stock, add_stock, process_message): the stock of a product
\* in a store is not down at its level without a message on its way, an order of
\* the product that is not received yet, or a reception that has still to add it,
\* unless since it was last announced a message was lost, the product was received
\* in another store, or a release took it.  An order whose reception failed before
\* the product does no longer help, and still counts.
ShortageIsKnown ==
  \A i \in Places : Short(i) /\ i \notin untold =>
    \/ i \in low
    \/ \E n \in POs : /\ i[2] \in items[n]
                      /\ po[n] = "DRAFT" \/ (n \in broken /\ arrived[n][i[2]] = 0)
    \/ \E m \in Managers : At(m, "RECEIVE") /\ i[2] \in desk[m].left
=============================================================================
