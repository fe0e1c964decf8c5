------------------------- MODULE ProcurementProofs -------------------------
(* Theorems about Procurement, for any products, orders, recommendations, requests
   and levels. *)
EXTENDS Procurement, TLAPS

LEMMA Facts ==
  /\ Places \subseteq Stores \X Products
  /\ product \in [Recs -> Products]
  /\ None \notin POs /\ None \notin Recs
  /\ Lots \subseteq SUBSET Products
  /\ Level \in Int /\ Changes \subseteq Int
BY ProcurementAssumption

LEMMA Desks ==
  ASSUME TypeOK, NEW m \in Managers
  PROVE  /\ desk[m] = Idle \/ desk[m] \in Receiving \/ desk[m] \in Deciding
         /\ At(m, "RECEIVE") <=> desk[m] \in Receiving
         /\ At(m, "APPROVE") \/ At(m, "REJECT") \/ At(m, "CONVERT") <=> desk[m] \in Deciding
BY DEF TypeOK, Idle, At, Receiving, Deciding

\* What is added to a store is announced there if it is low, and leaves the other stores
\* as they are, short of it or not.
LEMMA AddStockAt ==
  ASSUME TypeOK, NEW s, NEW p, NEW q \in Changes, AddStock(s, p, q)
  PROVE  /\ stock' \in [Places -> Int] /\ low' \subseteq Places /\ untold' \subseteq Places
         /\ \A i \in Places : i # <<s, p>> =>
              /\ stock'[i] = stock[i] /\ (i \in low => i \in low')
              /\ i \notin untold' => i \notin untold /\ i \notin Elsewhere(s, p)
         /\ \A i \in Places : i = <<s, p>> /\ Short(i)' => i \in low'
<1> DEFINE U == untold \cup Elsewhere(s, p)
<1>1. U \subseteq Places /\ q \in Int
  BY Facts DEF TypeOK, Elsewhere
<1>2. CASE <<s, p>> \notin Places /\ UNCHANGED <<stock, low>> /\ untold' = U
  BY <1>1, <1>2 DEF TypeOK
<1>3. ASSUME NEW j \in Places, j = <<s, p>>, Change(j, q), Report(j, U)
      PROVE  /\ stock' \in [Places -> Int] /\ low' \subseteq Places /\ untold' \subseteq Places
             /\ \A i \in Places : i # j =>
                  /\ stock'[i] = stock[i] /\ (i \in low => i \in low')
                  /\ i \notin untold' => i \notin U
             /\ Short(j)' => j \in low'
  <2> HIDE DEF U
  <2> QED
    BY <1>1, <1>3 DEF Change, Report, Low, Short, TypeOK
<1> QED
  BY <1>2, <1>3 DEF AddStock

-----------------------------------------------------------------------------
(* Types *)

LEMMA TypeStock ==
  ASSUME TypeOK, NEW i \in Places,
         LoseLow(i) \/ \E q \in Changes : ChangeStock(i, q) \/ ReleaseStock(i, q)
  PROVE  TypeOK'
<1>1. stock' \in [Places -> Int] /\ low' \subseteq Places /\ untold' \subseteq Places
  BY Facts DEF TypeOK, ChangeStock, ReleaseStock, LoseLow, Change, Report
<1> QED
  BY <1>1 DEF TypeOK, ChangeStock, ReleaseStock, LoseLow, order, advice, history

LEMMA TypeCreate ==
  ASSUME TypeOK, NEW n \in POs, NEW P \in SUBSET Products, NEW c \in Recs \cup {None},
         NEW s \in Statuses, Create(n, P, c, s)
  PROVE  /\ po' \in [POs -> {"NONE"} \cup Statuses]
         /\ items' \in [POs -> SUBSET Products]
         /\ origin' \in [POs -> Recs \cup {None}]
BY DEF TypeOK, Create, Statuses

LEMMA TypeOrder ==
  ASSUME TypeOK, NEW n \in POs
  PROVE  /\ \A i \in Places : HandleLow(i, n) => TypeOK'
         /\ \A P \in Lots, s \in Statuses : CreatePurchaseOrder(n, P, s) => TypeOK'
<1>1. ASSUME NEW i \in Places, HandleLow(i, n) PROVE TypeOK'
  <2>1. {i[2]} \in SUBSET Products /\ "DRAFT" \in Statuses
    BY Facts DEF Statuses
  <2>2. Create(n, {i[2]}, None, "DRAFT")
    BY <1>1 DEF HandleLow
  <2>3. /\ po' \in [POs -> {"NONE"} \cup Statuses]
        /\ items' \in [POs -> SUBSET Products]
        /\ origin' \in [POs -> Recs \cup {None}]
    BY <2>1, <2>2, TypeCreate
  <2> QED
    BY <1>1, <2>3 DEF TypeOK, HandleLow, advice, history
<1>2. ASSUME NEW P \in Lots, NEW s \in Statuses, CreatePurchaseOrder(n, P, s)
      PROVE  TypeOK'
  <2>1. P \in SUBSET Products /\ Create(n, P, None, s)
    BY <1>2, Facts DEF CreatePurchaseOrder
  <2>2. /\ po' \in [POs -> {"NONE"} \cup Statuses]
        /\ items' \in [POs -> SUBSET Products]
        /\ origin' \in [POs -> Recs \cup {None}]
    BY <2>1, TypeCreate
  <2> QED
    BY <1>2, <2>2 DEF TypeOK, CreatePurchaseOrder, advice, history
<1> QED
  BY <1>1, <1>2

LEMMA TypeCheck ==
  ASSUME TypeOK, NEW P \in SUBSET Products, NEW answer \in [P -> Answer],
         NEW R \in SUBSET Recs, CheckStore(answer, R)
  PROVE  TypeOK'
BY DEF TypeOK, CheckStore, order, history

\* A request takes something on its desk, goes on with it, or is done with it.
LEMMA TypeDesk ==
  ASSUME TypeOK, NEW m \in Managers
  PROVE  /\ Done(m) => desk' \in [Managers -> {Idle} \cup Receiving \cup Deciding]
         /\ \A n \in POs, s \in Stores : Begin(m, Reception(n, s)) =>
              /\ desk' \in [Managers -> {Idle} \cup Receiving \cup Deciding]
              /\ raced' \subseteq POs \cup Recs
         /\ \A c \in Recs, doing \in {"APPROVE", "REJECT", "CONVERT"} :
              Begin(m, [doing |-> doing, of |-> c]) =>
              /\ desk' \in [Managers -> {Idle} \cup Receiving \cup Deciding]
              /\ raced' \subseteq POs \cup Recs
<1>1. ASSUME NEW d \in {Idle} \cup Receiving \cup Deciding, desk' = [desk EXCEPT ![m] = d]
      PROVE  desk' \in [Managers -> {Idle} \cup Receiving \cup Deciding]
  BY <1>1 DEF TypeOK
<1>2. ASSUME NEW n \in POs, NEW s \in Stores, Begin(m, Reception(n, s))
      PROVE  /\ desk' \in [Managers -> {Idle} \cup Receiving \cup Deciding]
             /\ raced' \subseteq POs \cup Recs
  <2>1. Reception(n, s) \in Receiving /\ Reception(n, s).of = n
    BY DEF TypeOK, Receiving, Reception
  <2> QED
    BY <1>1, <1>2, <2>1 DEF Begin, TypeOK
<1>3. ASSUME NEW c \in Recs, NEW doing \in {"APPROVE", "REJECT", "CONVERT"},
             Begin(m, [doing |-> doing, of |-> c])
      PROVE  /\ desk' \in [Managers -> {Idle} \cup Receiving \cup Deciding]
             /\ raced' \subseteq POs \cup Recs
  <2>1. [doing |-> doing, of |-> c] \in Deciding
    BY DEF Deciding
  <2> QED
    BY <1>1, <1>3, <2>1 DEF Begin, TypeOK
<1> QED
  BY <1>1, <1>2, <1>3 DEF Done

LEMMA TypeRequest ==
  ASSUME TypeOK, NEW m \in Managers
  PROVE  /\ Fail(m) => TypeOK'
         /\ \A n \in POs : ConvertCommit(m, n) \/ (\E s \in Stores : ReceiveLoad(m, n, s)) => TypeOK'
         /\ \A p \in Products, q \in Changes : ReceiveItem(m, p, q) => TypeOK'
         /\ \A c \in Recs : DecideLoad(m, c, "APPROVE") \/ DecideLoad(m, c, "REJECT")
                              \/ ConvertLoad(m, c) => TypeOK'
         /\ DecideCommit(m, "APPROVE", "APPROVED") \/ DecideCommit(m, "REJECT", "REJECTED")
              => TypeOK'
<1>1. CASE Fail(m)
  <2>1. broken' \subseteq POs
    BY <1>1, Desks DEF Fail, TypeOK, Receiving
  <2> QED
    BY <1>1, <2>1, TypeDesk DEF Fail, TypeOK, order, advice
<1>2. ASSUME NEW n \in POs, NEW s \in Stores, ReceiveLoad(m, n, s) PROVE TypeOK'
  BY <1>2, TypeDesk DEF ReceiveLoad, TypeOK, order, advice
<1>3. ASSUME NEW n \in POs, ConvertCommit(m, n) PROVE TypeOK'
  <2> DEFINE c == desk[m].of
  <2>0. c \in Recs /\ Create(n, {product[c]}, c, "DRAFT")
    BY <1>3, Desks DEF ConvertCommit, Deciding
  <2>1. /\ c \in Recs /\ {product[c]} \in SUBSET Products /\ "DRAFT" \in Statuses
        /\ Create(n, {product[c]}, c, "DRAFT")
    BY <2>0, Facts DEF Statuses
  <2>2. /\ po' \in [POs -> {"NONE"} \cup Statuses]
        /\ items' \in [POs -> SUBSET Products]
        /\ origin' \in [POs -> Recs \cup {None}]
    BY <2>1, TypeCreate
  <2>3. desk' \in [Managers -> {Idle} \cup Receiving \cup Deciding]
    BY <1>3, TypeDesk DEF ConvertCommit
  <2> QED
    BY <1>3, <2>1, <2>2, <2>3 DEF ConvertCommit, TypeOK, history
<1>4. ASSUME NEW p \in Products, NEW q \in Changes, ReceiveItem(m, p, q) PROVE TypeOK'
  <2>1. desk[m] \in Receiving
    BY <1>4, Desks DEF ReceiveItem
  <2>2. stock' \in [Places -> Int] /\ low' \subseteq Places /\ untold' \subseteq Places
    <3>1. AddStock(desk[m].at, p, q)
      BY <1>4 DEF ReceiveItem
    <3> QED
      BY <3>1, AddStockAt
  <2>3. [desk[m] EXCEPT !.left = desk[m].left \ {p}] \in Receiving
    BY <2>1 DEF Receiving
  <2>4. desk' \in [Managers -> {Idle} \cup Receiving \cup Deciding]
    <3> DEFINE d == IF desk[m].left \ {p} = {} THEN Idle
                   ELSE [desk[m] EXCEPT !.left = desk[m].left \ {p}]
    <3>1. d \in {Idle} \cup Receiving \cup Deciding
      BY <2>3
    <3>2. desk' = [desk EXCEPT ![m] = d]
      BY <1>4 DEF ReceiveItem
    <3> QED
      BY <3>1, <3>2 DEF TypeOK
  <2>5. po' \in [POs -> {"NONE"} \cup Statuses]
    BY <1>4 DEF ReceiveItem, TypeOK, Statuses
  <2>6. arrived' \in [POs -> [Products -> Nat]]
    <3>1. desk[m].of \in POs
      BY <2>1 DEF Receiving
    <3> QED
      BY <1>4, <3>1 DEF ReceiveItem, TypeOK
  <2> QED
    BY <1>4, <2>2, <2>4, <2>5, <2>6 DEF ReceiveItem, TypeOK, advice
<1>5. ASSUME NEW c \in Recs, DecideLoad(m, c, "APPROVE") \/ DecideLoad(m, c, "REJECT")
                               \/ ConvertLoad(m, c)
      PROVE  TypeOK'
  BY <1>5, TypeDesk DEF DecideLoad, ConvertLoad, TypeOK, order, advice
<1>6. CASE DecideCommit(m, "APPROVE", "APPROVED") \/ DecideCommit(m, "REJECT", "REJECTED")
  <2>1. rec' \in [Recs -> {"NONE", "PENDING", "APPROVED", "REJECTED", "CONVERTED"}]
    BY <1>6 DEF DecideCommit, TypeOK
  <2> QED
    BY <1>6, <2>1, TypeDesk DEF DecideCommit, TypeOK, order, history
<1> QED
  BY <1>1, <1>2, <1>3, <1>4, <1>5, <1>6

LEMMA TypeStep == TypeOK /\ [Next]_vars => TypeOK'
<1> SUFFICES ASSUME TypeOK, [Next]_vars PROVE TypeOK'
  OBVIOUS
<1>1. CASE UNCHANGED vars
  BY <1>1 DEF TypeOK, vars, order, advice, history
<1>2. CASE Next
  BY <1>2, TypeStock, TypeOrder, TypeCheck, TypeRequest DEF Next
<1> QED
  BY <1>1, <1>2

(* Orders and recommendations keep their type, and every request works at one that
   it found, with a part of its items still to receive. *)
THEOREM TypeCorrect == Spec => []TypeOK
<1>1. Init => TypeOK
  BY Facts DEF Init, TypeOK
<1> QED
  BY <1>1, TypeStep, PTL DEF Spec

-----------------------------------------------------------------------------
(* Orders and receptions *)

Busy(m, x) == desk[m] # Idle /\ desk[m].of = x
Receives(m, n) == At(m, "RECEIVE") /\ desk[m].of = n

\* What holds of orders whoever reads them at once: what has arrived of an order made
\* it RECEIVED, and who has it to receive read it before; so nobody has one that was
\* created RECEIVED.
Sound ==
  /\ \A n \in POs : po[n] = "NONE" => origin[n] = None
  /\ \A n \in POs, p \in Products : arrived[n][p] > 0 => po[n] = "RECEIVED"
  /\ \A n \in POs, m \in Managers : Receives(m, n) =>
       /\ po[n] \in {"DRAFT", "RECEIVED"}
       /\ desk[m].left \subseteq items[n]
       /\ po[n] = "DRAFT" => desk[m].left = items[n]
       /\ n \notin born
  /\ \A n \in born : po[n] = "RECEIVED" /\ \A p \in Products : arrived[n][p] = 0

\* Nobody else is at an order or a recommendation that did not race.
Alone ==
  \A x \in (POs \cup Recs) \ raced, m, k \in Managers : Busy(m, x) /\ Busy(k, x) => m = k

\* What is left of an order has not arrived, unless it raced.
LeftIsNew ==
  \A n \in POs \ raced, m \in Managers :
    Receives(m, n) => \A p \in desk[m].left : arrived[n][p] = 0

\* What has not arrived of a received order is left to somebody who has begun.
BegunOrBroken ==
  \A n \in POs, p \in Products :
    po[n] = "RECEIVED" /\ n \notin broken \cup born /\ p \in items[n] =>
      \/ arrived[n][p] > 0
      \/ \E m \in Managers : Receives(m, n) /\ p \in desk[m].left /\ desk[m].left # items[n]

Received == Sound /\ Alone /\ LeftIsNew /\ BegunOrBroken

LEMMA ReceivesIsBusy ==
  ASSUME TypeOK, NEW m \in Managers, NEW n, Receives(m, n)
  PROVE  Busy(m, n) /\ desk[m] \in Receiving
BY Desks DEF Receives, Busy, At, Idle

\* Orders are made where there was none, so nobody is at them.
LEMMA ReceivedCreate ==
  ASSUME TypeOK, Received, NEW n \in POs, NEW P, NEW c, NEW s \in Statuses,
         Create(n, P, c, s), UNCHANGED <<arrived, broken, raced>>,
         born' = IF s = "RECEIVED" THEN born \cup {n} ELSE born,
         \A m \in Managers : desk'[m] = desk[m] \/ (desk'[m] = Idle /\ ~At(m, "RECEIVE"))
  PROVE  Received'
<1> USE DEF TypeOK, Create
<1>1. \A m \in Managers : \A x :
        /\ Receives(m, x)' => Receives(m, x) /\ desk'[m] = desk[m]
        /\ Busy(m, x)' => Busy(m, x)
  BY DEF Receives, Busy, At, Idle
<1>2. \A m \in Managers : ~Receives(m, n)
  BY DEF Received, Sound
<1>3. Sound'
  <2>1. \A x \in POs : po'[x] = "NONE" => origin'[x] = None
    BY DEF Received, Sound, Statuses
  <2>2. \A x \in POs, p \in Products : arrived'[x][p] > 0 => po'[x] = "RECEIVED"
    BY DEF Received, Sound
  <2>3. ASSUME NEW x \in POs, NEW m \in Managers, Receives(m, x)'
        PROVE  /\ po'[x] \in {"DRAFT", "RECEIVED"}
               /\ desk'[m].left \subseteq items'[x]
               /\ po'[x] = "DRAFT" => desk'[m].left = items'[x]
               /\ x \notin born'
    <3>1. Receives(m, x) /\ desk'[m] = desk[m] /\ x # n
      BY <1>1, <1>2, <2>3
    <3> QED
      BY <3>1 DEF Received, Sound
  <2>4. ASSUME NEW x \in born', NEW p \in Products
        PROVE  po'[x] = "RECEIVED" /\ arrived'[x][p] = 0
    <3>1. CASE x = n
      <4>1. arrived[n][p] \in Nat /\ ~(arrived[n][p] > 0)
        BY DEF Received, Sound
      <4>2. s = "RECEIVED"
        BY <3>1, <2>4 DEF Received, Sound
      <4> QED
        BY <3>1, <4>1, <4>2
    <3>2. CASE x # n
      BY <2>4, <3>2 DEF Received, Sound
    <3> QED
      BY <3>1, <3>2
  <2>5. \A x \in born' : po'[x] = "RECEIVED"
    BY DEF Received, Sound
  <2> QED
    BY <2>1, <2>2, <2>3, <2>4, <2>5 DEF Sound
<1>4. Alone'
  BY <1>1 DEF Received, Alone
<1>5. LeftIsNew'
  BY <1>1 DEF Received, LeftIsNew
<1>6. ASSUME NEW x \in POs, NEW p \in Products, po'[x] = "RECEIVED",
             x \notin broken' \cup born', p \in items'[x]
      PROVE  \/ arrived'[x][p] > 0
             \/ \E m \in Managers : /\ Receives(m, x)' /\ p \in desk'[m].left
                                    /\ desk'[m].left # items'[x]
  <2>1. x # n /\ po[x] = "RECEIVED" /\ items'[x] = items[x] /\ x \notin born
    BY <1>6
  <2>2. \A m \in Managers : Receives(m, x) => desk'[m] = desk[m] /\ Receives(m, x)'
    BY DEF Receives, At
  <2>3. \/ arrived[x][p] > 0
        \/ \E m \in Managers : Receives(m, x) /\ p \in desk[m].left /\ desk[m].left # items[x]
    BY <1>6, <2>1 DEF Received, BegunOrBroken
  <2> QED
    BY <2>1, <2>2, <2>3
<1>7. BegunOrBroken'
  BY <1>6 DEF BegunOrBroken
<1> QED
  BY <1>3, <1>4, <1>5, <1>7 DEF Received

\* Neither orders nor what is received of them changes: a request begins, or is done
\* with something that it had not begun to receive.
LEMMA ReceivedDesk ==
  ASSUME TypeOK, Received, NEW m \in Managers,
         UNCHANGED <<po, items, origin, arrived, born>>,
         broken \subseteq broken', raced \subseteq raced',
         \A k \in Managers \ {m} : desk'[k] = desk[k],
         \/ desk'[m] = desk[m]
         \/ /\ desk'[m] = Idle
            /\ \A n \in POs : Receives(m, n) => n \in broken' \/ desk[m].left = items[n]
         \/ /\ desk[m] = Idle /\ desk'[m] # Idle
            /\ \A k \in Managers : Busy(k, desk'[m].of) => desk'[m].of \in raced'
            /\ desk'[m].doing = "RECEIVE" =>
                 \E n \in POs : /\ desk'[m].of = n /\ desk'[m].left = items[n]
                                /\ po[n] = "DRAFT"
  PROVE  Received'
<1> USE DEF TypeOK, Receives, Busy, At
<1>1. Sound'
  <2>1. ASSUME NEW n \in POs, NEW k \in Managers, Receives(k, n)'
        PROVE  /\ po'[n] \in {"DRAFT", "RECEIVED"}
               /\ desk'[k].left \subseteq items'[n]
               /\ po'[n] = "DRAFT" => desk'[k].left = items'[n]
               /\ n \notin born'
    <3>1. CASE desk'[k] = desk[k]
      BY <2>1, <3>1 DEF Received, Sound
    <3>2. CASE desk'[k] # desk[k]
      <4>1. desk'[k].left = items[n] /\ po[n] = "DRAFT"
        BY <2>1, <3>2 DEF Idle
      <4> QED
        BY <4>1 DEF Received, Sound
    <3> QED
      BY <3>1, <3>2
  <2> QED
    BY <2>1 DEF Received, Sound
<1>2. Alone'
  BY DEF Received, Alone
<1>3. LeftIsNew'
  <2> SUFFICES ASSUME NEW n \in POs \ raced', NEW k \in Managers, Receives(k, n)',
                      NEW p \in desk'[k].left
               PROVE  arrived[n][p] = 0
    BY DEF LeftIsNew
  <2>1. CASE desk'[k] = desk[k]
    BY <2>1 DEF Received, LeftIsNew
  <2>2. CASE desk'[k] # desk[k]
    <3>1. desk'[k].left = items[n] /\ po[n] = "DRAFT"
      BY <2>2 DEF Idle
    <3> QED
      BY <3>1 DEF Received, Sound
  <2> QED
    BY <2>1, <2>2
<1>4. BegunOrBroken'
  <2> SUFFICES ASSUME NEW n \in POs, NEW p \in Products, po[n] = "RECEIVED",
                      n \notin broken' \cup born, p \in items[n], ~(arrived[n][p] > 0)
               PROVE  \E k \in Managers : /\ Receives(k, n)' /\ p \in desk'[k].left
                                          /\ desk'[k].left # items[n]
    BY DEF BegunOrBroken
  <2>1. PICK k \in Managers : /\ Receives(k, n) /\ p \in desk[k].left /\ desk[k].left # items[n]
    BY DEF Received, BegunOrBroken
  <2>2. desk'[k] = desk[k]
    BY <2>1 DEF Idle
  <2> QED
    BY <2>1, <2>2
<1> QED
  BY <1>1, <1>2, <1>3, <1>4 DEF Received

\* An item is added: the order is RECEIVED from its first one on, and its request
\* keeps the others.
LEMMA ReceivedItem ==
  ASSUME TypeOK, Received, NEW m \in Managers, NEW p \in Products, NEW q \in Changes,
         ReceiveItem(m, p, q)
  PROVE  Received'
<1> DEFINE n == desk[m].of
           left == desk[m].left \ {p}
<1>1. /\ n \in POs /\ Receives(m, n) /\ Busy(m, n) /\ p \in desk[m].left
      /\ desk[m].left \subseteq items[n] /\ po[n] # "NONE" /\ n \notin born
  BY Desks DEF ReceiveItem, Receiving, Received, Sound, Receives, Busy, At, Idle
<1>2. /\ po' = [po EXCEPT ![n] = "RECEIVED"]
      /\ arrived' = [arrived EXCEPT ![n][p] = @ + 1]
      /\ items' = items /\ origin' = origin /\ born' = born /\ broken' = broken
      /\ raced' = raced
  BY DEF ReceiveItem
<1>3. /\ \A k \in Managers \ {m} : desk'[k] = desk[k]
      /\ left = {} => desk'[m] = Idle
      /\ left # {} => desk'[m] = [doing |-> "RECEIVE", of |-> n, left |-> left, at |-> desk[m].at]
  BY <1>1, Desks DEF ReceiveItem, Receiving, Receives, At, TypeOK
<1>4. \A k \in Managers : \A x :
        /\ Busy(k, x)' => Busy(k, x)
        /\ Receives(k, x)' => Receives(k, x)
        /\ Receives(k, x)' /\ k # m => desk'[k].left = desk[k].left
        /\ Receives(m, x)' => x = n /\ desk'[m].left = left
  BY <1>1, <1>3 DEF Busy, Receives, At, Idle
<1>5. /\ \A x \in POs, r \in Products : x # n \/ r # p => arrived'[x][r] = arrived[x][r]
      /\ arrived'[n][p] > 0
      /\ \A x \in POs : x # n => po'[x] = po[x]
      /\ po'[n] = "RECEIVED"
  BY <1>1, <1>2 DEF TypeOK
<1>6. Sound'
  <2>1. \A x \in POs : po'[x] = "NONE" => origin'[x] = None
    BY <1>2, <1>5 DEF Received, Sound
  <2>2. \A x \in POs, r \in Products : arrived'[x][r] > 0 => po'[x] = "RECEIVED"
    BY <1>5 DEF Received, Sound
  <2>3. ASSUME NEW x \in POs, NEW k \in Managers, Receives(k, x)'
        PROVE  /\ po'[x] \in {"DRAFT", "RECEIVED"}
               /\ desk'[k].left \subseteq items'[x]
               /\ po'[x] = "DRAFT" => desk'[k].left = items'[x]
               /\ x \notin born'
    BY <1>1, <1>2, <1>4, <1>5, <2>3 DEF Received, Sound
  <2>4. ASSUME NEW x \in born'
        PROVE  po'[x] = "RECEIVED" /\ \A r \in Products : arrived'[x][r] = 0
    BY <1>1, <1>2, <1>5, <2>4 DEF Received, Sound, TypeOK
  <2> QED
    BY <2>1, <2>2, <2>3, <2>4 DEF Sound
<1>7. Alone'
  BY <1>2, <1>4 DEF Received, Alone
<1>8. LeftIsNew'
  <2> SUFFICES ASSUME NEW x \in POs \ raced, NEW k \in Managers, Receives(k, x)',
                      NEW r \in desk'[k].left
               PROVE  arrived'[x][r] = 0
    BY <1>2 DEF LeftIsNew
  <2>1. r \in desk[k].left /\ arrived[x][r] = 0 /\ r \in Products
    BY <1>4 DEF Received, LeftIsNew, Sound, TypeOK
  <2>2. x # n \/ r # p
    <3> SUFFICES ASSUME x = n PROVE r # p
      OBVIOUS
    <3>1. k = m
      BY <1>1, <1>4, ReceivesIsBusy DEF Received, Alone
    <3> QED
      BY <1>4, <3>1
  <2> QED
    BY <1>5, <2>1, <2>2
<1>9. BegunOrBroken'
  <2> SUFFICES ASSUME NEW x \in POs, NEW r \in Products, po'[x] = "RECEIVED",
                      x \notin broken \cup born, r \in items[x], ~(arrived'[x][r] > 0)
               PROVE  \E k \in Managers : /\ Receives(k, x)' /\ r \in desk'[k].left
                                          /\ desk'[k].left # items[x]
    BY <1>2 DEF BegunOrBroken
  <2>1. (x # n \/ r # p) /\ ~(arrived[x][r] > 0)
    BY <1>5
  <2>2. CASE x # n
    <3>1. PICK k \in Managers : /\ Receives(k, x) /\ r \in desk[k].left /\ desk[k].left # items[x]
      BY <1>5, <2>1, <2>2 DEF Received, BegunOrBroken
    <3>2. k # m
      BY <1>1, <2>2, <3>1 DEF Receives
    <3> QED
      BY <1>3, <3>1, <3>2 DEF Receives, At
  <2>3. CASE x = n
    <3>1. CASE r \in left
      BY <1>1, <1>3, <2>3, <3>1 DEF Receives, At
    <3>2. CASE r \notin left
      <4>1. desk[m].left # items[n] /\ po[n] = "RECEIVED"
        BY <1>1, <2>1, <2>3, <3>2 DEF Received, Sound
      <4>2. PICK k \in Managers : /\ Receives(k, n) /\ r \in desk[k].left /\ desk[k].left # items[n]
        BY <2>1, <2>3, <4>1 DEF Received, BegunOrBroken
      <4>3. k # m
        BY <2>1, <2>3, <3>2, <4>2
      <4> QED
        BY <1>3, <2>3, <4>2, <4>3 DEF Receives, At
    <3> QED
      BY <3>1, <3>2
  <2> QED
    BY <2>2, <2>3
<1> QED
  BY <1>6, <1>7, <1>8, <1>9 DEF Received

\* A request begins with what is not on another's desk, or marks it as raced.
LEMMA BeginIsBusy ==
  ASSUME TypeOK, NEW m \in Managers, NEW d, Begin(m, d), d # Idle
  PROVE  /\ desk[m] = Idle
         /\ desk'[m] = d
         /\ \A k \in Managers \ {m} : desk'[k] = desk[k]
         /\ raced \subseteq raced'
         /\ \A k \in Managers : Busy(k, d.of) => d.of \in raced'
BY DEF TypeOK, Begin, Busy

LEMMA NotIdle ==
  /\ \A n, s : /\ Reception(n, s) # Idle
              /\ Reception(n, s).of = n /\ Reception(n, s).doing = "RECEIVE"
              /\ Reception(n, s).left = items[n]
  /\ \A doing \in {"APPROVE", "REJECT", "CONVERT"} : \A c : [doing |-> doing, of |-> c] # Idle
BY DEF Reception, Idle

LEMMA ReceivedRequest ==
  ASSUME TypeOK, Received, NEW m \in Managers
  PROVE  /\ Fail(m) => Received'
         /\ \A n \in POs : ConvertCommit(m, n) \/ (\E s \in Stores : ReceiveLoad(m, n, s)) => Received'
         /\ \A c \in Recs : DecideLoad(m, c, "APPROVE") \/ DecideLoad(m, c, "REJECT")
                              \/ ConvertLoad(m, c) => Received'
         /\ DecideCommit(m, "APPROVE", "APPROVED") \/ DecideCommit(m, "REJECT", "REJECTED")
              => Received'
<1>1. CASE Fail(m)
  <2>1. \A n \in POs : Receives(m, n) => n \in broken' \/ desk[m].left = items[n]
    BY <1>1 DEF Fail, Receives
  <2>2. desk'[m] = Idle /\ \A k \in Managers \ {m} : desk'[k] = desk[k]
    BY <1>1 DEF Fail, Done, TypeOK
  <2> QED
    BY <1>1, <2>1, <2>2, ReceivedDesk DEF Fail, order
<1>2. ASSUME NEW n \in POs, NEW s \in Stores, ReceiveLoad(m, n, s) PROVE Received'
  <2>1. /\ desk[m] = Idle /\ desk'[m] # Idle
        /\ desk'[m].of = n /\ desk'[m].left = items[n]
        /\ \A k \in Managers \ {m} : desk'[k] = desk[k]
        /\ raced \subseteq raced'
        /\ \A k \in Managers : Busy(k, n) => n \in raced'
    BY <1>2, BeginIsBusy, NotIdle DEF ReceiveLoad
  <2>2. po[n] = "DRAFT"
    BY <1>2 DEF ReceiveLoad, TypeOK, Statuses
  <2> QED
    BY <1>2, <2>1, <2>2, ReceivedDesk DEF ReceiveLoad, order
<1>3. ASSUME NEW n \in POs, ConvertCommit(m, n) PROVE Received'
  <2>1. \A k \in Managers : desk'[k] = desk[k] \/ (desk'[k] = Idle /\ ~At(k, "RECEIVE"))
    BY <1>3 DEF ConvertCommit, Done, TypeOK, At
  <2>2. "DRAFT" \in Statuses
    BY DEF Statuses
  <2> QED
    BY <1>3, <2>1, <2>2, ReceivedCreate DEF ConvertCommit, history
<1>4. ASSUME NEW c \in Recs, NEW doing \in {"APPROVE", "REJECT", "CONVERT"},
             Begin(m, [doing |-> doing, of |-> c]), UNCHANGED <<order, arrived, born, broken>>
      PROVE  Received'
  <2>1. /\ desk[m] = Idle /\ desk'[m] # Idle
        /\ desk'[m] = [doing |-> doing, of |-> c]
        /\ \A k \in Managers \ {m} : desk'[k] = desk[k]
        /\ raced \subseteq raced'
        /\ \A k \in Managers : Busy(k, c) => c \in raced'
    BY <1>4, BeginIsBusy, NotIdle
  <2>2. desk'[m].of = c /\ desk'[m].doing # "RECEIVE"
    BY <2>1
  <2> QED
    BY <1>4, <2>1, <2>2, ReceivedDesk DEF order
<1>5. CASE DecideCommit(m, "APPROVE", "APPROVED") \/ DecideCommit(m, "REJECT", "REJECTED")
  <2>1. /\ desk'[m] = Idle /\ \A k \in Managers \ {m} : desk'[k] = desk[k]
        /\ \A n \in POs : ~Receives(m, n)
    BY <1>5 DEF DecideCommit, Done, TypeOK, Receives, At
  <2> QED
    BY <1>5, <2>1, ReceivedDesk DEF DecideCommit, order, history
<1> QED
  BY <1>1, <1>2, <1>3, <1>4, <1>5 DEF DecideLoad, ConvertLoad

LEMMA ReceivedStep == TypeOK /\ Received /\ [Next]_vars => Received'
<1> SUFFICES ASSUME TypeOK, Received, [Next]_vars PROVE Received'
  OBVIOUS
<1>1. ASSUME UNCHANGED <<order, desk, history>> PROVE Received'
  BY <1>1 DEF Received, Sound, Alone, LeftIsNew, BegunOrBroken, Receives, Busy, At, order, history
<1>2. CASE UNCHANGED vars
  BY <1>1, <1>2 DEF vars
<1>3. ASSUME NEW i \in Places, NEW q \in Changes,
             ChangeStock(i, q) \/ ReleaseStock(i, q) \/ LoseLow(i)
      PROVE  Received'
  BY <1>1, <1>3 DEF ChangeStock, ReleaseStock, LoseLow
<1>4. ASSUME NEW i \in Places, NEW n \in POs, HandleLow(i, n) PROVE Received'
  <2>1. "DRAFT" \in Statuses
    BY DEF Statuses
  <2> QED
    BY <1>4, <2>1, ReceivedCreate DEF HandleLow, history
<1>5. ASSUME NEW n \in POs, NEW P \in Lots, NEW s \in Statuses,
             CreatePurchaseOrder(n, P, s)
      PROVE  Received'
  BY <1>5, ReceivedCreate DEF CreatePurchaseOrder, history
<1>6. ASSUME NEW P \in SUBSET Products, NEW answer \in [P -> Answer], NEW R \in SUBSET Recs,
             CheckStore(answer, R)
      PROVE  Received'
  BY <1>1, <1>6 DEF CheckStore
<1>7. ASSUME NEW m \in Managers,
             \/ Fail(m)
             \/ \E n \in POs : ConvertCommit(m, n) \/ \E s \in Stores : ReceiveLoad(m, n, s)
             \/ \E p \in Products, q \in Changes : ReceiveItem(m, p, q)
             \/ \E c \in Recs : \/ DecideLoad(m, c, "APPROVE") \/ DecideLoad(m, c, "REJECT")
                                \/ ConvertLoad(m, c)
             \/ DecideCommit(m, "APPROVE", "APPROVED") \/ DecideCommit(m, "REJECT", "REJECTED")
      PROVE  Received'
  BY <1>7, ReceivedRequest, ReceivedItem
<1>8. ASSUME NEW i \in Places, LoseLow(i) PROVE Received'
  BY <1>1, <1>8 DEF LoseLow
<1> QED
  BY <1>2, <1>3, <1>4, <1>5, <1>6, <1>7, <1>8 DEF Next

LEMMA ReceivedInit == Init => Received
BY Facts DEF Init, Received, Sound, Alone, LeftIsNew, BegunOrBroken, Receives, Busy, At, Idle

\* What has not arrived of an order nobody else has read arrives at most once.
Once == \A n \in POs \ raced, p \in Products : arrived[n][p] <= 1

LEMMA OnceStep == TypeOK /\ Received /\ Once /\ [Next]_vars => Once'
<1> USE DEF Once
<1> SUFFICES ASSUME TypeOK, Received, Once, [Next]_vars PROVE Once'
  OBVIOUS
<1>1. ASSUME arrived' = arrived, raced \subseteq raced' PROVE Once'
  BY <1>1
<1>2. ASSUME NEW m \in Managers, NEW p \in Products, NEW q \in Changes, ReceiveItem(m, p, q) PROVE Once'
  <2> DEFINE n == desk[m].of
  <2>1. n \in POs /\ Receives(m, n) /\ p \in desk[m].left
    BY <1>2, Desks DEF ReceiveItem, Receiving, Receives
  <2>2. n \notin raced => arrived[n][p] = 0
    BY <2>1 DEF Received, LeftIsNew
  <2> QED
    BY <1>2, <2>1, <2>2 DEF ReceiveItem, TypeOK
<1>3. ASSUME NEW m \in Managers,
             \/ Fail(m)
             \/ \E n \in POs : ConvertCommit(m, n) \/ \E s \in Stores : ReceiveLoad(m, n, s)
             \/ \E c \in Recs : \/ DecideLoad(m, c, "APPROVE") \/ DecideLoad(m, c, "REJECT")
                                \/ ConvertLoad(m, c)
             \/ DecideCommit(m, "APPROVE", "APPROVED") \/ DecideCommit(m, "REJECT", "REJECTED")
      PROVE  arrived' = arrived /\ raced \subseteq raced'
  BY <1>3 DEF Fail, ReceiveLoad, ConvertCommit, DecideLoad, ConvertLoad, DecideCommit, Begin, history
<1>4. CASE \/ UNCHANGED vars
           \/ \E i \in Places : \/ \E q \in Changes : ChangeStock(i, q) \/ ReleaseStock(i, q)
                                \/ LoseLow(i)
                                \/ \E n \in POs : HandleLow(i, n)
           \/ \E n \in POs, P \in Lots, s \in Statuses : CreatePurchaseOrder(n, P, s)
           \/ \E P \in SUBSET Products : \E answer \in [P -> Answer], R \in SUBSET Recs :
                CheckStore(answer, R)
  BY <1>1, <1>4 DEF vars, ChangeStock, ReleaseStock, LoseLow, HandleLow, CreatePurchaseOrder, CheckStore, history
<1> QED
  BY <1>1, <1>2, <1>3, <1>4 DEF Next

(* An order is added to the stock once and all of it, unless two receptions had read
   it open at once or its reception failed on the way. *)
THEOREM ReceivedOnce == Spec => []ReceivedOnceInFull
<1>1. Init => Once
  BY DEF Init, Once
<1>2. TypeOK /\ Received /\ Once => ReceivedOnceInFull
  <2> SUFFICES ASSUME TypeOK, Received, Once, NEW n \in POs
               PROVE  /\ n \notin raced => \A p \in Products : arrived[n][p] <= 1
                      /\ n \in born => \A p \in Products : arrived[n][p] = 0
                      /\ po[n] = "RECEIVED" /\ n \notin broken \cup born =>
                           \A p \in items[n] :
                             \/ arrived[n][p] >= 1
                             \/ \E m \in Managers : /\ At(m, "RECEIVE") /\ desk[m].of = n
                                                    /\ p \in desk[m].left
    BY DEF ReceivedOnceInFull
  <2>1. n \in born => \A p \in Products : arrived[n][p] = 0
    BY DEF Received, Sound
  <2>2. n \notin raced => \A p \in Products : arrived[n][p] <= 1
    BY DEF Once
  <2>3. ASSUME po[n] = "RECEIVED", n \notin broken \cup born, NEW p \in items[n]
        PROVE  \/ arrived[n][p] >= 1
               \/ \E m \in Managers : /\ At(m, "RECEIVE") /\ desk[m].of = n
                                      /\ p \in desk[m].left
    <3>1. p \in Products /\ arrived[n][p] \in Nat
      BY DEF TypeOK
    <3> QED
      BY <2>3, <3>1 DEF Received, BegunOrBroken, Receives
  <2> QED
    BY <2>1, <2>2, <2>3
<1>3. TypeOK /\ Received /\ Once /\ [Next]_vars => Once'
  BY OnceStep
<1> QED
  BY <1>1, <1>2, <1>3, ReceivedInit, ReceivedStep, TypeCorrect, PTL DEF Spec

-----------------------------------------------------------------------------
(* Recommendations *)

Decides(m, c) == desk[m] \in Deciding /\ desk[m].of = c

\* A request works at a recommendation that exists, and one that did not race is still
\* as the request read it.
StillAsRead ==
  /\ \A c \in Recs, m \in Managers : Decides(m, c) => rec[c] # "NONE"
  /\ \A c \in Recs \ raced, m \in Managers :
       Decides(m, c) => rec[c] = IF At(m, "CONVERT") THEN "APPROVED" ELSE "PENDING"

Bought == StillAsRead /\ BoughtOnce

LEMMA DecidesIsBusy ==
  ASSUME NEW m \in Managers, NEW c, Decides(m, c)
  PROVE  Busy(m, c)
BY DEF Decides, Deciding, Busy, Idle

\* Requests that do not decide, and orders that come from nowhere, change nothing.
LEMMA BoughtElsewhere ==
  ASSUME TypeOK, Bought, UNCHANGED <<rec, link, origin>>, raced \subseteq raced',
         \A m \in Managers : desk'[m] \in Deciding => desk'[m] = desk[m]
  PROVE  Bought'
<1>1. \A m \in Managers : \A c : Decides(m, c)' => Decides(m, c) /\ desk'[m] = desk[m]
  BY DEF Decides
<1>2. StillAsRead'
  BY <1>1 DEF Bought, StillAsRead, At
<1>3. BoughtOnce'
  BY DEF Bought, BoughtOnce
<1> QED
  BY <1>2, <1>3 DEF Bought

LEMMA BoughtCreate ==
  ASSUME TypeOK, Received, Bought, NEW n \in POs, NEW P, NEW s, Create(n, P, None, s),
         UNCHANGED <<rec, link, desk, raced>>
  PROVE  Bought'
<1>1. origin' = origin
  BY DEF Create, Received, Sound, TypeOK
<1> QED
  BY <1>1, BoughtElsewhere

LEMMA BoughtCheck ==
  ASSUME TypeOK, Bought, NEW P \in SUBSET Products, NEW answer \in [P -> Answer],
         NEW R \in SUBSET Recs, CheckStore(answer, R)
  PROVE  Bought'
<1>1. \A c \in Recs : rec'[c] = rec[c] \/ (rec[c] = "NONE" /\ rec'[c] = "PENDING")
  BY DEF CheckStore
<1>2. StillAsRead'
  BY <1>1 DEF Bought, StillAsRead, CheckStore, history, Decides, At
<1>3. BoughtOnce'
  BY <1>1 DEF Bought, BoughtOnce, CheckStore, history, order
<1> QED
  BY <1>2, <1>3 DEF Bought

LEMMA BoughtLoad ==
  ASSUME TypeOK, Bought, NEW m \in Managers, NEW c \in Recs,
         DecideLoad(m, c, "APPROVE") \/ DecideLoad(m, c, "REJECT") \/ ConvertLoad(m, c)
  PROVE  Bought'
<1>1. PICK doing \in {"APPROVE", "REJECT", "CONVERT"} :
        /\ Begin(m, [doing |-> doing, of |-> c])
        /\ rec[c] = IF doing = "CONVERT" THEN "APPROVED" ELSE "PENDING"
        /\ UNCHANGED <<order, advice>>
  BY DEF DecideLoad, ConvertLoad
<1>2. /\ desk'[m] = [doing |-> doing, of |-> c]
      /\ \A k \in Managers \ {m} : desk'[k] = desk[k]
      /\ raced \subseteq raced'
  BY <1>1, BeginIsBusy, NotIdle
<1>3. \A k \in Managers : \A d : Decides(k, d)' =>
        \/ k # m /\ Decides(k, d) /\ desk'[k] = desk[k]
        \/ k = m /\ d = c /\ desk'[k].doing = doing
  BY <1>2 DEF Decides
<1>4. StillAsRead'
  BY <1>1, <1>2, <1>3 DEF Bought, StillAsRead, At, advice
<1>5. BoughtOnce'
  BY <1>1, <1>2 DEF Bought, BoughtOnce, order, advice
<1> QED
  BY <1>4, <1>5 DEF Bought

\* Nobody else works at a recommendation that did not race.
LEMMA OthersElsewhere ==
  ASSUME TypeOK, Received, NEW m \in Managers, NEW c \in Recs \ raced, Decides(m, c),
         NEW k \in Managers \ {m}
  PROVE  ~Decides(k, c)
BY DecidesIsBusy DEF Received, Alone

LEMMA BoughtDecide ==
  ASSUME TypeOK, Received, Bought, NEW m \in Managers,
         DecideCommit(m, "APPROVE", "APPROVED") \/ DecideCommit(m, "REJECT", "REJECTED")
  PROVE  Bought'
<1> DEFINE c == desk[m].of
<1>1. /\ c \in Recs /\ Decides(m, c) /\ ~At(m, "CONVERT")
      /\ desk'[m] = Idle /\ \A k \in Managers \ {m} : desk'[k] = desk[k]
      /\ rec' \in {[rec EXCEPT ![c] = "APPROVED"], [rec EXCEPT ![c] = "REJECTED"]}
      /\ UNCHANGED <<origin, link, raced>>
  BY Desks DEF DecideCommit, Done, At, Decides, Deciding, TypeOK, order, history
<1>2. \A k \in Managers : \A d : Decides(k, d)' => k # m /\ Decides(k, d) /\ desk'[k] = desk[k]
  BY <1>1 DEF Decides, Deciding, Idle
<1>3. \A d \in Recs : d # c => rec'[d] = rec[d]
  BY <1>1 DEF TypeOK
<1>4. StillAsRead'
  <2>1. ASSUME NEW d \in Recs, NEW k \in Managers, Decides(k, d)' PROVE rec'[d] # "NONE"
    BY <1>1, <1>2, <1>3, <2>1 DEF Bought, StillAsRead, TypeOK
  <2>2. ASSUME NEW d \in Recs \ raced', NEW k \in Managers, Decides(k, d)'
        PROVE  rec'[d] = IF At(k, "CONVERT")' THEN "APPROVED" ELSE "PENDING"
    <3>1. d # c
      BY <1>1, <1>2, <2>2, OthersElsewhere
    <3> QED
      BY <1>1, <1>2, <1>3, <2>2, <3>1 DEF Bought, StillAsRead, At
  <2> QED
    BY <2>1, <2>2 DEF StillAsRead
<1>5. BoughtOnce'
  <2>1. c \notin raced => rec[c] = "PENDING"
    BY <1>1 DEF Bought, StillAsRead
  <2>2. rec'[c] # "CONVERTED"
    BY <1>1 DEF TypeOK
  <2> QED
    BY <1>1, <1>3, <2>1, <2>2 DEF Bought, BoughtOnce
<1> QED
  BY <1>4, <1>5 DEF Bought

LEMMA BoughtConvert ==
  ASSUME TypeOK, Received, Bought, NEW m \in Managers, NEW n \in POs, ConvertCommit(m, n)
  PROVE  Bought'
<1> DEFINE c == desk[m].of
<1>1. /\ c \in Recs /\ Decides(m, c) /\ At(m, "CONVERT") /\ c # None
      /\ desk'[m] = Idle /\ \A k \in Managers \ {m} : desk'[k] = desk[k]
      /\ rec' = [rec EXCEPT ![c] = "CONVERTED"] /\ link' = [link EXCEPT ![c] = n]
      /\ origin' = [origin EXCEPT ![n] = c] /\ origin[n] = None
      /\ raced' = raced
  BY Desks, Facts DEF ConvertCommit, Create, Done, At, Decides, Deciding, TypeOK, history,
                      Received, Sound
<1>2. \A k \in Managers : \A d : Decides(k, d)' => k # m /\ Decides(k, d) /\ desk'[k] = desk[k]
  BY <1>1 DEF Decides, Deciding, Idle
<1>3. \A d \in Recs : d # c => rec'[d] = rec[d] /\ link'[d] = link[d]
  BY <1>1 DEF TypeOK
<1>4. StillAsRead'
  <2>1. ASSUME NEW d \in Recs, NEW k \in Managers, Decides(k, d)' PROVE rec'[d] # "NONE"
    BY <1>1, <1>2, <1>3, <2>1 DEF Bought, StillAsRead, TypeOK
  <2>2. ASSUME NEW d \in Recs \ raced', NEW k \in Managers, Decides(k, d)'
        PROVE  rec'[d] = IF At(k, "CONVERT")' THEN "APPROVED" ELSE "PENDING"
    <3>1. d # c
      BY <1>1, <1>2, <2>2, OthersElsewhere
    <3> QED
      BY <1>1, <1>2, <1>3, <2>2, <3>1 DEF Bought, StillAsRead, At
  <2> QED
    BY <2>1, <2>2 DEF StillAsRead
<1>5. ASSUME NEW d \in Recs \ raced'
      PROVE  {x \in POs : origin'[x] = d} = IF rec'[d] = "CONVERTED" THEN {link'[d]} ELSE {}
  <2>1. CASE d = c
    <3>1. rec[c] = "APPROVED"
      BY <1>1, <2>1 DEF Bought, StillAsRead
    <3>2. {x \in POs : origin[x] = c} = {}
      BY <1>1, <2>1, <3>1 DEF Bought, BoughtOnce
    <3>3. {x \in POs : origin'[x] = c} = {n}
      BY <1>1, <3>2 DEF TypeOK
    <3> QED
      BY <1>1, <2>1, <3>3 DEF TypeOK
  <2>2. CASE d # c
    <3>1. d # None
      BY Facts
    <3>2. {x \in POs : origin'[x] = d} = {x \in POs : origin[x] = d}
      BY <1>1, <2>2, <3>1 DEF TypeOK
    <3> QED
      BY <1>1, <1>3, <2>2, <3>2 DEF Bought, BoughtOnce
  <2> QED
    BY <2>1, <2>2
<1> QED
  BY <1>4, <1>5 DEF Bought, BoughtOnce

LEMMA BoughtStep == TypeOK /\ Received /\ Bought /\ [Next]_vars => Bought'
<1> SUFFICES ASSUME TypeOK, Received, Bought, [Next]_vars PROVE Bought'
  OBVIOUS
<1>1. CASE UNCHANGED vars
  BY <1>1, BoughtElsewhere DEF vars, order, advice, history
<1>2. ASSUME NEW i \in Places,
             LoseLow(i) \/ \E q \in Changes : ChangeStock(i, q) \/ ReleaseStock(i, q)
      PROVE  Bought'
  BY <1>2, BoughtElsewhere DEF ChangeStock, ReleaseStock, LoseLow, order, advice, history
<1>3. ASSUME NEW i \in Places, NEW n \in POs, HandleLow(i, n) PROVE Bought'
  BY <1>3, BoughtCreate DEF HandleLow, advice, history
<1>4. ASSUME NEW n \in POs, NEW P \in Lots, NEW s \in Statuses,
             CreatePurchaseOrder(n, P, s)
      PROVE  Bought'
  BY <1>4, BoughtCreate DEF CreatePurchaseOrder, advice, history
<1>5. ASSUME NEW m \in Managers, Fail(m) PROVE Bought'
  <2>1. \A k \in Managers : desk'[k] \in Deciding => desk'[k] = desk[k]
    BY <1>5 DEF Fail, Done, TypeOK, Idle, Deciding
  <2> QED
    BY <1>5, <2>1, BoughtElsewhere DEF Fail, order, advice
<1>6. ASSUME NEW m \in Managers, NEW n \in POs, NEW s \in Stores, ReceiveLoad(m, n, s)
      PROVE  Bought'
  <2>1. \A k \in Managers : desk'[k] \in Deciding => desk'[k] = desk[k]
    <3>1. /\ desk'[m].doing = "RECEIVE"
          /\ \A k \in Managers \ {m} : desk'[k] = desk[k]
      BY <1>6, BeginIsBusy, NotIdle DEF ReceiveLoad
    <3> QED
      BY <3>1 DEF Deciding
  <2>2. raced \subseteq raced'
    BY <1>6 DEF ReceiveLoad, Begin
  <2> QED
    BY <1>6, <2>1, <2>2, BoughtElsewhere DEF ReceiveLoad, order, advice
<1>7. ASSUME NEW m \in Managers, NEW p \in Products, NEW q \in Changes, ReceiveItem(m, p, q)
      PROVE  Bought'
  <2>1. \A k \in Managers : desk'[k] \in Deciding => desk'[k] = desk[k]
    BY <1>7, Desks DEF ReceiveItem, Receiving, Deciding, Idle, TypeOK
  <2> QED
    BY <1>7, <2>1, BoughtElsewhere DEF ReceiveItem, advice
<1> QED
  BY <1>1, <1>2, <1>3, <1>4, <1>5, <1>6, <1>7, BoughtCheck, BoughtLoad, BoughtDecide,
     BoughtConvert DEF Next

(* A recommendation that no two requests had read at once has one order if it is
   CONVERTED, the one it is linked to, and none otherwise. *)
THEOREM RecommendationsAreBoughtOnce == Spec => []BoughtOnce
<1>1. Init => Bought
  BY Facts DEF Init, Bought, StillAsRead, BoughtOnce, Decides, Deciding, Idle
<1>2. Bought => BoughtOnce
  BY DEF Bought
<1> QED
  BY <1>1, <1>2, BoughtStep, ReceivedInit, ReceivedStep, TypeCorrect, PTL DEF Spec

-----------------------------------------------------------------------------
(* Shortages *)

\* What tells of a shortage, besides a message: an order of the product, and a request
\* that will receive it, as long as it has not arrived of that order.
Ordered(n, p) == p \in items[n] /\ (po[n] = "DRAFT" \/ (n \in broken /\ arrived[n][p] = 0))
Due(m, n, p) == Receives(m, n) /\ p \in desk[m].left /\ arrived[n][p] = 0
Told(i) ==
  \/ i \in low
  \/ \E n \in POs : Ordered(n, i[2])
  \/ \E n \in POs, m \in Managers : Due(m, n, i[2])

Known ==
  /\ \A n \in POs : po[n] = "NONE" => items[n] = {}
  /\ \A i \in Places : Short(i) /\ i \notin untold => Told(i)

\* Orders and receptions go on as they were.
LEMMA ToldElsewhere ==
  ASSUME TypeOK, NEW i \in Places, Told(i), i \in low => i \in low',
         \A n \in POs : Ordered(n, i[2]) => Ordered(n, i[2])',
         \A n \in POs, m \in Managers : Due(m, n, i[2]) => Due(m, n, i[2])'
  PROVE  Told(i)'
BY DEF Told

LEMMA KnownElsewhere ==
  ASSUME TypeOK, Known,
         UNCHANGED <<stock, low, untold, po, items, arrived, broken>>,
         \A m \in Managers : At(m, "RECEIVE") => desk'[m] = desk[m]
  PROVE  Known'
<1>1. ASSUME NEW i \in Places, Told(i) PROVE Told(i)'
  BY <1>1, ToldElsewhere DEF Ordered, Due, Receives, At
<1>2. \A i \in Places : Short(i)' <=> Short(i)
  BY DEF Short
<1> QED
  BY <1>1, <1>2 DEF Known

\* An order is made where there was none.
LEMMA KnownCreate ==
  ASSUME TypeOK, Known, Received, NEW n \in POs, NEW P, NEW c, NEW s, Create(n, P, c, s),
         UNCHANGED <<arrived, broken>>, NEW i \in Places, Told(i), i \in low => i \in low',
         \A m \in Managers : At(m, "RECEIVE") => desk'[m] = desk[m]
  PROVE  Told(i)'
<1>1. \A x \in POs : i[2] \in items[x] => x # n
  BY DEF Known, Create
<1>2. \A x \in POs : Ordered(x, i[2]) => Ordered(x, i[2])'
  BY <1>1 DEF Ordered, Create, TypeOK
<1>3. \A x \in POs, m \in Managers : Due(m, x, i[2]) => Due(m, x, i[2])'
  BY DEF Due, Receives, At
<1> QED
  BY <1>2, <1>3, ToldElsewhere

LEMMA CreatedHasItems ==
  ASSUME TypeOK, Known, NEW n \in POs, NEW P, NEW c, NEW s \in Statuses,
         Create(n, P, c, s)
  PROVE  \A x \in POs : po'[x] = "NONE" => items'[x] = {}
BY DEF TypeOK, Known, Create, Statuses

LEMMA KnownStock ==
  ASSUME TypeOK, Known, NEW j \in Places,
         LoseLow(j) \/ \E q \in Changes : ChangeStock(j, q) \/ ReleaseStock(j, q)
  PROVE  Known'
<1>1. UNCHANGED <<po, items, arrived, broken, desk>>
  BY DEF ChangeStock, ReleaseStock, LoseLow, order, history
<1>2. ASSUME NEW i \in Places, Told(i), i \in low => i \in low' PROVE Told(i)'
  BY <1>1, <1>2, ToldElsewhere DEF Ordered, Due, Receives, At
<1>3. ASSUME NEW i \in Places, Short(i)', i \notin untold' PROVE Told(i)'
  <2>1. CASE i = j
    <3>1. CASE \E q \in Changes : ChangeStock(j, q)
      BY <1>3, <2>1, <3>1 DEF ChangeStock, Report, Low, Short, Told
    <3>2. CASE \E q \in Changes : ReleaseStock(j, q)
      <4>1. Short(i) /\ i \notin untold /\ low' = low
        BY <1>3, <2>1, <3>2 DEF ReleaseStock
      <4> QED
        BY <1>2, <4>1 DEF Known
    <3>3. CASE LoseLow(j)
      BY <1>3, <2>1, <3>3 DEF LoseLow
    <3> QED
      BY <3>1, <3>2, <3>3
  <2>2. CASE i # j
    <3>1. stock'[i] = stock[i] /\ i \notin untold /\ (i \in low => i \in low')
      BY <1>3, <2>2 DEF ChangeStock, ReleaseStock, LoseLow, Change, Report, TypeOK
    <3>2. Short(i)
      BY <1>3, <3>1 DEF Short
    <3> QED
      BY <1>2, <3>1, <3>2 DEF Known
  <2> QED
    BY <2>1, <2>2
<1> QED
  BY <1>1, <1>3 DEF Known

LEMMA KnownOrder ==
  ASSUME TypeOK, Known, Received, NEW n \in POs
  PROVE  /\ \A j \in Places : HandleLow(j, n) => Known'
         /\ \A P \in Lots, s \in Statuses : CreatePurchaseOrder(n, P, s) => Known'
         /\ \A m \in Managers : ConvertCommit(m, n) => Known'
<1>1. ASSUME NEW j \in Places, HandleLow(j, n) PROVE Known'
  <2>1. ASSUME NEW i \in Places, Short(i)', i \notin untold' PROVE Told(i)'
    <3>1. CASE i = j
      <4>1. Ordered(n, i[2])'
        BY <1>1, <3>1 DEF HandleLow, Create, Ordered, TypeOK
      <4> QED
        BY <4>1 DEF Told
    <3>2. CASE i # j
      <4>1. Told(i) /\ (i \in low => i \in low')
        BY <1>1, <2>1, <3>2 DEF HandleLow, Known, Short
      <4> QED
        BY <1>1, <4>1, KnownCreate DEF HandleLow, history
    <3> QED
      BY <3>1, <3>2
  <2>2. "DRAFT" \in Statuses
    BY DEF Statuses
  <2> QED
    BY <1>1, <2>1, <2>2, CreatedHasItems DEF HandleLow, Known
<1>2. ASSUME NEW P \in Lots, NEW s \in Statuses, CreatePurchaseOrder(n, P, s)
      PROVE  Known'
  <2>1. ASSUME NEW i \in Places, Short(i)', i \notin untold' PROVE Told(i)'
    <3>1. Told(i)
      BY <1>2, <2>1 DEF CreatePurchaseOrder, Known, Short
    <3> QED
      BY <1>2, <3>1, KnownCreate DEF CreatePurchaseOrder
  <2> QED
    BY <1>2, <2>1, CreatedHasItems DEF CreatePurchaseOrder, Known
<1>3. ASSUME NEW m \in Managers, ConvertCommit(m, n) PROVE Known'
  <2>1. \A k \in Managers : At(k, "RECEIVE") => desk'[k] = desk[k]
    BY <1>3 DEF ConvertCommit, Done, At, TypeOK
  <2>2. ASSUME NEW i \in Places, Short(i)', i \notin untold' PROVE Told(i)'
    <3>1. Told(i)
      BY <1>3, <2>2 DEF ConvertCommit, Known, Short
    <3> QED
      BY <1>3, <2>1, <3>1, KnownCreate DEF ConvertCommit, history
  <2>3. "DRAFT" \in Statuses
    BY DEF Statuses
  <2> QED
    BY <1>3, <2>2, <2>3, CreatedHasItems DEF ConvertCommit, Known
<1> QED
  BY <1>1, <1>2, <1>3

\* The item that is added is reported in its store if it is still low there, and was
\* reported in another store or is told of no longer; the others of a drafted order are
\* left to this request.
LEMMA KnownItem ==
  ASSUME TypeOK, Known, Received, NEW m \in Managers, NEW p \in Products, NEW q \in Changes,
         ReceiveItem(m, p, q)
  PROVE  Known'
<1> DEFINE left == desk[m].left \ {p}
<1>0. PICK s : s = desk[m].at
  OBVIOUS
<1>1. PICK n \in POs : /\ Receives(m, n) /\ p \in desk[m].left /\ n = desk[m].of
                       /\ po[n] = "DRAFT" => desk[m].left = items[n]
  BY Desks DEF ReceiveItem, Receiving, Received, Sound, Receives, At
<1>2. /\ po' = [po EXCEPT ![n] = "RECEIVED"]
      /\ arrived' = [arrived EXCEPT ![n][p] = @ + 1]
      /\ items' = items /\ broken' = broken
  BY <1>1 DEF ReceiveItem
<1>3. /\ \A k \in Managers \ {m} : desk'[k] = desk[k]
      /\ left # {} => desk'[m] = [doing |-> "RECEIVE", of |-> n, left |-> left, at |-> s]
  BY <1>0, <1>1, Desks DEF ReceiveItem, Receiving, Receives, At, TypeOK
<1>4. /\ \A i \in Places : i # <<s, p>> =>
           /\ stock'[i] = stock[i] /\ (i \in low => i \in low')
           /\ i \notin untold' => i \notin untold /\ i \notin Elsewhere(s, p)
      /\ \A i \in Places : i = <<s, p>> /\ Short(i)' => i \in low'
  <2>1. AddStock(s, p, q)
    BY <1>0 DEF ReceiveItem
  <2> QED
    BY <2>1, AddStockAt
<1>5. ASSUME NEW i \in Places, Short(i)', i \notin untold' PROVE Told(i)'
  <2>1. CASE i = <<s, p>>
    BY <1>4, <1>5, <2>1 DEF Told
  <2>2. CASE i # <<s, p>> /\ i[2] = p
    <3>1. i[1] # s
      BY <2>2, Facts
    <3>2. Short(i)
      BY <1>4, <1>5, <2>2 DEF Short
    <3>3. i \in low
      BY <1>4, <1>5, <2>2, <3>1, <3>2 DEF Elsewhere
    <3> QED
      BY <1>4, <2>2, <3>3 DEF Told
  <2>3. CASE i[2] # p
    <3> DEFINE r == i[2]
    <3>0. i # <<s, p>> /\ r \in Products
      BY <2>3, Facts
    <3>1. Told(i) /\ (i \in low => i \in low')
      BY <1>4, <1>5, <3>0 DEF Known, Short
    <3>2. \A x \in POs : arrived'[x][r] = arrived[x][r]
      BY <1>1, <1>2, <2>3, <3>0 DEF TypeOK
    <3>3. r \in left /\ arrived[n][r] = 0 => Due(m, n, r)'
      BY <1>3, <3>2 DEF Due, Receives, At
    <3>4. ASSUME NEW x \in POs, Ordered(x, r) PROVE Told(i)'
      <4>1. CASE x = n /\ po[n] = "DRAFT"
        <5>1. r \in left
          BY <1>1, <2>3, <3>4, <4>1 DEF Ordered
        <5>2. arrived[n][r] \in Nat /\ ~(arrived[n][r] > 0)
          BY <3>0, <4>1 DEF Received, Sound, TypeOK
        <5>3. Due(m, n, r)'
          BY <3>3, <5>1, <5>2
        <5> QED
          BY <5>3 DEF Told
      <4>2. CASE ~(x = n /\ po[n] = "DRAFT")
        <5>1. Ordered(x, r)'
          BY <1>2, <3>2, <3>4, <4>2 DEF Ordered, TypeOK
        <5> QED
          BY <5>1 DEF Told
      <4> QED
        BY <4>1, <4>2
    <3>5. ASSUME NEW x \in POs, NEW k \in Managers, Due(k, x, r) PROVE Told(i)'
      <4>1. CASE k = m
        <5>1. x = n /\ r \in left /\ arrived[n][r] = 0
          BY <1>1, <2>3, <3>5, <4>1 DEF Due, Receives
        <5>2. Due(m, n, r)'
          BY <3>3, <5>1
        <5> QED
          BY <5>2 DEF Told
      <4>2. CASE k # m
        <5>1. Due(k, x, r)'
          BY <1>3, <3>2, <3>5, <4>2 DEF Due, Receives, At
        <5> QED
          BY <5>1 DEF Told
      <4> QED
        BY <4>1, <4>2
    <3> QED
      BY <3>1, <3>4, <3>5 DEF Told
  <2> QED
    BY <2>1, <2>2, <2>3
<1>6. ASSUME NEW x \in POs, po'[x] = "NONE" PROVE items'[x] = {}
  BY <1>2, <1>6 DEF Known, TypeOK
<1> QED
  BY <1>5, <1>6 DEF Known

\* A reception that fails after its first item breaks its order; one that fails before
\* leaves the order as it was, or to who has begun.
LEMMA KnownFail ==
  ASSUME TypeOK, Known, Received, NEW m \in Managers, Fail(m)
  PROVE  Known'
<1>1. /\ UNCHANGED <<stock, low, untold, po, items, arrived>> /\ broken \subseteq broken'
      /\ \A k \in Managers \ {m} : desk'[k] = desk[k]
  BY DEF Fail, Done, TypeOK, order
<1>2. ASSUME NEW i \in Places, Told(i) PROVE Told(i)'
  <2>1. ASSUME NEW n \in POs, Ordered(n, i[2]) PROVE Told(i)'
    BY <1>1, <2>1 DEF Ordered, Told
  <2>2. ASSUME NEW n \in POs, NEW k \in Managers \ {m}, Due(k, n, i[2]) PROVE Told(i)'
    <3>1. Due(k, n, i[2])'
      BY <1>1, <2>2 DEF Due, Receives, At
    <3> QED
      BY <3>1 DEF Told
  <2>3. ASSUME NEW n \in POs, Due(m, n, i[2]) PROVE Told(i)'
    <3>1. i[2] \in items[n] /\ po[n] \in {"DRAFT", "RECEIVED"}
      BY <2>3 DEF Due, Received, Sound
    <3>2. CASE po[n] = "DRAFT" \/ n \in broken'
      BY <1>1, <2>3, <3>1, <3>2 DEF Due, Told, Ordered
    <3>3. CASE po[n] = "RECEIVED" /\ n \notin broken'
      <4>0. n \notin born /\ i[2] \in Products /\ ~(arrived[n][i[2]] > 0)
        BY <2>3, Facts DEF Due, Received, Sound
      <4>1. desk[m].left = items[n]
        BY <2>3, <3>3 DEF Fail, Due, Receives
      <4>2. PICK k \in Managers : /\ Receives(k, n) /\ i[2] \in desk[k].left /\ desk[k].left # items[n]
        BY <1>1, <3>1, <3>3, <4>0 DEF Received, BegunOrBroken
      <4>3. k # m /\ Due(k, n, i[2])
        BY <2>3, <4>1, <4>2 DEF Due
      <4> QED
        BY <2>2, <4>3
    <3> QED
      BY <3>1, <3>2, <3>3
  <2> QED
    BY <1>1, <1>2, <2>1, <2>2, <2>3 DEF Told
<1>3. \A i \in Places : Short(i)' <=> Short(i)
  BY <1>1 DEF Short
<1> QED
  BY <1>1, <1>2, <1>3 DEF Known

LEMMA KnownStep == TypeOK /\ Received /\ Known /\ [Next]_vars => Known'
<1> SUFFICES ASSUME TypeOK, Received, Known, [Next]_vars PROVE Known'
  OBVIOUS
<1>1. CASE UNCHANGED vars
  BY <1>1, KnownElsewhere DEF vars, order, history
<1>2. ASSUME NEW P \in SUBSET Products, NEW answer \in [P -> Answer], NEW R \in SUBSET Recs,
             CheckStore(answer, R)
      PROVE  Known'
  BY <1>2, KnownElsewhere DEF CheckStore, order, history
<1>3. ASSUME NEW m \in Managers, NEW d, Begin(m, d), d # Idle,
             UNCHANGED <<stock, low, order, untold, arrived, broken>>
      PROVE  Known'
  <2>1. \A k \in Managers : At(k, "RECEIVE") => desk'[k] = desk[k]
    <3>1. desk[m] = Idle /\ \A k \in Managers \ {m} : desk'[k] = desk[k]
      BY <1>3, BeginIsBusy
    <3> QED
      BY <3>1 DEF At, Idle
  <2> QED
    BY <1>3, <2>1, KnownElsewhere DEF order
<1>4. ASSUME NEW m \in Managers,
             DecideCommit(m, "APPROVE", "APPROVED") \/ DecideCommit(m, "REJECT", "REJECTED")
      PROVE  Known'
  <2>1. \A k \in Managers : At(k, "RECEIVE") => desk'[k] = desk[k]
    BY <1>4 DEF DecideCommit, Done, At, TypeOK
  <2> QED
    BY <1>4, <2>1, KnownElsewhere DEF DecideCommit, order, history
<1>5. ASSUME NEW m \in Managers, NEW c \in Recs,
             DecideLoad(m, c, "APPROVE") \/ DecideLoad(m, c, "REJECT") \/ ConvertLoad(m, c)
      PROVE  Known'
  <2>1. PICK doing \in {"APPROVE", "REJECT", "CONVERT"} :
          /\ Begin(m, [doing |-> doing, of |-> c])
          /\ UNCHANGED <<stock, low, order, untold, arrived, broken>>
    BY <1>5 DEF DecideLoad, ConvertLoad
  <2> QED
    BY <1>3, <2>1, NotIdle
<1>6. ASSUME NEW m \in Managers, NEW n \in POs, NEW s \in Stores, ReceiveLoad(m, n, s)
      PROVE  Known'
  BY <1>3, <1>6, NotIdle DEF ReceiveLoad
<1>7. ASSUME NEW i \in Places, LoseLow(i) \/ \E q \in Changes : ChangeStock(i, q) \/ ReleaseStock(i, q)
      PROVE  Known'
  BY <1>7, KnownStock
<1> QED
  BY <1>1, <1>2, <1>4, <1>5, <1>6, <1>7, KnownOrder, KnownItem, KnownFail DEF Next

(* The stock of a product in a store is not down at its level without a message, an open
   order or a reception that tells of it, unless since the last announcement a message
   was lost, the product went to another store, or a release took it. *)
THEOREM ShortagesAreKnown == Spec => []ShortageIsKnown
<1>1. Init => Known
  BY Facts DEF Init, Known, Short
<1>2. TypeOK /\ Known => ShortageIsKnown
  BY DEF Known, Told, Ordered, Due, Receives, ShortageIsKnown
<1> QED
  BY <1>1, <1>2, KnownStep, ReceivedInit, ReceivedStep, TypeCorrect, PTL DEF Spec
=============================================================================
