---------------------------- MODULE DeliveryProofs ---------------------------
(* The two ways an event reaches its readers, and that each keeps the promise of
   Delivery: the outbox, for any events, processors, batch size and number of lost
   transactions; and, from "Sequences of events" on, the WebSocket hub, for any
   instances, users, sockets and notifications. *)
EXTENDS Outbox, Realtime, TLAPS

-----------------------------------------------------------------------------
(* Outbox keeps its type: in particular a processor marks only rows of the
   batch it holds, each of them after it has tried to send it. *)
THEOREM TypeCorrect == Spec => []TypeOK
<1>1. Init => TypeOK
  BY DEF Init, TypeOK, Status, Settled
<1>2. TypeOK /\ [Next]_vars => TypeOK'
  <2> SUFFICES ASSUME TypeOK, [Next]_vars PROVE TypeOK'
    OBVIOUS
  <2>1. CASE UNCHANGED vars
    BY <2>1 DEF TypeOK, vars, worker
  <2>2. ASSUME NEW S \in SUBSET Events, Write(S) PROVE TypeOK'
    BY <2>2 DEF Write, TypeOK, Status, Settled, worker
  <2>3. ASSUME NEW p \in Processors
        PROVE  /\ Begin(p) => TypeOK'
               /\ Publish(p) => TypeOK'
               /\ PublishFails(p) => TypeOK'
               /\ Commit(p) => TypeOK'
               /\ Rollback(p) => TypeOK'
               /\ BreakConnection(p) => TypeOK'
               /\ Crash(p) => TypeOK'
    <3>1. ASSUME Begin(p) PROVE TypeOK'
      <4>1. PICK S \in SUBSET Free : /\ batch' = [batch EXCEPT ![p] = S]
                                     /\ todo' = [todo EXCEPT ![p] = S]
        BY <3>1 DEF Begin
      <4>2. S \subseteq Events /\ marked[p] = {}
        BY <3>1 DEF Free, Begin, TypeOK
      <4> QED
        BY <3>1, <4>1, <4>2 DEF Begin, TypeOK
    <3>2. ASSUME Publish(p) PROVE TypeOK'
      <4>1. PICK e \in todo[p] :
              /\ log' = log \union {<<attempt[p], e>>}
              /\ todo' = [todo EXCEPT ![p] = @ \ {e}]
              /\ marked' = [marked EXCEPT ![p] = @ \union {e}]
              /\ UNCHANGED <<rows, batch, alive, attempt, attempts, lost>>
        BY <3>2 DEF Publish
      <4> QED
        BY <4>1 DEF TypeOK
    <3>3. ASSUME PublishFails(p) PROVE TypeOK'
      <4>1. PICK e \in todo[p] :
              /\ log' = log \union {<<attempt[p], e>>} \/ log' = log
              /\ todo' = [todo EXCEPT ![p] = @ \ {e}]
              /\ UNCHANGED <<rows, batch, marked, alive, attempt, attempts, lost>>
        BY <3>3 DEF PublishFails
      <4> QED
        BY <4>1 DEF TypeOK
    <3>4. Commit(p) => TypeOK'
      BY DEF Commit, Close, TypeOK, Status, Settled
    <3>5. Rollback(p) => TypeOK'
      BY DEF Rollback, Close, TypeOK
    <3>6. BreakConnection(p) => TypeOK'
      BY DEF BreakConnection, TypeOK
    <3>7. ASSUME Crash(p) PROVE TypeOK'
      <4>1. lost' \subseteq Nat /\ UNCHANGED <<rows, attempt, attempts, log>>
        BY <3>7 DEF Crash, Close, TypeOK
      <4> QED
        BY <3>7, <4>1 DEF Crash, Close, TypeOK
    <3> QED
      BY <3>1, <3>2, <3>3, <3>4, <3>5, <3>6, <3>7
  <2> QED
    BY <2>1, <2>2, <2>3 DEF Next
<1> QED
  BY <1>1, <1>2, PTL DEF Spec

-----------------------------------------------------------------------------
(* The inductive invariant.  An event that a batch with an unbroken transaction
   has sent is either settled or still among the rows that batch holds. *)

\* A batch in progress has a number, which is lost when its connection breaks.
Numbered(p) ==
  /\ batch[p] # {} => attempt[p] < attempts
  /\ batch[p] # {} /\ ~alive[p] => attempt[p] \in lost
  /\ alive[p] => batch[p] # {} /\ attempt[p] \notin lost

\* Two batches in progress have two numbers.
Apart(p, q) ==
  batch[p] # {} /\ batch[q] # {} /\ attempt[p] = attempt[q] => p = q

AttemptsApart ==
  /\ \A p \in Processors : Numbered(p)
  /\ \A p, q \in Processors : Apart(p, q)
  /\ \A x \in log : x[1] < attempts
  /\ \A n \in lost : n < attempts

\* The row locks: a row is PENDING while it is held, and held once.
RowsHeld ==
  /\ \A p \in Processors : alive[p] => \A e \in batch[p] : rows[e] = "PENDING"
  /\ \A p, q \in Processors :
       alive[p] /\ alive[q] /\ batch[p] \cap batch[q] # {} => p = q

\* x was sent in the batch p now holds.
SentBy(p, x) == alive[p] /\ attempt[p] = x[1] /\ x[2] \in batch[p] \ todo[p]

SentIsHeldOrSettled ==
  \A x \in log : x[1] \in lost \/ rows[x[2]] \in Settled
                 \/ \E p \in Processors : SentBy(p, x)

IInv == TypeOK /\ AttemptsApart /\ RowsHeld /\ SentIsHeldOrSettled
          /\ ResentOnlyAfterLoss

LEMMA InitIInv == Init => IInv
BY DEF Init, IInv, TypeOK, AttemptsApart, Numbered, Apart, RowsHeld, SentIsHeldOrSettled,
       ResentOnlyAfterLoss, Status, Settled

\* A transaction that writes events touches no row a batch holds.
LEMMA WriteIInv ==
  ASSUME IInv, TypeOK', NEW S \in SUBSET Events, Write(S)
  PROVE  IInv'
<1>1. AttemptsApart'
  BY DEF IInv, Write, AttemptsApart, Numbered, Apart, worker
<1>2. RowsHeld'
  BY DEF IInv, TypeOK, Write, RowsHeld, worker
<1>3. SentIsHeldOrSettled'
  BY DEF IInv, TypeOK, Write, SentIsHeldOrSettled, SentBy, worker, Settled
<1>4. ResentOnlyAfterLoss'
  BY DEF IInv, Write, ResentOnlyAfterLoss
<1> QED
  BY <1>1, <1>2, <1>3, <1>4 DEF IInv

\* A new batch has a new number and rows no unbroken batch holds.
LEMMA BeginIInv ==
  ASSUME IInv, TypeOK', NEW p \in Processors, Begin(p)
  PROVE  IInv'
<1>1. PICK S \in SUBSET Free : /\ batch' = [batch EXCEPT ![p] = S]
                               /\ todo' = [todo EXCEPT ![p] = S]
                               /\ S # {}
  BY DEF Begin
<1>2. S \subseteq Events /\ S \cap Locked = {} /\ \A e \in S : rows[e] = "PENDING"
  BY DEF Free
<1>3. /\ batch[p] = {} /\ ~alive[p] /\ Numbered(p)
      /\ alive' = [alive EXCEPT ![p] = TRUE]
      /\ attempt' = [attempt EXCEPT ![p] = attempts]
      /\ attempts' = attempts + 1
      /\ UNCHANGED <<rows, log, lost>>
  BY DEF IInv, AttemptsApart, Numbered, Begin
<1>4. AttemptsApart'
  <2>1. attempts \notin lost /\ attempts \in Nat
    BY DEF IInv, TypeOK, AttemptsApart
  <2>2. ASSUME NEW q \in Processors PROVE Numbered(q)'
    <3>1. CASE q = p
      BY <1>1, <1>3, <2>1, <3>1 DEF IInv, TypeOK, AttemptsApart, Numbered
    <3>2. CASE q # p
      BY <1>1, <1>3, <3>2 DEF IInv, TypeOK, AttemptsApart, Numbered
    <3> QED
      BY <3>1, <3>2
  <2>3. ASSUME NEW q \in Processors, NEW r \in Processors PROVE Apart(q, r)'
    <3>1. ASSUME NEW t \in Processors, t # p
          PROVE  attempt'[t] = attempt[t] /\ batch'[t] = batch[t]
                 /\ (batch[t] # {} => attempt[t] # attempts)
      BY <1>1, <1>3, <2>1, <3>1 DEF IInv, TypeOK, AttemptsApart, Numbered
    <3>2. attempt'[p] = attempts
      BY <1>3 DEF IInv, TypeOK
    <3> QED
      BY <3>1, <3>2 DEF IInv, AttemptsApart, Apart
  <2>4. (\A x \in log' : x[1] < attempts') /\ (\A n \in lost' : n < attempts')
    BY <1>3 DEF IInv, TypeOK, AttemptsApart
  <2> QED
    BY <2>2, <2>3, <2>4 DEF AttemptsApart
<1>5. RowsHeld'
  <2>1. ASSUME NEW q \in Processors, q # p, alive[q] PROVE batch[q] \cap S = {}
    BY <1>2, <2>1 DEF Locked
  <2> QED
    BY <1>1, <1>2, <1>3, <2>1 DEF IInv, TypeOK, RowsHeld
<1>6. SentIsHeldOrSettled'
  <2>1. ASSUME NEW q \in Processors, NEW x \in log, SentBy(q, x) PROVE SentBy(q, x)'
    BY <1>1, <1>3, <2>1 DEF IInv, TypeOK, SentBy
  <2> QED
    BY <1>3, <2>1 DEF IInv, SentIsHeldOrSettled
<1>7. ResentOnlyAfterLoss'
  BY <1>3 DEF IInv, ResentOnlyAfterLoss
<1> QED
  BY <1>4, <1>5, <1>6, <1>7 DEF IInv

(* A send, whatever became of it: the event leaves the rows to be sent, and if
   the broker has it now, no unbroken batch had sent it before. *)
LEMMA SendIInv ==
  ASSUME IInv, TypeOK', NEW p \in Processors, NEW e \in todo[p],
         log' = log \union {<<attempt[p], e>>} \/ log' = log,
         todo' = [todo EXCEPT ![p] = @ \ {e}],
         UNCHANGED <<rows, batch, alive, attempt, attempts, lost>>
  PROVE  IInv'
<1>1. e \in batch[p] /\ e \in Events
  BY DEF IInv, TypeOK
<1>2. AttemptsApart'
  BY <1>1 DEF IInv, TypeOK, AttemptsApart, Numbered, Apart
<1>3. RowsHeld'
  BY DEF IInv, RowsHeld
<1>4. attempt[p] \in lost \/ SentBy(p, <<attempt[p], e>>)'
  BY <1>1 DEF IInv, TypeOK, AttemptsApart, Numbered, SentBy
<1>5. ASSUME NEW q \in Processors, NEW x \in log, SentBy(q, x) PROVE SentBy(q, x)'
  BY <1>5 DEF IInv, TypeOK, SentBy
<1>6. SentIsHeldOrSettled'
  BY <1>4, <1>5 DEF IInv, SentIsHeldOrSettled
<1>7. ASSUME NEW x \in log, x[2] = e, x[1] \notin lost, attempt[p] \notin lost
      PROVE  FALSE
  <2>1. alive[p] /\ rows[e] = "PENDING"
    BY <1>1, <1>7 DEF IInv, AttemptsApart, Numbered, RowsHeld
  <2>2. PICK q \in Processors : SentBy(q, x)
    BY <1>7, <2>1 DEF IInv, SentIsHeldOrSettled, Settled
  <2>3. q = p
    BY <1>1, <1>7, <2>1, <2>2 DEF IInv, RowsHeld, SentBy
  <2> QED
    BY <1>7, <2>2, <2>3 DEF SentBy
<1>8. ResentOnlyAfterLoss'
  BY <1>7 DEF IInv, ResentOnlyAfterLoss
<1> QED
  BY <1>2, <1>3, <1>6, <1>8 DEF IInv

\* The end of a session frees the number and the rows of that batch only.
LEMMA CloseKeeps ==
  ASSUME IInv, NEW p \in Processors, Close(p), NEW q \in Processors
  PROVE  /\ attempt' = attempt /\ attempts' = attempts /\ log' = log
         /\ batch'[q] = IF q = p THEN {} ELSE batch[q]
         /\ todo'[q] = IF q = p THEN {} ELSE todo[q]
         /\ alive'[q] = IF q = p THEN FALSE ELSE alive[q]
BY DEF IInv, TypeOK, Close

LEMMA CloseApart ==
  ASSUME IInv, NEW p \in Processors, Close(p),
         \A n \in lost' : n < attempts, lost \subseteq lost',
         \A q \in Processors : q # p /\ batch[q] # {} /\ attempt[q] \in lost'
                                => attempt[q] \in lost
  PROVE  AttemptsApart'
<1>1. ASSUME NEW q \in Processors PROVE Numbered(q)'
  <2>1. CASE q = p
    BY <2>1, CloseKeeps DEF Numbered
  <2>2. CASE q # p
    BY <2>2, CloseKeeps DEF IInv, AttemptsApart, Numbered
  <2> QED
    BY <2>1, <2>2
<1>2. ASSUME NEW q \in Processors, NEW r \in Processors PROVE Apart(q, r)'
  BY CloseKeeps DEF IInv, AttemptsApart, Apart
<1> QED
  BY <1>1, <1>2, CloseKeeps DEF IInv, AttemptsApart

LEMMA CommitIInv ==
  ASSUME IInv, TypeOK', NEW p \in Processors, Commit(p)
  PROVE  IInv'
<1>1. Close(p) /\ alive[p] /\ lost' = lost
  BY DEF Commit
<1>2. AttemptsApart'
  BY <1>1, CloseApart DEF IInv, AttemptsApart
<1>3. \A e \in Events : rows'[e] = IF e \in batch[p] THEN rows'[e] ELSE rows[e]
  BY DEF IInv, TypeOK, Commit
<1>4. \A e \in batch[p] : rows'[e] \in Settled
  BY DEF IInv, TypeOK, Commit, Settled
<1>5. RowsHeld'
  BY <1>1, <1>3, CloseKeeps DEF IInv, TypeOK, RowsHeld
<1>6. SentIsHeldOrSettled'
  <2> SUFFICES ASSUME NEW x \in log
               PROVE  x[1] \in lost \/ rows'[x[2]] \in Settled
                        \/ \E q \in Processors : SentBy(q, x)'
    BY <1>1, CloseKeeps DEF SentIsHeldOrSettled
  <2>1. CASE x[1] \in lost
    BY <2>1
  <2>2. CASE rows[x[2]] \in Settled
    <3>1. x[2] \in Events /\ x[2] \notin batch[p]
      BY <1>1, <2>2 DEF IInv, TypeOK, RowsHeld, Settled
    <3> QED
      BY <1>3, <2>2, <3>1
  <2>3. ASSUME NEW q \in Processors, SentBy(q, x)
        PROVE  rows'[x[2]] \in Settled \/ SentBy(q, x)'
    <3>1. CASE q = p
      BY <1>4, <2>3, <3>1 DEF SentBy
    <3>2. CASE q # p
      BY <1>1, <2>3, <3>2, CloseKeeps DEF SentBy
    <3> QED
      BY <3>1, <3>2
  <2> QED
    BY <2>1, <2>2, <2>3 DEF IInv, SentIsHeldOrSettled
<1>7. ResentOnlyAfterLoss'
  BY <1>1, CloseKeeps DEF IInv, ResentOnlyAfterLoss
<1> QED
  BY <1>2, <1>5, <1>6, <1>7 DEF IInv

\* A session that ends without a commit: its batch is, or becomes, a lost one.
LEMMA GiveUpIInv ==
  ASSUME IInv, TypeOK', NEW p \in Processors, batch[p] # {}, Close(p),
         rows' = rows, lost' = lost \union {attempt[p]}
  PROVE  IInv'
<1>1. AttemptsApart'
  <2>1. attempt[p] < attempts
    BY DEF IInv, AttemptsApart, Numbered
  <2>2. ASSUME NEW q \in Processors, q # p, batch[q] # {} PROVE attempt[q] # attempt[p]
    BY <2>2 DEF IInv, AttemptsApart, Apart
  <2> QED
    BY <2>1, <2>2, CloseApart DEF IInv, AttemptsApart
<1>2. RowsHeld'
  BY CloseKeeps DEF IInv, RowsHeld
<1>3. SentIsHeldOrSettled'
  <2>1. ASSUME NEW q \in Processors, NEW x \in log, SentBy(q, x)
        PROVE  x[1] \in lost' \/ SentBy(q, x)'
    BY <2>1, CloseKeeps DEF SentBy
  <2> QED
    BY <2>1, CloseKeeps DEF IInv, SentIsHeldOrSettled
<1>4. ResentOnlyAfterLoss'
  BY CloseKeeps DEF IInv, ResentOnlyAfterLoss
<1> QED
  BY <1>1, <1>2, <1>3, <1>4 DEF IInv

LEMMA BreakIInv ==
  ASSUME IInv, TypeOK', NEW p \in Processors, BreakConnection(p)
  PROVE  IInv'
<1>1. AttemptsApart'
  BY DEF IInv, TypeOK, AttemptsApart, Numbered, Apart, BreakConnection
<1>2. RowsHeld'
  BY DEF IInv, TypeOK, RowsHeld, BreakConnection
<1>3. SentIsHeldOrSettled'
  <2>1. ASSUME NEW q \in Processors, NEW x \in log, SentBy(q, x)
        PROVE  x[1] \in lost' \/ SentBy(q, x)'
    BY <2>1 DEF IInv, TypeOK, SentBy, BreakConnection
  <2> QED
    BY <2>1 DEF IInv, SentIsHeldOrSettled, BreakConnection
<1>4. ResentOnlyAfterLoss'
  BY DEF IInv, ResentOnlyAfterLoss, BreakConnection
<1> QED
  BY <1>1, <1>2, <1>3, <1>4 DEF IInv

LEMMA ProcessorIInv ==
  ASSUME IInv, TypeOK', NEW p \in Processors
  PROVE  /\ Begin(p) => IInv'
         /\ Publish(p) \/ PublishFails(p) => IInv'
         /\ Commit(p) => IInv'
         /\ Rollback(p) \/ Crash(p) => IInv'
         /\ BreakConnection(p) => IInv'
<1>1. Publish(p) \/ PublishFails(p) => IInv'
  BY SendIInv, Zenon DEF Publish, PublishFails
<1>2. Rollback(p) => IInv'
  <2> SUFFICES ASSUME Rollback(p) PROVE IInv'
    OBVIOUS
  <2>1. lost' = lost \union {attempt[p]}
    BY DEF Rollback, IInv, AttemptsApart, Numbered
  <2> QED
    BY <2>1, GiveUpIInv DEF Rollback
<1>3. Crash(p) => IInv'
  BY GiveUpIInv DEF Crash
<1> QED
  BY <1>1, <1>2, <1>3, BeginIInv, CommitIInv, BreakIInv

LEMMA InductiveInvariant == Spec => []IInv
<1>1. TypeOK' /\ IInv /\ [Next]_vars => IInv'
  <2> SUFFICES ASSUME TypeOK', IInv, [Next]_vars PROVE IInv'
    OBVIOUS
  <2>1. CASE UNCHANGED vars
    BY <2>1 DEF IInv, AttemptsApart, Numbered, Apart, RowsHeld, SentIsHeldOrSettled, SentBy,
                ResentOnlyAfterLoss, vars, worker
  <2>2. CASE Next
    BY <2>2, WriteIInv, ProcessorIInv DEF Next
  <2> QED
    BY <2>1, <2>2
<1> QED
  BY InitIInv, TypeCorrect, <1>1, PTL DEF Spec

(* Of all the batches that sent an event, at most one did not lose its
   transaction: SKIP LOCKED and the single commit leave no other way to send an
   event twice, however many processors run. *)
THEOREM SentOnceUnlessLost == Spec => []ResentOnlyAfterLoss
<1>1. IInv => ResentOnlyAfterLoss
  BY DEF IInv
<1> QED
  BY <1>1, InductiveInvariant, PTL
-----------------------------------------------------------------------------
(* What the broker has is known to the rows: batches hold written events, and a
   mark in a session stands for an event that was sent. *)
MarksAreSent ==
  \A p \in Processors :
    /\ \A e \in batch[p] : rows[e] # "unwritten"
    /\ \A e \in marked[p] : \E x \in log : x[2] = e

LEMMA MarksAreSentInvariant == Spec => []MarksAreSent
<1>1. Init => MarksAreSent
  BY DEF Init, MarksAreSent
<1>2. IInv /\ MarksAreSent /\ [Next]_vars => MarksAreSent'
  <2> SUFFICES ASSUME IInv, MarksAreSent, [Next]_vars PROVE MarksAreSent'
    OBVIOUS
  <2> USE DEF IInv, TypeOK, MarksAreSent
  <2>1. CASE UNCHANGED vars
    BY <2>1 DEF vars, worker
  <2>2. ASSUME NEW S \in SUBSET Events, Write(S) PROVE MarksAreSent'
    BY <2>2 DEF Write, worker
  <2>3. ASSUME NEW p \in Processors, Begin(p) PROVE MarksAreSent'
    BY <2>3 DEF Begin, Free
  <2>4. ASSUME NEW p \in Processors, Publish(p) PROVE MarksAreSent'
    <3>1. PICK e \in todo[p] : log' = log \union {<<attempt[p], e>>}
                                /\ marked' = [marked EXCEPT ![p] = @ \union {e}]
      BY <2>4 DEF Publish
    <3>2. <<attempt[p], e>> \in log' /\ <<attempt[p], e>>[2] = e
      BY <3>1
    <3> QED
      BY <2>4, <3>1, <3>2 DEF Publish
  <2>5. ASSUME NEW p \in Processors, PublishFails(p) PROVE MarksAreSent'
    BY <2>5 DEF PublishFails
  <2>6. ASSUME NEW p \in Processors, Commit(p) PROVE MarksAreSent'
    BY <2>6 DEF Commit, Close
  <2>7. ASSUME NEW p \in Processors, Rollback(p) PROVE MarksAreSent'
    BY <2>7 DEF Rollback, Close
  <2>8. ASSUME NEW p \in Processors, BreakConnection(p) PROVE MarksAreSent'
    BY <2>8 DEF BreakConnection
  <2>9. ASSUME NEW p \in Processors, Crash(p) PROVE MarksAreSent'
    BY <2>9 DEF Crash, Close
  <2> QED
    BY <2>1, <2>2, <2>3, <2>4, <2>5, <2>6, <2>7, <2>8, <2>9 DEF Next
<1> QED
  BY <1>1, <1>2, InductiveInvariant, PTL DEF Spec

LEMMA InitContract == Init => Contract!Init
BY DEF Init, Contract!Init

\* A send is a Receive of the contract, or nothing when the broker has it already
\* or never got it.
LEMMA SendContract ==
  ASSUME IInv, MarksAreSent, NEW p \in Processors, NEW e \in todo[p],
         log' = log \union {<<attempt[p], e>>}, rows' = rows
  PROVE  Contract!Receive(e)
<1>1. rows[e] # "unwritten"
  BY DEF IInv, TypeOK, MarksAreSent
<1>2. {x[2] : x \in log'} = {x[2] : x \in log} \union {e}
  <2>1. <<attempt[p], e>>[2] = e
    OBVIOUS
  <2> QED
    BY <2>1
<1> QED
  BY <1>1, <1>2 DEF Contract!Receive

\* The commit of a batch reports all of it.
LEMMA CommitContract ==
  ASSUME IInv, MarksAreSent, NEW p \in Processors, Commit(p)
  PROVE  Contract!Report(marked[p], batch[p])
<1>1. alive[p] /\ marked[p] \subseteq batch[p] /\ log' = log
  BY DEF IInv, TypeOK, Commit, Close
<1>2. \A e \in marked[p] \union batch[p] : rows[e] = "PENDING"
  BY <1>1 DEF IInv, RowsHeld
<1>3. marked[p] \subseteq {x[2] : x \in log}
  BY DEF MarksAreSent
<1> QED
  BY <1>1, <1>2, <1>3 DEF Contract!Report, Commit

LEMMA StepContract ==
  ASSUME IInv, MarksAreSent, [Next]_vars
  PROVE  [Contract!Next]_Contract!vars
<1>1. ASSUME rows' = rows, log' = log PROVE UNCHANGED Contract!vars
  BY <1>1 DEF Contract!vars
<1>2. CASE UNCHANGED vars
  BY <1>1, <1>2 DEF vars
<1>3. ASSUME NEW S \in SUBSET Events, Write(S) PROVE Contract!Next
  BY <1>3 DEF Write, Contract!Next, Contract!Promise
<1>4. ASSUME NEW p \in Processors, Publish(p) \/ PublishFails(p)
      PROVE  Contract!Next \/ UNCHANGED Contract!vars
  <2>1. PICK e \in todo[p] : log' = log \union {<<attempt[p], e>>} \/ log' = log
    BY <1>4 DEF Publish, PublishFails
  <2>2. rows' = rows /\ e \in Events
    BY <1>4 DEF Publish, PublishFails, IInv, TypeOK
  <2> QED
    BY <1>1, <2>1, <2>2, SendContract DEF Contract!Next
<1>5. ASSUME NEW p \in Processors, Commit(p) PROVE Contract!Next
  BY <1>5, CommitContract DEF Contract!Next, IInv, TypeOK
<1>6. ASSUME NEW p \in Processors,
             Begin(p) \/ Rollback(p) \/ BreakConnection(p) \/ Crash(p)
      PROVE  UNCHANGED Contract!vars
  BY <1>1, <1>6 DEF Begin, Rollback, BreakConnection, Crash, Close
<1> QED
  BY <1>2, <1>3, <1>4, <1>5, <1>6 DEF Next

(* Outbox implements Delivery: nothing uncommitted is sent, an event reported
   PROCESSED has been sent, and a report is final. *)
THEOREM OutboxImplementsDelivery == Spec => ImplementsDelivery
<1>1. IInv /\ MarksAreSent /\ [Next]_vars => [Contract!Next]_Contract!vars
  BY StepContract
<1> QED
  BY <1>1, InitContract, InductiveInvariant, MarksAreSentInvariant, PTL
     DEF Spec, ImplementsDelivery, Contract!Spec
-----------------------------------------------------------------------------
(* Sequences of events *)

LEMMA AppendBefore ==
  ASSUME NEW S, NEW q \in Seq(S), NEW e \in S, NEW m, NEW n
  PROVE  /\ Contains(Append(q, e), m) <=> Contains(q, m) \/ m = e
         /\ Before(m, n, Append(q, e)) => Before(m, n, q) \/ (Contains(q, m) /\ n = e)
<1>1. /\ Append(q, e) \in Seq(S) /\ Len(Append(q, e)) = Len(q) + 1 /\ Len(q) \in Nat
      /\ DOMAIN Append(q, e) = 1..(Len(q) + 1) /\ DOMAIN q = 1..Len(q)
      /\ \A j \in 1..Len(q) : Append(q, e)[j] = q[j]
      /\ Append(q, e)[Len(q) + 1] = e
  OBVIOUS
<1>2. ASSUME Contains(Append(q, e), m) PROVE Contains(q, m) \/ m = e
  <2>1. PICK j \in 1..(Len(q) + 1) : Append(q, e)[j] = m
    BY <1>1, <1>2 DEF Contains
  <2> QED
    BY <1>1, <2>1 DEF Contains
<1>3. ASSUME Contains(q, m) \/ m = e PROVE Contains(Append(q, e), m)
  BY <1>1, <1>3 DEF Contains
<1>4. ASSUME Before(m, n, Append(q, e)) PROVE Before(m, n, q) \/ (Contains(q, m) /\ n = e)
  <2>1. PICK j, k \in 1..(Len(q) + 1) : /\ j < k
                                        /\ Append(q, e)[j] = m /\ Append(q, e)[k] = n
    BY <1>1, <1>4 DEF Before
  <2>2. j \in 1..Len(q) /\ q[j] = m
    BY <1>1, <2>1
  <2>3. CASE k = Len(q) + 1
    BY <1>1, <2>1, <2>2, <2>3 DEF Contains
  <2>4. CASE k \in 1..Len(q)
    <3>1. q[k] = n
      BY <1>1, <2>1, <2>4
    <3> QED
      BY <1>1, <2>1, <2>2, <2>4, <3>1 DEF Before
  <2> QED
    BY <1>1, <2>1, <2>3, <2>4
<1> QED
  BY <1>2, <1>3, <1>4

LEMMA TailBefore ==
  ASSUME NEW S, NEW q \in Seq(S), q # <<>>, NEW m, NEW n
  PROVE  /\ Head(q) \in S /\ Tail(q) \in Seq(S) /\ Contains(q, Head(q))
         /\ Contains(Tail(q), n) => Contains(q, n) /\ Before(Head(q), n, q)
         /\ Before(m, n, Tail(q)) => Before(m, n, q)
<1>1. /\ Len(q) \in Nat /\ Len(q) > 0 /\ DOMAIN q = 1..Len(q)
      /\ Head(q) = q[1] /\ Head(q) \in S
      /\ Tail(q) \in Seq(S) /\ Len(Tail(q)) = Len(q) - 1
      /\ \A j \in 1..(Len(q) - 1) : Tail(q)[j] = q[j + 1]
      /\ DOMAIN Tail(q) = 1..(Len(q) - 1)
  OBVIOUS
<1>2. ASSUME Contains(Tail(q), n) PROVE Contains(q, n) /\ Before(Head(q), n, q)
  <2>1. PICK j \in 1..(Len(q) - 1) : q[j + 1] = n
    BY <1>1, <1>2 DEF Contains
  <2>2. 1 \in 1..Len(q) /\ j + 1 \in 1..Len(q) /\ 1 < j + 1
    BY <1>1, <2>1
  <2> QED
    BY <1>1, <2>1, <2>2 DEF Contains, Before
<1>3. ASSUME Before(m, n, Tail(q)) PROVE Before(m, n, q)
  <2>1. PICK j, k \in 1..(Len(q) - 1) : j < k /\ q[j + 1] = m /\ q[k + 1] = n
    BY <1>1, <1>3 DEF Before
  <2>2. j + 1 \in 1..Len(q) /\ k + 1 \in 1..Len(q) /\ j + 1 < k + 1
    BY <1>1, <2>1
  <2> QED
    BY <1>1, <2>1, <2>2 DEF Before
<1>4. Contains(q, Head(q))
  BY <1>1 DEF Contains
<1> QED
  BY <1>1, <1>2, <1>3, <1>4

LEMMA EmptyBefore ==
  ASSUME NEW m, NEW n
  PROVE  ~Contains(<<>>, m) /\ ~Before(m, n, <<>>)
BY DEF Contains, Before

LEMMA BeforeContains ==
  ASSUME NEW S, NEW q \in Seq(S), NEW m, NEW n, Before(m, n, q)
  PROVE  Contains(q, m) /\ Contains(q, n)
BY DEF Before, Contains
-----------------------------------------------------------------------------
(* Types *)

Deliveries ==
  [at : Instances, note : Notes, by : {"LISTENER", "REQUEST"}, sockets : SUBSET Sockets,
   dead : SUBSET Sockets, users : SUBSET Users, audience : SUBSET Sockets]
Posts ==
  [at : Instances, notes : SUBSET Notes, sending : SUBSET Notes, phase : {"FLUSHED", "COMMITTED"}]

Types ==
  /\ socket \in [Sockets -> {"NEW", "OPEN", "GONE", "CLOSED"}]
  /\ connections \in [Instances -> [Users -> SUBSET Sockets]]
  /\ listener \in [Instances -> {"UP", "NONE", "DEAD"}]
  /\ mail \in [Instances -> Seq(Notes)]
  /\ note \in [Notes -> {"NONE", "UNREAD", "READ", "DELETED"}]
  /\ loaded \subseteq Notes /\ unsure \subseteq Notes
  /\ got \in [Sockets -> Seq(Notes)]
  /\ deliveries \subseteq Deliveries
  /\ requests \subseteq Posts

\* A socket is registered under its own instance and user, and not once it is closed.
Connected ==
  \A i \in Instances, u \in Users : \A s \in connections[i][u] :
    Home[s] = i /\ Owner[s] = u /\ socket[s] \in {"OPEN", "GONE"}

IType == Types /\ Connected

\* A delivery that goes on: it is the same, to no more users.
Resumes(e, d) ==
  /\ e \in Deliveries
  /\ e.at = d.at /\ e.note = d.note /\ e.by = d.by /\ e.audience = d.audience
  /\ e.sockets = d.sockets /\ e.dead = d.dead /\ e.users \subseteq d.users

\* A delivery drops only users who have no sockets left.
Forgets(i, gone, runs) ==
  /\ connections' \in [Instances -> [Users -> SUBSET Sockets]]
  /\ \A j \in Instances, u \in Users :
       connections'[j][u] = IF j = i THEN connections[j][u] \ gone ELSE connections[j][u]
  /\ deliveries' \subseteq Deliveries
  /\ \A e \in deliveries' : \E d \in runs :
       /\ Resumes(e, d)
       /\ \A u \in d.users \ e.users : d.at = i /\ connections'[i][u] = {}

LEMMA ForgetDoes ==
  ASSUME IType, NEW i \in Instances, NEW gone \in SUBSET Sockets,
         NEW runs \in SUBSET deliveries, Forget(i, gone, runs)
  PROVE  Forgets(i, gone, runs)
<1> DEFINE kept == [u \in Users |-> connections[i][u] \ gone]
           leavers == UNION {Without(kept[u], u) : u \in Users}
<1>1. /\ connections' = [connections EXCEPT ![i] = kept]
      /\ deliveries' = {[d EXCEPT !.users = IF d.at = i THEN @ \ leavers ELSE @] : d \in runs}
  BY DEF Forget
<1>2. /\ connections' \in [Instances -> [Users -> SUBSET Sockets]]
      /\ \A j \in Instances, u \in Users :
           connections'[j][u] = IF j = i THEN connections[j][u] \ gone ELSE connections[j][u]
  BY <1>1 DEF IType, Types
<1>3. \A u \in leavers : u \in Users /\ connections'[i][u] = {}
  BY <1>2 DEF Without
<1> HIDE DEF leavers
<1>4. ASSUME NEW e \in deliveries'
      PROVE  \E d \in runs : /\ Resumes(e, d)
                             /\ \A u \in d.users \ e.users : d.at = i /\ connections'[i][u] = {}
  <2>1. PICK d \in runs : e = [d EXCEPT !.users = IF d.at = i THEN @ \ leavers ELSE @]
    BY <1>1
  <2>2. d \in Deliveries
    BY DEF IType, Types
  <2>3. Resumes(e, d) /\ e.users = IF d.at = i THEN d.users \ leavers ELSE d.users
    BY <2>1, <2>2 DEF Resumes, Deliveries
  <2> QED
    BY <1>3, <2>3
<1> QED
  BY <1>2, <1>4 DEF Forgets, Resumes

\* What an action does to the delivery it is about.
LEMMA ReachDoes ==
  ASSUME IType, NEW d \in deliveries, NEW u \in Users, Reach(d, u)
  PROVE  \E e \in Deliveries :
           /\ deliveries' = (deliveries \ {d}) \cup {e}
           /\ e.at = d.at /\ e.note = d.note /\ e.by = d.by /\ e.audience = d.audience
           /\ e.dead = d.dead /\ e.users = d.users \ {u} /\ e.sockets = connections[d.at][u]
<1>1. d \in Deliveries /\ connections[d.at][u] \subseteq Sockets
  BY DEF IType, Types, Deliveries
<1>2. [d EXCEPT !.users = @ \ {u}, !.sockets = connections[d.at][u]] \in Deliveries
  BY <1>1 DEF Deliveries
<1>3. deliveries' = (deliveries \ {d}) \cup
                      {[d EXCEPT !.users = @ \ {u}, !.sockets = connections[d.at][u]]}
  BY DEF Reach
<1> QED
  BY <1>1, <1>2, <1>3 DEF Deliveries

LEMMA SendDoes ==
  ASSUME IType, NEW d \in deliveries, NEW s \in Sockets, Send(d, s)
  PROVE  \E e \in Deliveries :
           /\ deliveries' = (deliveries \ {d}) \cup {e}
           /\ e.at = d.at /\ e.note = d.note /\ e.by = d.by /\ e.audience = d.audience
           /\ e.users = d.users /\ e.sockets = d.sockets \ {s}
           /\ e.dead \subseteq d.dead \cup {s} /\ (s \in e.dead \ d.dead => socket[s] = "GONE")
<1>1. d \in Deliveries
  BY DEF IType, Types
<1>2. PICK dead \in SUBSET {s} :
        /\ dead # {} => socket[s] = "GONE"
        /\ deliveries' = (deliveries \ {d}) \cup
                           {[d EXCEPT !.sockets = @ \ {s}, !.dead = @ \cup dead]}
  BY DEF Send
<1>3. [d EXCEPT !.sockets = @ \ {s}, !.dead = @ \cup dead] \in Deliveries
  BY <1>1 DEF Deliveries
<1> QED
  BY <1>1, <1>2, <1>3 DEF Deliveries

LEMMA DeliveryOfType ==
  ASSUME IType, NEW i \in Instances, NEW n \in Notes, NEW source \in {"LISTENER", "REQUEST"}
  PROVE  /\ DeliveryOf(i, n, source) \in Deliveries
         /\ DeliveryOf(i, n, source).at = i /\ DeliveryOf(i, n, source).note = n
         /\ DeliveryOf(i, n, source).by = source
         /\ DeliveryOf(i, n, source).sockets = {} /\ DeliveryOf(i, n, source).dead = {}
         /\ DeliveryOf(i, n, source).users = {u \in Users : connections[i][u] # {}}
         /\ DeliveryOf(i, n, source).audience =
              {s \in Sockets : Home[s] = i /\ socket[s] = "OPEN"}
BY DEF DeliveryOf, Deliveries

\* The actions that leave the hub alone, and those of a request that publishes.
Writing ==
  \/ \E i \in Instances, N \in SUBSET Notes : CreateNotifications(i, N)
  \/ \E r \in requests : RollbackNotifications(r) \/ CommitNotifications(r)
  \/ \E n \in Notes : MarkLoad(n) \/ MarkWrite(n) \/ Delete(n)
  \/ \E N \in SUBSET Notes : MarkMany(N)

LEMMA WritingType ==
  ASSUME IType, Writing
  PROVE  IType' /\ UNCHANGED hub
<1>0. ASSUME UNCHANGED hub, note' \in [Notes -> {"NONE", "UNREAD", "READ", "DELETED"}],
             loaded' \subseteq Notes, requests' \subseteq Posts
      PROVE  IType'
  BY <1>0 DEF hub, IType, Types, Connected
<1>1. /\ note \in [Notes -> {"NONE", "UNREAD", "READ", "DELETED"}]
      /\ loaded \subseteq Notes /\ requests \subseteq Posts
  BY DEF IType, Types
<1>2. loaded' \subseteq Notes
  BY <1>1 DEF Writing, CreateNotifications, RollbackNotifications, CommitNotifications, MarkLoad,
              MarkWrite, Delete, MarkMany
<1>3. note' \in [Notes -> {"NONE", "UNREAD", "READ", "DELETED"}]
  BY <1>1 DEF Writing, CreateNotifications, RollbackNotifications, CommitNotifications, MarkLoad,
              MarkWrite, Delete, MarkMany
<1>4. requests' \subseteq Posts
  <2>1. ASSUME NEW i \in Instances, NEW N \in SUBSET Notes, CreateNotifications(i, N)
        PROVE  requests' \subseteq Posts
    <3>1. [at |-> i, notes |-> N, sending |-> {}, phase |-> "FLUSHED"] \in Posts
      BY DEF Posts
    <3> QED
      BY <1>1, <2>1, <3>1 DEF CreateNotifications
  <2>2. ASSUME NEW r \in requests, CommitNotifications(r) PROVE requests' \subseteq Posts
    <3>1. r \in Posts
      BY <1>1
    <3>2. [r EXCEPT !.phase = "COMMITTED"] \in Posts
      BY <3>1 DEF Posts
    <3> QED
      BY <1>1, <2>2, <3>2 DEF CommitNotifications
  <2> QED
    BY <1>1, <2>1, <2>2 DEF Writing, RollbackNotifications, MarkLoad, MarkWrite, Delete, MarkMany
<1>5. UNCHANGED hub
  BY DEF Writing, CreateNotifications, RollbackNotifications, CommitNotifications, MarkLoad,
         MarkWrite, Delete, MarkMany
<1> QED
  BY <1>0, <1>2, <1>3, <1>4, <1>5

\* Changes of connections: nothing of the database.
LEMMA SocketType ==
  ASSUME IType, NEW s \in Sockets, Connect(s) \/ Leave(s) \/ Disconnect(s)
  PROVE  IType' /\ UNCHANGED database
<1>1. Home[s] \in Instances /\ Owner[s] \in Users
  BY ConnectionsAssumption DEF ConnectionsAssumption
<1>2. socket' \in [Sockets -> {"NEW", "OPEN", "GONE", "CLOSED"}]
  BY DEF Connect, Leave, Disconnect, IType, Types
<1>3. UNCHANGED <<listener, mail, got, unsure, database>>
  BY DEF Connect, Leave, Disconnect
<1>4. ASSUME connections' \in [Instances -> [Users -> SUBSET Sockets]],
             deliveries' \subseteq Deliveries, Connected'
      PROVE  IType'
  BY <1>2, <1>3, <1>4 DEF database, IType, Types
<1>5. CASE Connect(s)
  <2>1. /\ connections' = [connections EXCEPT ![Home[s]][Owner[s]] = @ \cup {s}]
        /\ socket' = [socket EXCEPT ![s] = "OPEN"] /\ UNCHANGED deliveries
    BY <1>5 DEF Connect
  <2>2. connections' \in [Instances -> [Users -> SUBSET Sockets]]
    BY <1>1, <2>1 DEF IType, Types
  <2>3. ASSUME NEW i \in Instances, NEW u \in Users, NEW x \in connections'[i][u]
        PROVE  x \in connections[i][u] \/ (x = s /\ i = Home[s] /\ u = Owner[s])
    BY <1>1, <2>1, <2>3 DEF IType, Types
  <2>4. \A x \in Sockets : socket[x] \in {"OPEN", "GONE"} \/ x = s =>
                             socket'[x] \in {"OPEN", "GONE"}
    BY <2>1 DEF IType, Types
  <2>5. ASSUME NEW i \in Instances, NEW u \in Users, NEW x \in connections'[i][u]
        PROVE  Home[x] = i /\ Owner[x] = u /\ socket'[x] \in {"OPEN", "GONE"}
    <3>1. x \in Sockets
      BY <2>2, <2>5
    <3> QED
      BY <2>3, <2>4, <2>5, <3>1 DEF IType, Connected
  <2>6. Connected'
    BY <2>5 DEF Connected
  <2>7. deliveries' \subseteq Deliveries
    BY <2>1 DEF IType, Types
  <2> QED
    BY <1>3, <1>4, <2>2, <2>6, <2>7
<1>6. CASE Leave(s)
  <2>1. /\ socket' = [socket EXCEPT ![s] = "GONE"] /\ UNCHANGED <<connections, deliveries>>
    BY <1>6 DEF Leave
  <2>2. \A x \in Sockets : socket[x] \in {"OPEN", "GONE"} => socket'[x] \in {"OPEN", "GONE"}
    BY <2>1 DEF IType, Types
  <2>3. \A i \in Instances, u \in Users : connections[i][u] \subseteq Sockets
    BY DEF IType, Types
  <2>4. Connected'
    BY <2>1, <2>2, <2>3 DEF IType, Connected
  <2>5. connections' \in [Instances -> [Users -> SUBSET Sockets]] /\ deliveries' \subseteq Deliveries
    BY <2>1 DEF IType, Types
  <2> QED
    BY <1>3, <1>4, <2>4, <2>5
<1>7. CASE Disconnect(s)
  <2>1. /\ Forget(Home[s], {s}, deliveries) /\ socket' = [socket EXCEPT ![s] = "CLOSED"]
        /\ {s} \in SUBSET Sockets /\ deliveries \in SUBSET deliveries
    BY <1>7 DEF Disconnect
  <2>2. Forgets(Home[s], {s}, deliveries)
    BY <1>1, <2>1, ForgetDoes
  <2>3. ASSUME NEW i \in Instances, NEW u \in Users, NEW x \in connections'[i][u]
        PROVE  Home[x] = i /\ Owner[x] = u /\ socket'[x] \in {"OPEN", "GONE"}
    <3>1. x \in connections[i][u] /\ (x = s => i # Home[s])
      <4>1. CASE i = Home[s]
        <5>1. connections'[i][u] = connections[i][u] \ {s}
          BY <1>1, <2>2, <4>1 DEF Forgets
        <5> QED
          BY <5>1, <2>3
      <4>2. CASE i # Home[s]
        <5>1. connections'[i][u] = connections[i][u]
          BY <1>1, <2>2, <4>2 DEF Forgets
        <5> QED
          BY <5>1, <2>3, <4>2
      <4> QED
        BY <4>1, <4>2
    <3>2. x # s /\ x \in Sockets
      BY <3>1 DEF IType, Types, Connected
    <3> QED
      BY <2>1, <3>1, <3>2 DEF IType, Types, Connected
  <2>4. Connected'
    BY <2>3 DEF Connected
  <2>5. connections' \in [Instances -> [Users -> SUBSET Sockets]] /\ deliveries' \subseteq Deliveries
    BY <2>2 DEF Forgets
  <2> QED
    BY <1>3, <1>4, <2>4, <2>5
<1> QED
  BY <1>3, <1>5, <1>6, <1>7

LEMMA DeliveryType ==
  ASSUME IType, NEW d \in deliveries,
         (\E u \in Users : Reach(d, u)) \/ (\E s \in Sockets : Send(d, s)) \/ Finish(d)
  PROVE  IType' /\ note' = note /\ loaded' = loaded
<1>1. ASSUME NEW u \in Users, Reach(d, u) PROVE IType' /\ note' = note /\ loaded' = loaded
  <2>1. deliveries' \subseteq Deliveries
    BY <1>1, ReachDoes DEF IType, Types
  <2>2. UNCHANGED <<socket, connections, listener, mail, got, unsure, database>>
    BY <1>1 DEF Reach
  <2>3. Types'
    BY <2>1, <2>2 DEF database, IType, Types
  <2>4. Connected'
    BY <2>2 DEF IType, Connected
  <2> QED
    BY <2>2, <2>3, <2>4 DEF IType, database
<1>2. ASSUME NEW s \in Sockets, Send(d, s) PROVE IType' /\ note' = note /\ loaded' = loaded
  <2>1. deliveries' \subseteq Deliveries
    BY <1>2, SendDoes DEF IType, Types
  <2>2. d.note \in Notes
    BY DEF IType, Types, Deliveries
  <2>3. got' \in [Sockets -> Seq(Notes)]
    <3>1. got \in [Sockets -> Seq(Notes)]
      BY DEF IType, Types
    <3>2. Append(got[s], d.note) \in Seq(Notes)
      BY <2>2, <3>1
    <3> QED
      BY <1>2, <3>1, <3>2 DEF Send
  <2>4. UNCHANGED <<socket, connections, listener, mail, unsure, database>>
    BY <1>2 DEF Send
  <2>5. Types'
    BY <2>1, <2>3, <2>4 DEF database, IType, Types
  <2>6. Connected'
    BY <2>4 DEF IType, Connected
  <2> QED
    BY <2>4, <2>5, <2>6 DEF IType, database
<1>3. CASE Finish(d)
  <2>1. /\ d.at \in Instances /\ d.dead \subseteq Sockets
        /\ Forget(d.at, d.dead, deliveries \ {d})
        /\ d.dead \in SUBSET Sockets /\ deliveries \ {d} \in SUBSET deliveries
    BY <1>3 DEF Finish, IType, Types, Deliveries
  <2>2. Forgets(d.at, d.dead, deliveries \ {d})
    BY <2>1, ForgetDoes
  <2>3. requests' \subseteq Posts
    <3>1. requests \subseteq Posts
      BY DEF IType, Types
    <3>2. ASSUME NEW r \in requests
          PROVE  [r EXCEPT !.sending = IF d.by = "REQUEST" THEN @ \ {d.note} ELSE @] \in Posts
      <4>1. r \in Posts
        BY <3>1
      <4> QED
        BY <4>1 DEF Posts
    <3> QED
      BY <1>3, <3>2 DEF Finish
  <2>4. UNCHANGED <<socket, listener, mail, got, unsure, note, loaded>>
    BY <1>3 DEF Finish
  <2>5. Connected'
    <3>1. ASSUME NEW i \in Instances, NEW u \in Users
          PROVE  connections'[i][u] \subseteq connections[i][u]
      <4>1. connections'[i][u] =
              IF i = d.at THEN connections[i][u] \ d.dead ELSE connections[i][u]
        BY <2>1, <2>2 DEF Forgets
      <4> QED
        BY <4>1
    <3> QED
      BY <2>4, <3>1 DEF IType, Connected
  <2>6. Types'
    BY <2>2, <2>3, <2>4 DEF Forgets, IType, Types
  <2> QED
    BY <2>4, <2>5, <2>6 DEF IType
<1> QED
  BY <1>1, <1>2, <1>3

LEMMA InstanceType ==
  ASSUME IType, NEW i \in Instances, Listen(i) \/ ListenerBreaks(i) \/ Restart(i)
  PROVE  IType' /\ note' = note /\ loaded' = loaded
<1>1. CASE Listen(i)
  <2>1. mail[i] \in Seq(Notes) /\ mail[i] # <<>>
    BY <1>1 DEF Listen, IType, Types
  <2>2. Head(mail[i]) \in Notes /\ Tail(mail[i]) \in Seq(Notes)
    BY <2>1, TailBefore
  <2>3. deliveries' \subseteq Deliveries
    BY <1>1, <2>2, DeliveryOfType DEF Listen, IType, Types
  <2>4. mail' \in [Instances -> Seq(Notes)]
    BY <1>1, <2>2 DEF Listen, IType, Types
  <2> QED
    BY <1>1, <2>3, <2>4 DEF Listen, database, IType, Types, Connected
<1>2. CASE ListenerBreaks(i)
  <2>1. mail' \in [Instances -> Seq(Notes)] /\ listener' \in [Instances -> {"UP", "NONE", "DEAD"}]
    BY <1>2 DEF ListenerBreaks, IType, Types
  <2> QED
    BY <1>2, <2>1 DEF ListenerBreaks, database, IType, Types, Connected
<1>3. CASE Restart(i)
  <2>1. mail' \in [Instances -> Seq(Notes)] /\ listener' \in [Instances -> {"UP", "NONE", "DEAD"}]
    BY <1>3 DEF Restart, IType, Types
  <2>2. /\ socket' \in [Sockets -> {"NEW", "OPEN", "GONE", "CLOSED"}]
        /\ connections' \in [Instances -> [Users -> SUBSET Sockets]]
    BY <1>3 DEF Restart, IType, Types
  <2>3. deliveries' \subseteq deliveries /\ requests' \subseteq requests
    BY <1>3 DEF Restart
  <2>4. ASSUME NEW j \in Instances, NEW u \in Users, NEW x \in connections'[j][u]
        PROVE  Home[x] = j /\ Owner[x] = u /\ socket'[x] \in {"OPEN", "GONE"}
    <3>1. j # i /\ x \in connections[j][u]
      BY <1>3, <2>4 DEF Restart, IType, Types
    <3>2. x \in Sockets /\ Home[x] = j /\ Owner[x] = u /\ socket[x] \in {"OPEN", "GONE"}
      BY <3>1 DEF IType, Types, Connected
    <3> QED
      BY <1>3, <3>1, <3>2 DEF Restart
  <2>5. Connected'
    BY <2>4 DEF Connected
  <2> QED
    BY <1>3, <2>1, <2>2, <2>3, <2>5 DEF Restart, IType, Types
<1> QED
  BY <1>1, <1>2, <1>3

LEMMA TookType ==
  ASSUME IType, NEW r \in requests, NEW n \in Notes, NEW N \in SUBSET {n}, Took(r, n, N)
  PROVE  /\ requests' \subseteq Posts
         /\ \E q : /\ requests' \subseteq (requests \ {r}) \cup {q}
                   /\ q.phase = r.phase /\ q.notes = r.notes \ {n}
<1>1. r \in Posts /\ requests \subseteq Posts
  BY DEF IType, Types
<1> DEFINE left == [r EXCEPT !.notes = @ \ {n}, !.sending = N]
<1>2. requests' \subseteq (requests \ {r}) \cup {left}
  BY DEF Took
<1>3. left \in Posts /\ left.phase = r.phase /\ left.notes = r.notes \ {n}
  BY <1>1 DEF Posts
<1> HIDE DEF left
<1> QED
  BY <1>1, <1>2, <1>3

LEMMA PublishType ==
  ASSUME IType, NEW r \in requests, NEW n \in Notes, Broadcast(r, n) \/ DeliverLocally(r, n)
  PROVE  IType' /\ note' = note /\ loaded' = loaded
<1>1. requests' \subseteq Posts
  BY TookType DEF Broadcast, DeliverLocally
<1>2. mail' \in [Instances -> Seq(Notes)]
  <2>1. mail \in [Instances -> Seq(Notes)]
    BY DEF IType, Types
  <2>2. \A i \in Instances : Append(mail[i], n) \in Seq(Notes)
    BY <2>1
  <2> QED
    BY <2>1, <2>2 DEF Broadcast, DeliverLocally, Subscribed
<1>3. deliveries' \subseteq Deliveries
  <2>1. r.at \in Instances /\ deliveries \subseteq Deliveries
    BY DEF IType, Types, Posts
  <2> QED
    BY <2>1, DeliveryOfType DEF Broadcast, DeliverLocally
<1>4. /\ UNCHANGED <<socket, connections, listener, got, note, loaded>>
      /\ unsure' \subseteq unsure \cup {n}
  BY DEF Broadcast, DeliverLocally
<1> QED
  BY <1>1, <1>2, <1>3, <1>4 DEF IType, Types, Connected

LEMMA InitType == RealtimeInit => IType
BY DEF RealtimeInit, IType, Types, Connected

LEMMA Cases ==
  [RealtimeNext]_realtimeVars =>
    \/ UNCHANGED realtimeVars
    \/ \E s \in Sockets : Connect(s) \/ Leave(s) \/ Disconnect(s)
    \/ \E d \in deliveries :
         (\E u \in Users : Reach(d, u)) \/ (\E s \in Sockets : Send(d, s)) \/ Finish(d)
    \/ \E i \in Instances : Listen(i) \/ ListenerBreaks(i) \/ Restart(i)
    \/ \E r \in requests, n \in Notes : Broadcast(r, n) \/ DeliverLocally(r, n)
    \/ Writing
BY DEF RealtimeNext, Writing

LEMMA NextType == IType /\ [RealtimeNext]_realtimeVars => IType'
<1>1. IType /\ UNCHANGED realtimeVars => IType'
  BY DEF IType, Types, Connected, realtimeVars, hub, database
<1> QED
  BY <1>1, Cases, SocketType, DeliveryType, InstanceType, PublishType, WritingType

(* The manager registers a socket under its own instance and user only, and not once
   it is closed, whatever clean-ups of other deliveries run at the same time. *)
THEOREM ConnectionsTypeCorrect == RealtimeSpec => []RealtimeTypeOK
<1>1. IType => RealtimeTypeOK
  BY DEF IType, Types, Connected, RealtimeTypeOK, Deliveries, Posts
<1> QED
  BY <1>1, InitType, NextType, PTL DEF RealtimeSpec
-----------------------------------------------------------------------------
(* The hub serves everybody: what makes NobodyIsSkipped inductive. *)

\* The manager knows every client that is there.
Reachable == \A s \in Sockets : socket[s] = "OPEN" => Registered(s)

Served(d) ==
  \A s \in d.audience :
    /\ Home[s] = d.at /\ socket[s] # "NEW"
    /\ socket[s] = "OPEN" => \/ Owner[s] \in d.users
                             \/ s \in d.sockets
                             \/ Contains(got[s], d.note)

\* Only clients that left are marked for removal.
Buries(d) == \A s \in d.dead : socket[s] \in {"GONE", "CLOSED"}

IHub == Reachable /\ \A d \in deliveries : Served(d) /\ Buries(d)

\* A socket opens once, and a client keeps what it heard.
Ages ==
  \A s \in Sockets :
    /\ socket[s] # "NEW" => socket'[s] # "NEW" /\ (socket'[s] = "OPEN" => socket[s] = "OPEN")
    /\ socket[s] \in {"GONE", "CLOSED"} => socket'[s] \in {"GONE", "CLOSED"}
    /\ \A n \in Notes : Contains(got[s], n) => Contains(got'[s], n)

LEMMA StillAges == socket' = socket /\ got' = got => Ages
BY DEF Ages

LEMMA SocketAges ==
  ASSUME IType, NEW s \in Sockets, Connect(s) \/ Leave(s) \/ Disconnect(s)
  PROVE  Ages
<1>1. got' = got
  BY DEF Connect, Leave, Disconnect
<1>2. \/ socket[s] = "NEW" /\ socket' = [socket EXCEPT ![s] = "OPEN"]
      \/ socket[s] = "OPEN" /\ socket' = [socket EXCEPT ![s] = "GONE"]
      \/ socket[s] = "GONE" /\ socket' = [socket EXCEPT ![s] = "CLOSED"]
  BY DEF Connect, Leave, Disconnect
<1> QED
  BY <1>1, <1>2 DEF Ages, IType, Types

LEMMA SendAges ==
  ASSUME IType, NEW d \in deliveries, NEW s \in Sockets, Send(d, s)
  PROVE  /\ Ages /\ socket' = socket
         /\ \A x \in Sockets : got'[x] = IF x = s /\ socket[s] = "OPEN"
                                         THEN Append(got[s], d.note) ELSE got[x]
<1>1. /\ socket' = socket
      /\ got' = IF socket[s] = "OPEN" THEN [got EXCEPT ![s] = Append(@, d.note)] ELSE got
  BY DEF Send
<1>2. got \in [Sockets -> Seq(Notes)] /\ d.note \in Notes
  BY DEF IType, Types, Deliveries
<1>3. \A x \in Sockets : got'[x] = IF x = s /\ socket[s] = "OPEN"
                                   THEN Append(got[s], d.note) ELSE got[x]
  BY <1>1, <1>2
<1>4. ASSUME NEW n \in Notes, Contains(got[s], n) PROVE Contains(Append(got[s], d.note), n)
  BY <1>2, <1>4, AppendBefore
<1> QED
  BY <1>1, <1>3, <1>4 DEF Ages

\* A delivery goes on serving while it drops only users without sockets.
LEMMA KeepsServing ==
  ASSUME IType, NEW d \in deliveries, NEW e, Resumes(e, d), Served(d), Buries(d), Ages,
         Reachable',
         \A u \in d.users \ e.users : connections'[d.at][u] = {}
  PROVE  Served(e)' /\ Buries(e)'
<1>1. d \in Deliveries
  BY DEF IType, Types
<1>2. /\ e.at = d.at /\ e.note = d.note /\ e.audience = d.audience
      /\ e.sockets = d.sockets /\ e.dead = d.dead
      /\ d.audience \subseteq Sockets /\ d.dead \subseteq Sockets /\ d.note \in Notes
  BY <1>1 DEF Resumes, Deliveries
<1>3. ASSUME NEW s \in d.audience, socket'[s] = "OPEN"
      PROVE  Owner[s] \in e.users \/ s \in e.sockets \/ Contains(got'[s], e.note)
  <2>1. s \in Sockets /\ socket[s] = "OPEN" /\ Home[s] = d.at
    BY <1>2, <1>3 DEF Served, Ages
  <2>2. s \in connections'[d.at][Owner[s]]
    BY <1>3, <2>1 DEF Reachable, Registered
  <2>3. Owner[s] \in d.users \/ s \in d.sockets \/ Contains(got[s], d.note)
    BY <2>1 DEF Served
  <2> QED
    BY <1>2, <2>1, <2>2, <2>3 DEF Ages
<1>4. \A s \in d.audience : Home[s] = d.at /\ socket'[s] # "NEW"
  BY <1>2 DEF Served, Ages
<1>5. \A s \in d.dead : socket'[s] \in {"GONE", "CLOSED"}
  BY <1>2 DEF Buries, Ages
<1> QED
  BY <1>2, <1>3, <1>4, <1>5 DEF Served, Buries

\* One that nothing touched.
LEMMA KeepsServingSame ==
  ASSUME IType, NEW d \in deliveries, Served(d), Buries(d), Ages, Reachable'
  PROVE  Served(d)' /\ Buries(d)'
<1>1. Resumes(d, d)
  BY DEF IType, Types, Resumes
<1>2. \A u \in d.users \ d.users : connections'[d.at][u] = {}
  OBVIOUS
<1> QED
  BY <1>1, <1>2, KeepsServing

LEMMA StartsServing ==
  ASSUME IType, Reachable, NEW i \in Instances, NEW n \in Notes,
         NEW source \in {"LISTENER", "REQUEST"}, NEW d, d = DeliveryOf(i, n, source),
         socket' = socket
  PROVE  Served(d)' /\ Buries(d)'
<1>1. /\ d.at = i /\ d.note = n /\ d.dead = {}
      /\ d.users = {u \in Users : connections[i][u] # {}}
      /\ d.audience = {s \in Sockets : Home[s] = i /\ socket[s] = "OPEN"}
  BY DeliveryOfType
<1>2. ASSUME NEW s \in Sockets, Home[s] = i, socket[s] = "OPEN" PROVE Owner[s] \in d.users
  <2>1. s \in connections[i][Owner[s]] /\ Owner[s] \in Users
    BY <1>2, ConnectionsAssumption DEF Reachable, Registered, ConnectionsAssumption
  <2> QED
    BY <1>1, <2>1
<1> QED
  BY <1>1, <1>2 DEF Served, Buries

\* The removal of clients that left.
LEMMA ForgetHub ==
  ASSUME IType, IHub, NEW i \in Instances, NEW gone \in SUBSET Sockets,
         NEW runs \in SUBSET deliveries, Forget(i, gone, runs), Ages,
         \A s \in Sockets : socket'[s] = "OPEN" => socket[s] = "OPEN" /\ s \notin gone
  PROVE  IHub'
<1>1. Forgets(i, gone, runs)
  BY ForgetDoes
<1>2. Reachable'
  <2> SUFFICES ASSUME NEW s \in Sockets, socket'[s] = "OPEN"
               PROVE  s \in connections'[Home[s]][Owner[s]]
    BY DEF Reachable, Registered
  <2>1. s \in connections[Home[s]][Owner[s]] /\ s \notin gone
    BY DEF IHub, Reachable, Registered
  <2>2. Home[s] \in Instances /\ Owner[s] \in Users
    BY ConnectionsAssumption DEF ConnectionsAssumption
  <2>3. connections'[Home[s]][Owner[s]] =
          IF Home[s] = i THEN connections[Home[s]][Owner[s]] \ gone
                         ELSE connections[Home[s]][Owner[s]]
    BY <1>1, <2>2 DEF Forgets
  <2> QED
    BY <2>1, <2>3
<1>3. ASSUME NEW e \in deliveries' PROVE Served(e)' /\ Buries(e)'
  <2>1. PICK d \in runs : /\ Resumes(e, d)
                          /\ \A u \in d.users \ e.users : d.at = i /\ connections'[i][u] = {}
    BY <1>1 DEF Forgets
  <2>2. d \in deliveries /\ Served(d) /\ Buries(d)
    BY DEF IHub
  <2>3. \A u \in d.users \ e.users : connections'[d.at][u] = {}
    BY <2>1
  <2> QED
    BY <1>2, <2>1, <2>2, <2>3, KeepsServing
<1> QED
  BY <1>2, <1>3 DEF IHub

LEMMA SocketHub ==
  ASSUME IType, IHub, NEW s \in Sockets, Connect(s) \/ Leave(s) \/ Disconnect(s)
  PROVE  IHub'
<1>1. Ages
  BY SocketAges
<1>2. Home[s] \in Instances /\ Owner[s] \in Users
  BY ConnectionsAssumption DEF ConnectionsAssumption
<1>3. ASSUME Reachable', deliveries' = deliveries PROVE IHub'
  BY <1>1, <1>3, KeepsServingSame DEF IHub
<1>4. CASE Connect(s)
  <2>1. /\ connections' = [connections EXCEPT ![Home[s]][Owner[s]] = @ \cup {s}]
        /\ socket' = [socket EXCEPT ![s] = "OPEN"] /\ deliveries' = deliveries
    BY <1>4 DEF Connect
  <2>2. /\ \A i \in Instances, u \in Users : connections[i][u] \subseteq connections'[i][u]
        /\ s \in connections'[Home[s]][Owner[s]]
    BY <1>2, <2>1 DEF IType, Types
  <2>3. ASSUME NEW x \in Sockets, socket'[x] = "OPEN" PROVE x \in connections'[Home[x]][Owner[x]]
    <3>1. Home[x] \in Instances /\ Owner[x] \in Users
      BY ConnectionsAssumption DEF ConnectionsAssumption
    <3>2. x # s => x \in connections[Home[x]][Owner[x]]
      BY <2>1, <2>3 DEF IHub, Reachable, Registered, IType, Types
    <3> QED
      BY <2>2, <3>1, <3>2
  <2> QED
    BY <1>3, <2>1, <2>3 DEF Reachable, Registered
<1>5. CASE Leave(s)
  <2>1. /\ socket' = [socket EXCEPT ![s] = "GONE"] /\ UNCHANGED <<connections, deliveries>>
    BY <1>5 DEF Leave
  <2>2. \A x \in Sockets : socket'[x] = "OPEN" => socket[x] = "OPEN"
    BY <2>1 DEF IType, Types
  <2> QED
    BY <1>3, <2>1, <2>2 DEF IHub, Reachable, Registered
<1>6. CASE Disconnect(s)
  <2>1. /\ Forget(Home[s], {s}, deliveries) /\ socket' = [socket EXCEPT ![s] = "CLOSED"]
        /\ {s} \in SUBSET Sockets /\ deliveries \in SUBSET deliveries
    BY <1>6 DEF Disconnect
  <2>2. \A x \in Sockets : socket'[x] = "OPEN" => socket[x] = "OPEN" /\ x \notin {s}
    BY <2>1 DEF IType, Types
  <2> QED
    BY <1>1, <1>2, <2>1, <2>2, ForgetHub
<1> QED
  BY <1>4, <1>5, <1>6

LEMMA DeliveryHub ==
  ASSUME IType, IHub, NEW d \in deliveries,
         (\E u \in Users : Reach(d, u)) \/ (\E s \in Sockets : Send(d, s)) \/ Finish(d)
  PROVE  IHub'
<1>0. Served(d) /\ Buries(d) /\ d \in Deliveries
  BY DEF IHub, IType, Types
<1>1. ASSUME NEW e, Served(e)', Buries(e)', deliveries' = (deliveries \ {d}) \cup {e},
             UNCHANGED connections, socket' = socket, Ages
      PROVE  IHub'
  <2>1. Reachable'
    BY <1>1 DEF IHub, Reachable, Registered
  <2>2. \A x \in deliveries : Served(x)' /\ Buries(x)'
    BY <1>1, <2>1, KeepsServingSame DEF IHub
  <2> QED
    BY <1>1, <2>1, <2>2 DEF IHub
<1>2. ASSUME NEW u \in Users, Reach(d, u) PROVE IHub'
  <2>1. PICK e \in Deliveries :
           /\ deliveries' = (deliveries \ {d}) \cup {e}
           /\ e.at = d.at /\ e.note = d.note /\ e.by = d.by /\ e.audience = d.audience
           /\ e.dead = d.dead /\ e.users = d.users \ {u} /\ e.sockets = connections[d.at][u]
    BY <1>2, ReachDoes
  <2>2. d.sockets = {} /\ UNCHANGED <<socket, connections, got>>
    BY <1>2 DEF Reach
  <2>3. ASSUME NEW s \in d.audience, socket[s] = "OPEN"
        PROVE  Owner[s] \in e.users \/ s \in e.sockets \/ Contains(got[s], e.note)
    <3>1. s \in Sockets /\ Home[s] = d.at /\ s \in connections[d.at][Owner[s]]
      BY <1>0, <2>3 DEF Served, Deliveries, IHub, Reachable, Registered
    <3> QED
      BY <1>0, <2>1, <2>2, <2>3, <3>1 DEF Served
  <2>4. Served(e)' /\ Buries(e)'
    BY <1>0, <2>1, <2>2, <2>3 DEF Served, Buries
  <2> QED
    BY <1>1, <2>1, <2>2, <2>4, StillAges
<1>3. ASSUME NEW s \in Sockets, Send(d, s) PROVE IHub'
  <2>1. PICK e \in Deliveries :
           /\ deliveries' = (deliveries \ {d}) \cup {e}
           /\ e.at = d.at /\ e.note = d.note /\ e.by = d.by /\ e.audience = d.audience
           /\ e.users = d.users /\ e.sockets = d.sockets \ {s}
           /\ e.dead \subseteq d.dead \cup {s} /\ (s \in e.dead \ d.dead => socket[s] = "GONE")
    BY <1>3, SendDoes
  <2>2. /\ Ages /\ socket' = socket
        /\ \A x \in Sockets : got'[x] = IF x = s /\ socket[s] = "OPEN"
                                        THEN Append(got[s], d.note) ELSE got[x]
    BY <1>3, SendAges
  <2>3. socket[s] = "OPEN" => Contains(got'[s], d.note)
    <3>1. got[s] \in Seq(Notes) /\ d.note \in Notes
      BY <1>0 DEF IType, Types, Deliveries
    <3>2. Contains(Append(got[s], d.note), d.note)
      BY <3>1, AppendBefore
    <3> QED
      BY <2>2, <3>2
  <2>4. ASSUME NEW x \in d.audience, socket[x] = "OPEN"
        PROVE  Owner[x] \in e.users \/ x \in e.sockets \/ Contains(got'[x], e.note)
    <3>1. x \in Sockets /\ d.note \in Notes
      BY <1>0 DEF Deliveries
    <3>2. Owner[x] \in d.users \/ x \in d.sockets \/ Contains(got[x], d.note)
      BY <1>0, <2>4 DEF Served
    <3> QED
      BY <2>1, <2>2, <2>3, <2>4, <3>1, <3>2 DEF Ages
  <2>5. Served(e)' /\ Buries(e)'
    BY <1>0, <2>1, <2>2, <2>4 DEF Served, Buries
  <2>6. UNCHANGED connections
    BY <1>3 DEF Send
  <2> QED
    BY <1>1, <2>1, <2>2, <2>5, <2>6
<1>4. CASE Finish(d)
  <2>1. /\ Forget(d.at, d.dead, deliveries \ {d}) /\ UNCHANGED <<socket, got>>
        /\ d.at \in Instances /\ d.dead \in SUBSET Sockets
        /\ deliveries \ {d} \in SUBSET deliveries
    BY <1>0, <1>4 DEF Finish, Deliveries
  <2>2. \A s \in Sockets : socket'[s] = "OPEN" => socket[s] = "OPEN" /\ s \notin d.dead
    BY <1>0, <2>1 DEF Buries
  <2> QED
    BY <2>1, <2>2, StillAges, ForgetHub
<1> QED
  BY <1>2, <1>3, <1>4

\* A step that adds a delivery, or takes some away.
LEMMA StartHub ==
  ASSUME IType, IHub, NEW i \in Instances, NEW n \in Notes,
         NEW source \in {"LISTENER", "REQUEST"},
         deliveries' \subseteq deliveries \cup {DeliveryOf(i, n, source)},
         UNCHANGED <<socket, connections, got>>
  PROVE  IHub'
<1>1. Reachable'
  BY DEF IHub, Reachable, Registered
<1>2. \A d \in deliveries : Served(d)' /\ Buries(d)'
  BY <1>1, StillAges, KeepsServingSame DEF IHub
<1>3. ASSUME NEW d, d = DeliveryOf(i, n, source) PROVE Served(d)' /\ Buries(d)'
  BY <1>3, StartsServing DEF IHub
<1> QED
  BY <1>1, <1>2, <1>3 DEF IHub

LEMMA InstanceHub ==
  ASSUME IType, IHub, NEW i \in Instances, Listen(i) \/ ListenerBreaks(i) \/ Restart(i)
  PROVE  IHub'
<1>1. CASE Listen(i)
  <2>1. mail[i] \in Seq(Notes) /\ mail[i] # <<>>
    BY <1>1 DEF Listen, IType, Types
  <2>2. Head(mail[i]) \in Notes
    BY <2>1, TailBefore
  <2> QED
    BY <1>1, <2>2, StartHub DEF Listen
<1>2. CASE ListenerBreaks(i)
  <2>1. Reachable'
    BY <1>2 DEF ListenerBreaks, IHub, Reachable, Registered
  <2>2. deliveries' = deliveries /\ Ages
    BY <1>2, StillAges DEF ListenerBreaks
  <2> QED
    BY <2>1, <2>2, KeepsServingSame DEF IHub
<1>3. CASE Restart(i)
  <2>1. /\ socket' = [s \in Sockets |->
             IF Home[s] = i /\ socket[s] # "NEW" THEN "CLOSED" ELSE socket[s]]
        /\ connections' = [connections EXCEPT ![i] = [u \in Users |-> {}]]
        /\ deliveries' \subseteq deliveries /\ got' = got
    BY <1>3 DEF Restart
  <2>2. Ages
    BY <2>1 DEF Ages
  <2>3. Reachable'
    <3> SUFFICES ASSUME NEW s \in Sockets, socket'[s] = "OPEN"
                 PROVE  s \in connections'[Home[s]][Owner[s]]
      BY DEF Reachable, Registered
    <3>1. socket[s] = "OPEN" /\ Home[s] # i
      BY <2>1
    <3>2. connections'[Home[s]] = connections[Home[s]]
      BY <2>1, <3>1, ConnectionsAssumption DEF ConnectionsAssumption, IType, Types
    <3> QED
      BY <3>1, <3>2 DEF IHub, Reachable, Registered
  <2> QED
    BY <2>1, <2>2, <2>3, KeepsServingSame DEF IHub
<1> QED
  BY <1>1, <1>2, <1>3

LEMMA PublishHub ==
  ASSUME IType, IHub, NEW r \in requests, NEW n \in Notes, Broadcast(r, n) \/ DeliverLocally(r, n)
  PROVE  IHub'
<1>1. r.at \in Instances
  BY DEF IType, Types, Posts
<1>2. deliveries' \subseteq deliveries \cup {DeliveryOf(r.at, n, "REQUEST")}
  BY DEF Broadcast, DeliverLocally
<1>3. UNCHANGED <<socket, connections, got>>
  BY DEF Broadcast, DeliverLocally
<1> QED
  BY <1>1, <1>2, <1>3, StartHub

LEMMA NextHub == IType /\ IHub /\ [RealtimeNext]_realtimeVars => IHub'
<1>1. ASSUME IHub, UNCHANGED hub PROVE IHub'
  BY <1>1 DEF hub, IHub, Reachable, Registered, Served, Buries
<1>2. IType /\ IHub /\ Writing => IHub'
  BY <1>1, WritingType
<1>3. UNCHANGED realtimeVars => UNCHANGED hub
  BY DEF realtimeVars
<1> QED
  BY <1>1, <1>2, <1>3, Cases, SocketHub, DeliveryHub, InstanceHub, PublishHub

LEMMA HubInvariant == RealtimeSpec => [](IType /\ IHub)
<1>1. RealtimeInit => IHub
  BY DEF RealtimeInit, IHub, Reachable
<1> QED
  BY <1>1, InitType, NextType, NextHub, PTL DEF RealtimeSpec

(* A client that stays connected through a delivery hears of it, whoever connects,
   leaves or fails between two sends. *)
THEOREM ClientsAreServed == RealtimeSpec => []NobodyIsSkipped
<1>1. IHub => NobodyIsSkipped
  BY DEF IHub, Served, NobodyIsSkipped
<1> QED
  BY <1>1, HubInvariant, PTL
-----------------------------------------------------------------------------
(* The way of an event to a client: the mail of its instance, a delivery, the client. *)

Pending(d, s) == Owner[s] \in d.users \/ s \in d.sockets

\* A delivery comes to users one at a time, the listener begins one when the last is
\* over, and a request delivers only what it could not publish for certain.
OneUserAtATime(d) == \A s \in d.sockets : Home[s] = d.at /\ Owner[s] \notin d.users

Alone(d, e) == d.by = "LISTENER" /\ e.by = "LISTENER" /\ d.at = e.at => d = e

IPipe ==
  /\ \A d \in deliveries : /\ OneUserAtATime(d)
                           /\ d.by = "REQUEST" => d.note \in unsure
  /\ \A d, e \in deliveries : Alone(d, e)

Spread(n) ==
  \/ \E s \in Sockets : Contains(got[s], n)
  \/ \E i \in Instances : Contains(mail[i], n)
  \/ \E d \in deliveries : d.note = n

\* Nothing spreads by itself.
Still == \A n \in Notes : Spread(n)' => Spread(n)

LEMMA ForgetPipe ==
  ASSUME IType, IPipe, NEW i \in Instances, NEW gone \in SUBSET Sockets,
         NEW runs \in SUBSET deliveries, Forget(i, gone, runs), unsure' = unsure
  PROVE  IPipe'
<1>1. Forgets(i, gone, runs)
  BY ForgetDoes
<1>2. ASSUME NEW e \in deliveries'
      PROVE  OneUserAtATime(e) /\ (e.by = "REQUEST" => e.note \in unsure)
  <2>1. PICK d \in runs : Resumes(e, d)
    BY <1>1 DEF Forgets
  <2>2. OneUserAtATime(d) /\ (d.by = "REQUEST" => d.note \in unsure)
    BY DEF IPipe
  <2> QED
    BY <2>1, <2>2 DEF Resumes, OneUserAtATime
<1>3. ASSUME NEW e \in deliveries', NEW f \in deliveries' PROVE Alone(e, f)
  <2> DEFINE leavers == UNION {Without(connections[i][u] \ gone, u) : u \in Users}
             left(d) == [d EXCEPT !.users = IF d.at = i THEN @ \ leavers ELSE @]
  <2>1. deliveries' = {left(d) : d \in runs}
    <3> DEFINE kept == [u \in Users |-> connections[i][u] \ gone]
    <3>1. UNION {Without(kept[u], u) : u \in Users} = leavers
      OBVIOUS
    <3>2. deliveries' = {[d EXCEPT !.users =
                            IF d.at = i THEN @ \ UNION {Without(kept[u], u) : u \in Users}
                                        ELSE @] : d \in runs}
      BY DEF Forget
    <3> QED
      BY <3>1, <3>2
  <2> HIDE DEF leavers
  <2>2. ASSUME NEW d \in runs PROVE left(d).by = d.by /\ left(d).at = d.at
    <3>1. d \in Deliveries
      BY DEF IType, Types
    <3> QED
      BY <3>1 DEF Deliveries
  <2> HIDE DEF left
  <2>3. PICK d \in runs : e = left(d)
    BY <2>1
  <2>4. PICK c \in runs : f = left(c)
    BY <2>1
  <2>5. Alone(d, c)
    BY DEF IPipe
  <2> QED
    BY <2>2, <2>3, <2>4, <2>5 DEF Alone
<1> QED
  BY <1>2, <1>3 DEF IPipe, OneUserAtATime, Alone

\* A delivery that goes on, and the steps that put no event forward.
Narrows(e, d) ==
  /\ e.at = d.at /\ e.note = d.note /\ e.by = d.by
  /\ \A s \in Sockets : Pending(e, s) => Pending(d, s)

Drains ==
  /\ got' = got /\ unsure' = unsure
  /\ \A i \in Instances : mail'[i] = mail[i] \/ mail'[i] = <<>>
  /\ \A e \in deliveries' : \E d \in deliveries : Narrows(e, d)

LEMMA SameDrains == UNCHANGED <<got, mail, deliveries, unsure>> => Drains
BY DEF Drains, Narrows

LEMMA DrainsStill == Drains => Still
<1> SUFFICES ASSUME Drains, NEW n \in Notes, Spread(n)' PROVE Spread(n)
  BY DEF Still
<1>1. ASSUME NEW i \in Instances, Contains(mail'[i], n) PROVE Contains(mail[i], n)
  BY <1>1, EmptyBefore DEF Drains
<1> QED
  BY <1>1 DEF Drains, Narrows, Spread

LEMMA ForgetDrains ==
  ASSUME IType, NEW i \in Instances, NEW gone \in SUBSET Sockets,
         NEW runs \in SUBSET deliveries, Forget(i, gone, runs), UNCHANGED <<got, mail, unsure>>
  PROVE  Drains
<1>1. Forgets(i, gone, runs)
  BY ForgetDoes
<1>2. ASSUME NEW e \in deliveries' PROVE \E d \in deliveries : Narrows(e, d)
  <2>1. PICK d \in runs : Resumes(e, d)
    BY <1>1 DEF Forgets
  <2> QED
    BY <2>1 DEF Resumes, Narrows, Pending
<1> QED
  BY <1>2 DEF Drains

LEMMA SocketPipe ==
  ASSUME IType, IPipe, NEW s \in Sockets, Connect(s) \/ Leave(s) \/ Disconnect(s)
  PROVE  IPipe' /\ Drains
<1>1. CASE Connect(s) \/ Leave(s)
  <2>1. UNCHANGED <<got, mail, deliveries, unsure>>
    BY <1>1 DEF Connect, Leave
  <2> QED
    BY <2>1, SameDrains DEF IPipe, OneUserAtATime, Alone
<1>2. CASE Disconnect(s)
  <2>1. /\ Forget(Home[s], {s}, deliveries) /\ UNCHANGED <<got, mail, unsure>>
        /\ {s} \in SUBSET Sockets /\ deliveries \in SUBSET deliveries
    BY <1>2 DEF Disconnect
  <2>2. Home[s] \in Instances
    BY ConnectionsAssumption DEF ConnectionsAssumption
  <2> QED
    BY <2>1, <2>2, ForgetPipe, ForgetDrains
<1> QED
  BY <1>1, <1>2

\* A delivery in the place of another.
LEMMA ReplacePipe ==
  ASSUME IPipe, NEW d \in deliveries, NEW e, e.at = d.at, e.note = d.note, e.by = d.by,
         OneUserAtATime(e), deliveries' = (deliveries \ {d}) \cup {e}, unsure' = unsure
  PROVE  IPipe'
<1>1. \A x \in deliveries' : OneUserAtATime(x) /\ (x.by = "REQUEST" => x.note \in unsure)
  BY DEF IPipe
<1>2. ASSUME NEW x \in deliveries', NEW y \in deliveries' PROVE Alone(x, y)
  <2>1. \A z \in deliveries \ {d} : Alone(z, d) /\ Alone(d, z)
    BY DEF IPipe
  <2>2. \A z \in deliveries \ {d} : Alone(z, e) /\ Alone(e, z)
    BY <2>1 DEF Alone
  <2> QED
    BY <2>2 DEF IPipe, Alone
<1> QED
  BY <1>1, <1>2 DEF IPipe, OneUserAtATime, Alone

LEMMA ReachPipe ==
  ASSUME IType, IPipe, NEW d \in deliveries, NEW u \in Users, Reach(d, u)
  PROVE  IPipe' /\ Drains
<1>1. PICK e \in Deliveries :
         /\ deliveries' = (deliveries \ {d}) \cup {e}
         /\ e.at = d.at /\ e.note = d.note /\ e.by = d.by /\ e.audience = d.audience
         /\ e.dead = d.dead /\ e.users = d.users \ {u} /\ e.sockets = connections[d.at][u]
  BY ReachDoes
<1>2. UNCHANGED <<got, mail, unsure>> /\ u \in d.users /\ d.at \in Instances
  BY DEF Reach, IType, Types, Deliveries
<1>3. \A s \in e.sockets : Home[s] = d.at /\ Owner[s] = u
  BY <1>1, <1>2 DEF IType, Connected
<1>4. IPipe'
  <2>1. OneUserAtATime(e)
    BY <1>1, <1>3 DEF OneUserAtATime
  <2> QED
    BY <1>1, <1>2, <2>1, ReplacePipe
<1>5. Narrows(e, d) /\ \A x \in deliveries : Narrows(x, x)
  BY <1>1, <1>2, <1>3 DEF Narrows, Pending
<1> QED
  BY <1>1, <1>2, <1>4, <1>5 DEF Drains

LEMMA SendPipe ==
  ASSUME IType, IPipe, NEW d \in deliveries, NEW s \in Sockets, Send(d, s)
  PROVE  /\ IPipe' /\ Still
         /\ mail' = mail /\ unsure' = unsure /\ s \in d.sockets
         /\ \E e : /\ deliveries' = (deliveries \ {d}) \cup {e}
                   /\ e.at = d.at /\ e.note = d.note /\ e.by = d.by
                   /\ e.users = d.users /\ e.sockets = d.sockets \ {s}
<1>1. PICK e \in Deliveries :
         /\ deliveries' = (deliveries \ {d}) \cup {e}
         /\ e.at = d.at /\ e.note = d.note /\ e.by = d.by /\ e.audience = d.audience
         /\ e.users = d.users /\ e.sockets = d.sockets \ {s}
         /\ e.dead \subseteq d.dead \cup {s} /\ (s \in e.dead \ d.dead => socket[s] = "GONE")
  BY SendDoes
<1>2. mail' = mail /\ unsure' = unsure /\ s \in d.sockets
  BY DEF Send
<1>3. IPipe'
  <2>1. OneUserAtATime(e)
    BY <1>1 DEF IPipe, OneUserAtATime
  <2> QED
    BY <1>1, <1>2, <2>1, ReplacePipe
<1>4. Still
  <2> SUFFICES ASSUME NEW n \in Notes, Spread(n)' PROVE Spread(n)
    BY DEF Still
  <2>1. \A x \in Sockets : got'[x] = IF x = s /\ socket[s] = "OPEN"
                                     THEN Append(got[s], d.note) ELSE got[x]
    BY SendAges
  <2>2. Contains(Append(got[s], d.note), n) => Contains(got[s], n) \/ n = d.note
    <3>1. got[s] \in Seq(Notes) /\ d.note \in Notes
      BY DEF IType, Types, Deliveries
    <3>2. \A k \in Notes : Contains(Append(got[s], k), n) => Contains(got[s], n) \/ n = k
      BY <3>1, AppendBefore
    <3> QED
      BY <3>1, <3>2
  <2> QED
    BY <1>1, <1>2, <2>1, <2>2 DEF Spread
<1> QED
  BY <1>1, <1>2, <1>3, <1>4

LEMMA FinishPipe ==
  ASSUME IType, IPipe, NEW d \in deliveries, Finish(d)
  PROVE  IPipe' /\ Drains
<1>1. /\ Forget(d.at, d.dead, deliveries \ {d}) /\ UNCHANGED <<got, mail, unsure>>
      /\ d.at \in Instances /\ d.dead \in SUBSET Sockets
      /\ deliveries \ {d} \in SUBSET deliveries
  BY DEF Finish, IType, Types, Deliveries
<1> QED
  BY <1>1, ForgetPipe, ForgetDrains

LEMMA ListenPipe ==
  ASSUME IType, IPipe, NEW i \in Instances, Listen(i)
  PROVE  /\ IPipe' /\ Still
         /\ got' = got /\ unsure' = unsure
         /\ mail[i] \in Seq(Notes) /\ mail[i] # <<>>
         /\ \A j \in Instances : mail'[j] = IF j = i THEN Tail(mail[i]) ELSE mail[j]
         /\ \A d \in deliveries : d.by = "LISTENER" => d.at # i
         /\ \A e \in deliveries' \ deliveries :
              e.at = i /\ e.note = Head(mail[i]) /\ e.by = "LISTENER"
<1>1. /\ got' = got /\ unsure' = unsure
      /\ mail[i] \in Seq(Notes) /\ mail[i] # <<>>
      /\ \A j \in Instances : mail'[j] = IF j = i THEN Tail(mail[i]) ELSE mail[j]
      /\ \A d \in deliveries : d.by = "LISTENER" => d.at # i
  BY DEF Listen, Delivering, IType, Types
<1>2. Head(mail[i]) \in Notes /\ Contains(mail[i], Head(mail[i]))
  BY <1>1, TailBefore
<1> DEFINE new == DeliveryOf(i, Head(mail[i]), "LISTENER")
<1>3. /\ deliveries' = deliveries \cup {new} /\ new.at = i /\ new.note = Head(mail[i])
      /\ new.by = "LISTENER" /\ new.sockets = {}
  BY <1>2, DeliveryOfType DEF Listen
<1> HIDE DEF new
<1>4. IPipe'
  <2>1. \A d \in deliveries' : OneUserAtATime(d) /\ (d.by = "REQUEST" => d.note \in unsure)
    BY <1>3 DEF IPipe, OneUserAtATime
  <2>2. \A d \in deliveries', e \in deliveries' : Alone(d, e)
    BY <1>1, <1>3 DEF IPipe, Alone
  <2> QED
    BY <1>1, <2>1, <2>2 DEF IPipe, OneUserAtATime, Alone
<1>5. Still
  <2> SUFFICES ASSUME NEW n \in Notes, Spread(n)' PROVE Spread(n)
    BY DEF Still
  <2>1. Contains(Tail(mail[i]), n) => Contains(mail[i], n)
    BY <1>1, TailBefore
  <2> QED
    BY <1>1, <1>2, <1>3, <2>1 DEF Spread
<1> QED
  BY <1>1, <1>3, <1>4, <1>5

LEMMA StopPipe ==
  ASSUME IType, IPipe, NEW i \in Instances, ListenerBreaks(i) \/ Restart(i)
  PROVE  IPipe' /\ Drains
<1>1. /\ got' = got /\ unsure' = unsure /\ mail' = [mail EXCEPT ![i] = <<>>]
      /\ deliveries' \subseteq deliveries
  BY DEF ListenerBreaks, Restart
<1>2. \A j \in Instances : mail'[j] = mail[j] \/ mail'[j] = <<>>
  BY <1>1 DEF IType, Types
<1>3. \A d \in deliveries : Narrows(d, d)
  BY DEF Narrows
<1> QED
  BY <1>1, <1>2, <1>3 DEF IPipe, OneUserAtATime, Alone, Drains

\* What a request publishes, and what it delivers itself.
LEMMA PublishPipe ==
  ASSUME IType, IPipe, NEW r \in requests, NEW n \in Notes, Broadcast(r, n) \/ DeliverLocally(r, n)
  PROVE  /\ IPipe' /\ got' = got /\ unsure \subseteq unsure'
         /\ Broadcast(r, n) \/ n \in unsure'
         /\ \A i \in Instances : mail'[i] = mail[i] \/ mail'[i] = Append(mail[i], n)
         /\ \A e \in deliveries' \ deliveries : e.by = "REQUEST" /\ e.note = n
         /\ \A x \in Notes : Spread(x)' => Spread(x) \/ x = n
<1>1. /\ got' = got /\ unsure \subseteq unsure'
      /\ (Broadcast(r, n) /\ deliveries' = deliveries) \/ n \in unsure'
  BY DEF Broadcast, DeliverLocally
<1>2. \A i \in Instances : mail'[i] = mail[i] \/ mail'[i] = Append(mail[i], n)
  BY DEF Broadcast, DeliverLocally, Subscribed
<1> DEFINE new == DeliveryOf(r.at, n, "REQUEST")
<1>3. new.note = n /\ new.by = "REQUEST" /\ new.sockets = {}
  BY DeliveryOfType DEF IType, Types, Posts
<1>4. deliveries' \subseteq deliveries \cup {new}
  BY DEF Broadcast, DeliverLocally
<1> HIDE DEF new
<1>5. IPipe'
  <2>1. \A d \in deliveries' : OneUserAtATime(d) /\ (d.by = "REQUEST" => d.note \in unsure')
    BY <1>1, <1>3, <1>4 DEF IPipe, OneUserAtATime
  <2>2. \A d \in deliveries', e \in deliveries' : Alone(d, e)
    BY <1>3, <1>4 DEF IPipe, Alone
  <2> QED
    BY <2>1, <2>2 DEF IPipe, OneUserAtATime, Alone
<1>6. ASSUME NEW x \in Notes, Spread(x)' PROVE Spread(x) \/ x = n
  <2>1. ASSUME NEW i \in Instances, Contains(mail'[i], x) PROVE Contains(mail[i], x) \/ x = n
    <3>1. Contains(Append(mail[i], n), x) => Contains(mail[i], x) \/ x = n
      <4>1. mail[i] \in Seq(Notes)
        BY DEF IType, Types
      <4> QED
        BY <4>1, AppendBefore
    <3> QED
      BY <1>2, <2>1, <3>1
  <2> QED
    BY <1>1, <1>3, <1>4, <1>6, <2>1 DEF Spread
<1> QED
  BY <1>1, <1>2, <1>3, <1>4, <1>5, <1>6

LEMMA WritingPipe ==
  ASSUME IPipe, UNCHANGED hub
  PROVE  IPipe' /\ Drains
BY SameDrains DEF hub, IPipe, OneUserAtATime, Alone
-----------------------------------------------------------------------------
(* What clients hear is in the database. *)

\* What a request still has to publish is its own, and nobody has heard of it.
Posted(r) == \A n \in r.notes : ~Spread(n) /\ (r.phase = "FLUSHED" <=> note[n] = "NONE")

Parted(q, r) == q.notes \cap r.notes # {} => q = r

IRows ==
  /\ \A n \in Notes : Spread(n) \/ n \in loaded => note[n] # "NONE"
  /\ \A r \in requests : Posted(r)
  /\ \A q, r \in requests : Parted(q, r)

\* A row is written by the commit of its request, and never unwritten.
Kept == \A n \in Notes : note'[n] = "NONE" <=> note[n] = "NONE"

LEMMA StillRows ==
  ASSUME IType, IRows, Still, Kept, loaded' \subseteq {n \in Notes : note[n] # "NONE"},
         requests' \subseteq requests
  PROVE  IRows'
<1>1. \A r \in requests : r.notes \subseteq Notes
  BY DEF IType, Types, Posts
<1>2. \A r \in requests' : Posted(r)'
  BY <1>1 DEF IRows, Posted, Still, Kept
<1> QED
  BY <1>2 DEF IRows, Still, Kept, Parted

LEMMA SameRows ==
  ASSUME IType, IRows, Still, UNCHANGED <<note, loaded>>, requests' \subseteq requests
  PROVE  IRows'
<1>1. Kept /\ loaded' \subseteq {n \in Notes : note[n] # "NONE"}
  BY DEF Kept, IRows, IType, Types
<1> QED
  BY <1>1, StillRows

\* Only the commit of a request writes rows.
LEMMA WritingRows ==
  ASSUME IType, IRows, Writing
  PROVE  /\ IRows'
         /\ Kept \/ \E r \in requests : CommitNotifications(r)
<1>1. UNCHANGED hub /\ Still
  BY WritingType, WritingPipe, SameDrains, DrainsStill DEF hub
<1>2. \A n \in Notes : Spread(n)' <=> Spread(n)
  BY <1>1 DEF hub, Spread
<1>3. /\ note \in [Notes -> {"NONE", "UNREAD", "READ", "DELETED"}]
      /\ \A n \in loaded : n \in Notes /\ note[n] # "NONE"
      /\ \A r \in requests : r \in Posts /\ r.notes \subseteq Notes
  BY DEF IType, Types, Posts, IRows
<1>4. ASSUME NEW i \in Instances, NEW N \in SUBSET Notes, CreateNotifications(i, N)
      PROVE  IRows' /\ Kept
  <2> DEFINE new == [at |-> i, notes |-> N, sending |-> {}, phase |-> "FLUSHED"]
  <2>1. /\ requests' = requests \cup {new} /\ UNCHANGED <<note, loaded>>
        /\ \A n \in N : note[n] = "NONE" /\ n \notin Creating
    BY <1>4 DEF CreateNotifications
  <2>2. new.notes = N /\ new.phase = "FLUSHED"
    OBVIOUS
  <2> HIDE DEF new
  <2>3. \A r \in requests : r.notes \cap N = {}
    BY <2>1 DEF Creating
  <2>4. \A r \in requests' : Posted(r)'
    <3>1. \A n \in N : ~Spread(n)
      BY <2>1 DEF IRows
    <3> QED
      BY <1>2, <1>3, <2>1, <2>2, <3>1 DEF IRows, Posted
  <2>5. \A q \in requests', r \in requests' : Parted(q, r)
    BY <2>1, <2>2, <2>3 DEF IRows, Parted
  <2>6. \A n \in Notes : Spread(n)' \/ n \in loaded' => note'[n] # "NONE"
    BY <1>2, <2>1 DEF IRows
  <2> QED
    BY <2>1, <2>4, <2>5, <2>6 DEF IRows, Kept, Parted
<1>5. ASSUME NEW r \in requests, RollbackNotifications(r) PROVE IRows' /\ Kept
  <2>1. requests' \subseteq requests /\ UNCHANGED <<note, loaded>>
    BY <1>5 DEF RollbackNotifications
  <2> QED
    BY <1>1, <2>1, SameRows DEF Kept
<1>6. ASSUME NEW r \in requests, CommitNotifications(r) PROVE IRows'
  <2>1. PICK e \in Posts :
           /\ requests' = (requests \ {r}) \cup {e}
           /\ e.notes = r.notes /\ e.phase = "COMMITTED"
    <3>1. /\ [r EXCEPT !.phase = "COMMITTED"] \in Posts
          /\ [r EXCEPT !.phase = "COMMITTED"].notes = r.notes
          /\ [r EXCEPT !.phase = "COMMITTED"].phase = "COMMITTED"
      BY <1>3 DEF Posts
    <3> QED
      BY <1>6, <3>1 DEF CommitNotifications
  <2>2. /\ note' = [n \in Notes |-> IF n \in r.notes THEN "UNREAD" ELSE note[n]]
        /\ loaded' = loaded
    BY <1>6 DEF CommitNotifications
  <2>3. ASSUME NEW q \in requests' PROVE Posted(q)'
    <3>1. CASE q = e
      BY <1>2, <1>3, <2>1, <2>2, <3>1 DEF IRows, Posted
    <3>2. CASE q \in requests /\ q # r
      <4>1. q.notes \cap r.notes = {} /\ Posted(q)
        BY <3>2 DEF IRows, Parted
      <4> QED
        BY <1>2, <1>3, <2>2, <3>2, <4>1 DEF Posted
    <3> QED
      BY <2>1, <3>1, <3>2
  <2>4. \A p \in requests', q \in requests' : Parted(p, q)
    BY <2>1 DEF IRows, Parted
  <2>5. \A n \in Notes : Spread(n)' \/ n \in loaded' => note'[n] # "NONE"
    BY <1>2, <2>2 DEF IRows
  <2> QED
    BY <2>3, <2>4, <2>5 DEF IRows, Parted
<1>7. ASSUME NEW n \in Notes, MarkLoad(n) \/ MarkWrite(n) \/ Delete(n) PROVE IRows' /\ Kept
  <2>1. /\ requests' = requests
        /\ Kept
        /\ loaded' \subseteq {k \in Notes : note[k] # "NONE"}
    BY <1>3, <1>7 DEF MarkLoad, MarkWrite, Delete, Kept
  <2> QED
    BY <1>1, <2>1, StillRows
<1>8. ASSUME NEW N \in SUBSET Notes, MarkMany(N) PROVE IRows' /\ Kept
  <2>1. /\ requests' = requests
        /\ Kept
        /\ loaded' \subseteq {k \in Notes : note[k] # "NONE"}
    BY <1>3, <1>8 DEF MarkMany, Kept
  <2> QED
    BY <1>1, <2>1, StillRows
<1> QED
  BY <1>4, <1>5, <1>6, <1>7, <1>8 DEF Writing

LEMMA FinishRows ==
  ASSUME IType, IRows, NEW d \in deliveries, Finish(d), Still
  PROVE  IRows'
<1> DEFINE after(r) == [r EXCEPT !.sending = IF d.by = "REQUEST" THEN @ \ {d.note} ELSE @]
<1>1. requests' = {after(r) : r \in requests} /\ UNCHANGED <<note, loaded>>
  BY DEF Finish
<1>2. ASSUME NEW r \in requests
      PROVE  r.notes \subseteq Notes /\ after(r).notes = r.notes /\ after(r).phase = r.phase
  <2>1. r \in Posts
    BY DEF IType, Types
  <2> QED
    BY <2>1 DEF Posts
<1> HIDE DEF after
<1>3. \A q \in requests' : Posted(q)'
  BY <1>1, <1>2 DEF IRows, Posted, Still
<1>4. ASSUME NEW p \in requests', NEW q \in requests' PROVE Parted(p, q)
  <2>1. PICK a \in requests : p = after(a)
    BY <1>1
  <2>2. PICK b \in requests : q = after(b)
    BY <1>1
  <2> QED
    BY <1>2, <2>1, <2>2 DEF IRows, Parted
<1> QED
  BY <1>1, <1>3, <1>4 DEF IRows, Parted, Still

LEMMA PublishRows ==
  ASSUME IType, IPipe, IRows, NEW r \in requests, NEW n \in Notes,
         Broadcast(r, n) \/ DeliverLocally(r, n)
  PROVE  IRows'
<1>1. /\ n \in r.notes /\ note[n] # "NONE" /\ ~Spread(n)
      /\ UNCHANGED <<note, loaded>>
  BY DEF Broadcast, DeliverLocally, ToPublish, IRows, Posted
<1>2. \A x \in Notes : Spread(x)' => Spread(x) \/ x = n
  BY PublishPipe
<1>3. PICK e : /\ requests' \subseteq (requests \ {r}) \cup {e}
               /\ e.phase = r.phase /\ e.notes = r.notes \ {n}
  <2>1. Took(r, n, {}) \/ Took(r, n, {n})
    BY DEF Broadcast, DeliverLocally
  <2> QED
    BY <2>1, TookType
<1>4. \A q \in requests \ {r} : n \notin q.notes
  BY <1>1 DEF IRows, Parted
<1>5. \A q \in requests : q.notes \subseteq Notes
  BY DEF IType, Types, Posts
<1>6. ASSUME NEW q \in requests' PROVE Posted(q)'
  BY <1>1, <1>2, <1>3, <1>4, <1>5 DEF IRows, Posted
<1>7. \A q \in requests \ {r} : q.notes \cap e.notes = {}
  BY <1>3 DEF IRows, Parted
<1>8. ASSUME NEW p \in requests', NEW q \in requests' PROVE Parted(p, q)
  BY <1>3, <1>7, <1>8 DEF IRows, Parted
<1>9. \A x \in Notes : Spread(x)' \/ x \in loaded' => note'[x] # "NONE"
  BY <1>1, <1>2 DEF IRows
<1> QED
  BY <1>6, <1>8, <1>9 DEF IRows, Parted

LEMMA InitRows == RealtimeInit => IPipe /\ IRows
BY EmptyBefore DEF RealtimeInit, IPipe, IRows, Spread, Contains

LEMMA NextRows ==
  ASSUME IType, IPipe, IRows, [RealtimeNext]_realtimeVars
  PROVE  IPipe' /\ IRows'
<1>1. CASE UNCHANGED realtimeVars
  <2>1. UNCHANGED hub /\ UNCHANGED database
    BY <1>1 DEF realtimeVars
  <2> QED
    BY <2>1, WritingPipe, DrainsStill, SameRows DEF database
<1>2. ASSUME NEW s \in Sockets, Connect(s) \/ Leave(s) \/ Disconnect(s) PROVE IPipe' /\ IRows'
  <2>1. UNCHANGED database
    BY <1>2, SocketType
  <2> QED
    BY <1>2, <2>1, SocketPipe, DrainsStill, SameRows DEF database
<1>3. ASSUME NEW d \in deliveries, NEW u \in Users, Reach(d, u) PROVE IPipe' /\ IRows'
  <2>1. UNCHANGED database
    BY <1>3 DEF Reach
  <2> QED
    BY <1>3, <2>1, ReachPipe, DrainsStill, SameRows DEF database
<1>4. ASSUME NEW d \in deliveries, NEW s \in Sockets, Send(d, s) PROVE IPipe' /\ IRows'
  <2>1. UNCHANGED database
    BY <1>4 DEF Send
  <2> QED
    BY <1>4, <2>1, SendPipe, SameRows DEF database
<1>5. ASSUME NEW d \in deliveries, Finish(d) PROVE IPipe' /\ IRows'
  BY <1>5, FinishPipe, DrainsStill, FinishRows
<1>6. ASSUME NEW i \in Instances, Listen(i) PROVE IPipe' /\ IRows'
  <2>1. UNCHANGED database
    BY <1>6 DEF Listen
  <2> QED
    BY <1>6, <2>1, ListenPipe, SameRows DEF database
<1>7. ASSUME NEW i \in Instances, ListenerBreaks(i) \/ Restart(i) PROVE IPipe' /\ IRows'
  <2>1. UNCHANGED <<note, loaded>> /\ requests' \subseteq requests
    BY <1>7 DEF ListenerBreaks, Restart, database
  <2> QED
    BY <1>7, <2>1, StopPipe, DrainsStill, SameRows
<1>8. ASSUME NEW r \in requests, NEW n \in Notes, Broadcast(r, n) \/ DeliverLocally(r, n)
      PROVE  IPipe' /\ IRows'
  BY <1>8, PublishPipe, PublishRows
<1>9. CASE Writing
  BY <1>9, WritingType, WritingPipe, WritingRows
<1> QED
  BY <1>1, <1>2, <1>3, <1>4, <1>5, <1>6, <1>7, <1>8, <1>9, Cases

LEMMA RowsInvariant == RealtimeSpec => [](IType /\ IPipe /\ IRows)
<1>1. IType /\ IPipe /\ IRows /\ [RealtimeNext]_realtimeVars => IPipe' /\ IRows'
  BY NextRows
<1> QED
  BY <1>1, InitType, InitRows, NextType, PTL DEF RealtimeSpec

LEMMA InitNotifications == RealtimeInit => NotificationContract!Init
<1> SUFFICES ASSUME RealtimeInit PROVE NotificationContract!Init
  OBVIOUS
<1>1. \A n \in Notes, s \in Sockets : ~Contains(got[s], n)
  BY EmptyBefore DEF RealtimeInit
<1>2. note = [n \in Notes |-> "NONE"]
  BY DEF RealtimeInit
<1>3. {n \in Notes : \E s \in Sockets : Contains(got[s], n)} = {}
  BY <1>1
<1> QED
  BY <1>2, <1>3 DEF NotificationContract!Init

\* The commit of a request promises its notifications.
LEMMA CommitPromises ==
  ASSUME IType, IRows, NEW r \in requests, CommitNotifications(r)
  PROVE  NotificationContract!Promise(r.notes)
<1>1. /\ r.notes \subseteq Notes /\ \A n \in r.notes : note[n] = "NONE"
      /\ note' = [n \in Notes |-> IF n \in r.notes THEN "UNREAD" ELSE note[n]]
      /\ got' = got
  BY DEF CommitNotifications, hub, IRows, Posted, IType, Types, Posts
<1>2. \A n \in Notes : note'[n] = IF n \in r.notes THEN "UNREAD" ELSE note[n]
  BY <1>1
<1> QED
  BY <1>1, <1>2 DEF NotificationContract!Promise

\* A client that hears an event receives it; one that left hears nothing.
LEMMA SendReceives ==
  ASSUME IType, IRows, NEW d \in deliveries, NEW s \in Sockets, Send(d, s)
  PROVE  NotificationContract!Next \/ UNCHANGED NotificationContract!vars
<1>1. /\ d.note \in Notes /\ note[d.note] # "NONE" /\ got \in [Sockets -> Seq(Notes)]
      /\ note' = note
  BY DEF IType, Types, Deliveries, IRows, Spread, Send, database
<1>2. \A x \in Sockets : got'[x] = IF x = s /\ socket[s] = "OPEN"
                                   THEN Append(got[s], d.note) ELSE got[x]
  BY SendAges
<1>3. CASE socket[s] = "OPEN"
  <2>1. \A k \in Notes, n \in Notes :
          Contains(Append(got[s], k), n) <=> Contains(got[s], n) \/ n = k
    BY <1>1, AppendBefore
  <2>2. \A n \in Notes : (\E x \in Sockets : Contains(got'[x], n)) <=>
                           (\E x \in Sockets : Contains(got[x], n)) \/ n = d.note
    <3>1. ASSUME NEW n \in Notes, NEW x \in Sockets
          PROVE  Contains(got'[x], n) <=> Contains(got[x], n) \/ (x = s /\ n = d.note)
      <4>1. CASE x = s
        BY <1>1, <1>2, <1>3, <2>1, <4>1
      <4>2. CASE x # s
        BY <1>2, <4>2
      <4> QED
        BY <4>1, <4>2
    <3> QED
      BY <3>1
  <2>3. NotificationContract!Receive(d.note)
    BY <1>1, <2>2 DEF NotificationContract!Receive
  <2> QED
    BY <1>1, <2>3 DEF NotificationContract!Next
<1>4. CASE socket[s] # "OPEN"
  <2>1. \A x \in Sockets : got'[x] = got[x]
    BY <1>2, <1>4
  <2> QED
    BY <1>1, <2>1 DEF NotificationContract!vars
<1> QED
  BY <1>3, <1>4

LEMMA StepNotifications ==
  ASSUME IType, IRows, [RealtimeNext]_realtimeVars
  PROVE  NotificationContract!Next \/ UNCHANGED NotificationContract!vars
<1>1. ASSUME got' = got, Kept PROVE UNCHANGED NotificationContract!vars
  BY <1>1 DEF Kept, NotificationContract!vars
<1>2. note' = note => Kept
  BY DEF Kept
<1>3. CASE UNCHANGED realtimeVars
  BY <1>1, <1>2, <1>3 DEF realtimeVars, hub, database
<1>4. ASSUME NEW s \in Sockets, Connect(s) \/ Leave(s) \/ Disconnect(s)
      PROVE  UNCHANGED NotificationContract!vars
  BY <1>1, <1>2, <1>4 DEF Connect, Leave, Disconnect, database
<1>5. ASSUME NEW d \in deliveries, (\E u \in Users : Reach(d, u)) \/ Finish(d)
      PROVE  UNCHANGED NotificationContract!vars
  BY <1>1, <1>2, <1>5 DEF Reach, Finish, database
<1>6. ASSUME NEW i \in Instances, Listen(i) \/ ListenerBreaks(i) \/ Restart(i)
      PROVE  UNCHANGED NotificationContract!vars
  BY <1>1, <1>2, <1>6 DEF Listen, ListenerBreaks, Restart, database
<1>7. ASSUME NEW r \in requests, NEW n \in Notes, Broadcast(r, n) \/ DeliverLocally(r, n)
      PROVE  UNCHANGED NotificationContract!vars
  BY <1>1, <1>2, <1>7 DEF Broadcast, DeliverLocally
<1>8. CASE Writing
  <2>1. got' = got
    BY <1>8, WritingType DEF hub
  <2>2. ASSUME NEW r \in requests, CommitNotifications(r) PROVE NotificationContract!Next
    <3>1. r.notes \in SUBSET Notes
      BY DEF IType, Types, Posts
    <3> QED
      BY <2>2, <3>1, CommitPromises DEF NotificationContract!Next
  <2> QED
    BY <1>1, <1>8, <2>1, <2>2, WritingRows
<1> QED
  BY <1>3, <1>4, <1>5, <1>6, <1>7, <1>8, SendReceives, Cases

(* Hub and notifications implement Delivery: an event is heard only if its row was
   committed, whatever happens to the request that published it. *)
THEOREM HubImplementsDelivery == RealtimeSpec => NotificationsAreDelivered
<1>1. IType /\ IRows /\ [RealtimeNext]_realtimeVars
        => [NotificationContract!Next]_NotificationContract!vars
  BY StepNotifications
<1> QED
  BY <1>1, InitNotifications, RowsInvariant, PTL
     DEF RealtimeSpec, NotificationsAreDelivered, NotificationContract!Spec
-----------------------------------------------------------------------------
(* The order of events, along the whole way to a client. *)

Coming(n, s) ==
  \E d \in deliveries :
    d.by = "LISTENER" /\ d.at = Home[s] /\ d.note = n /\ Pending(d, s)

Queued(n, s) == Contains(mail[Home[s]], n)

\* s hears m before n, or will if it hears them.
Ahead(m, n, s) ==
  \/ Before(m, n, got[s])
  \/ Contains(got[s], m) /\ (Coming(n, s) \/ Queued(n, s))
  \/ Coming(m, s) /\ Queued(n, s)
  \/ Before(m, n, mail[Home[s]])

IOrder == \A s, t \in Sockets : \A m, n \in Notes \ unsure : Ahead(m, n, s) => ~Ahead(n, m, t)

\* A step that puts no two events in an order they were not in.
Follows ==
  \A s \in Sockets : \A m, n \in Notes \ unsure' : Ahead(m, n, s)' => Ahead(m, n, s)

LEMMA FollowsOrder == IOrder /\ Follows /\ unsure \subseteq unsure' => IOrder'
BY DEF IOrder, Follows

LEMMA DrainsFollow ==
  ASSUME IType, Drains
  PROVE  Follows
<1> SUFFICES ASSUME NEW s \in Sockets, NEW m \in Notes, NEW n \in Notes, Ahead(m, n, s)'
             PROVE  Ahead(m, n, s)
  BY DEF Follows
<1>1. Home[s] \in Instances
  BY ConnectionsAssumption DEF ConnectionsAssumption
<1>2. got' = got /\ (mail'[Home[s]] = mail[Home[s]] \/ mail'[Home[s]] = <<>>)
  BY <1>1 DEF Drains
<1>3. \A k \in Notes : Coming(k, s)' => Coming(k, s)
  BY DEF Drains, Narrows, Coming, Pending
<1>4. \A k \in Notes : Queued(k, s)' => Queued(k, s)
  BY <1>2, EmptyBefore DEF Queued
<1>5. Before(m, n, mail'[Home[s]]) => Before(m, n, mail[Home[s]])
  BY <1>2, EmptyBefore
<1> QED
  BY <1>2, <1>3, <1>4, <1>5 DEF Ahead

\* A client hears first what was coming to it: no other delivery of the listener is
\* on its way, and what was delivered without the listener is unsure.
LEMMA SendFollows ==
  ASSUME IType, IPipe, NEW d \in deliveries, NEW x \in Sockets, Send(d, x)
  PROVE  Follows
<1> SUFFICES ASSUME NEW s \in Sockets, NEW m \in Notes \ unsure, NEW n \in Notes \ unsure,
                    Ahead(m, n, s)'
             PROVE  Ahead(m, n, s)
  BY SendPipe DEF Follows
<1>1. PICK e : /\ deliveries' = (deliveries \ {d}) \cup {e}
               /\ e.at = d.at /\ e.note = d.note /\ e.by = d.by
               /\ e.users = d.users /\ e.sockets = d.sockets \ {x}
  BY SendPipe
<1>2. /\ mail' = mail /\ x \in d.sockets
      /\ OneUserAtATime(d) /\ (d.by = "REQUEST" => d.note \in unsure)
      /\ d \in Deliveries /\ got[s] \in Seq(Notes)
  BY SendPipe DEF IPipe, IType, Types
<1>3. \A k \in Notes : Coming(k, s)' => Coming(k, s)
  BY <1>1 DEF Coming, Pending
<1>4. \A k \in Notes : Queued(k, s)' <=> Queued(k, s)
  BY <1>2 DEF Queued
<1>5. CASE got'[s] = got[s]
  BY <1>2, <1>3, <1>4, <1>5 DEF Ahead
<1>6. CASE s = x /\ got'[s] = Append(got[s], d.note)
  <2>1. d.note \in Notes
    BY <1>2 DEF Deliveries
  <2>2. /\ Contains(got'[s], m) => Contains(got[s], m) \/ m = d.note
        /\ Before(m, n, got'[s]) => Before(m, n, got[s]) \/ (Contains(got[s], m) /\ n = d.note)
    <3>1. \A k \in Notes :
            /\ Contains(Append(got[s], k), m) => Contains(got[s], m) \/ m = k
            /\ Before(m, n, Append(got[s], k)) =>
                 Before(m, n, got[s]) \/ (Contains(got[s], m) /\ n = k)
      BY <1>2, AppendBefore
    <3> QED
      BY <1>6, <2>1, <3>1
  <2>3. CASE d.by = "REQUEST"
    <3>1. m # d.note /\ n # d.note
      BY <1>2, <2>3
    <3> QED
      BY <1>2, <1>3, <1>4, <2>2, <3>1 DEF Ahead
  <2>4. CASE d.by = "LISTENER"
    <3>1. Coming(d.note, s)
      BY <1>2, <1>6, <2>4 DEF OneUserAtATime, Coming, Pending
    <3>2. \A k \in Notes : ~Coming(k, s)'
      <4> SUFFICES ASSUME NEW k \in Notes, Coming(k, s)' PROVE FALSE
        OBVIOUS
      <4>1. PICK f \in deliveries' : f.by = "LISTENER" /\ f.at = Home[s] /\ Pending(f, s)
        BY DEF Coming, Pending
      <4>2. f = e
        <5>1. f \in deliveries => f = d
          BY <1>2, <1>6, <2>4, <4>1 DEF IPipe, Alone, OneUserAtATime
        <5> QED
          BY <1>1, <4>1, <5>1
      <4> QED
        BY <1>1, <1>2, <1>6, <4>1, <4>2 DEF OneUserAtATime, Pending
    <3> QED
      BY <1>2, <1>4, <2>2, <3>1, <3>2 DEF Ahead
  <2> QED
    BY <1>2, <2>3, <2>4 DEF Deliveries
<1> QED
  BY <1>5, <1>6, SendAges

\* The listener takes the first event of its mail when nothing else of it is coming.
LEMMA ListenFollows ==
  ASSUME IType, IPipe, NEW i \in Instances, Listen(i)
  PROVE  Follows
<1> SUFFICES ASSUME NEW s \in Sockets, NEW m \in Notes, NEW n \in Notes, Ahead(m, n, s)'
             PROVE  Ahead(m, n, s)
  BY DEF Follows
<1>0. Home[s] \in Instances
  BY ConnectionsAssumption DEF ConnectionsAssumption
<1>1. /\ got' = got
      /\ mail[i] \in Seq(Notes) /\ mail[i] # <<>>
      /\ \A j \in Instances : mail'[j] = IF j = i THEN Tail(mail[i]) ELSE mail[j]
      /\ \A d \in deliveries : d.by = "LISTENER" => d.at # i
      /\ \A e \in deliveries' \ deliveries :
           e.at = i /\ e.note = Head(mail[i]) /\ e.by = "LISTENER"
  BY ListenPipe
<1>2. CASE Home[s] # i
  <2>1. mail'[Home[s]] = mail[Home[s]]
    BY <1>0, <1>1, <1>2
  <2>2. \A k \in Notes : Coming(k, s)' => Coming(k, s)
    BY <1>1, <1>2 DEF Coming, Pending
  <2> QED
    BY <1>1, <2>1, <2>2 DEF Ahead, Queued
<1>3. CASE Home[s] = i
  <2>1. \A k \in Notes : Coming(k, s)' => k = Head(mail[i])
    BY <1>1, <1>3 DEF Coming, Pending
  <2>2. /\ Contains(mail[i], Head(mail[i]))
        /\ Contains(Tail(mail[i]), n) => Contains(mail[i], n) /\ Before(Head(mail[i]), n, mail[i])
        /\ Before(m, n, Tail(mail[i])) => Before(m, n, mail[i])
    BY <1>1, TailBefore
  <2>3. mail'[i] = Tail(mail[i])
    BY <1>1
  <2> QED
    BY <1>1, <1>3, <2>1, <2>2, <2>3 DEF Ahead, Queued
<1> QED
  BY <1>2, <1>3

\* Nobody has heard of what a request publishes, so it comes last everywhere; what the
\* request delivers itself is unsure from then on.
LEMMA PublishOrder ==
  ASSUME IType, IPipe, IRows, IOrder, NEW r \in requests, NEW k \in Notes,
         Broadcast(r, k) \/ DeliverLocally(r, k)
  PROVE  IOrder'
<1>1. /\ got' = got /\ unsure \subseteq unsure'
      /\ Broadcast(r, k) \/ k \in unsure'
      /\ \A i \in Instances : mail'[i] = mail[i] \/ mail'[i] = Append(mail[i], k)
      /\ \A e \in deliveries' \ deliveries : e.by = "REQUEST" /\ e.note = k
  BY PublishPipe
<1>2. ~Spread(k)
  BY DEF Broadcast, DeliverLocally, ToPublish, IRows, Posted
<1>3. ASSUME NEW s \in Sockets, NEW m \in Notes, NEW n \in Notes, Ahead(m, n, s)'
      PROVE  m # k /\ (Ahead(m, n, s) \/ n = k)
  <2>1. Home[s] \in Instances /\ got[s] \in Seq(Notes) /\ mail[Home[s]] \in Seq(Notes)
    BY ConnectionsAssumption DEF ConnectionsAssumption, IType, Types
  <2>2. \A j \in Notes : Coming(j, s)' => Coming(j, s)
    BY <1>1 DEF Coming, Pending
  <2>3. ~Contains(got[s], k) /\ ~Coming(k, s) /\ ~Contains(mail[Home[s]], k)
    BY <1>2, <2>1 DEF Spread, Coming
  <2>4. /\ Contains(mail'[Home[s]], n) => Contains(mail[Home[s]], n) \/ n = k
        /\ Before(m, n, mail'[Home[s]]) =>
             Before(m, n, mail[Home[s]]) \/ (Contains(mail[Home[s]], m) /\ n = k)
    <3>1. /\ Contains(Append(mail[Home[s]], k), n) => Contains(mail[Home[s]], n) \/ n = k
          /\ Before(m, n, Append(mail[Home[s]], k)) =>
               Before(m, n, mail[Home[s]]) \/ (Contains(mail[Home[s]], m) /\ n = k)
      BY <2>1, AppendBefore
    <3> QED
      BY <1>1, <2>1, <3>1
  <2>5. /\ Before(m, n, got[s]) => Contains(got[s], m)
        /\ Before(m, n, mail[Home[s]]) => Contains(mail[Home[s]], m)
    BY <2>1, BeforeContains
  <2> QED
    BY <1>1, <1>3, <2>2, <2>3, <2>4, <2>5 DEF Ahead, Queued
<1>4. ASSUME NEW s \in Sockets, NEW t \in Sockets,
             NEW m \in Notes \ unsure', NEW n \in Notes \ unsure',
             Ahead(m, n, s)', Ahead(n, m, t)'
      PROVE  FALSE
  <2>1. m # k /\ n # k /\ Ahead(m, n, s) /\ Ahead(n, m, t)
    BY <1>3, <1>4
  <2> QED
    BY <1>1, <2>1 DEF IOrder
<1> QED
  BY <1>4 DEF IOrder

LEMMA NextOrder ==
  ASSUME IType, IPipe, IRows, IOrder, [RealtimeNext]_realtimeVars
  PROVE  IOrder'
<1>1. Drains => IOrder'
  BY DrainsFollow, FollowsOrder DEF Drains
<1>2. CASE UNCHANGED realtimeVars
  BY <1>1, <1>2, WritingPipe DEF realtimeVars
<1>3. ASSUME NEW s \in Sockets, Connect(s) \/ Leave(s) \/ Disconnect(s) PROVE IOrder'
  BY <1>1, <1>3, SocketPipe
<1>4. ASSUME NEW d \in deliveries,
             (\E u \in Users : Reach(d, u)) \/ (\E s \in Sockets : Send(d, s)) \/ Finish(d)
      PROVE  IOrder'
  <2>1. ASSUME NEW u \in Users, Reach(d, u) PROVE IOrder'
    BY <1>1, <2>1, ReachPipe
  <2>2. ASSUME NEW s \in Sockets, Send(d, s) PROVE IOrder'
    BY <2>2, SendPipe, SendFollows, FollowsOrder
  <2>3. ASSUME Finish(d) PROVE IOrder'
    BY <1>1, <2>3, FinishPipe
  <2> QED
    BY <1>4, <2>1, <2>2, <2>3
<1>5. ASSUME NEW i \in Instances, Listen(i) \/ ListenerBreaks(i) \/ Restart(i) PROVE IOrder'
  <2>1. CASE Listen(i)
    BY <2>1, ListenPipe, ListenFollows, FollowsOrder
  <2>2. CASE ListenerBreaks(i) \/ Restart(i)
    BY <1>1, <2>2, StopPipe
  <2> QED
    BY <1>5, <2>1, <2>2
<1>6. CASE Writing
  BY <1>1, <1>6, WritingType, WritingPipe
<1> QED
  BY <1>2, <1>3, <1>4, <1>5, <1>6, PublishOrder, Cases

(* However instances, deliveries and requests interleave, no client hears a published
   event twice, and no two clients hear two of them in opposite orders. *)
THEOREM EventsStayInOrder == RealtimeSpec => []OnceAndInOrder
<1>1. RealtimeInit => IOrder
  <2> SUFFICES ASSUME RealtimeInit PROVE IOrder
    OBVIOUS
  <2>1. \A s \in Sockets : got[s] = <<>> /\ mail[Home[s]] = <<>>
    BY ConnectionsAssumption DEF RealtimeInit, ConnectionsAssumption
  <2>2. deliveries = {}
    BY DEF RealtimeInit
  <2> QED
    BY <2>1, <2>2, EmptyBefore DEF IOrder, Ahead, Coming, Queued
<1>2. IType /\ IPipe /\ IRows /\ IOrder /\ [RealtimeNext]_realtimeVars => IOrder'
  BY NextOrder
<1>3. IOrder => OnceAndInOrder
  BY DEF IOrder, Ahead, OnceAndInOrder
<1> QED
  BY <1>1, <1>2, <1>3, RowsInvariant, PTL DEF RealtimeSpec
=============================================================================
