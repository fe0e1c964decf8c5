------------------------------- MODULE Outbox -------------------------------
(* The transactional outbox (app/core/events.py, app/workers/outbox_processor.py):
   handlers write events with their transaction, and any number of processors
   take batches of PENDING rows with FOR UPDATE SKIP LOCKED, send them to Kafka
   one by one and record what became of all of them in a single commit.

   Failures: a send that raises although the broker may have the event, a
   processor that dies, and a database connection that breaks while a batch is
   being sent: the locks are gone at once, but the processor uses the
   connection again only to commit, and sends the rest of its batch first. *)
EXTENDS Naturals, FiniteSets

CONSTANTS Events, Processors,
          Stamp,     \* created_at: the start of the writing transaction
          Limit,     \* rows per batch
          MaxLost    \* bound: transactions lost to crashes and broken connections

ASSUME OutboxAssumption ==
  /\ Stamp \in [Events -> Nat]
  /\ Limit \in Nat \ {0}
  /\ MaxLost \in Nat

VARIABLES
  rows,      \* status of each event's row, "unwritten" before its commit
  batch,     \* rows a processor has selected, {} while it polls
  todo,      \* those it has not tried to send yet
  marked,    \* those its session has set to PROCESSED, uncommitted
  alive,     \* whether the batch's transaction still holds its row locks
  attempt,   \* number of the processor's batch
  attempts,  \* batches taken so far
  log,       \* <<attempt, event>>: what the broker has received, and from which batch
  lost       \* the batches whose transaction never committed

worker == <<batch, todo, marked, alive, attempt>>
vars == <<rows, batch, todo, marked, alive, attempt, attempts, log, lost>>

Settled == {"PROCESSED", "FAILED"}
Status == {"unwritten", "PENDING"} \union Settled

Init == /\ rows = [e \in Events |-> "unwritten"]
        /\ batch = [p \in Processors |-> {}]
        /\ todo = [p \in Processors |-> {}]
        /\ marked = [p \in Processors |-> {}]
        /\ alive = [p \in Processors |-> FALSE]
        /\ attempt = [p \in Processors |-> 0]
        /\ attempts = 0
        /\ log = {}
        /\ lost = {}

(* A handler's transaction commits with its events, which carry the time the
   transaction began: an event may appear behind younger ones. *)
Write(S) ==
  /\ S # {}
  /\ \A e \in S : rows[e] = "unwritten"
  /\ \A e, f \in S : Stamp[e] = Stamp[f]
  /\ rows' = [e \in Events |-> IF e \in S THEN "PENDING" ELSE rows[e]]
  /\ UNCHANGED <<worker, attempts, log, lost>>

Locked == UNION {batch[p] : p \in {q \in Processors : alive[q]}}

\* Mutant: the rows of other processors' transactions are not skipped.
FreeOrLocked == {e \in Events : rows[e] = "PENDING"}

Free == {e \in Events : rows[e] = "PENDING"} \ Locked

Oldest(S, T) == \A e \in S, f \in T \ S : Stamp[e] <= Stamp[f]

\* Mutant: a processor waits until its batch is full.
IsFullBatch(S, T) == Cardinality(S) = Limit /\ Oldest(S, T)

\* What the query may return: the Limit oldest of T, ties in any order.
IsBatch(S, T) ==
  /\ Cardinality(S) = IF Cardinality(T) < Limit THEN Cardinality(T) ELSE Limit
  /\ Oldest(S, T)

Begin(p) ==
  /\ batch[p] = {}
  /\ \E S \in SUBSET Free :
       /\ IsBatch(S, Free) /\ S # {}
       /\ batch' = [batch EXCEPT ![p] = S]
       /\ todo' = [todo EXCEPT ![p] = S]
  /\ alive' = [alive EXCEPT ![p] = TRUE]
  /\ attempt' = [attempt EXCEPT ![p] = attempts]
  /\ attempts' = attempts + 1
  /\ UNCHANGED <<rows, marked, log, lost>>

\* send_event returns: the broker has the event.
Publish(p) ==
  \E e \in todo[p] :
    /\ Oldest({e}, todo[p])
    /\ log' = log \union {<<attempt[p], e>>}
    /\ todo' = [todo EXCEPT ![p] = @ \ {e}]
    /\ marked' = [marked EXCEPT ![p] = @ \union {e}]
    /\ UNCHANGED <<rows, batch, alive, attempt, attempts, lost>>

\* Mutant: the row is marked PROCESSED whatever send_event does.
PublishFailsMarked(p) ==
  \E e \in todo[p] :
    /\ Oldest({e}, todo[p])
    /\ todo' = [todo EXCEPT ![p] = @ \ {e}]
    /\ marked' = [marked EXCEPT ![p] = @ \union {e}]
    /\ UNCHANGED <<rows, batch, alive, attempt, attempts, log, lost>>

\* send_event raises: the broker may have the event nevertheless.
PublishFails(p) ==
  \E e \in todo[p] :
    /\ Oldest({e}, todo[p])
    /\ \/ log' = log \union {<<attempt[p], e>>}
       \/ log' = log
    /\ todo' = [todo EXCEPT ![p] = @ \ {e}]
    /\ UNCHANGED <<rows, batch, marked, alive, attempt, attempts, lost>>

\* Mutant: the session's marks outlive it.
CloseKeepingMarks(p) ==
  /\ batch' = [batch EXCEPT ![p] = {}]
  /\ todo' = [todo EXCEPT ![p] = {}]
  /\ alive' = [alive EXCEPT ![p] = FALSE]
  /\ UNCHANGED <<marked, attempt, attempts, log>>

\* The session ends: no rows selected, nothing marked, no transaction.
Close(p) ==
  /\ batch' = [batch EXCEPT ![p] = {}]
  /\ todo' = [todo EXCEPT ![p] = {}]
  /\ marked' = [marked EXCEPT ![p] = {}]
  /\ alive' = [alive EXCEPT ![p] = FALSE]
  /\ UNCHANGED <<attempt, attempts, log>>

Commit(p) ==
  /\ batch[p] # {} /\ todo[p] = {} /\ alive[p]
  /\ rows' = [e \in Events |-> IF e \in marked[p] THEN "PROCESSED"
                               ELSE IF e \in batch[p] THEN "FAILED" ELSE rows[e]]
  /\ Close(p)
  /\ UNCHANGED lost

\* The commit of a broken connection raises; the handler rolls back.
Rollback(p) ==
  /\ batch[p] # {} /\ todo[p] = {} /\ ~alive[p]
  /\ Close(p)
  /\ UNCHANGED <<rows, lost>>

FewLost == Cardinality(lost) < MaxLost

BreakConnection(p) ==
  /\ alive[p] /\ FewLost
  /\ alive' = [alive EXCEPT ![p] = FALSE]
  /\ lost' = lost \union {attempt[p]}
  /\ UNCHANGED <<rows, batch, todo, marked, attempt, attempts, log>>

\* The process dies and is started again.
Crash(p) ==
  /\ batch[p] # {} /\ FewLost
  /\ lost' = lost \union {attempt[p]}
  /\ Close(p)
  /\ UNCHANGED rows

Next == \/ \E S \in SUBSET Events : Write(S)
        \/ \E p \in Processors : \/ Begin(p) \/ Publish(p) \/ PublishFails(p)
                                 \/ Commit(p) \/ Rollback(p)
                                 \/ BreakConnection(p) \/ Crash(p)

Spec == Init /\ [][Next]_vars

(* main polls for ever, and every await of it ends in a result or an exception.
   Nothing is assumed of handlers, crashes or connections. *)
LoopFairness ==
  \A p \in Processors : /\ WF_vars(Begin(p))
                        /\ WF_vars(Publish(p) \/ PublishFails(p))
                        /\ WF_vars(Commit(p))
                        /\ WF_vars(Rollback(p))

FairSpec == Spec /\ LoopFairness
-----------------------------------------------------------------------------
(* Type invariant: what a processor has left to send and what it has marked are
   disjoint parts of the batch it took. *)
TypeOK ==
  /\ rows \in [Events -> Status]
  /\ batch \in [Processors -> SUBSET Events]
  /\ todo \in [Processors -> SUBSET Events]
  /\ marked \in [Processors -> SUBSET Events]
  /\ alive \in [Processors -> BOOLEAN]
  /\ attempt \in [Processors -> Nat]
  /\ attempts \in Nat
  /\ log \subseteq Nat \X Events
  /\ lost \subseteq Nat
  /\ \A p \in Processors : /\ todo[p] \subseteq batch[p]
                           /\ marked[p] \subseteq batch[p] \ todo[p]

(* An event is sent twice only because a transaction was lost: of all the
   batches that sent it, at most one did not lose its transaction. In particular
   two processors at work never both send it ("concurrency safe!",
   outbox_processor.py:32), and an event marked FAILED is not sent again. *)
ResentOnlyAfterLoss ==
  \A x, y \in log :
    x[2] = y[2] /\ x[1] \notin lost /\ y[1] \notin lost => x = y

(* The outbox keeps its promise: only committed events are sent, what is
   PROCESSED has been sent, and neither report is ever taken back. *)
Contract == INSTANCE Delivery WITH
              state <- rows,
              received <- {x[2] : x \in log}
ImplementsDelivery == Contract!Spec

(* As long as transactions are not lost for ever, every PENDING event is
   settled, behind however many older ones it waits. *)
EverySettled ==
  \A e \in Events : rows[e] = "PENDING" ~> rows[e] \in Settled
=============================================================================
