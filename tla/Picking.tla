------------------------------ MODULE Picking ------------------------------
(* Picking (app/modules/picking): a manager groups the CONFIRMED orders of a
   store into a wave with a task per order, pickers take tasks, pick their items
   and complete them, and whoever completes the last task completes the wave,
   which makes its orders READY_FOR_DISPATCH.

   generate_wave reads the orders without a lock and commits later. The other
   handlers lock their task first, so assign_task and execute_pick are single
   steps; the Redis lock around assign_task only turns requests away. complete_task
   is two steps: between its count of open tasks and its commit it holds the
   lock of its own task, not of the others, and READ COMMITTED hides from the count
   what they have not committed. *)
EXTENDS Naturals

CONSTANTS Orders, Waves, Pickers, Items,
          Expected,    \* [Orders -> [Items -> Nat]]: units to pick, 0 for no such item
          Nobody

ASSUME PickingAssumption ==
  /\ Expected \in [Orders -> [Items -> Nat]]
  /\ Nobody \notin Pickers

VARIABLES
  order,        \* status of each order, as far as picking tells statuses apart
  wave,         \* status of each wave, "NONE" before it is committed
  task,         \* status of the task of each order in each wave
  assigned,     \* its picker
  picked,       \* units picked for each of its items
  generating,   \* the orders generate_wave has read and not committed yet
  closing,      \* complete_task between count and commit: what it counted
  again,        \* history: orders made CONFIRMED again, or read for two waves at once
  raced         \* history: waves with two completions under way at once

tasks == <<task, assigned, picked>>
vars == <<order, wave, tasks, generating, closing, again, raced>>

OrderStatus == {"CONFIRMED", "READY_FOR_PICKING", "READY_FOR_DISPATCH", "OTHER"}
WaveStatus == {"NONE", "PENDING", "COMPLETED"}
TaskStatus == {"NONE", "PENDING", "IN_PROGRESS", "COMPLETED"}

Init == /\ order \in [Orders -> {"CONFIRMED", "OTHER"}]
        /\ wave = [w \in Waves |-> "NONE"]
        /\ task = [w \in Waves |-> [o \in Orders |-> "NONE"]]
        /\ assigned = [w \in Waves |-> [o \in Orders |-> Nobody]]
        /\ picked = [w \in Waves |-> [o \in Orders |-> [i \in Items |-> 0]]]
        /\ generating = [w \in Waves |-> {}]
        /\ closing = [w \in Waves |-> [o \in Orders |-> "no"]]
        /\ again = {}
        /\ raced = {}

\* The orders of a wave, and those whose task is not COMPLETED.
In(w) == {o \in Orders : task[w][o] # "NONE"}

\* Mutant: only the tasks someone is working on are counted.
OpenInProgress(w) == {o \in In(w) : task[w][o] = "IN_PROGRESS"}
Open(w) == {o \in In(w) : task[w][o] # "COMPLETED"}

\* The orders generate_wave is at work on, and those that are in a wave.
Read == {o \in Orders : \E w \in Waves : o \in generating[w]}
Taken == Read \union {o \in Orders : \E w \in Waves : o \in In(w)}

\* generate_wave reads the CONFIRMED orders.
GenerateLoad(w) ==
  LET confirmed == {o \in Orders : order[o] = "CONFIRMED"}
  IN /\ wave[w] = "NONE" /\ generating[w] = {}
     /\ confirmed # {}
     /\ generating' = [generating EXCEPT ![w] = confirmed]
     /\ again' = again \union (confirmed \cap Read)
     /\ UNCHANGED <<order, wave, tasks, closing, raced>>

\* Mutant: the orders of the wave stay CONFIRMED.
GenerateCommitOnly(w) ==
  /\ generating[w] # {}
  /\ wave' = [wave EXCEPT ![w] = "PENDING"]
  /\ task' = [task EXCEPT ![w] =
                [o \in Orders |-> IF o \in generating[w] THEN "PENDING" ELSE "NONE"]]
  /\ generating' = [generating EXCEPT ![w] = {}]
  /\ UNCHANGED <<order, assigned, picked, closing, again, raced>>

\* ... and later writes the wave, whatever the orders have become.
GenerateCommit(w) ==
  /\ generating[w] # {}
  /\ wave' = [wave EXCEPT ![w] = "PENDING"]
  /\ task' = [task EXCEPT ![w] =
                [o \in Orders |-> IF o \in generating[w] THEN "PENDING" ELSE "NONE"]]
  /\ order' = [o \in Orders |-> IF o \in generating[w] THEN "READY_FOR_PICKING"
                                                       ELSE order[o]]
  /\ generating' = [generating EXCEPT ![w] = {}]
  /\ UNCHANGED <<assigned, picked, closing, again, raced>>

GenerateFails(w) ==
  /\ generating[w] # {}
  /\ generating' = [generating EXCEPT ![w] = {}]
  /\ UNCHANGED <<order, wave, tasks, closing, again, raced>>

AssignTask(w, o, p) ==
  /\ task[w][o] = "PENDING"
  /\ assigned' = [assigned EXCEPT ![w][o] = p]
  /\ task' = [task EXCEPT ![w][o] = "IN_PROGRESS"]
  /\ UNCHANGED <<order, wave, picked, generating, closing, again, raced>>

\* The picker of a task has its lock: nobody is completing it.
AtWork(w, o, p) ==
  /\ task[w][o] = "IN_PROGRESS" /\ assigned[w][o] = p
  /\ closing[w][o] = "no"

\* Mutant: the quantity of this pick is not counted.
ExecutePickBelow(w, o, i, n, p) ==
  /\ AtWork(w, o, p)
  /\ picked[w][o][i] < Expected[o][i]
  /\ picked' = [picked EXCEPT ![w][o][i] = @ + n]
  /\ UNCHANGED <<order, wave, task, assigned, generating, closing, again, raced>>

ExecutePick(w, o, i, n, p) ==
  /\ AtWork(w, o, p)
  /\ picked[w][o][i] + n <= Expected[o][i]
  /\ picked' = [picked EXCEPT ![w][o][i] = @ + n]
  /\ UNCHANGED <<order, wave, task, assigned, generating, closing, again, raced>>

FullyPicked(w, o) == \A i \in Items : picked[w][o][i] >= Expected[o][i]

\* Mutant: the count is made before the flush, and finds this task open.
CompleteCountUnflushed(w, o, p) ==
  /\ AtWork(w, o, p)
  /\ FullyPicked(w, o)
  /\ closing' = [closing EXCEPT ![w][o] = IF Open(w) = {} THEN "last" ELSE "more"]
  /\ UNCHANGED <<order, wave, tasks, generating, again, raced>>

(* complete_task locks its task and counts the open ones: its own is COMPLETED in
   this transaction, those of other transactions as they were committed. *)
CompleteCount(w, o, p) ==
  /\ AtWork(w, o, p)
  /\ FullyPicked(w, o)
  /\ closing' = [closing EXCEPT ![w][o] =
                   IF Open(w) \ {o} = {} THEN "last" ELSE "more"]
  /\ UNCHANGED <<order, wave, tasks, generating, again, raced>>

\* _complete_wave, in the transaction that counted no open task.
CompleteWave(w) ==
  /\ wave' = [wave EXCEPT ![w] = "COMPLETED"]
  /\ order' = [o \in Orders |->
                 IF o \in In(w) /\ order[o] = "READY_FOR_PICKING"
                 THEN "READY_FOR_DISPATCH" ELSE order[o]]

CompleteCommit(w, o) ==
  /\ closing[w][o] # "no"
  /\ task' = [task EXCEPT ![w][o] = "COMPLETED"]
  /\ \/ closing[w][o] = "last" /\ CompleteWave(w)
     \/ closing[w][o] = "more" /\ UNCHANGED <<wave, order>>
  /\ closing' = [closing EXCEPT ![w][o] = "no"]
  /\ raced' = IF \E x \in Orders \ {o} : closing[w][x] # "no"
              THEN raced \union {w} ELSE raced
  /\ UNCHANGED <<assigned, picked, generating, again>>

\* A crash, a lost connection or a deadlock of order rows: everything is undone.
CompleteFails(w, o) ==
  /\ closing[w][o] # "no"
  /\ closing' = [closing EXCEPT ![w][o] = "no"]
  /\ UNCHANGED <<order, wave, tasks, generating, again, raced>>

(* Everything else that writes an order's status: the order API, payments and
   dispatch, which Orders has in detail. *)
OtherHandler(o, s) ==
  /\ s # order[o]
  /\ order' = [order EXCEPT ![o] = s]
  /\ again' = IF s = "CONFIRMED" /\ o \in Taken THEN again \union {o} ELSE again
  /\ UNCHANGED <<wave, tasks, generating, closing, raced>>

Next ==
  \/ \E w \in Waves : GenerateLoad(w) \/ GenerateCommit(w) \/ GenerateFails(w)
  \/ \E w \in Waves, o \in Orders, p \in Pickers :
       \/ AssignTask(w, o, p)
       \/ CompleteCount(w, o, p)
       \/ \E i \in Items : \E n \in 1..Expected[o][i] : ExecutePick(w, o, i, n, p)
  \/ \E w \in Waves, o \in Orders : CompleteCommit(w, o) \/ CompleteFails(w, o)
  \/ \E o \in Orders, s \in OrderStatus : OtherHandler(o, s)

Spec == Init /\ [][Next]_vars
-----------------------------------------------------------------------------
\* Type invariant: in particular nothing is picked beyond what was ordered.
TypeOK ==
  /\ order \in [Orders -> OrderStatus]
  /\ wave \in [Waves -> WaveStatus]
  /\ task \in [Waves -> [Orders -> TaskStatus]]
  /\ assigned \in [Waves -> [Orders -> Pickers \union {Nobody}]]
  /\ picked \in [Waves -> [Orders -> [Items -> Nat]]]
  /\ generating \in [Waves -> SUBSET Orders]
  /\ closing \in [Waves -> [Orders -> {"no", "more", "last"}]]
  /\ again \subseteq Orders
  /\ raced \subseteq Waves
  /\ \A w \in Waves, o \in Orders, i \in Items : picked[w][o][i] <= Expected[o][i]

(* A wave is COMPLETED, and its orders go to dispatch, only when every one of its
   tasks is COMPLETED and all their items are picked: the count of one
   transaction stays right although others commit after it. *)
CompletedWavesArePicked ==
  \A w \in Waves : wave[w] = "COMPLETED" =>
    \A o \in In(w) : task[w][o] = "COMPLETED" /\ FullyPicked(w, o)

\* _complete_wave is for a wave whose tasks are all done.
AllDone(w) == wave[w] # "NONE" /\ Open(w) = {}

(* Two completions under way at once are all that can leave a wave open whose
   tasks are done. *)
OpenWavesRaced == \A w \in Waves : AllDone(w) /\ wave[w] # "COMPLETED" => w \in raced

(* An order is in two waves, and its goods are picked twice, only if another
   handler made it CONFIRMED again or two generate_wave read it at once. *)
OnePickPerOrder ==
  \A o \in Orders, v, w \in Waves : o \in In(v) \cap In(w) /\ v # w => o \in again
=============================================================================
