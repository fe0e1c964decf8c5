--------------------------- MODULE PickingProofs ---------------------------
(* Theorems about Picking, for any orders, waves, pickers and quantities. *)
EXTENDS Picking, TLAPS

\* The type of a step: one fact per handler.
LEMMA TypeSteps ==
  ASSUME TypeOK, NEW w \in Waves, NEW o \in Orders
  PROVE  /\ \A p \in Pickers : AssignTask(w, o, p) \/ CompleteCount(w, o, p) => TypeOK'
         /\ CompleteCommit(w, o) => TypeOK'
         /\ CompleteFails(w, o) => TypeOK'
<1>1. ASSUME NEW p \in Pickers PROVE AssignTask(w, o, p) => TypeOK'
  BY DEF AssignTask, TypeOK, TaskStatus
<1>2. ASSUME NEW p \in Pickers PROVE CompleteCount(w, o, p) => TypeOK'
  BY DEF CompleteCount, TypeOK, tasks
<1>3. CompleteCommit(w, o) => TypeOK'
  <2> SUFFICES ASSUME CompleteCommit(w, o) PROVE TypeOK'
    OBVIOUS
  <2>1. wave' \in [Waves -> WaveStatus] /\ order' \in [Orders -> OrderStatus]
    BY DEF CompleteCommit, CompleteWave, TypeOK, WaveStatus, OrderStatus
  <2>2. task' \in [Waves -> [Orders -> TaskStatus]]
    BY DEF CompleteCommit, TypeOK, TaskStatus
  <2>3. closing' \in [Waves -> [Orders -> {"no", "more", "last"}]]
    BY DEF CompleteCommit, TypeOK
  <2> QED
    BY <2>1, <2>2, <2>3 DEF CompleteCommit, TypeOK
<1>4. CompleteFails(w, o) => TypeOK'
  BY DEF CompleteFails, TypeOK, tasks
<1> QED
  BY <1>1, <1>2, <1>3, <1>4

LEMMA TypePick ==
  ASSUME TypeOK, NEW w \in Waves, NEW o \in Orders, NEW p \in Pickers,
         NEW i \in Items, NEW n \in 1..Expected[o][i], ExecutePick(w, o, i, n, p)
  PROVE  TypeOK'
<1>1. Expected[o][i] \in Nat /\ n \in Nat /\ picked[w][o][i] \in Nat
  BY PickingAssumption DEF TypeOK
<1>2. picked' = [picked EXCEPT ![w][o][i] = picked[w][o][i] + n]
  BY DEF ExecutePick
<1>3. picked' \in [Waves -> [Orders -> [Items -> Nat]]]
  BY <1>1, <1>2 DEF TypeOK
<1>4. \A v \in Waves, x \in Orders, j \in Items : picked'[v][x][j] <= Expected[x][j]
  BY <1>1, <1>2 DEF ExecutePick, TypeOK
<1> QED
  BY <1>3, <1>4 DEF ExecutePick, TypeOK

(* Picking keeps its type: no item is ever picked beyond its expected quantity. *)
THEOREM TypeCorrect == Spec => []TypeOK
<1>1. Init => TypeOK
  BY PickingAssumption
     DEF Init, TypeOK, OrderStatus, WaveStatus, TaskStatus
<1>2. TypeOK /\ [Next]_vars => TypeOK'
  <2> SUFFICES ASSUME TypeOK, [Next]_vars PROVE TypeOK'
    OBVIOUS
  <2>1. CASE UNCHANGED vars
    BY <2>1 DEF TypeOK, vars, tasks
  <2>2. ASSUME NEW w \in Waves,
               GenerateLoad(w) \/ GenerateCommit(w) \/ GenerateFails(w)
        PROVE  TypeOK'
    <3>1. GenerateLoad(w) => TypeOK'
      BY DEF GenerateLoad, TypeOK, tasks
    <3>2. GenerateCommit(w) => TypeOK'
      BY DEF GenerateCommit, TypeOK, OrderStatus, WaveStatus, TaskStatus
    <3>3. GenerateFails(w) => TypeOK'
      BY DEF GenerateFails, TypeOK, tasks
    <3> QED
      BY <2>2, <3>1, <3>2, <3>3
  <2>3. ASSUME NEW o \in Orders, NEW s \in OrderStatus, OtherHandler(o, s)
        PROVE  TypeOK'
    BY <2>3 DEF OtherHandler, TypeOK, tasks
  <2> QED
    BY <2>1, <2>2, <2>3, TypeSteps, TypePick DEF Next
<1> QED
  BY <1>1, <1>2, PTL DEF Spec
-----------------------------------------------------------------------------
(* The inductive invariant of waves.  What a completion counted is true until it
   commits, unless it counted an open task that another completion was closing. *)

\* A wave has its tasks from the moment it exists.
WavesHaveTasks ==
  \A w \in Waves : /\ wave[w] = "NONE" => In(w) = {}
                   /\ generating[w] # {} => wave[w] = "NONE"

\* A task that is COMPLETED, or about to be, is fully picked.
DoneIsPicked ==
  \A w \in Waves, o \in Orders :
    /\ closing[w][o] # "no" => task[w][o] = "IN_PROGRESS"
    /\ task[w][o] = "COMPLETED" \/ closing[w][o] # "no" => FullyPicked(w, o)

LastIsLast ==
  \A w \in Waves, o \in Orders : closing[w][o] = "last" => Open(w) \subseteq {o}

CompletedIsDone == \A w \in Waves : wave[w] = "COMPLETED" => Open(w) = {}

MoreIsMore ==
  \A w \in Waves, o \in Orders :
    closing[w][o] = "more" => w \in raced \/ Open(w) \ {o} # {}

IInv == /\ TypeOK /\ WavesHaveTasks /\ DoneIsPicked /\ LastIsLast
        /\ CompletedIsDone /\ MoreIsMore /\ OpenWavesRaced

USE DEF In, Open, AllDone

LEMMA InitIInv == Init /\ TypeOK => IInv
BY DEF Init, IInv, WavesHaveTasks, DoneIsPicked, LastIsLast, CompletedIsDone,
       MoreIsMore, OpenWavesRaced

\* A step that leaves waves, tasks and completions alone.
LEMMA SameWavesIInv ==
  ASSUME IInv, TypeOK', UNCHANGED <<wave, task, picked, closing, raced>>,
         \A w \in Waves : generating'[w] # {} => wave[w] = "NONE"
  PROVE  IInv'
<1>1. WavesHaveTasks' /\ DoneIsPicked'
  BY DEF IInv, WavesHaveTasks, DoneIsPicked, FullyPicked
<1>2. LastIsLast' /\ CompletedIsDone' /\ MoreIsMore' /\ OpenWavesRaced'
  BY DEF IInv, LastIsLast, CompletedIsDone, MoreIsMore, OpenWavesRaced
<1> QED
  BY <1>1, <1>2 DEF IInv

\* A new wave has an open task, since generate_wave found an order.
LEMMA GenerateIInv ==
  ASSUME IInv, TypeOK', NEW w \in Waves, GenerateCommit(w)
  PROVE  IInv'
<1>1. /\ task' = [task EXCEPT ![w] = [o \in Orders |->
                      IF o \in generating[w] THEN "PENDING" ELSE "NONE"]]
      /\ wave' = [wave EXCEPT ![w] = "PENDING"]
      /\ generating' = [generating EXCEPT ![w] = {}]
      /\ UNCHANGED <<picked, closing, raced>>
  BY DEF GenerateCommit
<1>2. /\ generating[w] # {} /\ generating[w] \subseteq Orders
      /\ \A o \in Orders : closing[w][o] = "no"
  BY DEF GenerateCommit, IInv, TypeOK, WavesHaveTasks, DoneIsPicked
<1>3. \A v \in Waves \ {w} : task'[v] = task[v] /\ wave'[v] = wave[v]
  BY <1>1 DEF IInv, TypeOK
<1>4. /\ wave'[w] = "PENDING"
      /\ \A o \in Orders : task'[w][o] = IF o \in generating[w] THEN "PENDING" ELSE "NONE"
  BY <1>1 DEF IInv, TypeOK
<1>5. WavesHaveTasks'
  BY <1>1, <1>3, <1>4 DEF IInv, TypeOK, WavesHaveTasks
<1>6. DoneIsPicked'
  BY <1>1, <1>2, <1>3, <1>4 DEF IInv, DoneIsPicked, FullyPicked
<1>7. LastIsLast' /\ CompletedIsDone' /\ MoreIsMore'
  <2>1. /\ \A v \in Waves \ {w} : Open(v)' = Open(v) /\ wave'[v] = wave[v]
        /\ \A v \in Waves, o \in Orders : closing[v][o] # "no" => v # w
    BY <1>2, <1>3
  <2>2. ASSUME NEW v \in Waves, NEW o \in Orders
        PROVE  /\ closing'[v][o] = "last" => Open(v)' \subseteq {o}
               /\ closing'[v][o] = "more" => v \in raced' \/ Open(v)' \ {o} # {}
    <3>1. CASE v = w
      BY <1>1, <2>1, <3>1
    <3>2. CASE v # w
      <4>1. task'[v] = task[v]
        BY <1>3, <3>2
      <4>2. /\ closing[v][o] = "last" => Open(v) \subseteq {o}
            /\ closing[v][o] = "more" => v \in raced \/ Open(v) \ {o} # {}
        BY DEF IInv, LastIsLast, MoreIsMore
      <4> QED
        BY <1>1, <4>1, <4>2
    <3> QED
      BY <3>1, <3>2
  <2>3. CompletedIsDone'
    BY <1>4, <2>1 DEF IInv, CompletedIsDone
  <2> QED
    BY <2>2, <2>3 DEF LastIsLast, MoreIsMore
<1>8. OpenWavesRaced'
  <2>1. Open(w)' # {}
    BY <1>2, <1>4
  <2>2. \A v \in Waves \ {w} : AllDone(v)' => AllDone(v)
    BY <1>3
  <2> QED
    BY <1>1, <1>3, <2>1, <2>2 DEF IInv, OpenWavesRaced
<1> QED
  BY <1>5, <1>6, <1>7, <1>8 DEF IInv

\* Taking a PENDING task leaves it open.
LEMMA AssignIInv ==
  ASSUME IInv, TypeOK', NEW w \in Waves, NEW o \in Orders, NEW p \in Pickers,
         AssignTask(w, o, p)
  PROVE  IInv'
<1>1. /\ task[w][o] = "PENDING"
      /\ \A v \in Waves, x \in Orders :
           task'[v][x] = IF v = w /\ x = o THEN "IN_PROGRESS" ELSE task[v][x]
      /\ UNCHANGED <<wave, picked, generating, closing, raced>>
  BY DEF AssignTask, IInv, TypeOK
<1>2. \A v \in Waves : In(v)' = In(v) /\ Open(v)' = Open(v)
  BY <1>1
<1>3. WavesHaveTasks' /\ DoneIsPicked'
  BY <1>1, <1>2 DEF IInv, WavesHaveTasks, DoneIsPicked, FullyPicked
<1> USE DEF IInv, LastIsLast, CompletedIsDone, MoreIsMore, OpenWavesRaced
<1>4. LastIsLast' /\ CompletedIsDone' /\ MoreIsMore' /\ OpenWavesRaced'
  BY <1>1, <1>2
<1> QED
  BY <1>3, <1>4

\* Picking only adds units.
LEMMA PickIInv ==
  ASSUME IInv, TypeOK', NEW w \in Waves, NEW o \in Orders, NEW p \in Pickers,
         NEW i \in Items, NEW n \in 1..Expected[o][i], ExecutePick(w, o, i, n, p)
  PROVE  IInv'
<1>1. UNCHANGED <<wave, task, generating, closing, raced>>
  BY DEF ExecutePick
<1>2. ASSUME NEW v \in Waves, NEW x \in Orders, FullyPicked(v, x)
      PROVE  FullyPicked(v, x)'
  <2>1. Expected[o][i] \in Nat /\ n \in Nat /\ picked[w][o][i] \in Nat
    BY PickingAssumption DEF IInv, TypeOK
  <2>2. \A j \in Items : picked'[v][x][j] >= picked[v][x][j]
    BY <2>1 DEF ExecutePick, IInv, TypeOK
  <2>3. \A j \in Items : /\ Expected[x][j] \in Nat /\ picked[v][x][j] \in Nat
                         /\ picked'[v][x][j] \in Nat
    BY PickingAssumption DEF IInv, TypeOK
  <2> QED
    BY <1>2, <2>2, <2>3 DEF FullyPicked
<1>3. WavesHaveTasks' /\ DoneIsPicked'
  BY <1>1, <1>2 DEF IInv, WavesHaveTasks, DoneIsPicked
<1>4. LastIsLast' /\ CompletedIsDone' /\ MoreIsMore' /\ OpenWavesRaced'
  BY <1>1 DEF IInv, LastIsLast, CompletedIsDone, MoreIsMore, OpenWavesRaced
<1> QED
  BY <1>3, <1>4 DEF IInv

LEMMA CountIInv ==
  ASSUME IInv, TypeOK', NEW w \in Waves, NEW o \in Orders, NEW p \in Pickers,
         CompleteCount(w, o, p)
  PROVE  IInv'
<1>1. /\ task[w][o] = "IN_PROGRESS" /\ FullyPicked(w, o)
      /\ \A v \in Waves, x \in Orders :
           closing'[v][x] = IF v = w /\ x = o
                            THEN IF Open(w) \ {o} = {} THEN "last" ELSE "more"
                            ELSE closing[v][x]
      /\ UNCHANGED <<wave, task, picked, generating, raced>>
  BY DEF CompleteCount, AtWork, IInv, TypeOK, tasks
<1>2. WavesHaveTasks' /\ DoneIsPicked'
  BY <1>1 DEF IInv, WavesHaveTasks, DoneIsPicked, FullyPicked
<1>3. LastIsLast' /\ MoreIsMore'
  BY <1>1 DEF IInv, LastIsLast, MoreIsMore
<1>4. CompletedIsDone' /\ OpenWavesRaced'
  BY <1>1 DEF IInv, CompletedIsDone, OpenWavesRaced
<1> QED
  BY <1>2, <1>3, <1>4 DEF IInv

(* The commit of a completion.  If it counted no open task there is none left,
   and the wave is completed.  If it counted one, and no other completion is
   under way, that task is still open. *)
LEMMA CommitIInv ==
  ASSUME IInv, TypeOK', NEW w \in Waves, NEW o \in Orders, CompleteCommit(w, o)
  PROVE  IInv'
<1>1. /\ \A v \in Waves, x \in Orders :
           /\ task'[v][x] = IF v = w /\ x = o THEN "COMPLETED" ELSE task[v][x]
           /\ closing'[v][x] = IF v = w /\ x = o THEN "no" ELSE closing[v][x]
      /\ UNCHANGED <<picked, generating>>
  BY DEF CompleteCommit, IInv, TypeOK
<1>2. task[w][o] = "IN_PROGRESS" /\ FullyPicked(w, o) /\ wave[w] # "NONE"
  BY DEF CompleteCommit, IInv, DoneIsPicked, WavesHaveTasks
<1>3. \A v \in Waves : /\ In(v)' = In(v)
                       /\ Open(v)' = IF v = w THEN Open(v) \ {o} ELSE Open(v)
  BY <1>1, <1>2
<1>4. \A v \in Waves : wave'[v] = IF v = w /\ closing[w][o] = "last"
                                 THEN "COMPLETED" ELSE wave[v]
  BY DEF CompleteCommit, CompleteWave, IInv, TypeOK
<1>5. /\ raced \subseteq raced'
      /\ (\E x \in Orders \ {o} : closing[w][x] # "no") => w \in raced'
  BY DEF CompleteCommit
<1>6. WavesHaveTasks'
  BY <1>1, <1>2, <1>3, <1>4 DEF IInv, WavesHaveTasks
<1>7. DoneIsPicked'
  BY <1>1, <1>2 DEF IInv, DoneIsPicked, FullyPicked
<1>8. LastIsLast'
  BY <1>1, <1>3 DEF IInv, LastIsLast
<1>9. CompletedIsDone'
  BY <1>3, <1>4 DEF IInv, CompletedIsDone, LastIsLast
<1>10. MoreIsMore'
  BY <1>1, <1>3, <1>5 DEF IInv, MoreIsMore
<1>11. OpenWavesRaced'
  <2> SUFFICES ASSUME NEW v \in Waves, AllDone(v)', wave'[v] # "COMPLETED"
               PROVE  v \in raced'
    BY DEF OpenWavesRaced
  <2>1. CASE v # w
    BY <1>3, <1>4, <1>5, <2>1 DEF IInv, OpenWavesRaced
  <2>2. CASE v = w
    BY <1>3, <1>4, <1>5, <2>2 DEF CompleteCommit, IInv, TypeOK, MoreIsMore
  <2> QED
    BY <2>1, <2>2
<1> QED
  BY <1>6, <1>7, <1>8, <1>9, <1>10, <1>11 DEF IInv

LEMMA FailIInv ==
  ASSUME IInv, TypeOK', NEW w \in Waves, NEW o \in Orders, CompleteFails(w, o)
  PROVE  IInv'
<1>1. /\ \A v \in Waves, x \in Orders :
           closing'[v][x] = IF v = w /\ x = o THEN "no" ELSE closing[v][x]
      /\ UNCHANGED <<wave, task, picked, generating, raced>>
  BY DEF CompleteFails, IInv, TypeOK, tasks
<1>2. WavesHaveTasks' /\ DoneIsPicked'
  BY <1>1 DEF IInv, WavesHaveTasks, DoneIsPicked, FullyPicked
<1>3. LastIsLast' /\ CompletedIsDone' /\ MoreIsMore' /\ OpenWavesRaced'
  BY <1>1 DEF IInv, LastIsLast, CompletedIsDone, MoreIsMore, OpenWavesRaced
<1> QED
  BY <1>2, <1>3 DEF IInv

LEMMA InductiveInvariant == Spec => []IInv
<1>1. IInv /\ TypeOK' /\ [Next]_vars => IInv'
  <2> SUFFICES ASSUME IInv, TypeOK', [Next]_vars PROVE IInv'
    OBVIOUS
  <2>1. CASE UNCHANGED vars
    BY <2>1, SameWavesIInv DEF vars, tasks, IInv, WavesHaveTasks
  <2>2. ASSUME NEW w \in Waves, GenerateLoad(w) PROVE IInv'
    <3>1. UNCHANGED <<wave, task, picked, closing, raced>>
      BY <2>2 DEF GenerateLoad, tasks
    <3>2. \A v \in Waves : generating'[v] # {} => wave[v] = "NONE"
      BY <2>2 DEF GenerateLoad, IInv, TypeOK, WavesHaveTasks
    <3> QED
      BY <3>1, <3>2, SameWavesIInv
  <2>3. ASSUME NEW w \in Waves, GenerateFails(w) PROVE IInv'
    <3>1. UNCHANGED <<wave, task, picked, closing, raced>>
      BY <2>3 DEF GenerateFails, tasks
    <3>2. \A v \in Waves : generating'[v] # {} => wave[v] = "NONE"
      BY <2>3 DEF GenerateFails, IInv, TypeOK, WavesHaveTasks
    <3> QED
      BY <3>1, <3>2, SameWavesIInv
  <2>4. ASSUME NEW o \in Orders, NEW s \in OrderStatus, OtherHandler(o, s)
        PROVE  IInv'
    BY <2>4, SameWavesIInv DEF OtherHandler, tasks, IInv, WavesHaveTasks
  <2> QED
    BY <2>1, <2>2, <2>3, <2>4, GenerateIInv, AssignIInv, PickIInv, CountIInv,
       CommitIInv, FailIInv DEF Next
<1> QED
  BY InitIInv, TypeCorrect, <1>1, PTL DEF Spec

(* A wave is completed, and its orders sent on, only when all its tasks are
   COMPLETED and all their items picked, whatever commits between the count and
   the commit of the last completion. *)
THEOREM WavesArePicked == Spec => []CompletedWavesArePicked
<1>1. IInv => CompletedWavesArePicked
  BY DEF IInv, CompletedWavesArePicked, CompletedIsDone, DoneIsPicked
<1> QED
  BY <1>1, InductiveInvariant, PTL

(* A wave whose tasks are all done is left open only by two completions that were
   under way at once. *)
THEOREM OnlyRacesLeaveWavesOpen == Spec => []OpenWavesRaced
<1>1. IInv => OpenWavesRaced
  BY DEF IInv
<1> QED
  BY <1>1, InductiveInvariant, PTL
-----------------------------------------------------------------------------
(* The inductive invariant of OnePickPerOrder: an order that was never made
   CONFIRMED again is claimed by one wave at most, and is not CONFIRMED in it. *)
Claims(w) == In(w) \union generating[w]

ClaimedOnce ==
  \A o \in Orders \ again :
    /\ \A v, w \in Waves : o \in Claims(v) /\ o \in Claims(w) => v = w
    /\ \A w \in Waves : o \in In(w) => order[o] # "CONFIRMED"

\* A step that changes no claim and confirms no order.
LEMMA SameClaims ==
  ASSUME ClaimedOnce, again \subseteq again',
         \A w \in Waves : In(w)' = In(w) /\ generating'[w] \subseteq generating[w],
         \A o \in Orders \ again' : order'[o] = "CONFIRMED" =>
           order[o] = "CONFIRMED" \/ \A w \in Waves : o \notin In(w)
  PROVE  ClaimedOnce'
<1>1. \A w \in Waves : Claims(w)' \subseteq Claims(w)
  BY DEF Claims
<1> QED
  BY <1>1 DEF ClaimedOnce

(* An order is in two waves only if another handler made it CONFIRMED again, or
   two generate_wave read it at once. *)
THEOREM PickedOnce == Spec => []OnePickPerOrder
<1>1. Init => ClaimedOnce
  BY DEF Init, ClaimedOnce, Claims
<1>2. IInv /\ ClaimedOnce /\ [Next]_vars => ClaimedOnce'
  <2> SUFFICES ASSUME IInv, ClaimedOnce, [Next]_vars PROVE ClaimedOnce'
    OBVIOUS
  <2>1. CASE UNCHANGED vars
    BY <2>1, SameClaims DEF vars, tasks
  <2>2. ASSUME NEW w \in Waves, GenerateLoad(w) PROVE ClaimedOnce'
    <3> DEFINE confirmed == {o \in Orders : order[o] = "CONFIRMED"}
    <3>1. /\ again' = again \union (confirmed \cap Read)
          /\ \A v \in Waves : generating'[v] = IF v = w THEN confirmed ELSE generating[v]
          /\ UNCHANGED <<order, task>>
      BY <2>2 DEF GenerateLoad, IInv, TypeOK, tasks
    <3>2. ASSUME NEW o \in Orders, o \notin again', o \in confirmed, NEW v \in Waves
          PROVE  o \notin Claims(v)
      BY <3>1, <3>2 DEF Read, Claims, ClaimedOnce
    <3>3. \A v \in Waves : Claims(v)' = IF v = w THEN In(v) \union confirmed ELSE Claims(v)
      BY <3>1 DEF Claims
    <3> QED
      BY <3>1, <3>2, <3>3 DEF ClaimedOnce, Claims
  <2>3. ASSUME NEW w \in Waves, GenerateCommit(w) PROVE ClaimedOnce'
    <3>1. /\ \A v \in Waves : Claims(v)' \subseteq Claims(v)
          /\ \A v \in Waves \ {w} : In(v)' = In(v)
          /\ In(w)' \subseteq generating[w]
      BY <2>3 DEF GenerateCommit, IInv, TypeOK, Claims
    <3>2. /\ again' = again
          /\ \A o \in Orders : order'[o] = IF o \in generating[w]
                                          THEN "READY_FOR_PICKING" ELSE order[o]
      BY <2>3 DEF GenerateCommit
    <3> QED
      BY <3>1, <3>2 DEF ClaimedOnce
  <2>4. ASSUME NEW w \in Waves, GenerateFails(w) PROVE ClaimedOnce'
    BY <2>4, SameClaims DEF GenerateFails, IInv, TypeOK, tasks
  <2>5. ASSUME NEW w \in Waves, NEW o \in Orders, NEW p \in Pickers,
               AssignTask(w, o, p) \/ CompleteCount(w, o, p)
                 \/ \E i \in Items : \E n \in 1..Expected[o][i] : ExecutePick(w, o, i, n, p)
        PROVE  ClaimedOnce'
    <3>1. UNCHANGED <<order, generating, again>> /\ \A v \in Waves : In(v)' = In(v)
      <4>1. CASE AssignTask(w, o, p)
        BY <4>1 DEF AssignTask, IInv, TypeOK
      <4>2. CASE CompleteCount(w, o, p)
        BY <4>2 DEF CompleteCount, tasks
      <4>3. ASSUME NEW i \in Items, NEW n \in 1..Expected[o][i],
                   ExecutePick(w, o, i, n, p)
            PROVE  UNCHANGED <<order, generating, again, task>>
        BY <4>3 DEF ExecutePick
      <4> QED
        BY <2>5, <4>1, <4>2, <4>3
    <3> QED
      BY <3>1, SameClaims
  <2>6. ASSUME NEW w \in Waves, NEW o \in Orders,
               CompleteCommit(w, o) \/ CompleteFails(w, o)
        PROVE  ClaimedOnce'
    <3>1. UNCHANGED <<generating, again>>
      BY <2>6 DEF CompleteCommit, CompleteFails, tasks
    <3>2. \A v \in Waves : In(v)' = In(v)
      <4>1. CASE CompleteCommit(w, o)
        <5>1. task[w][o] = "IN_PROGRESS"
          BY <4>1 DEF CompleteCommit, IInv, DoneIsPicked
        <5>2. \A v \in Waves, x \in Orders :
                task'[v][x] = IF v = w /\ x = o THEN "COMPLETED" ELSE task[v][x]
          BY <4>1 DEF CompleteCommit, IInv, TypeOK
        <5> QED
          BY <5>1, <5>2
      <4>2. CASE CompleteFails(w, o)
        BY <4>2 DEF CompleteFails, tasks
      <4> QED
        BY <2>6, <4>1, <4>2
    <3>3. \A x \in Orders : order'[x] = "CONFIRMED" => order[x] = "CONFIRMED"
      BY <2>6 DEF CompleteCommit, CompleteFails, CompleteWave
    <3> QED
      BY <3>1, <3>2, <3>3, SameClaims
  <2>7. ASSUME NEW o \in Orders, NEW s \in OrderStatus, OtherHandler(o, s)
        PROVE  ClaimedOnce'
    <3>1. UNCHANGED <<generating, task>> /\ again \subseteq again'
      BY <2>7 DEF OtherHandler, tasks
    <3>2. ASSUME NEW x \in Orders, x \notin again', order'[x] = "CONFIRMED"
          PROVE  order[x] = "CONFIRMED" \/ \A w \in Waves : x \notin In(w)
      BY <2>7, <3>2 DEF OtherHandler, Taken, IInv, TypeOK
    <3> QED
      BY <3>1, <3>2, SameClaims
  <2> QED
    BY <2>1, <2>2, <2>3, <2>4, <2>5, <2>6, <2>7 DEF Next
<1>3. ClaimedOnce => OnePickPerOrder
  BY DEF ClaimedOnce, OnePickPerOrder, Claims
<1> QED
  BY <1>1, <1>2, <1>3, InductiveInvariant, PTL DEF Spec
=============================================================================
