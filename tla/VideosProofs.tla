---------------------------- MODULE VideosProofs ----------------------------
(* Theorems about Videos, for any videos, users, workers, awards and caps. *)
EXTENDS Videos, TLAPS

Steps == {"DOWN", "IDLE", "MISSING", "MODERATE", "TRANSCODE", "REJECT", "RMTREE",
          "APPROVE", "AWARD", "INSERT", "CLEANUP", "EXIT"}
Known == {v \in Videos : status[v] # "NONE"}

\* The type invariant with what it needs to be inductive: a worker's job is a video
\* that was uploaded, and it inserts an entry only below the cap it read.
Types ==
  /\ TypeOK
  /\ at \in [Workers -> Steps]
  /\ read \in [Workers -> Nat]
  /\ raced \subseteq Known
  /\ \A w \in Workers : /\ job[w] # Nothing => job[w] \in Known
                        /\ at[w] = "INSERT" => read[w] < MonthlyCap

LEMMA Facts ==
  /\ Nothing \notin Videos
  /\ Author \in [Videos -> Users]
  /\ Award \in Nat \ {0} /\ MonthlyCap \in Nat \ {0}
BY VideosAssumption

LEMMA InsertIsNew == ASSUME NEW v \in Videos, Insert(v) PROVE status[v] = "NONE"
<1>1. v >= v
  BY VideosAssumption DEF Videos
<1> QED
  BY <1>1 DEF Insert

-----------------------------------------------------------------------------
(* Types *)

LEMMA TypesUpload ==
  ASSUME Types, NEW v \in Videos, Upload(v) \/ BrandUpload(v) \/ Link(v) \/ LinkFails(v)
  PROVE  Types'
<1> USE DEF Types, TypeOK, Known, records, files, work, credits, history
<1>1. CASE Upload(v)
  BY <1>1, InsertIsNew DEF Upload, Insert, Trouble
<1>2. CASE BrandUpload(v)
  BY <1>2, InsertIsNew DEF BrandUpload, Insert, Trouble
<1>3. CASE Link(v)
  BY <1>3 DEF Link
<1>4. CASE LinkFails(v)
  BY <1>4 DEF LinkFails, Trouble
<1> QED
  BY <1>1, <1>2, <1>3, <1>4

LEMMA TypesLoop ==
  ASSUME Types, NEW w \in Workers,
         \/ Start(w)
         \/ (\E v \in Videos : Claim(w, v))
         \/ RejectMissing(w) \/ Moderate(w) \/ Transcode(w) \/ Reject(w)
         \/ RemoveOutput(w) \/ Approve(w) \/ Cleanup(w)
  PROVE  Types'
<1> USE Facts DEF Types, TypeOK, Known, Steps, Go, records, files, work, credits, history
<1>1. CASE Start(w)
  BY <1>1 DEF Start
<1>2. ASSUME NEW v \in Videos, Claim(w, v) PROVE Types'
  BY <1>2 DEF Claim, IsNext
<1>3. CASE RejectMissing(w)
  BY <1>3 DEF RejectMissing
<1>4. CASE Moderate(w)
  BY <1>4 DEF Moderate
<1>5. CASE Transcode(w)
  BY <1>5 DEF Transcode
<1>6. CASE Reject(w)
  BY <1>6 DEF Reject
<1>7. CASE RemoveOutput(w)
  BY <1>7 DEF RemoveOutput
<1>8. CASE Approve(w)
  BY <1>8 DEF Approve
<1>9. CASE Cleanup(w)
  BY <1>9 DEF Cleanup
<1> QED
  BY <1>1, <1>2, <1>3, <1>4, <1>5, <1>6, <1>7, <1>8, <1>9

LEMMA TypesCredits ==
  ASSUME Types, NEW w \in Workers, ReadEarned(w) \/ AwardCredits(w) \/ AwardFails(w)
  PROVE  Types'
<1> USE Facts DEF Types, TypeOK, Known, Steps, Go, records, files, work, credits, history
<1>1. CASE ReadEarned(w)
  BY <1>1 DEF ReadEarned, Creditor
<1>2. CASE AwardCredits(w)
  <2>1. job[w] \in Videos /\ MonthlyCap - read[w] \in Nat
    BY <1>2 DEF AwardCredits
  <2>2. Smaller(Award, MonthlyCap - read[w]) \in Nat
    BY <2>1 DEF Smaller
  <2>3. awards' \in [Videos -> Nat] /\ earned' \in [Users -> Nat]
    BY <1>2, <2>1, <2>2 DEF AwardCredits, InsertEntry, Pay, Creditor
  <2> QED
    BY <1>2, <2>3 DEF AwardCredits
<1>3. CASE AwardFails(w)
  BY <1>3 DEF AwardFails, Trouble
<1> QED
  BY <1>1, <1>2, <1>3

LEMMA TypesTroubles ==
  ASSUME Types, NEW w \in Workers,
         VerdictFails(w) \/ (\E v \in Videos : ClaimFails(w, v)) \/ Raise(w) \/ Die(w)
  PROVE  Types'
<1> USE Facts DEF Types, TypeOK, Known, Steps, Go, records, files, work, credits, history
<1>1. CASE VerdictFails(w)
  BY <1>1 DEF VerdictFails, Trouble
<1>2. ASSUME NEW v \in Videos, ClaimFails(w, v) PROVE Types'
  BY <1>2 DEF ClaimFails, Trouble, IsNext
<1>3. CASE Raise(w)
  BY <1>3 DEF Raise, Trouble
<1>4. CASE Die(w)
  BY <1>4 DEF Die, Trouble
<1> QED
  BY <1>1, <1>2, <1>3, <1>4

LEMMA TypesStep == Types /\ [Next]_vars => Types'
<1> SUFFICES ASSUME Types, [Next]_vars PROVE Types'
  OBVIOUS
<1>1. CASE UNCHANGED vars
  BY <1>1 DEF Types, TypeOK, Known, vars, records, files, work, credits, history
<1>2. CASE Next
  BY <1>2, TypesUpload, TypesLoop, TypesCredits, TypesTroubles DEF Next, Work
<1> QED
  BY <1>1, <1>2

(* Files, jobs and entries belong to videos that were uploaded, and a worker has
   a job exactly while it is at one. *)
THEOREM TypeCorrect == Spec => []Types
<1>1. Init => Types
  BY Facts DEF Init, Types, TypeOK, Known, Steps
<1> QED
  BY <1>1, TypesStep, PTL DEF Spec

-----------------------------------------------------------------------------
(* Jobs and files *)

\* What a worker's step says of a video that nobody has taken back from it: nobody
\* else is at it, and its status is the one the step leaves.
JobIsMine(w) ==
  job[w] \in Videos \ raced =>
    LET v == job[w] IN
    /\ \A x \in Workers : job[x] = v => x = w
    /\ at[w] \in {"MISSING", "MODERATE", "TRANSCODE", "REJECT", "APPROVE", "EXIT"} =>
         status[v] = "processing"
    /\ at[w] = "RMTREE" => status[v] = "rejected"
    /\ at[w] \in {"AWARD", "INSERT"} => status[v] = "approved"
    /\ at[w] = "CLEANUP" => \/ status[v] \in {"approved", "rejected"}
                            \/ status[v] = "processing" /\ v \in troubled
    /\ at[w] = "EXIT" => v \in troubled
    /\ at[w] = "APPROVE" => v \in playable

Jobs == (\A w \in Workers : JobIsMine(w)) /\ FilesAreThere

\* A step that leaves the workers alone, and of the videos they are at whatever
\* tells their steps apart.
LEMMA JobsElsewhere ==
  ASSUME Types, Jobs, NEW w \in Workers,
         at' = at, job' = job, raced' = raced, playable' = playable,
         troubled \subseteq troubled',
         job[w] \in Known => status'[job[w]] = status[job[w]]
  PROVE  JobIsMine(w)'
BY Facts DEF Types, TypeOK, Jobs, JobIsMine

LEMMA JobsUpload ==
  ASSUME Types, Jobs, NEW v \in Videos, Upload(v) \/ BrandUpload(v) \/ Link(v) \/ LinkFails(v)
  PROVE  Jobs'
<1>1. /\ at' = at /\ job' = job /\ raced' = raced /\ playable' = playable
      /\ troubled \subseteq troubled'
      /\ \A u \in Known : status'[u] = status[u]
  <2> USE DEF work, Types, TypeOK, Known
  <2>1. CASE Upload(v) \/ BrandUpload(v)
    BY <2>1, InsertIsNew DEF Upload, BrandUpload, Insert
  <2>2. CASE Link(v)
    BY <2>2 DEF Link, files, history
  <2>3. CASE LinkFails(v)
    BY <2>3 DEF LinkFails
  <2> QED
    BY <2>1, <2>2, <2>3
<1>2. \A w \in Workers : JobIsMine(w)'
  BY <1>1, JobsElsewhere
<1>3. FilesAreThere'
  <2> USE DEF Jobs, FilesAreThere, Types, TypeOK
  <2>1. CASE Upload(v) \/ BrandUpload(v)
    BY <2>1, <1>1, InsertIsNew DEF Upload, BrandUpload, Insert
  <2>2. CASE Link(v)
    BY <2>2 DEF Link, files, history
  <2>3. CASE LinkFails(v)
    BY <2>3 DEF LinkFails
  <2> QED
    BY <2>1, <2>2, <2>3
<1> QED
  BY <1>2, <1>3 DEF Jobs

LEMMA JobsStart ==
  ASSUME Types, Jobs, NEW w \in Workers, Start(w)
  PROVE  Jobs'
<1> USE DEF Types, TypeOK, Jobs, Start, files, history
<1>1. \A y \in Workers : JobIsMine(y)'
  <2> SUFFICES ASSUME NEW y \in Workers, job[y] \in Videos \ raced'
               PROVE  JobIsMine(y)'
    BY DEF JobIsMine
  <2>1. job[y] \notin raced /\ status[job[y]] # "processing" /\ status'[job[y]] = status[job[y]]
    OBVIOUS
  <2>2. y # w
    BY Facts
  <2> QED
    BY <2>1, <2>2 DEF JobIsMine
<1>2. FilesAreThere'
  BY DEF FilesAreThere
<1> QED
  BY <1>1, <1>2

LEMMA JobsLoop ==
  ASSUME Types, Jobs, NEW w \in Workers,
         \/ (\E v \in Videos : Claim(w, v))
         \/ RejectMissing(w) \/ Moderate(w) \/ Transcode(w) \/ Reject(w)
         \/ RemoveOutput(w) \/ Approve(w) \/ Cleanup(w)
         \/ ReadEarned(w) \/ AwardCredits(w) \/ AwardFails(w)
  PROVE  Jobs'
<1> USE Facts DEF Types, TypeOK, Known, Steps, Jobs, JobIsMine, FilesAreThere, Go,
                  records, files, history
<1>1. ASSUME NEW v \in Videos, Claim(w, v) PROVE Jobs'
  BY <1>1 DEF Claim, IsNext
<1>2. CASE RejectMissing(w)
  BY <1>2 DEF RejectMissing
<1>3. CASE Moderate(w)
  BY <1>3 DEF Moderate
<1>4. CASE Transcode(w)
  BY <1>4 DEF Transcode
<1>5. CASE Reject(w)
  BY <1>5 DEF Reject
<1>6. CASE RemoveOutput(w)
  BY <1>6 DEF RemoveOutput
<1>7. CASE Approve(w)
  BY <1>7 DEF Approve
<1>8. CASE Cleanup(w)
  BY <1>8 DEF Cleanup
<1>9. CASE ReadEarned(w) \/ AwardCredits(w) \/ AwardFails(w)
  BY <1>9 DEF ReadEarned, AwardCredits, AwardFails
<1> QED
  BY <1>1, <1>2, <1>3, <1>4, <1>5, <1>6, <1>7, <1>8, <1>9

LEMMA JobsTroubles ==
  ASSUME Types, Jobs, NEW w \in Workers,
         VerdictFails(w) \/ (\E v \in Videos : ClaimFails(w, v)) \/ Raise(w) \/ Die(w)
  PROVE  Jobs'
<1> USE Facts DEF Types, TypeOK, Known, Steps, Jobs, JobIsMine, FilesAreThere, Go,
                  records, files, work
<1>1. CASE VerdictFails(w)
  BY <1>1 DEF VerdictFails
<1>2. ASSUME NEW v \in Videos, ClaimFails(w, v) PROVE Jobs'
  BY <1>2 DEF ClaimFails, IsNext
<1>3. CASE Raise(w)
  BY <1>3 DEF Raise
<1>4. CASE Die(w)
  BY <1>4 DEF Die
<1> QED
  BY <1>1, <1>2, <1>3, <1>4

LEMMA JobsStep == Types /\ Jobs /\ [Next]_vars => Jobs'
<1> SUFFICES ASSUME Types, Jobs, [Next]_vars PROVE Jobs'
  OBVIOUS
<1>1. CASE UNCHANGED vars
  BY <1>1 DEF Jobs, JobIsMine, FilesAreThere, vars, records, files, work, history
<1>2. CASE Next
  BY <1>2, JobsUpload, JobsStart, JobsLoop, JobsTroubles DEF Next, Work
<1> QED
  BY <1>1, <1>2

LEMMA JobsInit == Init => Jobs
BY Facts DEF Init, Jobs, JobIsMine, FilesAreThere

(* A video waits with its raw file and an approved one can be played, whatever
   workers start, die or lose, unless one took it back from another. *)
THEOREM ApprovedIsPlayable == Spec => []FilesAreThere
<1>1. Jobs => FilesAreThere
  BY DEF Jobs
<1> QED
  BY <1>1, JobsInit, JobsStep, TypeCorrect, PTL DEF Spec

\* Who writes the status of a video nobody took back is the worker that is at it,
\* and it has not decided yet.
LEMMA VerdictStep ==
  ASSUME Types, Jobs, [Next]_vars, NEW v \in Videos \ raced,
         status[v] \in {"approved", "rejected"}
  PROVE  status'[v] = status[v]
<1> USE Facts DEF Types, TypeOK, Jobs, JobIsMine, Go
<1>1. CASE UNCHANGED vars
  BY <1>1 DEF vars, records
<1>2. ASSUME NEW u \in Videos, Upload(u) \/ BrandUpload(u) PROVE status'[v] = status[v]
  BY <1>2, InsertIsNew DEF Upload, BrandUpload, Insert
<1>3. ASSUME NEW u \in Videos, Link(u) \/ LinkFails(u) PROVE status'[v] = status[v]
  BY <1>3 DEF Link, LinkFails
<1>4. ASSUME NEW w \in Workers, Start(w) PROVE status'[v] = status[v]
  BY <1>4 DEF Start
<1>5. ASSUME NEW w \in Workers, NEW u \in Videos, Claim(w, u) \/ ClaimFails(w, u)
      PROVE  status'[v] = status[v]
  BY <1>5 DEF Claim, ClaimFails, IsNext
<1>6. ASSUME NEW w \in Workers, RejectMissing(w) \/ Reject(w) \/ Approve(w) \/ VerdictFails(w)
      PROVE  status'[v] = status[v]
  BY <1>6 DEF RejectMissing, Reject, Approve, VerdictFails
<1>7. ASSUME NEW w \in Workers,
             \/ Moderate(w) \/ Transcode(w) \/ RemoveOutput(w) \/ Cleanup(w)
             \/ ReadEarned(w) \/ AwardCredits(w) \/ AwardFails(w) \/ Raise(w) \/ Die(w)
      PROVE  status'[v] = status[v]
  BY <1>7 DEF Moderate, Transcode, RemoveOutput, Cleanup, ReadEarned, AwardCredits,
              AwardFails, Raise, Die, records
<1> QED
  BY <1>1, <1>2, <1>3, <1>4, <1>5, <1>6, <1>7 DEF Next, Work

(* An approved or rejected video stays so, unless a worker that started took it
   back from one that was still at it. *)
THEOREM VerdictsStay == Spec => VerdictIsFinal
<1>1. Types /\ Jobs /\ [Next]_vars =>
        [\A v \in Videos \ raced :
           status[v] \in {"approved", "rejected"} => status'[v] = status[v]]_vars
  BY VerdictStep
<1> QED
  BY <1>1, JobsInit, JobsStep, TypeCorrect, PTL DEF Spec, VerdictIsFinal

-----------------------------------------------------------------------------
(* Moderation *)

\* Nothing is found in a video, unless two workers were at it or nobody heard it.
Passed(v) ==
  Flaws[v] = {} \/ v \in raced \/ (Flaws[v] = {"SOUND"} /\ v \in unheard)

\* Said before the verdict as well: from the last check on.
Clean ==
  /\ \A w \in Workers : at[w] \in {"TRANSCODE", "APPROVE"} => Passed(job[w])
  /\ NothingUncleanIsApproved

\* Whoever passes the checks has passed all of them, none with an error.
LEMMA PassedIsClean ==
  ASSUME NEW v \in Videos \ raced, NEW worst \in Says(v, "FRAMES"),
         NEW text \in Transcript(v), NEW sound \in Sound(v), NEW match \in Says(v, "PRODUCT"),
         ~UnsafeFrames(worst), ~ToxicAudio(text, sound), ~WrongProduct(match)
  PROVE  Flaws[v] = {} \/ (Flaws[v] = {"SOUND"} /\ sound \in Unscored)
<1>1. "FRAMES" \notin Flaws[v] /\ "PRODUCT" \notin Flaws[v]
  BY DEF Says, UnsafeFrames, WrongProduct
<1>2. "SPEECH" \notin Flaws[v]
  BY DEF Says, Transcript, ToxicAudio
<1>3. "SOUND" \in Flaws[v] => sound \in Unscored
  BY DEF Says, Sound, Flag, ToxicAudio
<1>4. Flaws[v] \subseteq {"FRAMES", "SPEECH", "SOUND", "PRODUCT"}
  BY VideosAssumption
<1> QED
  BY <1>1, <1>2, <1>3, <1>4

\* The one worker that is at a video nobody took back is also the one that says
\* whether its sound was scored, and it has not decided yet.
LEMMA CleanModerate ==
  ASSUME Types, Jobs, Clean, NEW w \in Workers, Moderate(w)
  PROVE  Clean'
<1> DEFINE v == job[w]
<1>1. /\ v \in Videos /\ UNCHANGED <<status, job, raced>>
      /\ \A x \in Workers \ {w} : at'[x] = at[x]
  BY Facts DEF Types, TypeOK, Moderate, Go, records, history
<1>2. \A u \in Videos : u # v \/ u \in raced => Passed(u)' = Passed(u)
  BY <1>1 DEF Moderate, Passed
<1>3. v \notin raced => /\ \A x \in Workers \ {w} : job[x] # v
                        /\ status[v] = "processing"
  BY <1>1 DEF Jobs, JobIsMine, Moderate
<1>4. ASSUME at'[w] \in {"TRANSCODE", "APPROVE"} PROVE Passed(v)'
  <2>1. CASE v \in raced
    BY <1>1, <2>1 DEF Passed
  <2>2. CASE v \notin raced
    <3>1. PICK sound \in Sound(v) :
            /\ Flaws[v] = {} \/ (Flaws[v] = {"SOUND"} /\ sound \in Unscored)
            /\ unheard' = IF sound \in Unscored THEN unheard \cup {v} ELSE unheard \ {v}
      BY <1>1, <1>4, <2>2, PassedIsClean DEF Moderate, Go, Types
    <3> QED
      BY <1>1, <3>1 DEF Passed
  <2> QED
    BY <2>1, <2>2
<1>5. \A x \in Workers : at'[x] \in {"TRANSCODE", "APPROVE"} => Passed(job[x])'
  <2> SUFFICES ASSUME NEW x \in Workers, at'[x] \in {"TRANSCODE", "APPROVE"}
               PROVE  Passed(job[x])'
    OBVIOUS
  <2>1. CASE x = w
    BY <1>4, <2>1
  <2>2. CASE x # w
    <3>1. job[x] \in Videos /\ Passed(job[x])
      BY <1>1, <2>2, Facts DEF Clean, Types, TypeOK
    <3>2. Passed(job[x])' = Passed(job[x])
      BY <1>1, <1>2, <1>3, <2>2, <3>1 DEF Passed
    <3> QED
      BY <3>1, <3>2
  <2> QED
    BY <2>1, <2>2
<1>6. NothingUncleanIsApproved'
  BY <1>1, <1>2, <1>3 DEF Clean, NothingUncleanIsApproved, Passed
<1> QED
  BY <1>1, <1>5, <1>6 DEF Clean

\* Any other step keeps who was scored; what is approved by it was about to be.
LEMMA CleanElsewhere ==
  ASSUME Types, Clean, UNCHANGED unheard, raced \subseteq raced',
         \A v \in Videos : status'[v] = "approved" =>
           \/ status[v] = "approved"
           \/ \E w \in Workers : at[w] = "APPROVE" /\ job[w] = v,
         \A w \in Workers : at'[w] \in {"TRANSCODE", "APPROVE"} =>
           at[w] \in {"TRANSCODE", "APPROVE"} /\ job'[w] = job[w]
  PROVE  Clean'
<1>1. \A v \in Videos : Passed(v) => Passed(v)'
  BY DEF Passed
<1>2. \A w \in Workers : at[w] \in {"TRANSCODE", "APPROVE"} => job[w] \in Videos
  BY DEF Types, TypeOK
<1>3. \A v \in Videos : status'[v] = "approved" => Passed(v)
  BY DEF Clean, NothingUncleanIsApproved, Passed
<1>4. NothingUncleanIsApproved'
  BY <1>1, <1>3 DEF NothingUncleanIsApproved, Passed
<1> QED
  BY <1>1, <1>2, <1>4 DEF Clean, Passed

LEMMA CleanStep == Types /\ Jobs /\ Clean /\ [Next]_vars => Clean'
<1> SUFFICES ASSUME Types, Jobs, Clean, [Next]_vars PROVE Clean'
  OBVIOUS
<1>1. CASE UNCHANGED vars
  BY <1>1 DEF Clean, NothingUncleanIsApproved, Passed, vars, records, work, credits, history
<1>2. ASSUME NEW v \in Videos, Upload(v) \/ BrandUpload(v) \/ Link(v) \/ LinkFails(v)
      PROVE  Clean'
  <2> USE DEF work, history, Types, TypeOK
  <2>1. CASE Upload(v) \/ BrandUpload(v)
    BY <1>2, <2>1, CleanElsewhere DEF Upload, BrandUpload, Insert
  <2>2. CASE Link(v) \/ LinkFails(v)
    BY <1>2, <2>2, CleanElsewhere DEF Link, LinkFails
  <2> QED
    BY <1>2, <2>1, <2>2
<1>3. ASSUME NEW w \in Workers, Work(w) PROVE Clean'
  <2> USE DEF Types, TypeOK, Go, records, history
  <2>1. CASE Moderate(w)
    BY <2>1, CleanModerate
  <2>2. CASE Start(w)
    BY <2>2, CleanElsewhere DEF Start
  <2>3. CASE \E v \in Videos : Claim(w, v)
    BY <2>3, CleanElsewhere DEF Claim
  <2>4. CASE RejectMissing(w) \/ Reject(w)
    BY <2>4, CleanElsewhere DEF RejectMissing, Reject
  <2>5. CASE Transcode(w)
    BY <2>5, CleanElsewhere DEF Transcode
  <2>6. CASE RemoveOutput(w) \/ Cleanup(w)
    BY <2>6, CleanElsewhere DEF RemoveOutput, Cleanup
  <2>7. CASE Approve(w)
    BY <2>7, CleanElsewhere DEF Approve
  <2>8. CASE ReadEarned(w) \/ AwardCredits(w)
    BY <2>8, CleanElsewhere DEF ReadEarned, AwardCredits
  <2> QED
    BY <1>3, <2>1, <2>2, <2>3, <2>4, <2>5, <2>6, <2>7, <2>8 DEF Work
<1>4. ASSUME NEW w \in Workers,
             \/ AwardFails(w) \/ VerdictFails(w) \/ Raise(w) \/ Die(w)
             \/ \E v \in Videos : ClaimFails(w, v)
      PROVE  Clean'
  <2> USE DEF Types, TypeOK, Go, records
  <2>1. CASE AwardFails(w) \/ Raise(w)
    BY <2>1, CleanElsewhere DEF AwardFails, Raise
  <2>2. CASE VerdictFails(w)
    BY <2>2, CleanElsewhere DEF VerdictFails
  <2>3. CASE Die(w)
    BY <2>3, CleanElsewhere DEF Die
  <2>4. CASE \E v \in Videos : ClaimFails(w, v)
    BY <2>4, CleanElsewhere DEF ClaimFails, work
  <2> QED
    BY <1>4, <2>1, <2>2, <2>3, <2>4
<1> QED
  BY <1>1, <1>2, <1>3, <1>4 DEF Next

(* Whatever fails, is repeated or dies, no video is approved in which a model finds
   something, but for a sound that nobody scored and for files that two workers were
   at. *)
THEOREM ApprovedIsClean == Spec => []NothingUncleanIsApproved
<1>1. Init => Clean
  BY DEF Init, Clean, NothingUncleanIsApproved
<1>2. Clean => NothingUncleanIsApproved
  BY DEF Clean
<1> QED
  BY <1>1, <1>2, CleanStep, JobsInit, JobsStep, TypeCorrect, PTL DEF Spec

-----------------------------------------------------------------------------
(* Credits *)

\* Who is about to be paid is no brand, and what the transaction read is still what
\* the author earned, as long as no two transactions of the author overlapped.
Pays(w) == at[w] = "INSERT"
Credited ==
  /\ \A w \in Workers : at[w] \in {"AWARD", "INSERT"} => job[w] \notin sponsored
  /\ \A w \in Workers :
       Pays(w) /\ Creditor(w) \notin overlapped => read[w] = earned[Creditor(w)]
  /\ \A w, x \in Workers :
       Pays(w) /\ Pays(x) /\ w # x /\ Creditor(w) = Creditor(x) => Creditor(w) \in overlapped
  /\ CreditsAreSound

\* A step that no entry is read or written by: the workers on their way to be paid
\* were so before, approved videos stay so, and nobody's entries change.
LEMMA NothingPaid ==
  ASSUME Types, Jobs, Credited,
         UNCHANGED <<awards, earned, overlapped>>,
         raced \subseteq raced',
         \A v \in Known : v \in sponsored' => v \in sponsored,
         \A v \in Videos \ raced' : status[v] = "approved" => status'[v] = "approved",
         \A w \in Workers :
           at'[w] \in {"AWARD", "INSERT"} =>
             /\ job'[w] = job[w]
             /\ at'[w] = at[w] \/ (at'[w] = "AWARD" /\ job[w] \notin sponsored)
             /\ read'[w] = read[w] /\ job[w] \in Known
  PROVE  Credited'
<1>1. \A w \in Workers : Pays(w)' => Pays(w) /\ Creditor(w)' = Creditor(w) /\ read'[w] = read[w]
  BY DEF Pays, Creditor
<1>2. \A w \in Workers : at'[w] \in {"AWARD", "INSERT"} => job'[w] \notin sponsored'
  BY DEF Credited
<1>3. CreditsAreSound'
  BY DEF Credited, CreditsAreSound, Types, TypeOK, Known
<1> QED
  BY <1>1, <1>2, <1>3 DEF Credited

LEMMA CreditedUpload ==
  ASSUME Types, Jobs, Credited,
         NEW v \in Videos, Upload(v) \/ BrandUpload(v) \/ Link(v) \/ LinkFails(v)
  PROVE  Credited'
<1> USE Facts DEF Types, TypeOK, Known, work, credits
<1>1. CASE Upload(v) \/ BrandUpload(v)
  BY <1>1, InsertIsNew, NothingPaid DEF Upload, BrandUpload, Insert
<1>2. CASE Link(v)
  BY <1>2, NothingPaid DEF Link, history
<1>3. CASE LinkFails(v)
  BY <1>3, NothingPaid DEF LinkFails
<1> QED
  BY <1>1, <1>2, <1>3

\* The worker's loop outside the transaction.
LEMMA CreditedLoop ==
  ASSUME Types, Jobs, Credited, NEW w \in Workers,
         \/ Start(w)
         \/ (\E v \in Videos : Claim(w, v))
         \/ RejectMissing(w) \/ Moderate(w) \/ Transcode(w) \/ Reject(w)
         \/ RemoveOutput(w) \/ Approve(w) \/ Cleanup(w)
  PROVE  Credited'
<1> USE Facts DEF Types, TypeOK, Known, Steps, Go, records, credits, history
<1>1. CASE Start(w)
  BY <1>1, NothingPaid DEF Start
<1>2. ASSUME NEW v \in Videos, Claim(w, v) PROVE Credited'
  BY <1>2, NothingPaid DEF Claim, IsNext
<1>3. CASE RejectMissing(w) \/ Reject(w)
  <2>1. \A v \in Videos \ raced : status[v] = "approved" => status'[v] = "approved"
    BY <1>3 DEF RejectMissing, Reject, Jobs, JobIsMine
  <2> QED
    BY <1>3, <2>1, NothingPaid DEF RejectMissing, Reject
<1>4. CASE Moderate(w) \/ Transcode(w) \/ RemoveOutput(w) \/ Cleanup(w)
  BY <1>4, NothingPaid DEF Moderate, Transcode, RemoveOutput, Cleanup
<1>5. CASE Approve(w)
  BY <1>5, NothingPaid DEF Approve
<1> QED
  BY <1>1, <1>2, <1>3, <1>4, <1>5

\* The transaction reads what its author earned, below the cap; another one of the
\* same author that is under way makes it an overlap.
LEMMA CreditedRead ==
  ASSUME Types, Jobs, Credited, NEW w \in Workers, ReadEarned(w)
  PROVE  Credited'
<1> USE Facts DEF Types, TypeOK, Known, Steps, Go, Creditor, Pays, ReadEarned, records
<1>1. \A x \in Workers : job'[x] = job[x]
  OBVIOUS
<1>2. overlapped \subseteq overlapped'
  OBVIOUS
<1>3. \A x \in Workers : at'[x] \in {"AWARD", "INSERT"} => job'[x] \notin sponsored'
  BY DEF Credited
<1>4. ASSUME NEW x \in Workers, Pays(x)', Creditor(x)' \notin overlapped'
      PROVE  read'[x] = earned'[Creditor(x)']
  BY <1>4 DEF Credited
<1>5. ASSUME NEW x \in Workers, NEW y \in Workers, Pays(x)', Pays(y)', x # y,
             Creditor(x)' = Creditor(y)'
      PROVE  Creditor(x)' \in overlapped'
  BY <1>5 DEF Credited
<1>6. CreditsAreSound'
  BY DEF Credited, CreditsAreSound, history
<1> QED
  BY <1>3, <1>4, <1>5, <1>6 DEF Credited

\* What it inserts fits under the cap if what it read is still true, and nobody else
\* who is being paid has read what changes now.
LEMMA CreditedAward ==
  ASSUME Types, Jobs, Credited, NEW w \in Workers, AwardCredits(w)
  PROVE  Credited'
<1> USE Facts DEF Types, TypeOK, Known, Steps, Go, Creditor, Pays, records
<1> DEFINE v == job[w]
           u == Author[v]
<1>1. /\ v \in Videos /\ u \in Users /\ at[w] = "INSERT" /\ v \notin sponsored
      /\ read[w] \in Nat /\ read[w] < MonthlyCap
  BY DEF AwardCredits, Credited
<1>2. /\ at' = [at EXCEPT ![w] = "CLEANUP"] /\ read' = [read EXCEPT ![w] = 0]
      /\ job' = job /\ status' = status /\ sponsored' = sponsored
      /\ overlapped' = overlapped /\ raced' = raced
  BY DEF AwardCredits, history
<1>3. \/ awards[v] > 0 /\ awards' = awards /\ earned' = earned
      \/ /\ awards[v] = 0 /\ awards' = [awards EXCEPT ![v] = 1]
         /\ \E amount \in Nat : /\ read[w] + amount <= MonthlyCap
                                /\ earned' = [earned EXCEPT ![u] = @ + amount]
  <2>1. Smaller(Award, MonthlyCap - read[w]) \in Nat
    BY <1>1 DEF Smaller
  <2>2. read[w] + Smaller(Award, MonthlyCap - read[w]) <= MonthlyCap
    BY <1>1 DEF Smaller
  <2> QED
    BY <1>1, <2>1, <2>2 DEF AwardCredits, InsertEntry, Pay
<1>4. \A x \in Workers : at'[x] \in {"AWARD", "INSERT"} => job'[x] \notin sponsored'
  BY <1>2 DEF Credited
<1>5. ASSUME NEW x \in Workers, Pays(x)', Creditor(x)' \notin overlapped'
      PROVE  read'[x] = earned'[Creditor(x)']
  <2>1. x # w /\ Pays(x) /\ Creditor(x) # Creditor(w)
    BY <1>1, <1>2, <1>5 DEF Credited
  <2>2. earned'[Creditor(x)] = earned[Creditor(x)]
    BY <1>3, <2>1
  <2> QED
    BY <1>2, <1>5, <2>1, <2>2 DEF Credited
<1>6. \A x, y \in Workers : Pays(x)' /\ Pays(y)' /\ x # y /\ Creditor(x)' = Creditor(y)'
        => Creditor(x)' \in overlapped'
  BY <1>2 DEF Credited
<1>7. CreditsAreSound'
  <2>1. \A p \in Videos : awards'[p] <= 1
    BY <1>1, <1>3 DEF Credited, CreditsAreSound
  <2>2. v \in raced \/ status[v] = "approved"
    BY <1>1 DEF Jobs, JobIsMine
  <2>3. \A p \in Videos : awards'[p] = 1 =>
          p \notin sponsored' /\ (status'[p] = "approved" \/ p \in raced')
    BY <1>1, <1>2, <1>3, <2>2 DEF Credited, CreditsAreSound
  <2>4. ASSUME NEW q \in Users, q \notin overlapped' PROVE earned'[q] <= MonthlyCap
    <3>1. CASE q = u
      <4>1. read[w] = earned[u] /\ earned[u] <= MonthlyCap
        BY <1>1, <1>2, <2>4, <3>1 DEF Credited, CreditsAreSound
      <4> QED
        BY <1>1, <1>3, <3>1, <4>1
    <3>2. CASE q # u
      BY <1>1, <1>2, <1>3, <2>4, <3>2 DEF Credited, CreditsAreSound
    <3> QED
      BY <3>1, <3>2
  <2> QED
    BY <2>1, <2>3, <2>4 DEF CreditsAreSound
<1> QED
  BY <1>4, <1>5, <1>6, <1>7 DEF Credited

LEMMA CreditedTroubles ==
  ASSUME Types, Jobs, Credited, NEW w \in Workers,
         \/ AwardFails(w) \/ VerdictFails(w) \/ Raise(w) \/ Die(w)
         \/ \E v \in Videos : ClaimFails(w, v)
  PROVE  Credited'
<1> USE Facts DEF Types, TypeOK, Known, Steps, Go, records, work, credits
<1>1. CASE AwardFails(w)
  BY <1>1, NothingPaid DEF AwardFails
<1>2. CASE VerdictFails(w)
  <2>1. \A v \in Videos \ raced : status[v] = "approved" => status'[v] = "approved"
    BY <1>2 DEF VerdictFails, Jobs, JobIsMine
  <2> QED
    BY <1>2, <2>1, NothingPaid DEF VerdictFails
<1>3. CASE Raise(w)
  BY <1>3, NothingPaid DEF Raise
<1>4. CASE Die(w)
  BY <1>4, NothingPaid DEF Die
<1>5. ASSUME NEW v \in Videos, ClaimFails(w, v) PROVE Credited'
  BY <1>5, NothingPaid DEF ClaimFails, IsNext
<1> QED
  BY <1>1, <1>2, <1>3, <1>4, <1>5

LEMMA CreditedStep == Types /\ Jobs /\ Credited /\ [Next]_vars => Credited'
<1> SUFFICES ASSUME Types, Jobs, Credited, [Next]_vars PROVE Credited'
  OBVIOUS
<1>1. CASE UNCHANGED vars
  BY <1>1 DEF Credited, CreditsAreSound, Pays, Creditor, vars, records, work, credits, history
<1>2. CASE Next
  BY <1>2, CreditedUpload, CreditedLoop, CreditedRead, CreditedAward, CreditedTroubles
     DEF Next, Work
<1> QED
  BY <1>1, <1>2

(* A video is paid once at most, its author only if it was approved, and nobody
   earns more than the cap but by two awards at once. *)
THEOREM PaidOnceWithinTheCap == Spec => []CreditsAreSound
<1>1. Init => Credited
  BY Facts DEF Init, Credited, CreditsAreSound, Pays
<1>2. Credited => CreditsAreSound
  BY DEF Credited
<1> QED
  BY <1>1, <1>2, JobsInit, JobsStep, CreditedStep, TypeCorrect, PTL DEF Spec
=============================================================================
