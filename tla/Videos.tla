------------------------------- MODULE Videos -------------------------------
(***************************************************************************)
(* Virtual Discovery: uploads of videos, the worker that moderates and     *)
(* transcodes them (worker.py) and the credits their authors earn          *)
(* (app/services/ledger.py).  The status in MongoDB is the queue: a worker *)
(* claims the oldest pending video, and one that starts sets every video   *)
(* in processing back to pending.  Several workers may run; they share the *)
(* database and the directories of raw and of transcoded files.            *)
(***************************************************************************)
EXTENDS Integers

CONSTANTS
  MaxVideos,     \* bounds the uploads; videos are numbered as they are inserted
  Users,
  Author,        \* who uploads a video
  Flaws,         \* what a model finds in a video that it is asked about
  Workers,
  Nothing,       \* no job
  Award,         \* base amount of a credit times the multiplier of the user's band
  MonthlyCap,
  MaxTroubles    \* bounds database errors, exceptions and deaths

Videos == 1..MaxVideos

ASSUME VideosAssumption ==
  /\ MaxVideos \in Nat
  /\ Author \in [Videos -> Users]
  /\ Flaws \in [Videos -> SUBSET {"FRAMES", "SPEECH", "SOUND", "PRODUCT"}]
  /\ Nothing \notin Videos
  /\ Award \in Nat \ {0}
  /\ MonthlyCap \in Nat \ {0}
  /\ MaxTroubles \in Nat

VARIABLES
  status,      \* moderation_status
  sponsored,   \* uploaded by a brand
  linking,     \* brand uploads whose campaign is not updated yet
  raw,         \* raw files on disk
  playable,    \* videos whose master.m3u8 is on disk
  at, job,     \* of a worker
  read,        \* of a worker: what its author earned this month, as it read it
  awards,      \* entries of the ledger for a video
  earned,      \* sum of a user's entries of this month
  raced,       \* history: videos taken back from a worker that was at them
  troubled,    \* history: videos with an upload or a job that ended in an error
  orphaned,    \* history: those left in processing by a worker that goes on
  overlapped,  \* history: users with two awards at once
  unheard,     \* history: videos that passed and nobody scored their sound
  troubles

files   == <<raw, playable>>
records == <<status, sponsored, linking>>
credits == <<read, awards, earned, overlapped>>
work    == <<at, job, unheard>>
history == <<raced, troubled, orphaned, troubles>>
vars    == <<files, records, credits, work, history>>

Init ==
  /\ status = [v \in Videos |-> "NONE"]
  /\ sponsored = {} /\ linking = {}
  /\ raw = {} /\ playable = {}
  /\ at = [w \in Workers |-> "DOWN"]
  /\ job = [w \in Workers |-> Nothing]
  /\ read = [w \in Workers |-> 0]
  /\ awards = [v \in Videos |-> 0]
  /\ earned = [u \in Users |-> 0]
  /\ raced = {} /\ troubled = {} /\ orphaned = {} /\ overlapped = {} /\ unheard = {}
  /\ troubles = 0

Trouble == troubles < MaxTroubles /\ troubles' = troubles + 1

----------------------------------------------------------------------------
(* Uploads *)

\* The file is saved before the document is inserted; after an error of the
\* insert it is removed again, even if the document is there after all.
Insert(v) ==
  /\ \A u \in Videos : status[u] = "NONE" <=> u >= v
  /\ status' = [status EXCEPT ![v] = "pending"]
  /\ \/ raw' = raw \cup {v} /\ UNCHANGED <<troubled, troubles>>
     \/ Trouble /\ troubled' = troubled \cup {v} /\ UNCHANGED raw
  /\ UNCHANGED <<playable, work, credits, raced, orphaned>>

\* POST /api/v1/discovery/upload
Upload(v) ==
  /\ Insert(v)
  /\ UNCHANGED <<sponsored, linking>>

\* POST /api/v1/brand/upload: the campaign learns of the video in a second write.
BrandUpload(v) ==
  /\ Insert(v)
  /\ sponsored' = sponsored \cup {v}
  /\ linking' = IF v \in raw' THEN linking \cup {v} ELSE linking

Link(v) ==
  /\ v \in linking
  /\ linking' = linking \ {v}
  /\ UNCHANGED <<status, sponsored, files, work, credits, history>>

\* The error is answered by removing the raw file; the document stays.
LinkFails(v) ==
  /\ Trouble
  /\ v \in linking
  /\ linking' = linking \ {v}
  /\ raw' = raw \ {v}
  /\ troubled' = troubled \cup {v}
  /\ UNCHANGED <<status, sponsored, playable, work, credits, raced, orphaned>>

----------------------------------------------------------------------------
(* The worker's loop *)

\* Mutant: a worker that starts takes nothing back.
StartOnly(w) ==
  /\ at[w] = "DOWN"
  /\ at' = [at EXCEPT ![w] = "IDLE"]
  /\ UNCHANGED <<records, files, job, unheard, credits, history>>

\* Mutant: everything that is not approved.
StartOver(w) ==
  LET taken == {v \in Videos : status[v] \in {"processing", "rejected"}} IN
  /\ at[w] = "DOWN"
  /\ at' = [at EXCEPT ![w] = "IDLE"]
  /\ status' = [v \in Videos |-> IF v \in taken THEN "pending" ELSE status[v]]
  /\ raced' = raced \cup {v \in taken : \E x \in Workers : job[x] = v}
  /\ orphaned' = {}
  /\ UNCHANGED <<sponsored, linking, files, job, unheard, credits, troubled, troubles>>

\* A worker starts, and takes back what is in processing.
Start(w) ==
  LET taken == {v \in Videos : status[v] = "processing"} IN
  /\ at[w] = "DOWN"
  /\ at' = [at EXCEPT ![w] = "IDLE"]
  /\ status' = [v \in Videos |-> IF v \in taken THEN "pending" ELSE status[v]]
  /\ raced' = raced \cup {v \in taken : \E x \in Workers : job[x] = v}
  /\ orphaned' = {}
  /\ UNCHANGED <<sponsored, linking, files, job, unheard, credits, troubled, troubles>>

\* The oldest pending video.
IsNext(v) ==
  /\ status[v] = "pending"
  /\ \A u \in Videos : status[u] = "pending" => v <= u

Go(w, step) == at' = [at EXCEPT ![w] = step]

\* Raw files that are missing are found at once.
Claim(w, v) ==
  /\ at[w] = "IDLE"
  /\ IsNext(v)
  /\ status' = [status EXCEPT ![v] = "processing"]
  /\ Go(w, IF v \in raw THEN "MODERATE" ELSE "MISSING")
  /\ job' = [job EXCEPT ![w] = v]
  /\ UNCHANGED <<sponsored, linking, files, unheard, credits, history>>

\* "Raw file not found on disk": without the cleanup of the other verdicts.
RejectMissing(w) ==
  /\ at[w] = "MISSING"
  /\ status' = [status EXCEPT ![job[w]] = "rejected"]
  /\ Go(w, "IDLE")
  /\ job' = [job EXCEPT ![w] = Nothing]
  /\ UNCHANGED <<sponsored, linking, files, unheard, credits, history>>

----------------------------------------------------------------------------
(* Moderation *)

\* What a model says of a video, or an error; anything if the video was taken back
\* from a worker, since the two then write and remove the same extracted files.
Says(v, check) ==
  IF v \in raced
    THEN {"SAFE", "UNSAFE", "ERROR"}
    ELSE {IF check \in Flaws[v] THEN "UNSAFE" ELSE "SAFE", "ERROR"}

\* The transcript is for the model of its language; an empty one is safe.
Transcript(v) == Says(v, "SPEECH")

\* TorchServe judges the sound: green_flag or red_flag by its threshold, or an
\* exception if the audio is too short, too long or undecodable, or the model is not
\* loaded; its client makes a lost or late answer an error too.  It may be off, and
\* an answer 200 without confidence_score is taken as it is.
Flag(v) == Says(v, "SOUND")
Unscored == {"OFF", "NO SCORE"}
Sound(v) == Flag(v) \cup Unscored

\* The worst of the frames counts; no frames, a frame that takes too long and an
\* exception count as explicit.
UnsafeFrames(worst) == worst # "SAFE"

\* Whatever goes wrong with either counts as toxic, but no score is 0.0.
\* Mutant: an error of TorchServe counts as 0.0 as well.
ToxicAudioOnline(text, sound) == text \in {"UNSAFE", "ERROR"} \/ sound = "UNSAFE"
ToxicAudio(text, sound) == {text, sound} \cap {"UNSAFE", "ERROR"} # {}

\* CLIP scores the SKU below the threshold, or fails.
WrongProduct(match) == match # "SAFE"

\* Duration, extraction of audio and frames, and the four checks; the quality is
\* a constant.  Each of the commands reads the raw file.
Moderate(w) ==
  LET v == job[w] IN
  /\ at[w] = "MODERATE"
  /\ \/ Go(w, "REJECT") /\ UNCHANGED unheard
     \/ \E worst \in Says(v, "FRAMES"), text \in Transcript(v), sound \in Sound(v),
           match \in Says(v, "PRODUCT") :
          /\ v \in raw
          /\ ~UnsafeFrames(worst) /\ ~ToxicAudio(text, sound) /\ ~WrongProduct(match)
          /\ Go(w, "TRANSCODE")
          /\ unheard' = IF sound \in Unscored THEN unheard \cup {v} ELSE unheard \ {v}
  /\ UNCHANGED <<records, files, job, credits, history>>

\* Mutant: the exit status of ffmpeg is not looked at.
TranscodeUnchecked(w) ==
  /\ at[w] = "TRANSCODE"
  /\ playable' \in {playable, playable \cup {job[w]}}
  /\ Go(w, "APPROVE")
  /\ UNCHANGED <<records, raw, job, unheard, credits, history>>

\* HLS and the thumbnail; a missing executable may fail the job after the first.
Transcode(w) ==
  /\ at[w] = "TRANSCODE"
  /\ \/ /\ job[w] \in raw
        /\ playable' = playable \cup {job[w]}
        /\ Go(w, "APPROVE") \/ Go(w, "REJECT")
     \/ Go(w, "REJECT") /\ UNCHANGED playable
  /\ UNCHANGED <<records, raw, job, unheard, credits, history>>

\* reject_video: the document, then the directory.
Reject(w) ==
  /\ at[w] = "REJECT"
  /\ status' = [status EXCEPT ![job[w]] = "rejected"]
  /\ Go(w, "RMTREE")
  /\ UNCHANGED <<sponsored, linking, files, job, unheard, credits, history>>

RemoveOutput(w) ==
  /\ at[w] = "RMTREE"
  /\ playable' = playable \ {job[w]}
  /\ Go(w, "CLEANUP")
  /\ UNCHANGED <<records, raw, job, unheard, credits, history>>

Approve(w) ==
  /\ at[w] = "APPROVE"
  /\ status' = [status EXCEPT ![job[w]] = "approved"]
  /\ Go(w, IF job[w] \in sponsored THEN "CLEANUP" ELSE "AWARD")
  /\ UNCHANGED <<sponsored, linking, files, job, unheard, credits, history>>

\* The raw file goes when there is HLS output, whatever became of the job.
Cleanup(w) ==
  /\ at[w] \in {"CLEANUP", "EXIT"}
  /\ raw' = IF job[w] \in playable THEN raw \ {job[w]} ELSE raw
  /\ Go(w, IF at[w] = "EXIT" THEN "DOWN" ELSE "IDLE")
  /\ job' = [job EXCEPT ![w] = Nothing]
  /\ UNCHANGED <<records, playable, unheard, credits, history>>

----------------------------------------------------------------------------
(* Credits: award_credits *)

Creditor(w) == Author[job[w]]

\* The transaction sums the user's entries of the month ...
ReadEarned(w) ==
  /\ at[w] = "AWARD"
  /\ read' = [read EXCEPT ![w] = earned[Creditor(w)]]
  /\ Go(w, IF earned[Creditor(w)] < MonthlyCap THEN "INSERT" ELSE "CLEANUP")
  /\ overlapped' = overlapped \cup
       {u \in {Creditor(w)} : \E x \in Workers \ {w} : at[x] = "INSERT" /\ Creditor(x) = u}
  /\ UNCHANGED <<records, files, job, unheard, awards, earned, history>>

\* ... and inserts one; the unique index on reference_id refuses a second one for
\* the video.  Two inserts of different videos do not conflict.
\* Mutant: without the index.
Pay(w, amount) ==
  /\ awards' = [awards EXCEPT ![job[w]] = @ + 1]
  /\ earned' = [earned EXCEPT ![Creditor(w)] = @ + amount]

Smaller(a, b) == IF a < b THEN a ELSE b

InsertAgain(w) == Pay(w, Smaller(Award, MonthlyCap - read[w]))
InsertEntry(w) ==
  IF awards[job[w]] > 0
    THEN UNCHANGED <<awards, earned>>
    ELSE Pay(w, Smaller(Award, MonthlyCap - read[w]))

AwardCredits(w) ==
  /\ at[w] = "INSERT"
  /\ InsertEntry(w)
  /\ read' = [read EXCEPT ![w] = 0]
  /\ Go(w, "CLEANUP")
  /\ UNCHANGED <<records, files, job, unheard, overlapped, history>>

\* Whatever goes wrong is logged; nobody tries again.
AwardFails(w) ==
  /\ Trouble
  /\ at[w] \in {"AWARD", "INSERT"}
  /\ read' = [read EXCEPT ![w] = 0]
  /\ Go(w, "CLEANUP")
  /\ UNCHANGED <<records, files, job, unheard, awards, earned, overlapped,
                 raced, troubled, orphaned>>

----------------------------------------------------------------------------
(* Troubles *)

\* The write of a verdict fails, or its answer is lost; the worker cleans up,
\* sleeps and goes on with another video.
VerdictFails(w) ==
  /\ Trouble
  /\ at[w] \in {"MISSING", "REJECT", "APPROVE"}
  /\ \/ orphaned' = orphaned \cup {job[w]} /\ UNCHANGED status
     \/ /\ status' = [status EXCEPT ![job[w]] =
             IF at[w] = "APPROVE" THEN "approved" ELSE "rejected"]
        /\ UNCHANGED orphaned
  /\ troubled' = troubled \cup {job[w]}
  /\ Go(w, IF at[w] = "MISSING" THEN "IDLE" ELSE "CLEANUP")
  /\ job' = [job EXCEPT ![w] = IF at[w] = "MISSING" THEN Nothing ELSE @]
  /\ UNCHANGED <<sponsored, linking, files, unheard, credits, raced>>

\* The video is claimed and the worker does not hear of it.
ClaimFails(w, v) ==
  /\ Trouble
  /\ at[w] = "IDLE"
  /\ IsNext(v)
  /\ status' = [status EXCEPT ![v] = "processing"]
  /\ orphaned' = orphaned \cup {v}
  /\ troubled' = troubled \cup {v}
  /\ UNCHANGED <<sponsored, linking, files, work, credits, raced>>

\* Any other exception ends the worker, after the cleanup.
Raise(w) ==
  /\ Trouble
  /\ at[w] \in {"MODERATE", "TRANSCODE"}
  /\ troubled' = troubled \cup {job[w]}
  /\ Go(w, "EXIT")
  /\ UNCHANGED <<records, files, job, unheard, credits, raced, orphaned>>

\* Killed; or told to stop, which it does when it is idle.
Die(w) ==
  /\ Trouble
  /\ at[w] # "DOWN"
  /\ Go(w, "DOWN")
  /\ job' = [job EXCEPT ![w] = Nothing]
  /\ read' = [read EXCEPT ![w] = 0]
  /\ UNCHANGED <<records, files, unheard, awards, earned, overlapped, raced, troubled, orphaned>>

----------------------------------------------------------------------------
Work(w) ==
  \/ Start(w)
  \/ \E v \in Videos : Claim(w, v)
  \/ RejectMissing(w)
  \/ Moderate(w)
  \/ Transcode(w)
  \/ Reject(w)
  \/ RemoveOutput(w)
  \/ Approve(w)
  \/ ReadEarned(w)
  \/ AwardCredits(w)
  \/ Cleanup(w)

Next ==
  \/ \E v \in Videos : Upload(v) \/ BrandUpload(v) \/ Link(v) \/ LinkFails(v)
  \/ \E w \in Workers :
       \/ Work(w)
       \/ AwardFails(w)
       \/ VerdictFails(w)
       \/ \E v \in Videos : ClaimFails(w, v)
       \/ Raise(w)
       \/ Die(w)

Spec == Init /\ [][Next]_vars

\* The process manager starts a worker that ended, and commands end or time out.
FairSpec == Spec /\ \A w \in Workers : WF_vars(Work(w))

----------------------------------------------------------------------------
(* Properties *)

TypeOK ==
  /\ status \in [Videos -> {"NONE", "pending", "processing", "approved", "rejected"}]
  /\ sponsored \cup linking \cup raw \cup playable \subseteq {v \in Videos : status[v] # "NONE"}
  /\ unheard \subseteq Videos
  /\ job \in [Workers -> Videos \cup {Nothing}]
  /\ \A w \in Workers : job[w] = Nothing <=> at[w] \in {"DOWN", "IDLE"}
  /\ awards \in [Videos -> Nat]
  /\ earned \in [Users -> Nat]

\* A video waits with its raw file, and an approved one can be played, unless a
\* worker that started took it back from one that was still at it.  A raw file is
\* also lost when the upload or a job ends in an error: the cleanup removes it if
\* there is output, decided or not.
FilesAreThere ==
  \A v \in Videos \ raced :
    /\ status[v] \in {"pending", "processing"} => v \in raw \cup troubled
    /\ status[v] = "approved" => v \in playable

\* "returns a fail-safe toxic result ... so the video is rejected rather than
\* approved with an unknown score" (torchserve_client.py:67): whatever fails, is
\* repeated or dies, a video in which a model finds something is approved only if
\* that is its sound and nobody scored it, or two workers were at its files.
NothingUncleanIsApproved ==
  \A v \in Videos :
    status[v] = "approved" =>
      Flaws[v] = {} \/ v \in raced \/ (Flaws[v] = {"SOUND"} /\ v \in unheard)

\* An approved video of a user earns at most one entry, however often it is
\* processed; and no user exceeds the cap but by two awards at once.
CreditsAreSound ==
  /\ \A v \in Videos : awards[v] <= 1
  /\ \A v \in Videos : awards[v] = 1 => v \notin sponsored /\ (status[v] = "approved" \/ v \in raced)
  /\ \A u \in Users : earned[u] <= MonthlyCap \/ u \in overlapped

\* A verdict is final, unless a worker that started took the video back from one
\* that was still at it: then both decide, and the second may reject what the first
\* approved, and remove its files.
VerdictIsFinal ==
  [][\A v \in Videos \ raced :
       status[v] \in {"approved", "rejected"} => status'[v] = status[v]]_vars

\* A pending video is decided, however often workers die, or is left in
\* processing by a worker whose database call failed: until a worker starts.
EveryVideoIsDecided ==
  \A v \in Videos :
    status[v] = "pending" ~> status[v] \in {"approved", "rejected"} \/ v \in orphaned
=============================================================================
