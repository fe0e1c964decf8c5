-------------------------------- MODULE Ads --------------------------------
(***************************************************************************)
(* Virtual Discovery: advertising campaigns.  The feed shows an ad of a    *)
(* campaign it selects (ranking_algorithm.py), viewers report what they    *)
(* watched and clicked, and the campaign pays for views (ad_billing.py);   *)
(* brands pause and resume it, an admin gives it a budget (campaign.py).   *)
(* Nothing of this is a transaction: a request reads and writes MongoDB    *)
(* and Redis step by step.  One day, with Redis up and the campaigns       *)
(* within their dates.                                                     *)
(***************************************************************************)
EXTENDS UnitSums

CONSTANTS
  Campaigns,
  Users,
  Nobody,        \* the user and the campaign of a request that has none
  Requests,      \* requests that can be handled at once
  Showable,      \* campaigns with a video that the pipeline and the admin approved
  Cost,          \* cost_per_view_inr
  Cap,           \* AD_FREQUENCY_CAP_PER_USER
  Budgets,       \* budgets the admin may set: at least MIN_AD_BUDGET_INR
  MaxRequests,   \* bounds the requests
  MaxTroubles    \* bounds the failures of MongoDB and Redis

ASSUME AdsAssumption ==
  /\ Nobody \notin Users \cup Campaigns
  /\ Showable \subseteq Campaigns
  /\ Cost \in [Campaigns -> Nat \ {0}]
  /\ Cap \in Nat
  /\ Budgets \subseteq Nat \ {0}
  /\ MaxRequests \in Nat /\ MaxTroubles \in Nat

Kinds == {"impression", "view", "click"}

VARIABLES
  status, total, spent,  \* of a campaign: the last two are budget_total_inr, budget_spent_inr
  counter,       \* of a campaign: total_impressions, total_views, total_clicks
  rows,          \* rows of ad_impressions, by campaign, user and kind
  marked,        \* Redis: who has a billed view of which campaign
  cached, list,  \* Redis: is there a list of active campaigns, and which
  req,           \* the requests being handled
  billed,        \* history: times a user's view of a campaign was charged
  missed,        \* history: campaigns with a row that was not counted
  raced,         \* history: campaigns written from something out of date, or whose
                 \* budget was set to no more than they had spent
  overlapped,    \* history: a user's requests of a kind for a campaign that overlapped
  requests, troubles

campaign == <<status, total, spent, counter>>
redis    == <<marked, cached, list>>
history  == <<billed, missed, raced, overlapped>>
bounds   == <<requests, troubles>>
vars     == <<campaign, rows, redis, req, history, bounds>>

\* A request: its step, the user and the campaign, the kind of row it writes, the
\* campaigns it selects from, and spent and total as it read them.
Idle == [at |-> "IDLE", user |-> Nobody, on |-> Nobody, kind |-> "view",
         offered |-> {}, read |-> 0, limit |-> 0]

Init ==
  /\ status = [c \in Campaigns |-> "NONE"]
  /\ total = [c \in Campaigns |-> 0]
  /\ spent = [c \in Campaigns |-> 0]
  /\ counter = [c \in Campaigns |-> [k \in Kinds |-> 0]]
  /\ rows = [c \in Campaigns |-> [u \in Users |-> [k \in Kinds |-> 0]]]
  /\ marked = {} /\ cached = FALSE /\ list = {}
  /\ req = [r \in Requests |-> Idle]
  /\ billed = [c \in Campaigns |-> [u \in Users |-> 0]]
  /\ missed = {} /\ raced = {} /\ overlapped = {}
  /\ requests = 0 /\ troubles = 0

\* A request begins: it is q after its first step.
Begin(r, q) ==
  /\ req[r] = Idle
  /\ requests < MaxRequests
  /\ requests' = requests + 1
  /\ req' = [req EXCEPT ![r] = q]
  /\ UNCHANGED troubles

Go(r, step) == req' = [req EXCEPT ![r].at = step]
End(r) == req' = [req EXCEPT ![r] = Idle]

\* Notes the overlap of a request with another of its user, campaign and kind that
\* is at one of the steps.
Overlaps(r, u, c, k, steps) ==
  overlapped' = overlapped \cup
    {o \in {<<u, c, k>>} : \E x \in Requests \ {r} :
       req[x].at \in steps /\ req[x].user = u /\ req[x].on = c /\ req[x].kind = k}

----------------------------------------------------------------------------
(* Campaigns *)

Create(c) ==
  /\ status[c] = "NONE"
  /\ status' = [status EXCEPT ![c] = "scheduled"]
  /\ UNCHANGED <<total, spent, counter, rows, redis, req, history, bounds>>

\* Whatever the state of the campaign and what it has spent.
SetBudget(c, b) ==
  /\ status[c] # "NONE"
  /\ total' = [total EXCEPT ![c] = b]
  /\ status' = [status EXCEPT ![c] = "active"]
  /\ raced' = IF b <= spent[c] THEN raced \cup {c} ELSE raced
  /\ UNCHANGED <<spent, counter, rows, redis, req, billed, missed, overlapped, bounds>>

Pause(c) ==
  /\ status[c] = "active"
  /\ status' = [status EXCEPT ![c] = "paused"]
  /\ UNCHANGED <<total, spent, counter, rows, redis, req, history, bounds>>

Exhausted(c) == total[c] > 0 /\ spent[c] >= total[c]

\* The campaign is looked up ...
FindPaused(r, c) ==
  /\ status[c] = "paused" /\ ~Exhausted(c)
  /\ Begin(r, [Idle EXCEPT !.at = "RESUME", !.on = c])
  /\ UNCHANGED <<campaign, rows, redis, history>>

\* ... and made active, whatever it is by now.
Resume(r) ==
  LET c == req[r].on IN
  /\ req[r].at = "RESUME"
  /\ status' = [status EXCEPT ![c] = "active"]
  /\ raced' = IF status[c] = "paused" THEN raced ELSE raced \cup {c}
  /\ End(r)
  /\ UNCHANGED <<total, spent, counter, rows, redis, billed, missed, overlapped, bounds>>

----------------------------------------------------------------------------
(* The feed: select_best_ad and record_impression *)

Serving == {c \in Campaigns : status[c] = "active" /\ spent[c] < total[c]}

\* The list of active campaigns, of Redis if it is there.
ActiveCampaigns == IF cached THEN list ELSE Serving

\* GET /feed: a page of organic videos, whatever they are, and if it is long enough
\* an ad: select_best_ad reads the list, which it then leaves in Redis.  A shorter
\* page changes nothing.
Feed(r, u) ==
  /\ Begin(r, IF ActiveCampaigns = {} THEN Idle
              ELSE [Idle EXCEPT !.at = "SELECT", !.user = u, !.kind = "impression",
                                !.offered = ActiveCampaigns])
  /\ cached' = TRUE /\ list' = ActiveCampaigns
  /\ UNCHANGED <<campaign, rows, marked, history>>

\* Five minutes later.
Expire ==
  /\ cached
  /\ cached' = FALSE /\ list' = {}
  /\ UNCHANGED <<campaign, rows, marked, req, history, bounds>>

\* check_frequency_cap.  Mutant: one more.
UnderCapOrAtIt(c, u) == rows[c][u]["impression"] <= Cap
UnderCap(c, u) == rows[c][u]["impression"] < Cap

\* The best campaign under the cap, whichever that is; without a video that may be
\* shown there is no ad.
Select(r) ==
  LET eligible == {c \in req[r].offered : UnderCap(c, req[r].user)} IN
  /\ req[r].at = "SELECT"
  /\ \/ \E c \in eligible \cap Showable :
          /\ req' = [req EXCEPT ![r] = [@ EXCEPT !.at = "RECORD", !.on = c, !.offered = {}]]
          /\ Overlaps(r, req[r].user, c, "impression", {"RECORD"})
     \/ /\ eligible \ Showable # {} \/ eligible = {}
        /\ End(r)
        /\ UNCHANGED overlapped
  /\ UNCHANGED <<campaign, rows, redis, billed, missed, raced, bounds>>

----------------------------------------------------------------------------
(* Views and clicks *)

Click(r, u, c) ==
  /\ status[c] # "NONE"
  /\ Begin(r, [Idle EXCEPT !.at = "RECORD", !.user = u, !.on = c, !.kind = "click"])
  /\ UNCHANGED <<campaign, rows, redis, history>>

\* A view beyond the threshold; less than that is answered at once.  So is a view
\* of one who has a billed one.
View(r, u, c) ==
  /\ status[c] # "NONE"
  /\ <<u, c>> \notin marked
  /\ Begin(r, [Idle EXCEPT !.at = "FIND", !.user = u, !.on = c])
  /\ Overlaps(r, u, c, "view", {"FIND", "RECORD", "MARK"})
  /\ UNCHANGED <<campaign, rows, redis, billed, missed, raced>>

Find(r) ==
  LET c == req[r].on IN
  /\ req[r].at = "FIND"
  /\ IF Exhausted(c)
       THEN End(r)
       ELSE req' = [req EXCEPT ![r] =
                     [@ EXCEPT !.at = "RECORD", !.read = spent[c], !.limit = total[c]]]
  /\ UNCHANGED <<campaign, rows, redis, history, bounds>>

\* The row of an impression, a view or a click.
AddRow(q) == rows' = [rows EXCEPT ![q.on][q.user][q.kind] = @ + 1]

Record(r) ==
  /\ req[r].at = "RECORD"
  /\ AddRow(req[r])
  /\ Go(r, IF req[r].kind = "view" THEN "MARK" ELSE "COUNT")
  /\ UNCHANGED <<campaign, redis, history, bounds>>

\* Mutant: without the mark.
MarkNobody(r) ==
  /\ req[r].at = "MARK"
  /\ Go(r, "CHARGE")
  /\ UNCHANGED <<campaign, rows, redis, history, bounds>>

Mark(r) ==
  /\ req[r].at = "MARK"
  /\ marked' = marked \cup {<<req[r].user, req[r].on>>}
  /\ Go(r, "CHARGE")
  /\ UNCHANGED <<campaign, rows, cached, list, history, bounds>>

Counted(c, k) == counter' = [counter EXCEPT ![c][k] = @ + 1]

\* Impressions and clicks are free.
Count(r) ==
  /\ req[r].at = "COUNT"
  /\ Counted(req[r].on, req[r].kind)
  /\ End(r)
  /\ UNCHANGED <<status, total, spent, rows, redis, history, bounds>>

\* The view is added to what the request read, and the campaign is exhausted if
\* that reaches the budget it read.  Mutant: if it had reached it before.
SpendsLate(q) ==
  /\ spent' = [spent EXCEPT ![q.on] = q.read + Cost[q.on]]
  /\ status' = IF q.limit > 0 /\ q.read >= q.limit
                 THEN [status EXCEPT ![q.on] = "exhausted"]
                 ELSE status
Spends(q) ==
  /\ spent' = [spent EXCEPT ![q.on] = q.read + Cost[q.on]]
  /\ status' = IF q.limit > 0 /\ q.read + Cost[q.on] >= q.limit
                 THEN [status EXCEPT ![q.on] = "exhausted"]
                 ELSE status

Charge(r) ==
  LET q == req[r] IN
  /\ q.at = "CHARGE"
  /\ Spends(q)
  /\ Counted(q.on, "view")
  /\ billed' = [billed EXCEPT ![q.on][q.user] = @ + 1]
  /\ raced' = IF q.read = spent[q.on] /\ q.limit = total[q.on]
                THEN raced ELSE raced \cup {q.on}
  /\ End(r)
  /\ UNCHANGED <<total, rows, redis, missed, overlapped, requests, troubles>>

\* A write fails, and with it the rest of the request; what was written stays.
Fail(r) ==
  /\ troubles < MaxTroubles
  /\ troubles' = troubles + 1
  /\ req[r].at \in {"RECORD", "MARK", "COUNT", "CHARGE"}
  /\ missed' = IF req[r].at = "RECORD" THEN missed ELSE missed \cup {req[r].on}
  /\ End(r)
  /\ UNCHANGED <<campaign, rows, redis, billed, raced, overlapped, requests>>

\* ... or it is made and its answer lost, which ends the request as well.  (After
\* the last write there is nothing left to do: that is Count or Charge.)
LoseAnswer(r) ==
  /\ troubles < MaxTroubles
  /\ troubles' = troubles + 1
  /\ \/ req[r].at = "RECORD" /\ AddRow(req[r]) /\ UNCHANGED marked
     \/ /\ req[r].at = "MARK"
        /\ marked' = marked \cup {<<req[r].user, req[r].on>>}
        /\ UNCHANGED rows
  /\ missed' = missed \cup {req[r].on}
  /\ End(r)
  /\ UNCHANGED <<campaign, cached, list, billed, raced, overlapped, requests>>

----------------------------------------------------------------------------
Next ==
  \/ Expire
  \/ \E c \in Campaigns :
       \/ Create(c)
       \/ \E b \in Budgets : SetBudget(c, b)
       \/ Pause(c)
  \/ \E r \in Requests :
       \/ \E c \in Campaigns : FindPaused(r, c)
       \/ Resume(r)
       \/ \E u \in Users : Feed(r, u)
       \/ Select(r)
       \/ \E u \in Users, c \in Campaigns : Click(r, u, c) \/ View(r, u, c)
       \/ Find(r)
       \/ Record(r)
       \/ Mark(r)
       \/ Count(r)
       \/ Charge(r)
       \/ Fail(r)
       \/ LoseAnswer(r)

Spec == Init /\ [][Next]_vars

----------------------------------------------------------------------------
(* Properties *)

Steps == {"IDLE", "RESUME", "SELECT", "FIND", "RECORD", "MARK", "COUNT", "CHARGE"}

TypeOK ==
  /\ status \in [Campaigns -> {"NONE", "scheduled", "active", "paused", "exhausted"}]
  /\ total \in [Campaigns -> Nat] /\ spent \in [Campaigns -> Nat]
  /\ counter \in [Campaigns -> [Kinds -> Nat]]
  /\ rows \in [Campaigns -> [Users -> [Kinds -> Nat]]]
  /\ marked \subseteq Users \X Campaigns
  /\ cached \in BOOLEAN /\ list \subseteq Campaigns
  /\ req \in [Requests -> [at : Steps, user : Users \cup {Nobody}, on : Campaigns \cup {Nobody},
                           kind : Kinds, offered : SUBSET Campaigns, read : Nat, limit : Nat]]
  /\ billed \in [Campaigns -> [Users -> Nat]]
  /\ overlapped \subseteq Users \X Campaigns \X Kinds

\* Rows of a campaign that its counter does not count yet.
Uncounted(c, k) ==
  {r \in Requests : /\ req[r].on = c /\ req[r].kind = k
                    /\ req[r].at \in {"MARK", "COUNT", "CHARGE"}}

\* The books of a campaign agree: its counters with the rows of ad_impressions,
\* unless a request failed between the two; and what it spent with its views and
\* its status with what it spent, unless two writers raced.
BooksAgree ==
  /\ \A c \in Campaigns \ missed, k \in Kinds :
       SumOver([u \in Users |-> rows[c][u][k]], Users)
         = counter[c][k] + Cardinality(Uncounted(c, k))
  /\ \A c \in Campaigns \ raced :
       /\ spent[c] = Cost[c] * counter[c]["view"]
       /\ status[c] = "active" => spent[c] < total[c]
       /\ status[c] = "exhausted" => spent[c] >= total[c]

\* A campaign pays for a user's view once a day, unless two of the user's views
\* overlapped: also when a request failed halfway and the user tries again.
BilledOnceADay ==
  \A c \in Campaigns, u \in Users : billed[c][u] > 1 => <<u, c, "view">> \in overlapped

\* A user is not shown a campaign more often than the cap says, however old the
\* list it was selected from, unless two of the user's feeds overlapped.
CapIsExceededByRacesOnly ==
  \A c \in Campaigns, u \in Users :
    rows[c][u]["impression"] > Cap => <<u, c, "impression">> \in overlapped
=============================================================================
