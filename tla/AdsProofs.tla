----------------------------- MODULE AdsProofs -----------------------------
(* Theorems about Ads, for any campaigns, users, requests, cap and budgets. *)
EXTENDS Ads, FiniteSetTheorems, TLAPS

Request == [at : Steps, user : Users \cup {Nobody}, on : Campaigns \cup {Nobody},
            kind : Kinds, offered : SUBSET Campaigns, read : Nat, limit : Nat]

-----------------------------------------------------------------------------
(* Types *)

\* What a request carries at each of its steps.
Carries(q) ==
  /\ q.at \notin {"IDLE", "SELECT"} => q.on \in Campaigns
  /\ q.at \notin {"IDLE", "RESUME"} => q.user \in Users
  /\ q.at \in {"FIND", "MARK", "CHARGE"} => q.kind = "view"
  /\ q.at = "SELECT" => q.kind = "impression"
  /\ q.at = "COUNT" => q.kind # "view"

IType == TypeOK /\ \A r \in Requests : Carries(req[r])

\* A request that begins, goes on and ends carries what it should.
LEMMA IdleType == Idle \in Request /\ Carries(Idle)
BY AdsAssumption DEF Idle, Request, Carries, Steps, Kinds, AdsAssumption

LEMMA InitType == Init => IType
<1> SUFFICES ASSUME Init PROVE IType
  OBVIOUS
<1>1. req \in [Requests -> Request] /\ \A r \in Requests : Carries(req[r])
  BY IdleType DEF Init
<1>2. /\ counter \in [Campaigns -> [Kinds -> Nat]]
      /\ rows \in [Campaigns -> [Users -> [Kinds -> Nat]]]
      /\ billed \in [Campaigns -> [Users -> Nat]]
  BY DEF Init
<1> QED
  BY <1>1, <1>2 DEF Init, IType, TypeOK, Request

LEMMA BeginType ==
  ASSUME IType, NEW r \in Requests, NEW q \in Request, Carries(q),
         Begin(r, q)
  PROVE  req' \in [Requests -> Request] /\ \A x \in Requests : Carries(req'[x])
BY DEF Begin, IType, TypeOK, Request

LEMMA EndType ==
  ASSUME IType, NEW r \in Requests, End(r)
  PROVE  req' \in [Requests -> Request] /\ \A x \in Requests : Carries(req'[x])
BY IdleType DEF End, IType, TypeOK, Request

LEMMA GoType ==
  ASSUME IType, NEW r \in Requests, NEW step \in Steps, Go(r, step),
         Carries([req[r] EXCEPT !.at = step])
  PROVE  req' \in [Requests -> Request] /\ \A x \in Requests : Carries(req'[x])
<1>1. [req[r] EXCEPT !.at = step] \in Request
  BY DEF IType, TypeOK, Request
<1> QED
  BY <1>1 DEF Go, IType, TypeOK, Request

\* The requests have their type after every step of one of them.
LEMMA RequestType ==
  ASSUME IType, NEW r \in Requests,
         \/ \E c \in Campaigns : FindPaused(r, c)
         \/ Resume(r)
         \/ \E u \in Users : Feed(r, u)
         \/ Select(r)
         \/ \E u \in Users, c \in Campaigns : Click(r, u, c) \/ View(r, u, c)
         \/ Find(r) \/ Record(r) \/ Mark(r) \/ Count(r) \/ Charge(r) \/ Fail(r) \/ LoseAnswer(r)
  PROVE  req' \in [Requests -> Request] /\ \A x \in Requests : Carries(req'[x])
<1> DEFINE Typed == req' \in [Requests -> Request] /\ \A x \in Requests : Carries(req'[x])
<1>1. ASSUME NEW c \in Campaigns, FindPaused(r, c) PROVE Typed
  <2>1. [Idle EXCEPT !.at = "RESUME", !.on = c] \in Request
    BY IdleType DEF Idle, Request, Steps
  <2>2. Carries([Idle EXCEPT !.at = "RESUME", !.on = c])
    BY DEF Idle, Carries
  <2> QED
    BY <1>1, <2>1, <2>2, BeginType DEF FindPaused
<1>2. ASSUME NEW u \in Users, Feed(r, u) PROVE Typed
  <2> DEFINE q == [Idle EXCEPT !.at = "SELECT", !.user = u, !.kind = "impression",
                               !.offered = ActiveCampaigns]
  <2>1. q \in Request
    BY AdsAssumption DEF Idle, Request, Steps, Kinds, ActiveCampaigns, Serving, IType, TypeOK,
       AdsAssumption
  <2>2. Carries(q)
    BY <2>1 DEF Idle, Carries
  <2>3. Begin(r, IF ActiveCampaigns = {} THEN Idle ELSE q)
    BY <1>2 DEF Feed
  <2> HIDE DEF q
  <2> QED
    BY <2>1, <2>2, <2>3, BeginType, IdleType
<1>3. CASE Select(r)
  <2>1. ASSUME NEW c \in Campaigns, req[r].at = "SELECT",
               req' = [req EXCEPT ![r] = [@ EXCEPT !.at = "RECORD", !.on = c, !.offered = {}]]
        PROVE  Typed
    <3> DEFINE q == [req[r] EXCEPT !.at = "RECORD", !.on = c, !.offered = {}]
    <3>1. q \in Request /\ Carries(q)
      BY <2>1 DEF IType, TypeOK, Request, Carries, Steps
    <3>2. req' = [req EXCEPT ![r] = q]
      BY <2>1
    <3> HIDE DEF q
    <3> QED
      BY <3>1, <3>2 DEF IType, TypeOK, Request
  <2> QED
    BY <1>3, <2>1, EndType, AdsAssumption DEF Select, AdsAssumption
<1>4. ASSUME NEW u \in Users, NEW c \in Campaigns, Click(r, u, c) \/ View(r, u, c) PROVE Typed
  <2>1. /\ [Idle EXCEPT !.at = "RECORD", !.user = u, !.on = c, !.kind = "click"] \in Request
        /\ [Idle EXCEPT !.at = "FIND", !.user = u, !.on = c] \in Request
    BY DEF Idle, Request, Steps, Kinds
  <2>2. /\ Carries([Idle EXCEPT !.at = "RECORD", !.user = u, !.on = c, !.kind = "click"])
        /\ Carries([Idle EXCEPT !.at = "FIND", !.user = u, !.on = c])
    BY DEF Idle, Carries
  <2> QED
    BY <1>4, <2>1, <2>2, BeginType DEF Click, View
<1>5. CASE Find(r)
  <2>1. CASE End(r)
    BY <2>1, EndType
  <2>2. CASE req' = [req EXCEPT ![r] = [@ EXCEPT !.at = "RECORD", !.read = spent[req[r].on],
                                                 !.limit = total[req[r].on]]]
    <3> DEFINE q == [req[r] EXCEPT !.at = "RECORD", !.read = spent[req[r].on],
                                   !.limit = total[req[r].on]]
    <3>1. q \in Request /\ Carries(q)
      BY <1>5 DEF Find, IType, TypeOK, Request, Carries, Steps
    <3>2. req' = [req EXCEPT ![r] = q]
      BY <2>2
    <3> HIDE DEF q
    <3> QED
      BY <3>1, <3>2 DEF IType, TypeOK, Request
  <2> QED
    BY <1>5, <2>1, <2>2 DEF Find
<1>6. CASE Record(r)
  <2>1. /\ Carries([req[r] EXCEPT !.at = IF req[r].kind = "view" THEN "MARK" ELSE "COUNT"])
        /\ (IF req[r].kind = "view" THEN "MARK" ELSE "COUNT") \in Steps
    BY <1>6 DEF Record, IType, TypeOK, Carries, Steps
  <2> QED
    BY <1>6, <2>1, GoType DEF Record
<1>7. CASE Mark(r)
  <2>1. Carries([req[r] EXCEPT !.at = "CHARGE"]) /\ "CHARGE" \in Steps
    BY <1>7 DEF Mark, IType, TypeOK, Carries, Steps
  <2> QED
    BY <1>7, <2>1, GoType DEF Mark
<1>8. CASE Resume(r) \/ Count(r) \/ Charge(r) \/ Fail(r) \/ LoseAnswer(r)
  BY <1>8, EndType DEF Resume, Count, Charge, Fail, LoseAnswer
<1> QED
  BY <1>1, <1>2, <1>3, <1>4, <1>5, <1>6, <1>7, <1>8

LEMMA NextType == IType /\ [Next]_vars => IType'
<1> SUFFICES ASSUME IType, [Next]_vars PROVE IType'
  OBVIOUS
<1> USE DEF IType
<1>1. CASE UNCHANGED vars
  BY <1>1 DEF vars, campaign, redis, history, TypeOK
<1>2. CASE Expire
  BY <1>2 DEF Expire, campaign, history, TypeOK
<1>3. ASSUME NEW c \in Campaigns, Create(c) \/ Pause(c) PROVE IType'
  BY <1>3 DEF Create, Pause, redis, history, TypeOK
<1>4. ASSUME NEW c \in Campaigns, NEW b \in Budgets, SetBudget(c, b) PROVE IType'
  <2>1. b \in Nat
    BY AdsAssumption DEF AdsAssumption
  <2> QED
    BY <1>4, <2>1 DEF SetBudget, redis, TypeOK
<1>5. ASSUME NEW r \in Requests,
             \/ \E c \in Campaigns : FindPaused(r, c)
             \/ Resume(r)
             \/ \E u \in Users : Feed(r, u)
             \/ Select(r)
             \/ \E u \in Users, c \in Campaigns : Click(r, u, c) \/ View(r, u, c)
             \/ Find(r) \/ Record(r) \/ Mark(r) \/ Count(r) \/ Charge(r) \/ Fail(r)
             \/ LoseAnswer(r)
      PROVE  IType'
  <2> DEFINE q == req[r]
  <2>1. req' \in [Requests -> Request] /\ \A x \in Requests : Carries(req'[x])
    BY <1>5, RequestType
  <2>2. q \in Request /\ Carries(q)
    BY DEF TypeOK, Request
  <2>3. ASSUME NEW u \in Users, NEW c \in Campaigns, NEW k \in Kinds, NEW steps,
               Overlaps(r, u, c, k, steps)
        PROVE  overlapped' \subseteq Users \X Campaigns \X Kinds
    BY <2>3 DEF Overlaps, TypeOK
  <2>4. CASE (\E c \in Campaigns : FindPaused(r, c)) \/ Find(r) \/ Fail(r)
               \/ (\E u \in Users, c \in Campaigns : Click(r, u, c))
    BY <2>1, <2>4 DEF FindPaused, Find, Fail, Click, campaign, redis, history, TypeOK, Request
  <2>5. CASE Resume(r)
    BY <2>1, <2>2, <2>5 DEF Resume, redis, TypeOK, Request
  <2>6. ASSUME NEW u \in Users, Feed(r, u) PROVE IType'
    <3>1. ActiveCampaigns \subseteq Campaigns
      BY DEF ActiveCampaigns, Serving, TypeOK
    <3> QED
      BY <2>1, <2>6, <3>1 DEF Feed, campaign, history, TypeOK, Request
  <2>7. CASE Select(r)
    <3>1. overlapped' \subseteq Users \X Campaigns \X Kinds
      BY <2>2, <2>3, <2>7, AdsAssumption DEF Select, Carries, Kinds, TypeOK, AdsAssumption
    <3> QED
      BY <2>1, <2>7, <3>1 DEF Select, campaign, redis, TypeOK, Request
  <2>8. ASSUME NEW u \in Users, NEW c \in Campaigns, View(r, u, c) PROVE IType'
    <3>1. overlapped' \subseteq Users \X Campaigns \X Kinds
      BY <2>3, <2>8 DEF View, Kinds
    <3> QED
      BY <2>1, <2>8, <3>1 DEF View, campaign, redis, TypeOK, Request
  <2>9. CASE Record(r)
    <3>1. rows' \in [Campaigns -> [Users -> [Kinds -> Nat]]]
      BY <2>2, <2>9 DEF Record, AddRow, TypeOK, Carries, Request
    <3> QED
      BY <2>1, <2>9, <3>1 DEF Record, campaign, redis, history, TypeOK, Request
  <2>10. CASE Mark(r)
    BY <2>1, <2>2, <2>10 DEF Mark, campaign, history, TypeOK, Carries, Request
  <2>11. CASE Count(r)
    <3>1. counter' \in [Campaigns -> [Kinds -> Nat]]
      BY <2>2, <2>11 DEF Count, Counted, TypeOK, Carries, Request
    <3> QED
      BY <2>1, <2>11, <3>1 DEF Count, redis, history, TypeOK, Request
  <2>12. CASE Charge(r)
    <3>1. counter' \in [Campaigns -> [Kinds -> Nat]]
      BY <2>2, <2>12 DEF Charge, Counted, TypeOK, Carries, Request, Kinds
    <3>2. /\ spent' \in [Campaigns -> Nat]
          /\ status' \in [Campaigns -> {"NONE", "scheduled", "active", "paused", "exhausted"}]
      <4>1. q.on \in Campaigns /\ q.read + Cost[q.on] \in Nat
        BY <2>2, <2>12, AdsAssumption DEF Charge, Carries, Request, AdsAssumption
      <4> QED
        BY <2>12, <4>1 DEF Charge, Spends, TypeOK
    <3>3. billed' \in [Campaigns -> [Users -> Nat]]
      BY <2>2, <2>12 DEF Charge, TypeOK, Carries, Request
    <3> QED
      BY <2>1, <2>12, <3>1, <3>2, <3>3 DEF Charge, redis, TypeOK, Request
  <2>13. CASE LoseAnswer(r)
    <3>0. q.on \in Campaigns /\ q.user \in Users /\ q.kind \in Kinds
      BY <2>2, <2>13 DEF LoseAnswer, Carries, Request
    <3>1. rows' \in [Campaigns -> [Users -> [Kinds -> Nat]]]
      <4>1. CASE UNCHANGED rows
        BY <4>1 DEF TypeOK
      <4>2. CASE rows' = [rows EXCEPT ![q.on][q.user][q.kind] = @ + 1]
        <5>1. rows[q.on][q.user][q.kind] + 1 \in Nat
          BY <3>0 DEF TypeOK
        <5> QED
          BY <3>0, <4>2, <5>1 DEF TypeOK
      <4> QED
        BY <2>13, <4>1, <4>2 DEF LoseAnswer, AddRow
    <3>2. marked' \subseteq Users \X Campaigns
      BY <2>13, <3>0 DEF LoseAnswer, TypeOK
    <3> QED
      BY <2>1, <2>13, <3>1, <3>2 DEF LoseAnswer, campaign, TypeOK, Request
  <2> QED
    BY <1>5, <2>4, <2>5, <2>6, <2>7, <2>8, <2>9, <2>10, <2>11, <2>12, <2>13
<1> QED
  BY <1>1, <1>2, <1>3, <1>4, <1>5 DEF Next

(* Every request carries what its steps write, and the columns of a campaign keep
   their type, in whatever order the requests take their steps. *)
THEOREM TypeCorrect == Spec => []TypeOK
<1>1. IType => TypeOK
  BY DEF IType
<1> QED
  BY <1>1, InitType, NextType, PTL DEF Spec
-----------------------------------------------------------------------------
(* Views *)

\* The requests that may still charge a view of c by u.
Watches(r, u, c) ==
  /\ req[r].at \in {"FIND", "RECORD", "MARK", "CHARGE"}
  /\ req[r].kind = "view" /\ req[r].user = u /\ req[r].on = c

\* There is one such request at most; it marks the user before it charges, and
\* nobody who is marked begins another.
OneView(u, c) ==
  /\ \A r, x \in Requests : Watches(r, u, c) /\ Watches(x, u, c) => r = x
  /\ \A r \in Requests : Watches(r, u, c) =>
       billed[c][u] = 0 /\ (req[r].at = "CHARGE" <=> <<u, c>> \in marked)
  /\ <<u, c>> \notin marked => billed[c][u] = 0
  /\ billed[c][u] <= 1

IViews ==
  \A u \in Users, c \in Campaigns : <<u, c, "view">> \notin overlapped => OneView(u, c)

\* The steps of a request leave the others alone.
LEMMA OthersWait ==
  ASSUME IType, NEW r \in Requests, NEW x \in Requests \ {r},
         \/ \E c \in Campaigns : FindPaused(r, c)
         \/ Resume(r)
         \/ \E u \in Users : Feed(r, u)
         \/ Select(r)
         \/ \E u \in Users, c \in Campaigns : Click(r, u, c) \/ View(r, u, c)
         \/ Find(r) \/ Record(r) \/ Mark(r) \/ Count(r) \/ Charge(r) \/ Fail(r) \/ LoseAnswer(r)
  PROVE  req'[x] = req[x]
<1> USE DEF IType, TypeOK
<1>1. ASSUME NEW q, Begin(r, q) PROVE req'[x] = req[x]
  BY <1>1 DEF Begin
<1>2. CASE End(r)
  BY <1>2 DEF End
<1>3. CASE Select(r) \/ Find(r)
  BY <1>2, <1>3 DEF Select, Find
<1>4. CASE Record(r) \/ Mark(r)
  BY <1>4 DEF Record, Mark, Go
<1> QED
  BY <1>1, <1>2, <1>3, <1>4 DEF FindPaused, Resume, Feed, Click, View, Count, Charge, Fail,
     LoseAnswer

\* A step that marks and bills nobody, and after which who watches has watched.
LEMMA KeepsViews ==
  ASSUME IViews, overlapped \subseteq overlapped', UNCHANGED <<marked, billed>>,
         \A x \in Requests, u \in Users, c \in Campaigns : Watches(x, u, c)' =>
           Watches(x, u, c) /\ (req'[x].at = "CHARGE" <=> req[x].at = "CHARGE")
  PROVE  IViews'
<1> SUFFICES ASSUME NEW u \in Users, NEW c \in Campaigns, <<u, c, "view">> \notin overlapped'
             PROVE  OneView(u, c)'
  BY DEF IViews
<1>1. OneView(u, c)
  BY DEF IViews
<1>2. ASSUME NEW x \in Requests, Watches(x, u, c)'
      PROVE  Watches(x, u, c) /\ (req'[x].at = "CHARGE" <=> req[x].at = "CHARGE")
  BY <1>2
<1>3. \A r, x \in Requests : Watches(r, u, c)' /\ Watches(x, u, c)' => r = x
  BY <1>1, <1>2 DEF OneView
<1>4. \A r \in Requests : Watches(r, u, c)' =>
        billed'[c][u] = 0 /\ (req'[r].at = "CHARGE" <=> <<u, c>> \in marked')
  BY <1>1, <1>2 DEF OneView
<1> QED
  BY <1>1, <1>3, <1>4 DEF OneView

LEMMA ViewStep ==
  ASSUME IType, IViews, NEW r \in Requests, NEW v \in Users, NEW d \in Campaigns, View(r, v, d)
  PROVE  IViews'
<1>1. /\ req[r] = Idle /\ req'[r] = [Idle EXCEPT !.at = "FIND", !.user = v, !.on = d]
      /\ \A x \in Requests \ {r} : req'[x] = req[x]
      /\ UNCHANGED <<marked, billed>> /\ <<v, d>> \notin marked
  BY DEF View, Begin, IType, TypeOK, redis
<1>2. /\ overlapped \subseteq overlapped'
      /\ <<v, d, "view">> \in overlapped' \/
         \A x \in Requests \ {r} : ~(/\ req[x].at \in {"FIND", "RECORD", "MARK"}
                                     /\ req[x].kind = "view" /\ req[x].user = v /\ req[x].on = d)
  BY DEF View, Overlaps
<1>3. /\ req'[r].at = "FIND" /\ req'[r].kind = "view" /\ req'[r].user = v /\ req'[r].on = d
  BY <1>1 DEF Idle
<1>4. ASSUME NEW u \in Users, NEW c \in Campaigns, <<u, c, "view">> \notin overlapped'
      PROVE  OneView(u, c)'
  <2>0. OneView(u, c)
    BY <1>2, <1>4 DEF IViews
  <2>1. CASE u = v /\ c = d
    <3>1. \A x \in Requests \ {r} : ~Watches(x, u, c)
      BY <1>1, <1>2, <1>4, <2>0, <2>1 DEF Watches, OneView
    <3>2. \A x \in Requests \ {r} : ~Watches(x, u, c)'
      BY <1>1, <3>1 DEF Watches
    <3> QED
      BY <1>1, <1>3, <2>0, <2>1, <3>2 DEF OneView
  <2>2. CASE ~(u = v /\ c = d)
    <3>1. ~Watches(r, u, c)'
      BY <1>3, <2>2 DEF Watches
    <3>2. \A x \in Requests \ {r} : Watches(x, u, c)' <=> Watches(x, u, c)
      BY <1>1 DEF Watches
    <3> QED
      BY <1>1, <2>0, <3>1, <3>2 DEF OneView
  <2> QED
    BY <2>1, <2>2
<1> QED
  BY <1>4 DEF IViews

LEMMA MarkStep ==
  ASSUME IType, IViews, NEW r \in Requests, Mark(r)
  PROVE  IViews'
<1> DEFINE v == req[r].user
           d == req[r].on
<1>1. /\ req[r].at = "MARK" /\ req'[r] = [req[r] EXCEPT !.at = "CHARGE"]
      /\ \A x \in Requests \ {r} : req'[x] = req[x]
      /\ UNCHANGED <<billed, overlapped>> /\ marked' = marked \cup {<<v, d>>}
  BY DEF Mark, Go, IType, TypeOK, campaign, history
<1>2. /\ v \in Users /\ d \in Campaigns /\ req[r].kind = "view"
  BY <1>1 DEF IType, Carries
<1>3. /\ req'[r].at = "CHARGE" /\ req'[r].kind = "view" /\ req'[r].user = v /\ req'[r].on = d
  BY <1>1, <1>2 DEF IType, TypeOK
<1> HIDE DEF v, d
<1>4. ASSUME NEW u \in Users, NEW c \in Campaigns, OneView(u, c) PROVE OneView(u, c)'
  <2>1. \A x \in Requests : Watches(x, u, c)' <=> Watches(x, u, c)
    <3>1. Watches(r, u, c)' <=> Watches(r, u, c)
      BY <1>1, <1>2, <1>3 DEF Watches, v, d
    <3>2. \A x \in Requests \ {r} : Watches(x, u, c)' <=> Watches(x, u, c)
      BY <1>1 DEF Watches
    <3> QED
      BY <3>1, <3>2
  <2>2. CASE u = v /\ c = d
    <3>1. Watches(r, u, c)
      BY <1>1, <1>2, <2>2 DEF Watches, v, d
    <3> QED
      BY <1>1, <1>3, <1>4, <2>1, <2>2, <3>1 DEF OneView
  <2>3. CASE ~(u = v /\ c = d)
    <3>1. <<u, c>> \in marked' <=> <<u, c>> \in marked
      BY <1>1, <2>3
    <3>2. ~Watches(r, u, c)
      BY <2>3 DEF Watches, v, d
    <3> QED
      BY <1>1, <1>4, <2>1, <3>1, <3>2 DEF OneView
  <2> QED
    BY <2>2, <2>3
<1> QED
  BY <1>1, <1>4 DEF IViews

\* The mark is set and its answer lost: nobody watches any more, and nobody will.
LEMMA LoseStep ==
  ASSUME IType, IViews, NEW r \in Requests, LoseAnswer(r)
  PROVE  IViews'
<1> DEFINE v == req[r].user
           d == req[r].on
<1>1. /\ req[r].at \in {"RECORD", "MARK"} /\ req'[r] = Idle
      /\ \A x \in Requests \ {r} : req'[x] = req[x]
      /\ UNCHANGED <<billed, overlapped>>
      /\ marked' = marked \/ (req[r].at = "MARK" /\ marked' = marked \cup {<<v, d>>})
  BY DEF LoseAnswer, End, IType, TypeOK
<1>2. req[r].at = "MARK" => v \in Users /\ d \in Campaigns /\ req[r].kind = "view"
  BY <1>1 DEF IType, Carries
<1>3. req'[r].at = "IDLE"
  BY <1>1 DEF Idle
<1> HIDE DEF v, d
<1>4. ASSUME NEW u \in Users, NEW c \in Campaigns, OneView(u, c) PROVE OneView(u, c)'
  <2>1. \A x \in Requests : Watches(x, u, c)' => Watches(x, u, c) /\ x # r /\ req'[x] = req[x]
    BY <1>1, <1>3 DEF Watches
  <2>2. CASE <<u, c>> \in marked' <=> <<u, c>> \in marked
    BY <1>1, <1>4, <2>1, <2>2 DEF OneView
  <2>3. CASE <<u, c>> \in marked' /\ <<u, c>> \notin marked
    <3>1. Watches(r, u, c)
      BY <1>1, <1>2, <2>3 DEF Watches, v, d
    <3>2. \A x \in Requests : ~Watches(x, u, c)'
      BY <1>4, <2>1, <3>1 DEF OneView
    <3> QED
      BY <1>1, <1>4, <2>3, <3>2 DEF OneView
  <2> QED
    BY <1>1, <2>2, <2>3
<1> QED
  BY <1>1, <1>4 DEF IViews

LEMMA ChargeStep ==
  ASSUME IType, IViews, NEW r \in Requests, Charge(r)
  PROVE  IViews'
<1> DEFINE v == req[r].user
           d == req[r].on
<1>1. /\ req[r].at = "CHARGE" /\ req'[r] = Idle
      /\ \A x \in Requests \ {r} : req'[x] = req[x]
      /\ UNCHANGED <<marked, overlapped>>
      /\ billed' = [billed EXCEPT ![d][v] = billed[d][v] + 1]
  BY DEF Charge, End, IType, TypeOK, redis
<1>2. /\ v \in Users /\ d \in Campaigns /\ req[r].kind = "view"
  BY <1>1 DEF IType, Carries
<1>3. req'[r].at = "IDLE"
  BY <1>1 DEF Idle
<1>4. billed \in [Campaigns -> [Users -> Nat]]
  BY DEF IType, TypeOK
<1> HIDE DEF v, d
<1>5. ASSUME NEW u \in Users, NEW c \in Campaigns, OneView(u, c) PROVE OneView(u, c)'
  <2>1. \A x \in Requests : Watches(x, u, c)' => Watches(x, u, c) /\ x # r /\ req'[x] = req[x]
    BY <1>1, <1>3 DEF Watches
  <2>2. CASE u = v /\ c = d
    <3>1. Watches(r, u, c)
      BY <1>1, <1>2, <2>2 DEF Watches, v, d
    <3>2. billed[c][u] = 0 /\ <<u, c>> \in marked /\ \A x \in Requests : ~Watches(x, u, c)'
      BY <1>1, <1>5, <2>1, <3>1 DEF OneView
    <3>3. billed'[c][u] = 1
      BY <1>1, <1>2, <1>4, <2>2, <3>2
    <3> QED
      BY <1>1, <3>2, <3>3 DEF OneView
  <2>3. CASE ~(u = v /\ c = d)
    <3>1. billed'[c][u] = billed[c][u]
      BY <1>1, <1>2, <1>4, <2>3
    <3> QED
      BY <1>1, <1>5, <2>1, <3>1 DEF OneView
  <2> QED
    BY <2>2, <2>3
<1> QED
  BY <1>1, <1>5 DEF IViews

LEMMA NextViews == IType /\ IViews /\ [Next]_vars => IViews'
<1> SUFFICES ASSUME IType, IViews, [Next]_vars PROVE IViews'
  OBVIOUS
<1>1. ASSUME UNCHANGED <<req, marked, billed, overlapped>> PROVE IViews'
  <2>1. \A x \in Requests, u \in Users, c \in Campaigns : Watches(x, u, c)' => Watches(x, u, c)
    BY <1>1 DEF Watches
  <2> QED
    BY <1>1, <2>1, KeepsViews
<1>2. CASE UNCHANGED vars
  BY <1>1, <1>2 DEF vars, redis, history
<1>3. CASE Expire
  BY <1>1, <1>3 DEF Expire, history
<1>4. ASSUME NEW c \in Campaigns, Create(c) \/ Pause(c) \/ \E b \in Budgets : SetBudget(c, b)
      PROVE  IViews'
  BY <1>1, <1>4 DEF Create, Pause, SetBudget, redis, history
<1>5. ASSUME NEW r \in Requests,
             \/ \E c \in Campaigns : FindPaused(r, c)
             \/ Resume(r)
             \/ \E u \in Users : Feed(r, u)
             \/ Select(r)
             \/ \E u \in Users, c \in Campaigns : Click(r, u, c)
             \/ Find(r) \/ Record(r) \/ Count(r) \/ Fail(r)
      PROVE  IViews'
  <2>1. \A x \in Requests \ {r} : req'[x] = req[x]
    BY <1>5, OthersWait
  <2>2. overlapped \subseteq overlapped' /\ UNCHANGED <<marked, billed>>
    BY <1>5 DEF FindPaused, Resume, Feed, Select, Click, Find, Record, Count, Fail, Overlaps,
       redis, history
  <2>3. ASSUME NEW u \in Users, NEW c \in Campaigns, Watches(r, u, c)'
        PROVE  Watches(r, u, c) /\ req'[r].at # "CHARGE" /\ req[r].at # "CHARGE"
    <3>1. ASSUME NEW d \in Campaigns, FindPaused(r, d) PROVE FALSE
      BY <2>3, <3>1 DEF FindPaused, Begin, Watches, Idle, IType, TypeOK
    <3>2. CASE End(r)
      BY <2>3, <3>2 DEF End, Watches, Idle, IType, TypeOK
    <3>3. ASSUME NEW v \in Users, Feed(r, v) PROVE FALSE
      BY <2>3, <3>3 DEF Feed, Begin, Watches, Idle, IType, TypeOK
    <3>4. ASSUME NEW d \in Campaigns, req[r].at = "SELECT",
                 req' = [req EXCEPT ![r] = [@ EXCEPT !.at = "RECORD", !.on = d, !.offered = {}]]
          PROVE  FALSE
      BY <2>3, <3>4 DEF Watches, IType, TypeOK, Carries
    <3>5. ASSUME NEW v \in Users, NEW d \in Campaigns, Click(r, v, d) PROVE FALSE
      BY <2>3, <3>5 DEF Click, Begin, Watches, Idle, IType, TypeOK
    <3>6. CASE Find(r) /\ ~End(r)
      <4>1. /\ req[r].at = "FIND" /\ req[r].kind = "view"
            /\ req'[r] = [req[r] EXCEPT !.at = "RECORD", !.read = spent[req[r].on],
                                        !.limit = total[req[r].on]]
        BY <3>6 DEF Find, IType, TypeOK, Carries
      <4>2. /\ req'[r].at = "RECORD" /\ req'[r].kind = "view"
            /\ req'[r].user = req[r].user /\ req'[r].on = req[r].on
        BY <4>1 DEF IType, TypeOK
      <4> QED
        BY <2>3, <4>1, <4>2 DEF Watches
    <3>7. CASE Record(r)
      BY <2>3, <3>7 DEF Record, Go, Watches, IType, TypeOK, Carries
    <3> QED
      BY <1>5, <3>1, <3>2, <3>3, <3>4, <3>5, <3>6, <3>7, AdsAssumption
         DEF Resume, Select, Count, Fail, AdsAssumption
  <2> QED
    BY <2>1, <2>2, <2>3, KeepsViews DEF Watches
<1> QED
  BY <1>2, <1>3, <1>4, <1>5, ViewStep, MarkStep, ChargeStep, LoseStep DEF Next

(* A view is charged once (record_view), by the mark it leaves in Redis before
   it charges: whatever fails and is tried again, twice only if the user's second
   view had begun before the first one's mark. *)
THEOREM ViewsAreBilledOnce == Spec => []BilledOnceADay
<1>1. Init => IViews
  BY DEF Init, IViews, OneView, Watches, Idle
<1>2. IType /\ IViews => BilledOnceADay
  <2> SUFFICES ASSUME IType, IViews, NEW c \in Campaigns, NEW u \in Users,
                      <<u, c, "view">> \notin overlapped
               PROVE  ~(billed[c][u] > 1)
    BY DEF BilledOnceADay
  <2>1. billed[c][u] \in Nat
    BY DEF IType, TypeOK
  <2>2. billed[c][u] <= 1
    BY DEF IViews, OneView
  <2> QED
    BY <2>1, <2>2
<1> QED
  BY <1>1, <1>2, InitType, NextType, NextViews, PTL DEF Spec

-----------------------------------------------------------------------------
(* Impressions *)

\* The requests that are about to write an impression of c for u.
Shows(r, u, c) ==
  /\ req[r].at = "RECORD"
  /\ req[r].kind = "impression" /\ req[r].user = u /\ req[r].on = c

\* There is one such request at most, and the cap was not reached when it read the rows.
OneShow(u, c) ==
  /\ \A r, x \in Requests : Shows(r, u, c) /\ Shows(x, u, c) => r = x
  /\ \A r \in Requests : Shows(r, u, c) => rows[c][u]["impression"] < Cap
  /\ rows[c][u]["impression"] <= Cap

IShows ==
  \A u \in Users, c \in Campaigns : <<u, c, "impression">> \notin overlapped => OneShow(u, c)

\* A step that writes no row, and after which who shows has been about to.
LEMMA KeepsShows ==
  ASSUME IShows, overlapped \subseteq overlapped', UNCHANGED rows,
         \A x \in Requests, u \in Users, c \in Campaigns : Shows(x, u, c)' => Shows(x, u, c)
  PROVE  IShows'
<1> SUFFICES ASSUME NEW u \in Users, NEW c \in Campaigns, <<u, c, "impression">> \notin overlapped'
             PROVE  OneShow(u, c)'
  BY DEF IShows
<1>1. OneShow(u, c)
  BY DEF IShows
<1>2. \A x \in Requests : Shows(x, u, c)' => Shows(x, u, c)
  OBVIOUS
<1> QED
  BY <1>1, <1>2 DEF OneShow

\* select_best_ad chose d for v, having read that the cap is not reached.
LEMMA SelectStep ==
  ASSUME IType, IShows, NEW r \in Requests, NEW d \in Campaigns, req[r].at = "SELECT",
         UnderCap(d, req[r].user),
         req' = [req EXCEPT ![r] = [@ EXCEPT !.at = "RECORD", !.on = d, !.offered = {}]],
         Overlaps(r, req[r].user, d, "impression", {"RECORD"}),
         UNCHANGED rows
  PROVE  IShows'
<1> DEFINE v == req[r].user
<1>1. /\ req'[r] = [req[r] EXCEPT !.at = "RECORD", !.on = d, !.offered = {}]
      /\ \A x \in Requests \ {r} : req'[x] = req[x]
      /\ v \in Users /\ req[r].kind = "impression"
  BY DEF IType, TypeOK, Carries
<1>2. /\ overlapped \subseteq overlapped'
      /\ <<v, d, "impression">> \in overlapped' \/ \A x \in Requests \ {r} : ~Shows(x, v, d)
  BY DEF Overlaps, Shows
<1>3. req'[r].at = "RECORD" /\ req'[r].kind = "impression" /\ req'[r].user = v /\ req'[r].on = d
  BY <1>1 DEF IType, TypeOK
<1>4. rows[d][v]["impression"] < Cap
  BY DEF UnderCap
<1> HIDE DEF v
<1>5. ASSUME NEW u \in Users, NEW c \in Campaigns, <<u, c, "impression">> \notin overlapped'
      PROVE  OneShow(u, c)'
  <2>0. OneShow(u, c)
    BY <1>2, <1>5 DEF IShows
  <2>1. \A x \in Requests \ {r} : Shows(x, u, c)' <=> Shows(x, u, c)
    BY <1>1 DEF Shows
  <2>2. CASE u = v /\ c = d
    <3>1. \A x \in Requests \ {r} : ~Shows(x, u, c)'
      BY <1>2, <1>5, <2>1, <2>2
    <3> QED
      BY <1>4, <2>0, <2>2, <3>1 DEF OneShow
  <2>3. CASE ~(u = v /\ c = d)
    <3>1. ~Shows(r, u, c)'
      BY <1>3, <2>3 DEF Shows
    <3> QED
      BY <2>0, <2>1, <3>1 DEF OneShow
  <2> QED
    BY <2>2, <2>3
<1> QED
  BY <1>5 DEF IShows

\* What a row changes: one number of one user.
LEMMA RecordRows ==
  ASSUME IType, NEW r \in Requests, req[r].at = "RECORD", AddRow(req[r])
  PROVE  /\ req[r].on \in Campaigns /\ req[r].user \in Users /\ req[r].kind \in Kinds
         /\ \A c \in Campaigns, u \in Users, k \in Kinds :
              rows'[c][u][k] = IF c = req[r].on /\ u = req[r].user /\ k = req[r].kind
                               THEN rows[c][u][k] + 1 ELSE rows[c][u][k]
<1>1. req[r].on \in Campaigns /\ req[r].user \in Users /\ req[r].kind \in Kinds
  BY DEF IType, TypeOK, Carries
<1> QED
  BY <1>1 DEF AddRow, IType, TypeOK

\* The request that was about to write the row is past that, or ends.
LEMMA RecordShows ==
  ASSUME IType, IShows, NEW r \in Requests, req[r].at = "RECORD", AddRow(req[r]),
         Record(r) \/ LoseAnswer(r)
  PROVE  IShows'
<1>1. /\ req[r].at = "RECORD" /\ req'[r].at \in {"MARK", "COUNT", "IDLE"}
      /\ \A x \in Requests \ {r} : req'[x] = req[x]
      /\ UNCHANGED overlapped
  BY DEF Record, LoseAnswer, Go, End, Idle, IType, TypeOK, history
<1>2. ASSUME NEW u \in Users, NEW c \in Campaigns, OneShow(u, c) PROVE OneShow(u, c)'
  <2>1. \A x \in Requests : Shows(x, u, c)' => Shows(x, u, c) /\ x # r
    BY <1>1 DEF Shows
  <2>2. rows[c][u]["impression"] \in Nat /\ Cap \in Nat
    BY AdsAssumption DEF IType, TypeOK, Kinds, AdsAssumption
  <2>3. CASE Shows(r, u, c)
    <3>1. rows[c][u]["impression"] < Cap /\ \A x \in Requests : ~Shows(x, u, c)'
      BY <1>2, <2>1, <2>3 DEF OneShow
    <3>2. rows'[c][u]["impression"] = rows[c][u]["impression"] + 1
      BY <2>3, RecordRows DEF Shows, Kinds
    <3> QED
      BY <2>2, <3>1, <3>2 DEF OneShow
  <2>4. CASE ~Shows(r, u, c)
    <3>1. rows'[c][u]["impression"] = rows[c][u]["impression"]
      BY <1>1, <2>4, RecordRows DEF Shows, Kinds
    <3> QED
      BY <1>2, <2>1, <3>1 DEF OneShow
  <2> QED
    BY <2>3, <2>4
<1> QED
  BY <1>1, <1>2 DEF IShows

LEMMA NextShows == IType /\ IShows /\ [Next]_vars => IShows'
<1> SUFFICES ASSUME IType, IShows, [Next]_vars PROVE IShows'
  OBVIOUS
<1>1. ASSUME UNCHANGED <<req, rows, overlapped>> PROVE IShows'
  <2>1. \A x \in Requests, u \in Users, c \in Campaigns : Shows(x, u, c)' => Shows(x, u, c)
    BY <1>1 DEF Shows
  <2> QED
    BY <1>1, <2>1, KeepsShows
<1>2. CASE UNCHANGED vars
  BY <1>1, <1>2 DEF vars, history
<1>3. CASE Expire
  BY <1>1, <1>3 DEF Expire, history
<1>4. ASSUME NEW c \in Campaigns, Create(c) \/ Pause(c) \/ \E b \in Budgets : SetBudget(c, b)
      PROVE  IShows'
  BY <1>1, <1>4 DEF Create, Pause, SetBudget, history
<1>5. ASSUME NEW r \in Requests,
             \/ \E c \in Campaigns : FindPaused(r, c)
             \/ Resume(r)
             \/ \E u \in Users : Feed(r, u)
             \/ Select(r) /\ End(r)
             \/ \E u \in Users, c \in Campaigns : Click(r, u, c) \/ View(r, u, c)
             \/ Find(r) \/ Mark(r) \/ Count(r) \/ Charge(r) \/ Fail(r)
      PROVE  IShows'
  <2>1. \A x \in Requests \ {r} : req'[x] = req[x]
    BY <1>5, OthersWait
  <2>2. overlapped \subseteq overlapped' /\ UNCHANGED rows
    BY <1>5 DEF FindPaused, Resume, Feed, Select, Click, View, Find, Mark, Count, Charge, Fail,
       Overlaps, history
  <2>3. ASSUME NEW u \in Users, NEW c \in Campaigns PROVE ~Shows(r, u, c)'
    <3>1. CASE End(r)
      BY <3>1 DEF End, Shows, Idle, IType, TypeOK
    <3>2. ASSUME NEW d \in Campaigns, FindPaused(r, d) PROVE ~Shows(r, u, c)'
      BY <3>2 DEF FindPaused, Begin, Shows, Idle, IType, TypeOK
    <3>3. ASSUME NEW v \in Users, Feed(r, v) PROVE ~Shows(r, u, c)'
      BY <3>3 DEF Feed, Begin, Shows, Idle, IType, TypeOK
    <3>4. ASSUME NEW v \in Users, NEW d \in Campaigns, Click(r, v, d) \/ View(r, v, d)
          PROVE  ~Shows(r, u, c)'
      BY <3>4 DEF Click, View, Begin, Shows, Idle, IType, TypeOK
    <3>5. CASE Find(r) /\ ~End(r)
      <4>1. /\ req[r].at = "FIND" /\ req[r].kind = "view"
            /\ req'[r] = [req[r] EXCEPT !.at = "RECORD", !.read = spent[req[r].on],
                                        !.limit = total[req[r].on]]
        BY <3>5 DEF Find, IType, TypeOK, Carries
      <4>2. req'[r].kind = "view"
        BY <4>1 DEF IType, TypeOK
      <4> QED
        BY <4>2 DEF Shows
    <3>6. CASE Mark(r)
      BY <3>6 DEF Mark, Go, Shows, IType, TypeOK
    <3> QED
      BY <1>5, <3>1, <3>2, <3>3, <3>4, <3>5, <3>6 DEF Resume, Count, Charge, Fail
  <2> QED
    BY <2>1, <2>2, <2>3, KeepsShows DEF Shows
<1>6. ASSUME NEW r \in Requests, Select(r), ~End(r) PROVE IShows'
  BY <1>6, SelectStep, AdsAssumption DEF Select, AdsAssumption
<1>7. ASSUME NEW r \in Requests, Record(r) PROVE IShows'
  BY <1>7, RecordShows DEF Record
<1>8. ASSUME NEW r \in Requests, LoseAnswer(r) PROVE IShows'
  <2>1. CASE req[r].at = "RECORD"
    BY <1>8, <2>1, RecordShows DEF LoseAnswer
  <2>2. CASE req[r].at # "RECORD"
    <3>1. /\ \A x \in Requests \ {r} : req'[x] = req[x]
          /\ req'[r].at = "IDLE" /\ UNCHANGED <<rows, overlapped>>
      BY <1>8, <2>2 DEF LoseAnswer, End, Idle, IType, TypeOK
    <3> QED
      BY <3>1, KeepsShows DEF Shows
  <2> QED
    BY <2>1, <2>2
<1> QED
  BY <1>2, <1>3, <1>4, <1>5, <1>6, <1>7, <1>8 DEF Next

(* A user is not shown an ad more often than the cap (check_frequency_cap), which
   counts rows, however old the list of campaigns: more often only if the user's
   second feed had selected before the first one's row was written. *)
THEOREM CapIsKept == Spec => []CapIsExceededByRacesOnly
<1>1. Init => IShows
  BY AdsAssumption DEF Init, IShows, OneShow, Shows, Idle, Kinds, AdsAssumption
<1>2. IType /\ IShows => CapIsExceededByRacesOnly
  <2> SUFFICES ASSUME IType, IShows, NEW c \in Campaigns, NEW u \in Users,
                      <<u, c, "impression">> \notin overlapped
               PROVE  ~(rows[c][u]["impression"] > Cap)
    BY DEF CapIsExceededByRacesOnly
  <2>1. rows[c][u]["impression"] \in Nat /\ Cap \in Nat
    BY AdsAssumption DEF IType, TypeOK, Kinds, AdsAssumption
  <2>2. rows[c][u]["impression"] <= Cap
    BY DEF IShows, OneShow
  <2> QED
    BY <2>1, <2>2
<1> QED
  BY <1>1, <1>2, InitType, NextType, NextShows, PTL DEF Spec

-----------------------------------------------------------------------------
(* Counters *)

RowsOf(c, k) == [u \in Users |-> rows[c][u][k]]

\* Every row is counted, or its request has still to count it, unless a request failed.
Counts(c, k) ==
  SumOver(RowsOf(c, k), Users) = counter[c][k] + Cardinality(Uncounted(c, k))

ICounts ==
  \A c \in Campaigns, k \in Kinds :
    /\ IsFiniteSet(Units(RowsOf(c, k), Users)) /\ IsFiniteSet(Uncounted(c, k))
    /\ c \notin missed => Counts(c, k)

\* Numbers of rows are no debts.
LEMMA NoDebts ==
  ASSUME NEW f, \A u \in Users : f[u] \in Nat
  PROVE  Cardinality(Debts(f, Users)) = 0
<1>1. \A u \in Users : 1..-f[u] = {}
  OBVIOUS
<1>2. Debts(f, Users) = {}
  BY <1>1 DEF Debts
<1> QED
  BY <1>2, FS_EmptySet

LEMMA InitCounts == Init => ICounts
<1> SUFFICES ASSUME Init, NEW c \in Campaigns, NEW k \in Kinds
             PROVE  /\ IsFiniteSet(Units(RowsOf(c, k), Users)) /\ IsFiniteSet(Uncounted(c, k))
                    /\ Counts(c, k)
  BY DEF ICounts
<1>1. Uncounted(c, k) = {}
  BY DEF Init, Idle, Uncounted
<1>2. Units(RowsOf(c, k), Users) = {}
  BY DEF Init, RowsOf, Units
<1>3. counter[c][k] = 0
  BY DEF Init
<1>4. Cardinality(Debts(RowsOf(c, k), Users)) = 0
  BY NoDebts DEF Init, RowsOf
<1> QED
  BY <1>1, <1>2, <1>3, <1>4, FS_EmptySet DEF Counts, SumOver

\* One more row is one more unit.
LEMMA OneMoreRow ==
  ASSUME IType, ICounts, NEW r \in Requests, req[r].at = "RECORD", AddRow(req[r]),
         NEW c \in Campaigns, NEW k \in Kinds
  PROVE  /\ c = req[r].on /\ k = req[r].kind =>
              /\ IsFiniteSet(Units(RowsOf(c, k), Users)')
              /\ SumOver(RowsOf(c, k), Users)' = SumOver(RowsOf(c, k), Users) + 1
         /\ ~(c = req[r].on /\ k = req[r].kind) => RowsOf(c, k)' = RowsOf(c, k)
<1> DEFINE v == req[r].user
           n == rows[c][v][k]
<1>0. Cardinality(Debts(RowsOf(c, k), Users)) = 0 /\ Cardinality(Debts(RowsOf(c, k), Users)') = 0
  <2>1. \A u \in Users : rows[c][u][k] \in Nat
    BY DEF IType, TypeOK
  <2>2. \A u \in Users : RowsOf(c, k)[u] \in Nat /\ RowsOf(c, k)'[u] \in Nat
    BY <2>1, RecordRows DEF RowsOf
  <2>3. Cardinality(Debts(RowsOf(c, k), Users)) = 0
    BY <2>2, NoDebts
  <2>4. Cardinality(Debts(RowsOf(c, k)', Users)) = 0
    BY <2>2, NoDebts
  <2> QED
    BY <2>3, <2>4
<1>1. ASSUME c = req[r].on, k = req[r].kind
      PROVE  /\ IsFiniteSet(Units(RowsOf(c, k), Users)')
             /\ SumOver(RowsOf(c, k), Users)' = SumOver(RowsOf(c, k), Users) + 1
  <2>1. /\ v \in Users /\ n \in Nat
        /\ rows'[c][v][k] = n + 1
        /\ \A u \in Users \ {v} : rows'[c][u][k] = rows[c][u][k]
    BY <1>1, RecordRows DEF IType, TypeOK
  <2> HIDE DEF v, n
  <2>2. 1..(n + 1) = (1..n) \cup {n + 1} /\ n + 1 \notin 1..n
    BY <2>1
  <2>3. Units(RowsOf(c, k), Users)' = Units(RowsOf(c, k), Users) \cup {<<v, n + 1>>}
    <3>1. \A u \in Users : {u} \X (1..rows'[c][u][k])
            = ({u} \X (1..rows[c][u][k])) \cup (IF u = v THEN {<<v, n + 1>>} ELSE {})
      BY <2>1, <2>2 DEF n
    <3>2. /\ Units(RowsOf(c, k), Users)' = UNION {{u} \X (1..rows'[c][u][k]) : u \in Users}
          /\ Units(RowsOf(c, k), Users) = UNION {{u} \X (1..rows[c][u][k]) : u \in Users}
      BY DEF Units, RowsOf
    <3> QED
      BY <2>1, <3>1, <3>2
  <2>4. <<v, n + 1>> \notin Units(RowsOf(c, k), Users)
    BY <2>1, <2>2 DEF Units, RowsOf, n
  <2>5. IsFiniteSet(Units(RowsOf(c, k), Users))
    BY DEF ICounts
  <2>6. Cardinality(Units(RowsOf(c, k), Users)) \in Nat
    BY <2>5, FS_CardinalityType
  <2>7. /\ IsFiniteSet(Units(RowsOf(c, k), Users)')
        /\ Cardinality(Units(RowsOf(c, k), Users)') = Cardinality(Units(RowsOf(c, k), Users)) + 1
    BY <2>3, <2>4, <2>5, FS_AddElement
  <2> QED
    BY <1>0, <2>6, <2>7 DEF SumOver
<1>2. ASSUME ~(c = req[r].on /\ k = req[r].kind) PROVE RowsOf(c, k)' = RowsOf(c, k)
  BY <1>2, RecordRows DEF RowsOf
<1> QED
  BY <1>1, <1>2

\* A step that writes neither rows nor counters, and counts nothing.
LEMMA KeepsCounts ==
  ASSUME ICounts, UNCHANGED <<rows, counter>>, missed \subseteq missed',
         \A c \in Campaigns, k \in Kinds :
           \/ Uncounted(c, k)' = Uncounted(c, k)
           \/ c \in missed' /\ Uncounted(c, k)' \subseteq Uncounted(c, k)
  PROVE  ICounts'
<1> SUFFICES ASSUME NEW c \in Campaigns, NEW k \in Kinds
             PROVE  /\ IsFiniteSet(Units(RowsOf(c, k), Users)') /\ IsFiniteSet(Uncounted(c, k)')
                    /\ c \notin missed' => Counts(c, k)'
  BY DEF ICounts
<1>1. RowsOf(c, k)' = RowsOf(c, k) /\ counter'[c][k] = counter[c][k]
  BY DEF RowsOf
<1>2. IsFiniteSet(Units(RowsOf(c, k), Users)) /\ IsFiniteSet(Uncounted(c, k))
  BY DEF ICounts
<1>3. IsFiniteSet(Uncounted(c, k)')
  BY <1>2, FS_Subset
<1>4. ASSUME c \notin missed' PROVE Counts(c, k)'
  BY <1>1, <1>4 DEF ICounts, Counts, SumOver
<1> QED
  BY <1>1, <1>2, <1>3, <1>4

LEMMA RecordCounts ==
  ASSUME IType, ICounts, NEW r \in Requests, Record(r)
  PROVE  ICounts'
<1>1. /\ req[r].at = "RECORD" /\ req'[r].at \in {"MARK", "COUNT"}
      /\ req'[r].on = req[r].on /\ req'[r].kind = req[r].kind
      /\ \A x \in Requests \ {r} : req'[x] = req[x]
      /\ UNCHANGED <<counter, missed>>
  BY DEF Record, Go, IType, TypeOK, campaign, history
<1> SUFFICES ASSUME NEW c \in Campaigns, NEW k \in Kinds
             PROVE  /\ IsFiniteSet(Units(RowsOf(c, k), Users)') /\ IsFiniteSet(Uncounted(c, k)')
                    /\ c \notin missed' => Counts(c, k)'
  BY DEF ICounts
<1>2. IsFiniteSet(Units(RowsOf(c, k), Users)) /\ IsFiniteSet(Uncounted(c, k))
  BY DEF ICounts
<1>3. CASE c = req[r].on /\ k = req[r].kind
  <2>1. Uncounted(c, k)' = Uncounted(c, k) \cup {r} /\ r \notin Uncounted(c, k)
    BY <1>1, <1>3 DEF Uncounted
  <2>2. /\ IsFiniteSet(Uncounted(c, k)')
        /\ Cardinality(Uncounted(c, k)') = Cardinality(Uncounted(c, k)) + 1
    BY <1>2, <2>1, FS_AddElement
  <2>3. Cardinality(Uncounted(c, k)) \in Nat /\ counter[c][k] \in Nat
    BY <1>2, FS_CardinalityType DEF IType, TypeOK
  <2> QED
    BY <1>1, <1>3, <2>2, <2>3, OneMoreRow DEF ICounts, Counts, Record
<1>4. CASE ~(c = req[r].on /\ k = req[r].kind)
  <2>1. Uncounted(c, k)' = Uncounted(c, k)
    BY <1>1, <1>4 DEF Uncounted
  <2>2. RowsOf(c, k)' = RowsOf(c, k)
    BY <1>4, OneMoreRow DEF Record
  <2> QED
    BY <1>1, <1>2, <2>1, <2>2 DEF ICounts, Counts, SumOver
<1> QED
  BY <1>3, <1>4

\* A row whose answer was lost is never counted, and neither is a view that was
\* only marked.
LEMMA LoseCounts ==
  ASSUME IType, ICounts, NEW r \in Requests, LoseAnswer(r)
  PROVE  ICounts'
<1>1. /\ req[r].at \in {"RECORD", "MARK"} /\ req'[r].at = "IDLE"
      /\ \A x \in Requests \ {r} : req'[x] = req[x]
      /\ UNCHANGED counter /\ missed' = missed \cup {req[r].on}
  BY DEF LoseAnswer, End, Idle, IType, TypeOK, campaign
<1>2. \A c \in Campaigns, k \in Kinds :
        \/ Uncounted(c, k)' = Uncounted(c, k)
        \/ c \in missed' /\ Uncounted(c, k)' \subseteq Uncounted(c, k)
  BY <1>1 DEF Uncounted
<1>3. CASE req[r].at = "MARK"
  <2>1. UNCHANGED rows
    BY <1>3 DEF LoseAnswer
  <2> QED
    BY <1>1, <1>2, <2>1, KeepsCounts
<1>4. CASE req[r].at = "RECORD"
  <2>0. AddRow(req[r])
    BY <1>4 DEF LoseAnswer
  <2> SUFFICES ASSUME NEW c \in Campaigns, NEW k \in Kinds
               PROVE  /\ IsFiniteSet(Units(RowsOf(c, k), Users)') /\ IsFiniteSet(Uncounted(c, k)')
                      /\ c \notin missed' => Counts(c, k)'
    BY DEF ICounts
  <2>1. IsFiniteSet(Units(RowsOf(c, k), Users)) /\ IsFiniteSet(Uncounted(c, k))
    BY DEF ICounts
  <2>2. IsFiniteSet(Uncounted(c, k)')
    BY <1>2, <2>1, FS_Subset
  <2>3. CASE c = req[r].on /\ k = req[r].kind
    BY <1>1, <1>4, <2>0, <2>2, <2>3, OneMoreRow
  <2>4. CASE ~(c = req[r].on /\ k = req[r].kind)
    <3>1. RowsOf(c, k)' = RowsOf(c, k)
      BY <1>4, <2>0, <2>4, OneMoreRow
    <3>2. Uncounted(c, k)' = Uncounted(c, k)
      BY <1>1, <1>4 DEF Uncounted
    <3> QED
      BY <1>1, <2>1, <2>2, <3>1, <3>2 DEF ICounts, Counts, SumOver
  <2> QED
    BY <2>3, <2>4
<1> QED
  BY <1>1, <1>3, <1>4

\* Count and Charge: the row of the request is counted as the request ends.
LEMMA CountedOnce ==
  ASSUME IType, ICounts, NEW r \in Requests, req[r].at \in {"COUNT", "CHARGE"},
         Counted(req[r].on, req[r].kind), End(r), UNCHANGED <<rows, missed>>
  PROVE  ICounts'
<1>1. /\ req[r].on \in Campaigns /\ req[r].kind \in Kinds
      /\ req'[r].at = "IDLE" /\ \A x \in Requests \ {r} : req'[x] = req[x]
  BY DEF End, Idle, IType, TypeOK, Carries
<1> SUFFICES ASSUME NEW c \in Campaigns, NEW k \in Kinds
             PROVE  /\ IsFiniteSet(Units(RowsOf(c, k), Users)') /\ IsFiniteSet(Uncounted(c, k)')
                    /\ c \notin missed' => Counts(c, k)'
  BY DEF ICounts
<1>2. IsFiniteSet(Units(RowsOf(c, k), Users)) /\ IsFiniteSet(Uncounted(c, k))
  BY DEF ICounts
<1>3. RowsOf(c, k)' = RowsOf(c, k)
  BY DEF RowsOf
<1>4. CASE c = req[r].on /\ k = req[r].kind
  <2>1. Uncounted(c, k)' = Uncounted(c, k) \ {r} /\ r \in Uncounted(c, k)
    BY <1>1, <1>4 DEF Uncounted
  <2>2. /\ IsFiniteSet(Uncounted(c, k)')
        /\ Cardinality(Uncounted(c, k)') = Cardinality(Uncounted(c, k)) - 1
    BY <1>2, <2>1, FS_RemoveElement
  <2>3. Cardinality(Uncounted(c, k)) \in Nat /\ counter[c][k] \in Nat
    BY <1>2, FS_CardinalityType DEF IType, TypeOK
  <2>4. counter'[c][k] = counter[c][k] + 1
    BY <1>1, <1>4 DEF Counted, IType, TypeOK
  <2> QED
    BY <1>2, <1>3, <2>2, <2>3, <2>4 DEF ICounts, Counts, SumOver
<1>5. CASE ~(c = req[r].on /\ k = req[r].kind)
  <2>1. Uncounted(c, k)' = Uncounted(c, k)
    BY <1>1, <1>5 DEF Uncounted
  <2>2. counter'[c][k] = counter[c][k]
    BY <1>1, <1>5 DEF Counted, IType, TypeOK
  <2> QED
    BY <1>2, <1>3, <2>1, <2>2 DEF ICounts, Counts, SumOver
<1> QED
  BY <1>4, <1>5

LEMMA NextCounts == IType /\ ICounts /\ [Next]_vars => ICounts'
<1> SUFFICES ASSUME IType, ICounts, [Next]_vars PROVE ICounts'
  OBVIOUS
<1>1. ASSUME UNCHANGED <<req, rows, counter, missed>> PROVE ICounts'
  <2>1. \A c \in Campaigns, k \in Kinds : Uncounted(c, k)' = Uncounted(c, k)
    BY <1>1 DEF Uncounted
  <2> QED
    BY <1>1, <2>1, KeepsCounts
<1>2. CASE UNCHANGED vars
  BY <1>1, <1>2 DEF vars, campaign, history
<1>3. CASE Expire
  BY <1>1, <1>3 DEF Expire, campaign, history
<1>4. ASSUME NEW c \in Campaigns, Create(c) \/ Pause(c) \/ \E b \in Budgets : SetBudget(c, b)
      PROVE  ICounts'
  BY <1>1, <1>4 DEF Create, Pause, SetBudget, history
<1>5. ASSUME NEW r \in Requests,
             \/ \E c \in Campaigns : FindPaused(r, c)
             \/ Resume(r)
             \/ \E u \in Users : Feed(r, u)
             \/ Select(r)
             \/ \E u \in Users, c \in Campaigns : Click(r, u, c) \/ View(r, u, c)
             \/ Find(r) \/ Mark(r) \/ Fail(r)
      PROVE  ICounts'
  <2> DEFINE late == {"MARK", "COUNT", "CHARGE"}
  <2>1. \A x \in Requests \ {r} : req'[x] = req[x]
    BY <1>5, OthersWait
  <2>2. UNCHANGED <<rows, counter>> /\ missed \subseteq missed'
    BY <1>5 DEF FindPaused, Resume, Feed, Select, Click, View, Find, Mark, Fail, campaign, history
  <2>3. ASSUME req[r].at \notin late, req'[r].at \notin late PROVE ICounts'
    <3>1. \A c \in Campaigns, k \in Kinds : Uncounted(c, k)' = Uncounted(c, k)
      BY <2>1, <2>3 DEF Uncounted
    <3> QED
      BY <2>2, <3>1, KeepsCounts
  <2>4. ASSUME End(r) PROVE req'[r].at \notin late
    BY <2>4 DEF End, Idle, IType, TypeOK
  <2>5. ASSUME NEW c \in Campaigns, FindPaused(r, c) PROVE ICounts'
    BY <2>3, <2>5 DEF FindPaused, Begin, Idle, IType, TypeOK
  <2>6. CASE Resume(r)
    BY <2>3, <2>4, <2>6 DEF Resume
  <2>7. ASSUME NEW u \in Users, Feed(r, u) PROVE ICounts'
    BY <2>3, <2>7 DEF Feed, Begin, Idle, IType, TypeOK
  <2>8. CASE Select(r)
    <3>1. req[r].at \notin late
      BY <2>8 DEF Select
    <3>2. ASSUME NEW c, req' = [req EXCEPT ![r] = [@ EXCEPT !.at = "RECORD", !.on = c, !.offered = {}]]
          PROVE  req'[r].at \notin late
      BY <3>2 DEF IType, TypeOK
    <3> QED
      BY <2>3, <2>4, <2>8, <3>1, <3>2 DEF Select
  <2>9. ASSUME NEW u \in Users, NEW c \in Campaigns, Click(r, u, c) \/ View(r, u, c) PROVE ICounts'
    <3>1. req[r] = Idle /\ (req'[r].at = "RECORD" \/ req'[r].at = "FIND")
      BY <2>9 DEF Click, View, Begin, Idle, IType, TypeOK
    <3> QED
      BY <2>3, <3>1 DEF Idle
  <2>10. CASE Find(r)
    <3>1. req[r].at \notin late
      BY <2>10 DEF Find
    <3>2. CASE ~End(r)
      <4>1. req'[r] = [req[r] EXCEPT !.at = "RECORD", !.read = spent[req[r].on],
                                     !.limit = total[req[r].on]]
        BY <2>10, <3>2 DEF Find, IType, TypeOK
      <4>2. req'[r].at = "RECORD"
        BY <4>1 DEF IType, TypeOK
      <4> QED
        BY <2>3, <3>1, <4>2
    <3> QED
      BY <2>3, <2>4, <3>1, <3>2
  <2>11. CASE Mark(r)
    <3>1. /\ req[r].at = "MARK" /\ req'[r].at = "CHARGE"
          /\ req'[r].on = req[r].on /\ req'[r].kind = req[r].kind
      BY <2>11 DEF Mark, Go, IType, TypeOK
    <3>2. \A c \in Campaigns, k \in Kinds : Uncounted(c, k)' = Uncounted(c, k)
      BY <2>1, <3>1 DEF Uncounted
    <3> QED
      BY <2>2, <3>2, KeepsCounts
  <2>12. CASE Fail(r)
    <3>1. req'[r].at \notin late
      BY <2>4, <2>12 DEF Fail
    <3>2. \A c \in Campaigns, k \in Kinds :
            \/ Uncounted(c, k)' = Uncounted(c, k)
            \/ c \in missed' /\ Uncounted(c, k)' \subseteq Uncounted(c, k)
      BY <2>1, <2>12, <3>1 DEF Fail, Uncounted
    <3> QED
      BY <2>2, <3>2, KeepsCounts
  <2> QED
    BY <1>5, <2>5, <2>6, <2>7, <2>8, <2>9, <2>10, <2>11, <2>12
<1>6. ASSUME NEW r \in Requests, Count(r) \/ Charge(r) PROVE ICounts'
  <2>1. /\ req[r].at \in {"COUNT", "CHARGE"} /\ End(r) /\ UNCHANGED <<rows, missed>>
        /\ Counted(req[r].on, req[r].kind)
    BY <1>6 DEF Count, Charge, history, IType, Carries
  <2> QED
    BY <2>1, CountedOnce
<1> QED
  BY <1>2, <1>3, <1>4, <1>5, <1>6, RecordCounts, LoseCounts DEF Next

-----------------------------------------------------------------------------
(* Money *)

\* What a campaign spent and is, unless two writers raced: it is paused from
\* active, so it has budget left until a view exhausts it.
Sound(c) ==
  /\ spent[c] = Cost[c] * counter[c]["view"]
  /\ status[c] \in {"active", "paused"} => spent[c] < total[c]
  /\ status[c] = "exhausted" => spent[c] >= total[c]

IMoney == \A c \in Campaigns \ raced : Sound(c)

LEMMA InitMoney == Init => IMoney
<1> SUFFICES ASSUME Init, NEW c \in Campaigns PROVE Sound(c)
  BY DEF IMoney
<1>1. Cost[c] * 0 = 0
  BY AdsAssumption DEF AdsAssumption
<1> QED
  BY <1>1 DEF Init, Sound, Kinds

\* A view is added to what was spent; if the request had read that, and the budget,
\* the campaign is exhausted exactly when it should be.
LEMMA ChargeMoney ==
  ASSUME IType, IMoney, NEW r \in Requests, Charge(r)
  PROVE  IMoney'
<1> DEFINE q == req[r]
           d == req[r].on
<1>1. /\ d \in Campaigns /\ q.read \in Nat /\ q.limit \in Nat /\ Cost[d] \in Nat
      /\ spent[d] \in Nat /\ total[d] \in Nat /\ counter[d]["view"] \in Nat
  <2>1. d \in Campaigns
    BY DEF Charge, IType, Carries
  <2>2. q.read \in Nat /\ q.limit \in Nat
    BY DEF IType, TypeOK
  <2>3. Cost[d] \in Nat
    BY <2>1, AdsAssumption DEF AdsAssumption
  <2>4. spent[d] \in Nat /\ total[d] \in Nat /\ counter[d]["view"] \in Nat
    BY <2>1 DEF IType, TypeOK, Kinds
  <2> QED
    BY <2>1, <2>2, <2>3, <2>4
<1>2. /\ spent' = [spent EXCEPT ![d] = q.read + Cost[d]]
      /\ status' = IF q.limit > 0 /\ q.read + Cost[d] >= q.limit
                     THEN [status EXCEPT ![d] = "exhausted"] ELSE status
      /\ counter' = [counter EXCEPT ![d]["view"] = @ + 1]
      /\ raced' = IF q.read = spent[d] /\ q.limit = total[d] THEN raced ELSE raced \cup {d}
      /\ UNCHANGED total
  BY DEF Charge, Spends, Counted
<1> HIDE DEF q, d
<1> SUFFICES ASSUME NEW c \in Campaigns, c \notin raced' PROVE Sound(c)'
  BY DEF IMoney
<1>3. c \notin raced /\ Sound(c)
  BY <1>2 DEF IMoney
<1>4. CASE c # d
  BY <1>2, <1>3, <1>4 DEF Sound, IType, TypeOK
<1>5. CASE c = d
  <2>1. q.read = spent[c] /\ q.limit = total[c]
    BY <1>2, <1>5
  <2>2. spent'[c] = spent[c] + Cost[c] /\ counter'[c]["view"] = counter[c]["view"] + 1
    BY <1>2, <1>5, <2>1 DEF IType, TypeOK, Kinds
  <2>3. spent'[c] = Cost[c] * counter'[c]["view"]
    <3>1. Cost[c] * (counter[c]["view"] + 1) = Cost[c] * counter[c]["view"] + Cost[c]
      BY <1>1, <1>5
    <3> QED
      BY <1>3, <2>2, <3>1 DEF Sound
  <2>4. status'[c] = IF total[c] > 0 /\ spent'[c] >= total[c] THEN "exhausted" ELSE status[c]
    BY <1>2, <1>5, <2>1, <2>2 DEF IType, TypeOK
  <2>5. total'[c] = total[c] /\ spent'[c] \in Nat
    BY <1>1, <1>2, <1>5, <2>2
  <2> QED
    BY <1>1, <1>3, <1>5, <2>2, <2>3, <2>4, <2>5 DEF Sound
<1> QED
  BY <1>4, <1>5

LEMMA CountMoney ==
  ASSUME IType, IMoney, NEW r \in Requests, Count(r)
  PROVE  IMoney'
<1>1. req[r].on \in Campaigns /\ req[r].kind \in Kinds \ {"view"}
  BY DEF Count, IType, TypeOK, Carries
<1>2. \A c \in Campaigns : counter'[c]["view"] = counter[c]["view"]
  BY <1>1 DEF Count, Counted, IType, TypeOK, Kinds
<1> QED
  BY <1>2 DEF Count, IMoney, Sound, history

LEMMA NextMoney == IType /\ IMoney /\ [Next]_vars => IMoney'
<1> SUFFICES ASSUME IType, IMoney, [Next]_vars PROVE IMoney'
  OBVIOUS
<1>1. ASSUME UNCHANGED <<campaign, raced>> PROVE IMoney'
  BY <1>1 DEF campaign, IMoney, Sound
<1>2. CASE UNCHANGED vars
  BY <1>1, <1>2 DEF vars, history
<1>3. CASE Expire
  BY <1>1, <1>3 DEF Expire, history
<1>4. ASSUME NEW c \in Campaigns, Create(c) PROVE IMoney'
  BY <1>4 DEF Create, IMoney, Sound, history, IType, TypeOK
<1>5. ASSUME NEW c \in Campaigns, Pause(c) PROVE IMoney'
  BY <1>5 DEF Pause, IMoney, Sound, history, IType, TypeOK
<1>6. ASSUME NEW c \in Campaigns, NEW b \in Budgets, SetBudget(c, b) PROVE IMoney'
  <2>1. b \in Nat /\ spent[c] \in Nat
    BY AdsAssumption DEF AdsAssumption, IType, TypeOK
  <2> QED
    BY <1>6, <2>1 DEF SetBudget, IMoney, Sound, IType, TypeOK
<1>7. ASSUME NEW r \in Requests, Resume(r) PROVE IMoney'
  <2>1. req[r].on \in Campaigns
    BY <1>7 DEF Resume, IType, Carries
  <2> QED
    BY <1>7, <2>1 DEF Resume, IMoney, Sound, IType, TypeOK
<1>8. ASSUME NEW r \in Requests,
             \/ \E c \in Campaigns : FindPaused(r, c)
             \/ \E u \in Users : Feed(r, u)
             \/ Select(r)
             \/ \E u \in Users, c \in Campaigns : Click(r, u, c) \/ View(r, u, c)
             \/ Find(r) \/ Record(r) \/ Mark(r) \/ Fail(r) \/ LoseAnswer(r)
      PROVE  IMoney'
  BY <1>1, <1>8 DEF FindPaused, Feed, Select, Click, View, Find, Record, Mark, Fail, LoseAnswer,
     history
<1> QED
  BY <1>2, <1>3, <1>4, <1>5, <1>6, <1>7, <1>8, CountMoney, ChargeMoney DEF Next

(* The books of a campaign agree, row by row (record_impression, record_view,
   record_click) and rupee by rupee (set_campaign_budget, record_view):
   they part only where a request failed halfway, or wrote what it had read before. *)
THEOREM AdsBooksAgree == Spec => []BooksAgree
<1>1. ICounts /\ IMoney => BooksAgree
  BY DEF ICounts, IMoney, Counts, RowsOf, Sound, BooksAgree
<1> QED
  BY <1>1, InitType, NextType, InitCounts, NextCounts, InitMoney, NextMoney, PTL DEF Spec

=============================================================================
