------------------------------ MODULE Realtime ------------------------------
(***************************************************************************)
(* Notifications and the WebSocket events that announce them               *)
(* (app/modules/notifications, app/modules/websocket).  Every instance of  *)
(* the application keeps the sockets of its clients by user.  An event is  *)
(* published to a Redis channel, and each instance's listener delivers it  *)
(* to its own clients, socket by socket, awaiting every send; where Redis  *)
(* cannot be reached the request delivers to the clients of its own        *)
(* instance.  Between two sends anything else may happen on the loop.      *)
(***************************************************************************)
EXTENDS Naturals, Sequences, SequencesExt

CONSTANTS
  Instances,
  Users,
  Sockets,         \* a client that connects again does so as another socket
  Home,            \* the instance a socket connects to
  Owner,           \* and the user in its token
  Notes,           \* the notifications, one event each
  MaxUpsets        \* bounds what disturbs plain connections and deliveries

ASSUME ConnectionsAssumption ==
  /\ Home \in [Sockets -> Instances]
  /\ Owner \in [Sockets -> Users]
  /\ MaxUpsets \in Nat

VARIABLES
  socket,       \* GONE: the client left and nobody noticed
  connections,  \* of an instance: the sockets of every user
  listener,     \* NONE: Redis was not there at the start; DEAD: it broke later
  mail,         \* of an instance: messages of the channel not read yet
  deliveries,   \* runs of _deliver_to_local_clients
  note,         \* the row of a notification
  requests,     \* running requests that create notifications
  loaded,       \* notifications read by mark_as_read, to be written
  got,          \* history: the events a client received, in order
  unsure,       \* history: events that were delivered without Redis
  upsets

hub  == <<socket, connections, listener, mail, deliveries, got, unsure>>
database == <<note, requests, loaded>>
realtimeVars == <<hub, database, upsets>>

RealtimeInit ==
  /\ socket = [s \in Sockets |-> "NEW"]
  /\ connections = [i \in Instances |-> [u \in Users |-> {}]]
  /\ listener \in [Instances -> {"UP", "NONE"}]
  /\ mail = [i \in Instances |-> <<>>]
  /\ deliveries = {}
  /\ note = [n \in Notes |-> "NONE"]
  /\ requests = {}
  /\ loaded = {}
  /\ got = [s \in Sockets |-> <<>>]
  /\ unsure = {}
  /\ upsets = 0

Upset == upsets < MaxUpsets /\ upsets' = upsets + 1

----------------------------------------------------------------------------
(* Connections *)

Registered(s) == s \in connections[Home[s]][Owner[s]]

Connect(s) ==
  /\ socket[s] = "NEW"
  /\ socket' = [socket EXCEPT ![s] = "OPEN"]
  /\ connections' = [connections EXCEPT ![Home[s]][Owner[s]] = @ \cup {s}]
  /\ UNCHANGED <<listener, mail, deliveries, got, unsure, upsets, database>>

\* The network or the client; the server has not heard of it.
Leave(s) ==
  /\ Upset
  /\ socket[s] = "OPEN"
  /\ socket' = [socket EXCEPT ![s] = "GONE"]
  /\ UNCHANGED <<connections, listener, mail, deliveries, got, unsure, database>>

\* Mutants: all sockets of the user; nobody.
ForgetUser(i, gone, runs) ==
  LET kept == [u \in Users |->
                 IF \E s \in gone : Owner[s] = u THEN {} ELSE connections[i][u]]
  IN  /\ connections' = [connections EXCEPT ![i] = kept]
      /\ deliveries' = runs

ForgetNobody(i, gone, runs) == deliveries' = runs /\ UNCHANGED connections

\* The entry of a user without sockets is deleted; a delivery that has not come
\* to that user yet keeps the old set, which stays empty.
Without(kept, u) == IF kept = {} THEN {u} ELSE {}

Forget(i, gone, runs) ==
  LET kept == [u \in Users |-> connections[i][u] \ gone]
      leavers == UNION {Without(kept[u], u) : u \in Users}
  IN  /\ connections' = [connections EXCEPT ![i] = kept]
      /\ deliveries' = {[d EXCEPT !.users = IF d.at = i THEN @ \ leavers ELSE @] : d \in runs}

\* receive_text raises in the endpoint.
Disconnect(s) ==
  /\ socket[s] = "GONE"
  /\ socket' = [socket EXCEPT ![s] = "CLOSED"]
  /\ Forget(Home[s], {s}, deliveries)
  /\ UNCHANGED <<listener, mail, got, unsure, upsets, database>>

----------------------------------------------------------------------------
(* Deliveries *)

\* The entries of the dictionary are copied, the sets in them are not.  (audience
\* is a history: the clients at the start.)
DeliveryOf(i, n, source) ==
  [at |-> i, note |-> n, by |-> source, sockets |-> {}, dead |-> {},
   users |-> {u \in Users : connections[i][u] # {}},
   audience |-> {s \in Sockets : Home[s] = i /\ socket[s] = "OPEN"}]

Reach(d, u) ==
  /\ d.sockets = {}
  /\ u \in d.users
  /\ deliveries' = (deliveries \ {d}) \cup
       {[d EXCEPT !.users = @ \ {u}, !.sockets = connections[d.at][u]]}
  /\ UNCHANGED <<socket, connections, listener, mail, got, unsure, upsets, database>>

\* send_json to a client that left raises, or is lost on the way.
Send(d, s) ==
  /\ s \in d.sockets
  /\ \E dead \in IF socket[s] = "GONE" THEN {{}, {s}} ELSE {{}} :
       deliveries' = (deliveries \ {d}) \cup
         {[d EXCEPT !.sockets = @ \ {s}, !.dead = @ \cup dead]}
  /\ got' = IF socket[s] = "OPEN" THEN [got EXCEPT ![s] = Append(@, d.note)] ELSE got
  /\ UNCHANGED <<socket, connections, listener, mail, unsure, upsets, database>>

Finish(d) ==
  /\ d.users = {} /\ d.sockets = {}
  /\ Forget(d.at, d.dead, deliveries \ {d})
  /\ requests' = {[r EXCEPT !.sending = IF d.by = "REQUEST" THEN @ \ {d.note} ELSE @] : r \in requests}
  /\ UNCHANGED <<socket, listener, mail, got, unsure, upsets, note, loaded>>

Delivering(i) == \E d \in deliveries : d.at = i /\ d.by = "LISTENER"

\* Mutant: without waiting for the delivery of the last message.
ListenAhead(i) ==
  /\ listener[i] = "UP"
  /\ mail[i] # <<>>
  /\ deliveries' = deliveries \cup {DeliveryOf(i, Head(mail[i]), "LISTENER")}
  /\ mail' = [mail EXCEPT ![i] = Tail(@)]
  /\ UNCHANGED <<socket, connections, listener, got, unsure, upsets, database>>

Listen(i) ==
  /\ listener[i] = "UP"
  /\ ~Delivering(i)
  /\ mail[i] # <<>>
  /\ deliveries' = deliveries \cup {DeliveryOf(i, Head(mail[i]), "LISTENER")}
  /\ mail' = [mail EXCEPT ![i] = Tail(@)]
  /\ UNCHANGED <<socket, connections, listener, got, unsure, upsets, database>>

\* get_message raises: the task ends, and nothing starts it again.
ListenerBreaks(i) ==
  /\ Upset
  /\ listener[i] = "UP"
  /\ ~Delivering(i)
  /\ listener' = [listener EXCEPT ![i] = "DEAD"]
  /\ mail' = [mail EXCEPT ![i] = <<>>]
  /\ UNCHANGED <<socket, connections, deliveries, got, unsure, database>>

\* The process stops, or dies, and comes back; the requests it was in are lost.
Restart(i) ==
  /\ Upset
  /\ socket' = [s \in Sockets |->
       IF Home[s] = i /\ socket[s] # "NEW" THEN "CLOSED" ELSE socket[s]]
  /\ connections' = [connections EXCEPT ![i] = [u \in Users |-> {}]]
  /\ \E state \in {"UP", "NONE"} : listener' = [listener EXCEPT ![i] = state]
  /\ mail' = [mail EXCEPT ![i] = <<>>]
  /\ deliveries' = {d \in deliveries : d.at # i}
  /\ requests' = {r \in requests : r.at # i}
  /\ UNCHANGED <<got, unsure, note, loaded>>

----------------------------------------------------------------------------
(* Notifications *)

Creating == UNION {r.notes \cup r.sending : r \in requests}

\* POST /notifications and /notifications/bulk: flushed, not yet committed.
CreateNotifications(i, N) ==
  /\ N # {}
  /\ \A n \in N : note[n] = "NONE" /\ n \notin Creating
  /\ requests' = requests \cup {[at |-> i, notes |-> N, sending |-> {}, phase |-> "FLUSHED"]}
  /\ UNCHANGED <<hub, note, loaded, upsets>>

RollbackNotifications(r) ==
  /\ Upset
  /\ r.phase = "FLUSHED"
  /\ requests' = requests \ {r}
  /\ UNCHANGED <<hub, note, loaded>>

CommitNotifications(r) ==
  /\ r.phase = "FLUSHED"
  /\ note' = [n \in Notes |-> IF n \in r.notes THEN "UNREAD" ELSE note[n]]
  /\ requests' = (requests \ {r}) \cup {[r EXCEPT !.phase = "COMMITTED"]}
  /\ UNCHANGED <<hub, loaded, upsets>>

\* Mutant: the way picking publishes an assignment.
ToPublishFlushed(r, n) ==
  /\ n \in r.notes
  /\ r.sending = {}

\* The events of a bulk are published one after another, each once the delivery
\* of the last one is over.
ToPublish(r, n) ==
  /\ r.phase = "COMMITTED"
  /\ n \in r.notes
  /\ r.sending = {}

Took(r, n, sending) ==
  requests' = (requests \ {r}) \cup
    {q \in {[r EXCEPT !.notes = @ \ {n}, !.sending = sending]} :
       q.notes \cup q.sending # {}}

Subscribed(n) ==
  mail' = [i \in Instances |-> IF listener[i] = "UP" THEN Append(mail[i], n) ELSE mail[i]]

\* broadcast by an instance that subscribed to the channel: it publishes even
\* when its own listener has ended.
Broadcast(r, n) ==
  /\ ToPublish(r, n)
  /\ listener[r.at] # "NONE"
  /\ Subscribed(n)
  /\ Took(r, n, {})
  /\ UNCHANGED <<socket, connections, listener, deliveries, got, unsure, upsets, note, loaded>>

\* Without Redis, or when publish raises; the message may have gone out all the
\* same.
DeliverLocally(r, n) ==
  /\ ToPublish(r, n)
  /\ \/ listener[r.at] = "NONE" /\ UNCHANGED <<mail, upsets>>
     \/ /\ listener[r.at] # "NONE"
        /\ Upset
        /\ Subscribed(n) \/ UNCHANGED mail
  /\ deliveries' = deliveries \cup {DeliveryOf(r.at, n, "REQUEST")}
  /\ unsure' = unsure \cup {n}
  /\ Took(r, n, {n})
  /\ UNCHANGED <<socket, connections, listener, got, note, loaded>>

\* mark_as_read reads the row without a lock and writes is_read later.
MarkLoad(n) ==
  /\ Upset
  /\ note[n] = "UNREAD"
  /\ loaded' = loaded \cup {n}
  /\ UNCHANGED <<hub, note, requests>>

\* The UPDATE of a row that was deleted meanwhile fails.
MarkWrite(n) ==
  /\ n \in loaded
  /\ note' = [note EXCEPT ![n] = IF @ = "DELETED" THEN @ ELSE "READ"]
  /\ loaded' = loaded \ {n}
  /\ UNCHANGED <<hub, requests, upsets>>

MarkMany(N) ==
  /\ Upset
  /\ N # {}
  /\ \A n \in N : note[n] = "UNREAD"
  /\ note' = [n \in Notes |-> IF n \in N THEN "READ" ELSE note[n]]
  /\ UNCHANGED <<hub, requests, loaded>>

Delete(n) ==
  /\ Upset
  /\ note[n] \in {"UNREAD", "READ"}
  /\ note' = [note EXCEPT ![n] = "DELETED"]
  /\ UNCHANGED <<hub, requests, loaded>>

----------------------------------------------------------------------------
RealtimeNext ==
  \/ \E s \in Sockets : Connect(s) \/ Leave(s) \/ Disconnect(s)
  \/ \E d \in deliveries :
       \/ \E u \in Users : Reach(d, u)
       \/ \E s \in Sockets : Send(d, s)
       \/ Finish(d)
  \/ \E i \in Instances : Listen(i) \/ ListenerBreaks(i) \/ Restart(i)
  \/ \E i \in Instances, N \in SUBSET Notes : CreateNotifications(i, N)
  \/ \E r \in requests :
       \/ RollbackNotifications(r)
       \/ CommitNotifications(r)
       \/ \E n \in Notes : Broadcast(r, n) \/ DeliverLocally(r, n)
  \/ \E n \in Notes : MarkLoad(n) \/ MarkWrite(n) \/ Delete(n)
  \/ \E N \in SUBSET Notes : MarkMany(N)

RealtimeSpec == RealtimeInit /\ [][RealtimeNext]_realtimeVars

----------------------------------------------------------------------------
(* Properties *)

RealtimeTypeOK ==
  /\ socket \in [Sockets -> {"NEW", "OPEN", "GONE", "CLOSED"}]
  /\ \A i \in Instances, u \in Users :
       connections[i][u] \subseteq
         {s \in Sockets : Home[s] = i /\ Owner[s] = u /\ socket[s] \in {"OPEN", "GONE"}}
  /\ listener \in [Instances -> {"UP", "NONE", "DEAD"}]
  /\ mail \in [Instances -> Seq(Notes)]
  /\ note \in [Notes -> {"NONE", "UNREAD", "READ", "DELETED"}]
  /\ loaded \subseteq Notes
  /\ got \in [Sockets -> Seq(Notes)]
  /\ unsure \subseteq Notes
  /\ \A d \in deliveries : d.users \subseteq Users /\ d.dead \subseteq Sockets
  /\ \A r \in requests : r.notes \cup r.sending \subseteq Notes

\* A client that was there when a delivery began and still is has its event, or
\* the delivery is on its way to it: whoever else connects, leaves or fails
\* between two sends, other clients of the same user included.
NobodyIsSkipped ==
  \A d \in deliveries : \A s \in d.audience :
    socket[s] = "OPEN" =>
      \/ Owner[s] \in d.users
      \/ s \in d.sockets
      \/ Contains(got[s], d.note)

Before(m, n, events) ==
  \E j, k \in DOMAIN events : j < k /\ events[j] = m /\ events[k] = n

\* No client receives an event of the channel twice, and no two clients, of
\* whatever instances, receive two of them in opposite orders.  Events that were
\* delivered without Redis may overtake others, and come twice if their
\* publication failed after all.
OnceAndInOrder ==
  \A s, t \in Sockets : \A m, n \in Notes \ unsure :
    Before(m, n, got[s]) => ~Before(n, m, got[t])

\* "only be called after the corresponding database transaction has been
\* successfully committed" (websocket/events.py:31): to its clients the hub keeps the
\* promise the outbox gives to its readers, though it reports nothing.  Nobody hears of
\* a notification that is not in the database, even if the request that wrote it
\* fails or its instance dies.
NotificationContract == INSTANCE Delivery WITH
  Events   <- Notes,
  state    <- [n \in Notes |-> IF note[n] = "NONE" THEN "unwritten" ELSE "PENDING"],
  received <- {n \in Notes : \E s \in Sockets : Contains(got[s], n)}
NotificationsAreDelivered == NotificationContract!Spec
=============================================================================
