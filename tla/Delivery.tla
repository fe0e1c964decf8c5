------------------------------ MODULE Delivery ------------------------------
(* What the transactional outbox promises of an event, and the WebSocket hub of
   a notification: it is received only if its transaction committed, it may be
   received again at any later time, and once it is reported PROCESSED it has
   been received; FAILED promises nothing.  The report is given once, if at all. *)
CONSTANT Events

VARIABLES state,      \* what the table says of the event
          received    \* the events that got through

vars == <<state, received>>

Init == /\ state = [e \in Events |-> "unwritten"]
        /\ received = {}

Promise(S) == /\ \A e \in S : state[e] = "unwritten"
              /\ state' = [e \in Events |-> IF e \in S THEN "PENDING" ELSE state[e]]
              /\ UNCHANGED received

Receive(e) == /\ state[e] # "unwritten"
              /\ received' = received \union {e}
              /\ UNCHANGED state

Report(S, T) ==
  /\ \A e \in S \union T : state[e] = "PENDING"
  /\ S \subseteq received
  /\ state' = [e \in Events |-> IF e \in S THEN "PROCESSED"
                                ELSE IF e \in T THEN "FAILED" ELSE state[e]]
  /\ UNCHANGED received

Next == \/ \E S \in SUBSET Events : Promise(S)
        \/ \E e \in Events : Receive(e)
        \/ \E S, T \in SUBSET Events : Report(S, T)

Spec == Init /\ [][Next]_vars
=============================================================================
