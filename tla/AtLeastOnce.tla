---------------------------- MODULE AtLeastOnce ----------------------------
(***************************************************************************)
(* What a consumer of the table message_storage promises its producers: a  *)
(* stored message is delivered, perhaps several times, and forgotten only  *)
(* after a delivery succeeded.  Deliveries may go on after that, by a      *)
(* consumer that started before.  The listener over a storage consumer and *)
(* the outbox both implement it.                                           *)
(***************************************************************************)
EXTENDS Naturals

CONSTANTS
    Message,     \* the messages
    Droppable    \* those that are forgotten without a delivery

VARIABLES
    submitted,   \* every message ever stored
    pending,     \* the messages not yet forgotten
    delivered    \* delivered[m]: how often m was delivered

vars == <<submitted, pending, delivered>>

Init ==
    /\ submitted = {} /\ pending = {}
    /\ delivered = [m \in Message |-> 0]

Submit(m) ==
    /\ m \notin submitted
    /\ submitted' = submitted \union {m}
    /\ pending' = pending \union {m}
    /\ UNCHANGED delivered

Deliver(m) ==
    /\ m \in submitted
    /\ delivered' = [delivered EXCEPT ![m] = @ + 1]
    /\ UNCHANGED <<submitted, pending>>

Forget(m) ==
    /\ m \in pending
    /\ delivered[m] > 0 \/ m \in Droppable
    /\ pending' = pending \ {m}
    /\ UNCHANGED <<submitted, delivered>>

Next == \E m \in Message : Submit(m) \/ Deliver(m) \/ Forget(m)

Spec == Init /\ [][Next]_vars
=============================================================================
