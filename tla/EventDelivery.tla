---------------------------- MODULE EventDelivery ----------------------------
(***************************************************************************)
(* What the transactional outbox promises its subscribers: an event that   *)
(* has been committed is delivered at least once, and no other event is.   *)
(***************************************************************************)
CONSTANT Events

VARIABLES
  announced,      \* the events whose transaction has committed
  delivered       \* the events the queue has accepted at least once

Init == announced = {} /\ delivered = {}

Announce(e) ==
  /\ e \notin announced
  /\ announced' = announced \cup {e}
  /\ UNCHANGED delivered

Deliver(e) ==
  /\ e \in announced
  /\ delivered' = delivered \cup {e}
  /\ UNCHANGED announced

Next == \E e \in Events : Announce(e) \/ Deliver(e)

Spec == Init /\ [][Next]_<<announced, delivered>>

FairSpec ==
  /\ Spec
  /\ \A e \in Events : WF_<<announced, delivered>>(Deliver(e))
=============================================================================
