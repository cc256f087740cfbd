------------------------------ MODULE Delivery ------------------------------
(***************************************************************************)
(* What the transactional outbox promises to the rest of the backend: an   *)
(* event committed with its business change is handed to the queue at      *)
(* least once before it is recorded as published; it is recorded either as *)
(* published or as poisoned, never as both, and that record is final.      *)
(* A copy may still reach the queue after the record is final: the promise *)
(* is at-least-once, and de-duplication is left to the consumer.           *)
(***************************************************************************)
CONSTANT Records

VARIABLES
  accepted,    \* events whose business transaction has committed
  delivered,   \* events the queue has accepted at least once
  published,   \* events recorded as published
  poisoned     \* events given up on

dvars == <<accepted, delivered, published, poisoned>>

Init ==
  /\ accepted = {}
  /\ delivered = {}
  /\ published = {}
  /\ poisoned = {}

Open == accepted \ (published \cup poisoned)

Accept(r) ==
  /\ r \notin accepted
  /\ accepted' = accepted \cup {r}
  /\ UNCHANGED <<delivered, published, poisoned>>

Deliver(r) ==
  /\ r \in accepted
  /\ delivered' = delivered \cup {r}
  /\ UNCHANGED <<accepted, published, poisoned>>

Confirm(r) ==
  /\ r \in Open \cap delivered
  /\ published' = published \cup {r}
  /\ UNCHANGED <<accepted, delivered, poisoned>>

GiveUp(r) ==
  /\ r \in Open
  /\ poisoned' = poisoned \cup {r}
  /\ UNCHANGED <<accepted, delivered, published>>

Next == \E r \in Records : Accept(r) \/ Deliver(r) \/ Confirm(r) \/ GiveUp(r)

Spec == Init /\ [][Next]_dvars
=============================================================================
