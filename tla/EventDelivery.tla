---------------------------- MODULE EventDelivery ----------------------------
(***************************************************************************)
(* What the transactional outbox promises its services: at-least-once      *)
(* delivery.  An event recorded in the database goes to Kafka any number   *)
(* of times, and is closed only when it was delivered, or given up for an  *)
(* operator to look at.                                                    *)
(***************************************************************************)
CONSTANTS Events

VARIABLES
  recorded,   \* events whose transaction committed
  delivered,  \* events Kafka has, once or more often
  closed,     \* events that will not be sent again because they were
  dead        \* events that were given up

deliveryVars == <<recorded, delivered, closed, dead>>

DeliveryInit == recorded = {} /\ delivered = {} /\ closed = {} /\ dead = {}

Record(e) ==
  /\ e \notin recorded
  /\ recorded' = recorded \cup {e}
  /\ UNCHANGED <<delivered, closed, dead>>

Deliver(e) ==
  /\ e \in recorded
  /\ delivered' = delivered \cup {e}
  /\ UNCHANGED <<recorded, closed, dead>>

Close(e) ==
  /\ e \in delivered
  /\ e \notin dead
  /\ closed' = closed \cup {e}
  /\ UNCHANGED <<recorded, delivered, dead>>

GiveUp(e) ==
  /\ e \in recorded
  /\ e \notin closed
  /\ dead' = dead \cup {e}
  /\ UNCHANGED <<recorded, delivered, closed>>

DeliveryNext == \E e \in Events : Record(e) \/ Deliver(e) \/ Close(e) \/ GiveUp(e)

DeliverySpec == DeliveryInit /\ [][DeliveryNext]_deliveryVars
=============================================================================
