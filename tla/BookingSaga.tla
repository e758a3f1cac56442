----------------------------- MODULE BookingSaga -----------------------------
(***************************************************************************)
(* One booking across two services: the booking service's row and saga     *)
(* (BookingLifecycle) composed with the inventory's allocations            *)
(* (SeatAllocation).  They share no state.  The inventory's replies travel *)
(* through its outbox to the booking service's consumers, and the booking  *)
(* service's status events through its own outbox to the inventory's; what *)
(* either component left to its environment is here what the other one     *)
(* has recorded.                                                           *)
(***************************************************************************)
EXTENDS BookingLifecycle

CONSTANTS
  booking,           \* the booking
  Seats, SeatRows, NumStops, Requests,   \* the inventory, see SeatAllocation
  InventoryWorkers,  \* consumer instances of inventory-service
  InventoryFaults    \* bound: its crashes and errors in a behaviour

ASSUME InventoryConstantsAssumption ==
  SeatRows \subseteq Seats /\ NumStops \in Nat /\ InventoryFaults \in Nat

VARIABLES
  req, scheduleActive, alloc, history, processed, replies, redisLocks, rowLock,
  statusEvents, invPc, invCur, invSeen, invFaults   \* see SeatAllocation

inventoryVars == <<req, scheduleActive, alloc, history, processed, replies, redisLocks,
                   rowLock, statusEvents, invPc, invCur, invSeen, invFaults>>
sagaVars == <<vars, inventoryVars>>

InventoryKinds == {"CONFIRMED", "CANCELLED"}

Inventory ==
  INSTANCE SeatAllocation
    WITH Bookings <- {booking}, Workers <- InventoryWorkers, StatusKinds <- InventoryKinds,
         MaxFaults <- InventoryFaults, pc <- invPc, cur <- invCur, seen <- invSeen,
         faults <- invFaults

ASSUME InventoryRequestsAssumption ==
  Requests \subseteq Inventory!RequestType /\ None \notin InventoryWorkers

SagaInit == Init /\ Inventory!Init

-----------------------------------------------------------------------------
(* inventory-service's outbox to the booking service: a reply is on its    *)
(* topic only if the inventory recorded it.                                *)
replied(t) == t.kind \in {"SeatsHeld", "SeatsHoldFailed"} => t.kind \in replies[booking]

BookingStep ==
  /\ Next
  /\ \A t \in Tasks : task[t] = "unsent" /\ task'[t] # "unsent" => replied(t)
  /\ UNCHANGED inventoryVars

(* Mutant: the inventory's consumer releases the seats on every status but *)
(* CONFIRMED.                                                              *)
handledAsElse(s) == IF s = "CONFIRMED" THEN "CONFIRMED" ELSE "CANCELLED"

(* What the inventory's consumer does with a status.  (FAILED and EXPIRED  *)
(* would release the seats as well; the hold replies that set them record  *)
(* no status event.)                                                       *)
handledAs(s) ==
  CASE s = "CONFIRMED" -> "CONFIRMED"
    [] s \in {"CANCELLED", "FAILED", "EXPIRED"} -> "CANCELLED"
    [] OTHER -> "ignored"

(* The booking service's outbox to the inventory: BookingStatusChanged,    *)
(* delivered in any order.                                                 *)
recorded(k) == \E i \in 1..Len(outbox) : handledAs(outbox[i].current) = k

StatusPublished(k) ==
  /\ recorded(k)
  /\ Inventory!publishStatus(booking, k)
  /\ UNCHANGED vars

InventoryStep == Inventory!Next /\ UNCHANGED <<statusEvents, vars>>

SagaNext ==
  \/ BookingStep
  \/ \E k \in InventoryKinds : StatusPublished(k)
  \/ InventoryStep

SagaSpec == SagaInit /\ [][SagaNext]_sagaVars

-----------------------------------------------------------------------------
(* The part of it that TLC explores.                                       *)

(* Bound: the booking service moves while no handler of the inventory is   *)
(* under way.  The handler's steps touch nothing the booking service reads *)
(* or writes but in one commit, so each of them commutes with the steps it *)
(* is kept apart from.                                                     *)
NoHandlerUnderWay == \A w \in InventoryWorkers : invPc[w] = "idle"

(* Bound: a behaviour has a fault of the booking service or a capture.     *)
FaultOrCapture ==
  faults' = 0 \/ \A t \in Tasks : t.kind = "PaymentSuccess" => task'[t] = "unsent"

(* Bounds, which leave out what changes nothing: a delivery of an event    *)
(* that is recorded as processed is acknowledged, and only a hold request  *)
(* that is still to come asks for the schedule's status.                   *)
StillToDo ==
  /\ \A w \in InventoryWorkers : invPc[w] = "idle" => invCur'[w] \notin processed
  /\ \/ UNCHANGED scheduleActive
     \/ NoHandlerUnderWay /\ Inventory!HoldEvent(booking) \notin processed

BoundedNext ==
  \/ BookingStep /\ NoHandlerUnderWay /\ FaultOrCapture
  \/ \E k \in InventoryKinds : StatusPublished(k)
  \/ InventoryStep /\ StillToDo

BoundedSpec == SagaInit /\ [][BoundedNext]_sagaVars

-----------------------------------------------------------------------------
SeatsAre(statuses) == \A s \in req[booking].seats : alloc[booking][s] \in statuses

(* A booking that its service calls held, payable or confirmed has all its *)
(* seats in the inventory, although hold requests, replies, captures and   *)
(* cancellations overlap in both services and contradictory replies may be *)
(* on the way (handleSeatsHeld, cancelBooking and confirmPayment against   *)
(* holdSeats and cancelSeats).                                             *)
SoldSeatsExist ==
  status \in {"SEATS_HELD", "PAYMENT_PENDING", "CONFIRMING", "CONFIRMED"} =>
    SeatsAre({"HELD", "CONFIRMED"})

(* Nothing is under way between the services. *)
AtRest ==
  /\ \A w \in Workers : pc[w] = "idle"
  /\ \A w \in InventoryWorkers : invPc[w] = "idle"
  /\ \A t \in Tasks : task[t] # "open"
  /\ \A k \in replies[booking] : \E t \in Tasks : t.kind = k /\ task[t] = "done"
  /\ \A k \in InventoryKinds : recorded(k) => Inventory!StatusEvent(booking, k) \in processed

(* Once every event is handled the two services agree, unless the booking  *)
(* service failed on the way: no saga stops between two statuses, a        *)
(* confirmed booking's seats are CONFIRMED, a cancelled one's are          *)
(* released, a held one's are HELD, and a booking is PENDING only without  *)
(* a reply (the whole saga: orchestrator and seat-allocation.service.ts).  *)
(* A booking that FAILED may have seats, when its hold was tried again.    *)
AgreeAtRest ==
  AtRest /\ faults = 0 =>
    /\ status \notin {"CONFIRMING", "CANCELLING"}
    /\ status = "CONFIRMED" => SeatsAre({"CONFIRMED"})
    /\ status = "CANCELLED" => SeatsAre({"CANCELLED"})
    /\ status \in {"SEATS_HELD", "PAYMENT_PENDING"} => SeatsAre({"HELD"})
    /\ status = "PENDING" => replies[booking] = {}
=============================================================================
