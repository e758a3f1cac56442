--------------------------- MODULE SeatAllocation ---------------------------
(***************************************************************************)
(* The inventory service's seat-hold critical section                      *)
(* (apps/inventory-service/src/services/seat-allocation.service.ts), for   *)
(* one schedule.  Several consumer instances (Workers) run holdSeats,      *)
(* confirmSeats and cancelSeats for events that Kafka may deliver again at *)
(* any time, to any instance.  Each database statement whose result is     *)
(* used later is a step of its own, so the transactions interleave as they *)
(* do under READ COMMITTED; what a transaction wrote appears when it       *)
(* commits.                                                                *)
(***************************************************************************)
EXTENDS Naturals, FiniteSets

CONSTANTS
  Bookings,    \* bookings, each with one HoldSeatsRequested event
  Seats,       \* seat_inventory ids a request may name
  SeatRows,    \* the ids that have a row in seat_inventory
  Workers,     \* consumer instances of the service
  NumStops,    \* the route's stops are 1..NumStops
  Requests,    \* payloads a HoldSeatsRequested event may carry
  StatusKinds, \* booking statuses published: CONFIRMED, CANCELLED
  None,        \* no worker, no event
  MaxFaults    \* bound: crashes and database or Redis errors in a behaviour

Stops == 1..NumStops

(* A station is named by its stop number on this route, 0 when it is none. *)
RequestType ==
  [seats: (SUBSET Seats) \ {{}}, fromSequence: Nat, toSequence: Nat,
   fromStation: Stops \cup {0}, toStation: Stops \cup {0}]

ASSUME SeatRowsAssumption == SeatRows \subseteq Seats
ASSUME NumStopsAssumption == NumStops \in Nat
ASSUME RequestsAssumption == Requests \subseteq RequestType
ASSUME StatusKindsAssumption == StatusKinds \subseteq {"CONFIRMED", "CANCELLED"}
ASSUME NoneAssumption == None \notin Workers
ASSUME MaxFaultsAssumption == MaxFaults \in Nat

VARIABLES
  req,             \* req[b]: payload of b's HoldSeatsRequested event
  scheduleActive,  \* schedule_inventory.status = ACTIVE
  alloc,           \* alloc[b][s]: status of the seat_allocations row (b, s)
  history,         \* seat_allocation_history rows
  processed,       \* idempotency_records: keys of processed events
  replies,         \* replies[b]: kinds of reply rows in the outbox
  redisLocks,      \* inv:lock:seat:* keys, with the token that holds each
  rowLock,         \* rowLock[s]: worker whose transaction locks the seat row
  statusEvents,    \* BookingStatusChanged events on the topic
  pc,              \* pc[w]: where worker w stands in its handler
  cur,             \* cur[w]: the event w handles
  seen,            \* seen[w]: rows w's transaction read, with their status
  faults           \* faults so far

db == <<alloc, history, processed, replies>>
vars == <<req, scheduleActive, alloc, history, processed, replies, redisLocks,
          rowLock, statusEvents, pc, cur, seen, faults>>

RowStatus == {"HELD", "CONFIRMED", "CANCELLED"}
ActiveStatus == {"HELD", "CONFIRMED"}

(* Event keys: booking:hold:<id>, booking:confirm:<id>, booking:cancel:<id>. *)
HoldEvent(b) == [kind |-> "HOLD", booking |-> b]
StatusEvent(b, k) == [kind |-> k, booking |-> b]
HoldEvents == [kind: {"HOLD"}, booking: Bookings]
StatusEvents == [kind: StatusKinds, booking: Bookings]
Events == HoldEvents \cup StatusEvents

LockKeys == Seats \X (Stops \cup {0}) \X (Stops \cup {0})
HistoryRows ==
  [booking: Bookings, seat: Seats, old: RowStatus, new: RowStatus,
   event: Events]

InTransaction == {"rows", "overlap", "insert"}
HoldSteps ==
  {"schedule", "lock", "txBegin", "rows", "overlap", "insert",
   "fail", "failLocked", "failNotFound", "unlock"}
Steps == HoldSteps \cup {"idle", "stRead", "stWrite", "ack"}

TypeOK ==
  /\ req \in [Bookings -> Requests]
  /\ scheduleActive \in BOOLEAN
  /\ alloc \in [Bookings -> [Seats -> RowStatus \cup {"NONE"}]]
  /\ history \subseteq HistoryRows
  /\ processed \subseteq Events
  /\ replies \in [Bookings -> SUBSET {"SeatsHeld", "SeatsHoldFailed"}]
  /\ redisLocks \subseteq [key: LockKeys, token: Bookings]
  /\ rowLock \in [Seats -> Workers \cup {None}]
  /\ statusEvents \subseteq StatusEvents
  /\ pc \in [Workers -> Steps]
  /\ cur \in [Workers -> Events \cup {None}]
  /\ seen \in [Workers -> [Seats -> RowStatus \cup {"NONE"}]]
  /\ faults \in 0..MaxFaults

-----------------------------------------------------------------------------
(* Segment resolution: the sequence number is looked up first (0 and the   *)
(* Postgres maximum are the booking side's "not given"), the station next. *)

ResolveStop(sequence, station) ==
  IF sequence \in Stops THEN sequence ELSE station

FromStop(b) == ResolveStop(req[b].fromSequence, req[b].fromStation)
ToStop(b) == ResolveStop(req[b].toSequence, req[b].toStation)

resolveSegmentStops(b) ==
  /\ FromStop(b) \in Stops
  /\ ToStop(b) \in Stops
  /\ FromStop(b) < ToStop(b)

(* Redis keys of booking b's seats: exact segment, not each leg of it. *)
getLockKeys(b) == {<<s, FromStop(b), ToStop(b)>> : s \in req[b].seats}

Overlap(b, c) == FromStop(b) < ToStop(c) /\ ToStop(b) > FromStop(c)

Active(b, s) == alloc[b][s] \in ActiveStatus

hasOverlappingAllocation(b) ==
  \E c \in Bookings, s \in req[b].seats : Active(c, s) /\ Overlap(c, b)

NoRows == [s \in Seats |-> "NONE"]

-----------------------------------------------------------------------------
(* The seat map of a journey, a query: rows that are CONFIRMED, or HELD    *)
(* with time left (the bookings in expired have none), on an overlapping   *)
(* segment take their seat; of several rows the last one read is shown.    *)
resolveSeatMapSegmentStops(from, to) == {from, to} \subseteq Stops /\ from < to

(* Mutant: rows that cover the journey instead of rows that overlap it. *)
findActiveAllocationsCovering(s, from, to, expired) ==
  {b \in Bookings : /\ Active(b, s) /\ (alloc[b][s] = "HELD" => b \notin expired)
                    /\ FromStop(b) <= from /\ ToStop(b) >= to}

findActiveAllocationsBySegment(s, from, to, expired) ==
  {b \in Bookings : /\ Active(b, s) /\ (alloc[b][s] = "HELD" => b \notin expired)
                    /\ FromStop(b) < to /\ ToStop(b) > from}

(* What buildCoachesMap may show for seat s. *)
statusStr(s, from, to, expired) ==
  LET rows == findActiveAllocationsBySegment(s, from, to, expired)
  IN  IF rows = {} THEN {"AVAILABLE"}
      ELSE {IF alloc[b][s] = "CONFIRMED" THEN "BOOKED" ELSE "HELD" : b \in rows}

-----------------------------------------------------------------------------
Init ==
  /\ req \in [Bookings -> Requests]
  /\ scheduleActive = TRUE
  /\ alloc = [b \in Bookings |-> NoRows]
  /\ history = {}
  /\ processed = {}
  /\ replies = [b \in Bookings |-> {}]
  /\ redisLocks = {}
  /\ rowLock = [s \in Seats |-> None]
  /\ statusEvents = {}
  /\ pc = [w \in Workers |-> "idle"]
  /\ cur = [w \in Workers |-> None]
  /\ seen = [w \in Workers |-> NoRows]
  /\ faults = 0

Goto(w, step) == pc' = [pc EXCEPT ![w] = step]
Booking(w) == cur[w].booking

Idle(w) ==
  /\ Goto(w, "idle")
  /\ cur' = [cur EXCEPT ![w] = None]
  /\ seen' = [seen EXCEPT ![w] = NoRows]

(* The row locks a transaction holds go when it commits or rolls back. *)
FreeRows(w) ==
  rowLock' = [s \in Seats |-> IF rowLock[s] = w THEN None ELSE rowLock[s]]

-----------------------------------------------------------------------------
(* holdSeats.                                                              *)

(* 1. A delivery, first or repeated, and the idempotency check. *)
holdSeats(w, b) ==
  /\ pc[w] = "idle"
  /\ cur' = [cur EXCEPT ![w] = HoldEvent(b)]
  /\ Goto(w, IF HoldEvent(b) \in processed THEN "ack" ELSE "schedule")
  /\ UNCHANGED <<req, scheduleActive, db, redisLocks, rowLock, statusEvents, seen, faults>>

(* Mutant: an inactive schedule is answered by nobody. *)
rejectScheduleSilently == "ack"

(* Where an inactive schedule or a bad segment leads: to the fail reply. *)
rejectSchedule == "fail"

(* 2, 3. The schedule must be ACTIVE and the segment must resolve. *)
checkScheduleAndSegment(w) ==
  /\ pc[w] = "schedule"
  /\ Goto(w, IF scheduleActive /\ resolveSegmentStops(Booking(w))
               THEN "lock" ELSE rejectSchedule)
  /\ UNCHANGED <<req, scheduleActive, db, redisLocks, rowLock, statusEvents, cur, seen, faults>>

(* 5. Every requested seat must have an inventory row. *)
fetchSeatMap(b) == req[b].seats \subseteq SeatRows

(* 4. All keys at once, or none: seat-lock.lua rolls back a partial set.   *)
acquireSeatLocks(w) ==
  LET b == Booking(w)
      free == \A l \in redisLocks : l.key \notin getLockKeys(b)
  IN /\ pc[w] = "lock"
     /\ Goto(w, IF ~free THEN "fail"
                ELSE IF fetchSeatMap(b) THEN "txBegin" ELSE "failNotFound")
     /\ redisLocks' =
          IF free
            THEN redisLocks \cup {[key |-> k, token |-> b] : k \in getLockKeys(b)}
            ELSE redisLocks
     /\ UNCHANGED <<req, scheduleActive, db, rowLock, statusEvents, cur,
                    seen, faults>>

(* A Redis error is answered like a held seat: fail, nothing acquired.     *)
acquireSeatLocksError(w) ==
  /\ pc[w] = "lock"
  /\ faults < MaxFaults
  /\ faults' = faults + 1
  /\ Goto(w, "fail")
  /\ UNCHANGED <<req, scheduleActive, db, redisLocks, rowLock, statusEvents, cur, seen>>

(* 6. commitHoldTransaction, statement by statement.  A key found inside   *)
(* the transaction ends it: a delivery elsewhere already committed.        *)
txRecheck(w) ==
  /\ pc[w] = "txBegin"
  /\ Goto(w, IF cur[w] \in processed THEN "unlock" ELSE "rows")
  /\ UNCHANGED <<req, scheduleActive, db, redisLocks, rowLock, statusEvents, cur, seen, faults>>

(* Mutant: a plain SELECT, without FOR UPDATE, waits for nobody. *)
rowIsFreeWithoutForUpdate(s) == TRUE

(* A row another transaction has locked makes FOR UPDATE wait. *)
rowIsFree(s) == rowLock[s] = None

(* SELECT ... FOR UPDATE waits for one row after another, in whatever      *)
(* order the scan meets them: the statement has no ORDER BY.               *)
lockSeats(w, s) ==
  /\ pc[w] = "rows"
  /\ s \in req[Booking(w)].seats
  /\ rowIsFree(s)
  /\ rowLock' = [rowLock EXCEPT ![s] = w]
  /\ Goto(w, IF \A t \in req[Booking(w)].seats \ {s} : rowLock[t] = w
               THEN "overlap" ELSE "rows")
  /\ UNCHANGED <<req, scheduleActive, db, redisLocks, statusEvents, cur,
                 seen, faults>>

checkOverlap(w) ==
  /\ pc[w] = "overlap"
  /\ IF hasOverlappingAllocation(Booking(w))
       THEN Goto(w, "failLocked") /\ FreeRows(w)
       ELSE Goto(w, "insert") /\ UNCHANGED rowLock
  /\ UNCHANGED <<req, scheduleActive, db, redisLocks, statusEvents, cur,
                 seen, faults>>

(* Mutant: the rows are upserted, a second insert overwrites the first. *)
keysAreNewUpsert(w) == TRUE

(* The unique keys of seat_allocations and idempotency_records: a          *)
(* violation rolls the transaction back.                                   *)
keysAreNew(w) ==
  /\ \A s \in req[Booking(w)].seats : alloc[Booking(w)][s] = "NONE"
  /\ cur[w] \notin processed

(* The idempotency record the hold transaction writes. *)
holdKey(w) == {cur[w]}

(* Insert the rows, their history, the idempotency record and the reply,   *)
(* and commit.  The unique keys (bookingId, seatInventoryId) and eventKey  *)
(* turn a second insert into INTERNAL_ERROR.                               *)
commitHold(w) ==
  LET b == Booking(w)
      seats == req[b].seats
  IN /\ pc[w] = "insert"
     /\ IF keysAreNew(w)
          THEN /\ alloc' = [alloc EXCEPT ![b] =
                    [s \in Seats |-> IF s \in seats THEN "HELD" ELSE alloc[b][s]]]
               /\ history' = history \cup
                    {[booking |-> b, seat |-> s, old |-> "HELD",
                      new |-> "HELD", event |-> cur[w]] : s \in seats}
               /\ processed' = processed \cup holdKey(w)
               /\ replies' = [replies EXCEPT ![b] = @ \cup {"SeatsHeld"}]
               /\ Goto(w, "unlock")
          ELSE UNCHANGED db /\ Goto(w, "failLocked")
     /\ FreeRows(w)
     /\ UNCHANGED <<req, scheduleActive, redisLocks, statusEvents, cur,
                    seen, faults>>

(* Any other error of the transaction: rolled back, reported as            *)
(* INTERNAL_ERROR.                                                         *)
txError(w) ==
  /\ pc[w] \in {"txBegin"} \cup InTransaction
  /\ faults < MaxFaults
  /\ faults' = faults + 1
  /\ FreeRows(w)
  /\ Goto(w, "failLocked")
  /\ UNCHANGED <<req, scheduleActive, db, redisLocks, statusEvents, cur,
                 seen>>

(* Two transactions that wait for each other's rows: Postgres aborts one.  *)
deadlockDetected(w) ==
  /\ pc[w] = "rows"
  /\ \E v \in Workers \ {w} :
       /\ pc[v] = "rows"
       /\ \E s \in req[Booking(w)].seats : rowLock[s] = v
       /\ \E s \in req[Booking(v)].seats : rowLock[s] = w
  /\ FreeRows(w)
  /\ Goto(w, "failLocked")
  /\ UNCHANGED <<req, scheduleActive, db, redisLocks, statusEvents, cur,
                 seen, faults>>

(* Mutant: a conflict found inside the transaction is logged, not answered.*)
failReplyLoggedOnly(w) == IF pc[w] = "failLocked" THEN {} ELSE {"SeatsHoldFailed"}

(* The row fail inserts into the outbox. *)
failReply(w) == {"SeatsHoldFailed"}

(* fail: the SeatsHoldFailed reply, in a transaction of its own.  No       *)
(* idempotency record is written.  "failNotFound" is returned unawaited    *)
(* from the try block, so its lock release runs beside it.                 *)
fail(w) ==
  /\ pc[w] \in {"fail", "failLocked", "failNotFound"}
  /\ replies' = [replies EXCEPT ![Booking(w)] = @ \cup failReply(w)]
  /\ Goto(w, IF pc[w] = "fail" THEN "ack" ELSE "unlock")
  /\ UNCHANGED <<req, scheduleActive, alloc, history, processed, redisLocks,
                 rowLock, statusEvents, cur, seen, faults>>

(* 7. finally: delete the keys that still hold this booking's token.       *)
releaseSeatLocks(w) ==
  /\ pc[w] \in {"unlock", "failNotFound"}
  /\ redisLocks' = {l \in redisLocks :
                      ~(l.key \in getLockKeys(Booking(w)) /\ l.token = Booking(w))}
  /\ Goto(w, IF pc[w] = "unlock" THEN "ack" ELSE "fail")
  /\ UNCHANGED <<req, scheduleActive, db, rowLock, statusEvents, cur,
                 seen, faults>>

(* releaseSeatLocks swallows a Redis error: the keys wait for their TTL.   *)
releaseSeatLocksError(w) ==
  /\ pc[w] \in {"unlock", "failNotFound"}
  /\ faults < MaxFaults
  /\ faults' = faults + 1
  /\ Goto(w, IF pc[w] = "unlock" THEN "ack" ELSE "fail")
  /\ UNCHANGED <<req, scheduleActive, db, redisLocks, rowLock, statusEvents, cur, seen>>

(* The 30 s TTL may pass while the holder is still in its transaction.     *)
lockExpires(l) ==
  /\ l \in redisLocks
  /\ redisLocks' = redisLocks \ {l}
  /\ UNCHANGED <<req, scheduleActive, db, rowLock, statusEvents, pc, cur,
                 seen, faults>>

-----------------------------------------------------------------------------
(* confirmSeats and cancelSeats.                                           *)

handleStatusChanged(w, e) ==
  /\ pc[w] = "idle"
  /\ e \in statusEvents
  /\ cur' = [cur EXCEPT ![w] = e]
  /\ Goto(w, IF e \in processed THEN "ack" ELSE "stRead")
  /\ UNCHANGED <<req, scheduleActive, db, redisLocks, rowLock, statusEvents, seen, faults>>

(* Inside the transaction: the key again, then the booking's rows. *)
findByBookingId(w) ==
  /\ pc[w] = "stRead"
  /\ Goto(w, IF cur[w] \in processed THEN "ack" ELSE "stWrite")
  /\ seen' = [seen EXCEPT ![w] = alloc[Booking(w)]]
  /\ UNCHANGED <<req, scheduleActive, db, redisLocks, rowLock, statusEvents, cur, faults>>

(* Mutant: both updates run with WHERE status = HELD. *)
SourceStatusHeldOnly(kind) == {"HELD"}

(* The statuses an event of this kind moves to its own. *)
SourceStatus(kind) ==
  IF kind = "CONFIRMED" THEN {"HELD"} ELSE ActiveStatus

(* Mutant: update instead of updateMany, one row of the booking. *)
updatedRowsFirst(w) ==
  {CHOOSE s \in req[Booking(w)].seats : TRUE}

(* The rows the WHERE clause of updateMany selects as they are now. *)
updatedRows(w) ==
  {s \in Seats : alloc[Booking(w)][s] \in SourceStatus(cur[w].kind)}

(* The rows that were read in a status to be left. *)
auditedRows(w) == {s \in Seats : seen[w][s] \in SourceStatus(cur[w].kind)}

(* Mutant: the event is applied but never recorded. *)
statusKeyForgotten(w) == {}

(* The idempotency record of a confirmation or cancellation. *)
statusKey(w) == {cur[w]}

(* updateMany re-evaluates its WHERE on the rows as they are now; the      *)
(* history rows are built from what was read.  Nothing read: only the key. *)
updateManyStatus(w) ==
  LET b == Booking(w)
      kind == cur[w].kind
      noneRead == \A s \in Seats : seen[w][s] \notin SourceStatus(kind)
  IN /\ alloc' = IF noneRead THEN alloc ELSE
          [alloc EXCEPT ![b] =
             [s \in Seats |-> IF s \in updatedRows(w) THEN kind ELSE alloc[b][s]]]
     /\ history' = history \cup
          {[booking |-> b, seat |-> s, old |-> seen[w][s], new |-> kind,
            event |-> cur[w]] : s \in auditedRows(w)}
     /\ processed' = processed \cup statusKey(w)

(* The unique eventKey rolls a second commit of the same event back and    *)
(* the handler throws: the message comes again.                            *)
commitStatus(w) ==
  /\ pc[w] = "stWrite"
  /\ IF cur[w] \in processed
       THEN /\ UNCHANGED <<alloc, history, processed>>
            /\ Idle(w)
       ELSE /\ updateManyStatus(w)
            /\ Goto(w, "ack")
            /\ seen' = [seen EXCEPT ![w] = NoRows]
            /\ UNCHANGED cur
  /\ UNCHANGED <<req, scheduleActive, replies, redisLocks, rowLock,
                 statusEvents, faults>>

-----------------------------------------------------------------------------
(* The consumer loop and its surroundings.                                 *)

(* eachMessage returned: the offset may be committed. *)
commitOffset(w) ==
  /\ pc[w] = "ack"
  /\ Idle(w)
  /\ UNCHANGED <<req, scheduleActive, db, redisLocks, rowLock, statusEvents,
                 faults>>

(* The instance dies, or an error leaves the handler: an open transaction  *)
(* rolls back, Redis keys stay, the offset is not committed.               *)
crash(w) ==
  /\ pc[w] # "idle"
  /\ faults < MaxFaults
  /\ faults' = faults + 1
  /\ FreeRows(w)
  /\ Idle(w)
  /\ UNCHANGED <<req, scheduleActive, db, redisLocks, statusEvents>>

(* The booking service confirms or cancels a booking whose seats it knows  *)
(* to be held; its outbox may deliver the two in either order.             *)
publishStatus(b, k) ==
  /\ "SeatsHeld" \in replies[b]
  /\ StatusEvent(b, k) \notin statusEvents
  /\ statusEvents' = statusEvents \cup {StatusEvent(b, k)}
  /\ UNCHANGED <<req, scheduleActive, db, redisLocks, rowLock, pc, cur,
                 seen, faults>>

(* ScheduleService.processStatusChanged: an administrator cancels the      *)
(* schedule, or takes the cancellation back.                               *)
processStatusChanged ==
  /\ scheduleActive' = ~scheduleActive
  /\ UNCHANGED <<req, db, redisLocks, rowLock, statusEvents, pc, cur,
                 seen, faults>>

HoldStep(w) ==
  \/ checkScheduleAndSegment(w) \/ acquireSeatLocks(w)
  \/ txRecheck(w) \/ (\E s \in Seats : lockSeats(w, s)) \/ checkOverlap(w)
  \/ commitHold(w) \/ deadlockDetected(w) \/ fail(w) \/ releaseSeatLocks(w)

StatusStep(w) == findByBookingId(w) \/ commitStatus(w)

Fault(w) ==
  \/ acquireSeatLocksError(w) \/ txError(w) \/ releaseSeatLocksError(w)
  \/ crash(w)

Next ==
  \/ \E w \in Workers :
       \/ \E b \in Bookings : holdSeats(w, b)
       \/ \E e \in statusEvents : handleStatusChanged(w, e)
       \/ HoldStep(w)
       \/ StatusStep(w)
       \/ commitOffset(w)
       \/ Fault(w)
  \/ \E l \in redisLocks : lockExpires(l)
  \/ \E b \in Bookings, k \in StatusKinds : publishStatus(b, k)
  \/ processStatusChanged

Spec == Init /\ [][Next]_vars

(* A started handler runs on, and Kafka offers an event until its offset   *)
(* is committed, which NoHoldSkipped and StatusApplied put after the reply *)
(* and after the idempotency record.                                       *)
Fairness ==
  /\ \A w \in Workers :
       WF_vars(HoldStep(w) \/ StatusStep(w) \/ commitOffset(w))
  /\ \A b \in Bookings :
       SF_vars(replies[b] = {} /\ \E w \in Workers : holdSeats(w, b))
  /\ \A e \in StatusEvents :
       SF_vars(e \notin processed /\ \E w \in Workers : handleStatusChanged(w, e))

FairSpec == Spec /\ Fairness

-----------------------------------------------------------------------------
(* Properties.                                                             *)

(* No seat is sold twice: two bookings never hold or own the same seat on  *)
(* overlapping legs (hasOverlappingAllocation under the row locks of       *)
(* commitHoldTransaction).                                                 *)
NoDoubleBooking ==
  \A b, c \in Bookings, s \in Seats :
    b # c /\ Active(b, s) /\ Active(c, s) => ~Overlap(b, c)

(* A booking that was told SeatsHeld, and is not cancelled, keeps its      *)
(* seats: no seat map of an overlapping journey offers one of them before  *)
(* the hold's time is up, and after the confirmation none ever does,       *)
(* whichever bookings share the seat on other legs (the outbox row of      *)
(* commitHoldTransaction against getSeatMapData).                          *)
HeldSeatsNotOffered ==
  \A b \in Bookings, from, to \in Stops :
    LET offered(s, expired) == "AVAILABLE" \in statusStr(s, from, to, expired)
    IN  /\ "SeatsHeld" \in replies[b] /\ StatusEvent(b, "CANCELLED") \notin processed
        /\ resolveSeatMapSegmentStops(from, to) /\ FromStop(b) < to /\ ToStop(b) > from
        => \A s \in req[b].seats :
             /\ ~offered(s, {})
             /\ StatusEvent(b, "CONFIRMED") \in processed => ~offered(s, Bookings)

(* "a crash mid-handler results in a replay rather than a skip"            *)
(* (hold-seats.consumer.ts:28): no offset of a hold request is committed   *)
(* before a reply to the booking service is in the outbox.                 *)
NoHoldSkipped ==
  \A w \in Workers :
    pc[w] = "ack" /\ cur[w].kind = "HOLD" => replies[Booking(w)] # {}

(* A confirmation or cancellation that is recorded as processed has been   *)
(* applied: the booking has no HELD row any more, and after a cancellation *)
(* no active one, even when the two were delivered in the wrong order or   *)
(* both at once; and its offset is committed only then.                    *)
StatusApplied ==
  /\ \A b \in Bookings, s \in Seats :
       /\ StatusEvent(b, "CONFIRMED") \in processed => alloc[b][s] # "HELD"
       /\ StatusEvent(b, "CANCELLED") \in processed => ~Active(b, s)
  /\ \A w \in Workers :
       pc[w] = "ack" /\ cur[w].kind # "HOLD" => cur[w] \in processed

(* A released seat stays released and a confirmed one is never demoted to  *)
(* HELD, although hold, confirm and cancel may be redelivered at any time. *)
StatusOnlyAdvances ==
  [][\A b \in Bookings, s \in Seats :
       LET old == alloc[b][s]
           new == alloc'[b][s]
       IN old # new => \/ old = "NONE" /\ new = "HELD"
                       \/ old = "HELD" /\ new \in {"CONFIRMED", "CANCELLED"}
                       \/ old = "CONFIRMED" /\ new = "CANCELLED"]_vars

(* Every hold request is answered: some reply reaches the outbox, however  *)
(* deliveries race, locks expire and transactions deadlock, once faults    *)
(* stop.                                                                   *)
HoldAnswered == \A b \in Bookings : <>(replies[b] # {})

(* Every published confirmation or cancellation is eventually applied.     *)
StatusHandled ==
  \A b \in Bookings, k \in StatusKinds :
    StatusEvent(b, k) \in statusEvents ~> StatusEvent(b, k) \in processed

=============================================================================
