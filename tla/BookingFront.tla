---------------------------- MODULE BookingFront ----------------------------
(***************************************************************************)
(* The front of the booking service: POST /bookings with its HTTP          *)
(* idempotency key, the pre-flight calls to the inventory, the seat locks  *)
(* in Redis and the one transaction that creates a booking; and the live   *)
(* status stream, from the events a booking records over the broadcaster   *)
(* and Redis pub/sub to the open browser tabs.                             *)
(*                                                                         *)
(* What happens to a booking after its creation is BookingLifecycle's      *)
(* matter: here a change of status is a step to the next version.          *)
(***************************************************************************)
EXTENDS Naturals, FiniteSets

CONSTANTS Callers,      \* clients that post a booking until they are answered
          Scenarios,    \* what the callers may ask for: a set of functions
          SeatInventory,\* seats the inventory knows
          RouteStops,   \* stations the schedule stops at
          Ids,          \* booking ids (an id nothing names is reused)
          Streams,      \* browser tabs
          Users,
          MaxSeats,     \* createBookingSchema: at most 6 seats
          MaxVersion,   \* bound: status changes of one booking
          MaxFaults,    \* bound: crashes, Redis, database and network errors
          None

ASSUME BoundsAssumption == MaxVersion \in Nat \ {0} /\ MaxFaults \in Nat
ASSUME NoneAssumption ==
  None \notin Ids /\ None \notin [by : Callers, version : 1..MaxVersion]

VARIABLES
  dto,          \* what each caller posts, the same on every retry
  call,         \* the running createBooking of each caller
  reply,        \* the last answer each caller got
  bookings,     \* booking rows: who asked for it and its version
  idempotency,  \* booking_idempotency_keys
  holdRequests, \* bookings whose HOLD_SEATS_REQUESTED is in the outbox
  locks,        \* Redis: lock key -> token (the booking id)
  lapsed,       \* ghost: ids whose locks ran out or were given back by them
  schedule,     \* the inventory's schedule: ACTIVE, INACTIVE or DEPARTED
  topic,        \* booking.status_changed: every message recorded so far
  handled,      \* messages the broadcaster's group has committed
  stream,       \* the SSE connection of each tab
  faults

bookingVars == <<dto, call, reply, bookings, idempotency, holdRequests, locks,
                 lapsed, schedule>>
vars == <<dto, call, reply, bookings, idempotency, holdRequests, locks, lapsed,
          schedule, topic, handled, stream, faults>>

-----------------------------------------------------------------------------
(* The request.                                                            *)

Created(i) == [is |-> "created", id |-> i]
Rejected == [is |-> "rejected", id |-> None]   \* 400, 404, 409 for good
Unanswered == [is |-> "none", id |-> None]     \* nothing yet, or 409 on a lock, 500

answered(c) == reply[c].is \in {"created", "rejected"}

validDto(d) ==
  /\ Cardinality(d.seatIds) \in 1..MaxSeats
  /\ d.passengers = Cardinality(d.seatIds)

(* Given legs win; else the legs between the stops; an empty list and an   *)
(* absent journey both lock the whole seat (leg 0 below).                  *)
legIndices(d) ==
  IF d.legIndices # None THEN d.legIndices
  ELSE IF d.toSequence > d.fromSequence
       THEN d.fromSequence .. (d.toSequence - 1)
       ELSE {}

getLockKeys(d) ==
  d.seatIds \X (IF legIndices(d) = {} THEN {0} ELSE legIndices(d))

LockKeys == UNION {getLockKeys(s[c]) : s \in Scenarios, c \in Callers}
Keys == {s[c].idempotencyKey : s \in Scenarios, c \in Callers}

(* The lock script sets every key or none; the unlock script deletes the   *)
(* keys that carry the caller's token.                                     *)
lockable(keys) == \A k \in keys : locks[k] = None
lockScript(keys, id) == [k \in LockKeys |-> IF k \in keys THEN id ELSE locks[k]]
unlockScriptAnyOwner(keys, id) ==
  [k \in LockKeys |-> IF k \in keys THEN None ELSE locks[k]]
unlockScript(keys, id) ==
  [k \in LockKeys |-> IF k \in keys /\ locks[k] = id THEN None ELSE locks[k]]

(* SET ... EX: the keys of one script call end together.                   *)
expiresNever(id) == FALSE
expires(id) == \E k \in LockKeys : locks[k] = id

(* A fresh UUID: an id that no row, lock or running call names.            *)
freshIds == {i \in Ids : /\ bookings[i] = None
                         /\ \A k \in LockKeys : locks[k] # i
                         /\ \A c \in Callers : call[c].id # i}
newId == CHOOSE i \in freshIds : TRUE

Idle == [at |-> "idle", id |-> None]

Events == [id : Ids, version : 1..MaxVersion]

TypeOK ==
  /\ dto \in Scenarios
  /\ call \in [Callers -> [at : {"idle", "preflight", "lock", "recheck",
                                 "write", "release"},
                           id : Ids \cup {None}]]
  /\ reply \in [Callers -> [is : {"none", "created", "rejected"},
                            id : Ids \cup {None}]]
  /\ bookings \in [Ids -> [by : Callers, version : 1..MaxVersion] \cup {None}]
  /\ idempotency \in [Keys -> Ids \cup {None}]
  /\ holdRequests \subseteq Ids
  /\ locks \in [LockKeys -> Ids \cup {None}]
  /\ lapsed \subseteq Ids
  /\ schedule \in {"ACTIVE", "INACTIVE", "DEPARTED"}
  /\ topic \subseteq Events
  /\ handled \subseteq topic
  /\ stream \in [Streams -> [at : {"closed", "opening", "subscribed",
                                   "listening", "dropped"},
                             id : Ids \cup {None}, gone : BOOLEAN,
                             heard : SUBSET (1..MaxVersion)]]
  /\ faults \in 0..MaxFaults

Closed == [at |-> "closed", id |-> None, gone |-> FALSE, heard |-> {}]

Init ==
  /\ dto \in Scenarios
  /\ call = [c \in Callers |-> Idle]
  /\ reply = [c \in Callers |-> Unanswered]
  /\ bookings = [i \in Ids |-> None]
  /\ idempotency = [k \in Keys |-> None]
  /\ holdRequests = {}
  /\ locks = [k \in LockKeys |-> None]
  /\ lapsed = {}
  /\ schedule = "ACTIVE"
  /\ topic = {}
  /\ handled = {}
  /\ stream = [s \in Streams |-> Closed]
  /\ faults = 0

-----------------------------------------------------------------------------
(* createBooking.                                                          *)

fault == faults < MaxFaults /\ faults' = faults + 1
goto(c, at) == call' = [call EXCEPT ![c].at = at]
answer(c, r) == /\ call' = [call EXCEPT ![c] = Idle]
                /\ reply' = [reply EXCEPT ![c] = r]

(* The route's schema check and the fast path on the idempotency key.      *)
Post(c) ==
  /\ call[c].at = "idle" /\ ~answered(c)
  /\ LET key == dto[c].idempotencyKey IN
       \/ ~validDto(dto[c]) /\ answer(c, Rejected)
       \/ /\ validDto(dto[c]) /\ idempotency[key] # None
          /\ answer(c, Created(idempotency[key]))
       \/ /\ validDto(dto[c]) /\ idempotency[key] = None
          /\ goto(c, "preflight") /\ UNCHANGED reply
  /\ UNCHANGED <<dto, bookings, idempotency, holdRequests, locks, lapsed,
                 schedule, topic, handled, stream, faults>>

(* The inventory's side of the two pre-flight calls: the gRPC requests'    *)
(* schemas, and the rows the service reads. A journey over stations the    *)
(* schedule does not serve counts as an inactive schedule.                 *)
validateBookingRequestSchema(d) == d.from # d.to
findStopsByScheduleAndStations(d) == {d.from, d.to} \cap RouteStops

validateBooking(d) ==
  IF schedule = "INACTIVE" \/ Cardinality(findStopsByScheduleAndStations(d)) < 2
  THEN "SCHEDULE_INACTIVE"
  ELSE IF schedule = "DEPARTED" THEN "TRAIN_ALREADY_DEPARTED" ELSE "OK"

findByScheduleAndSeats(seats) == seats \cap SeatInventory
getSeatsDetailsBatch(d) == findByScheduleAndSeats(d.seatIds)

handlerValidateBooking(d) ==
  IF validateBookingRequestSchema(d) THEN validateBooking(d) ELSE "INVALID_ARGUMENT"
handlerSeatsDetails(d) == getSeatsDetailsBatch(d)

(* ValidateBooking and GetSeatsDetailsBatch: no row, lock or event is      *)
(* there yet when they refuse.                                             *)
Preflight(c) ==
  /\ call[c].at = "preflight"
  /\ IF /\ handlerValidateBooking(dto[c]) = "OK"
        /\ handlerSeatsDetails(dto[c]) = dto[c].seatIds
     THEN goto(c, "lock") /\ UNCHANGED reply
     ELSE answer(c, Rejected)
  /\ UNCHANGED <<dto, bookings, idempotency, holdRequests, locks, lapsed,
                 schedule, topic, handled, stream, faults>>

AcquireSeatLocks(c) ==
  /\ call[c].at = "lock"
  /\ IF lockable(getLockKeys(dto[c]))
     THEN /\ freshIds # {}
          /\ locks' = lockScript(getLockKeys(dto[c]), newId)
          /\ lapsed' = lapsed \ {newId}
          /\ call' = [call EXCEPT ![c] = [at |-> "recheck", id |-> newId]]
          /\ UNCHANGED reply
     ELSE answer(c, Unanswered) /\ UNCHANGED <<locks, lapsed>>
  /\ UNCHANGED <<dto, bookings, idempotency, holdRequests, schedule, topic,
                 handled, stream, faults>>

(* Inside the transaction a second look at the key: a booking that another *)
(* call made in between is the answer, and this call's locks stay.         *)
Recheck(c) ==
  /\ call[c].at = "recheck"
  /\ LET key == dto[c].idempotencyKey IN
       IF idempotency[key] # None
       THEN answer(c, Created(idempotency[key]))
       ELSE goto(c, "write") /\ UNCHANGED reply
  /\ UNCHANGED <<dto, bookings, idempotency, holdRequests, locks, lapsed,
                 schedule, topic, handled, stream, faults>>

(* createIdempotencyKey: the column is unique.                             *)
keyIsNewUnchecked(key) == TRUE
keyIsNew(key) == idempotency[key] = None

(* The booking row; its seats and passengers are those of the dto.         *)
create(c) == [by |-> c, version |-> 1]

(* Booking, seats and passengers, the PENDING status event, three saga     *)
(* rows, the hold request and the key, in one commit.                      *)
commitBooking(c) ==
  /\ bookings' = [bookings EXCEPT ![call[c].id] = create(c)]
  /\ topic' = topic \cup {[id |-> call[c].id, version |-> 1]}
  /\ holdRequests' = holdRequests \cup {call[c].id}
  /\ idempotency' =
       [idempotency EXCEPT ![dto[c].idempotencyKey] = call[c].id]

Write(c) ==
  /\ call[c].at = "write"
  /\ IF keyIsNew(dto[c].idempotencyKey)
     THEN commitBooking(c) /\ answer(c, Created(call[c].id))
     ELSE /\ goto(c, "release")
          /\ UNCHANGED <<reply, bookings, topic, holdRequests, idempotency>>
  /\ UNCHANGED <<dto, locks, lapsed, schedule, handled, stream, faults>>

(* releaseSeatLocks after a failed transaction; the error goes on.         *)
ReleaseSeatLocks(c) ==
  /\ call[c].at = "release"
  /\ locks' = unlockScript(getLockKeys(dto[c]), call[c].id)
  /\ lapsed' = lapsed \cup {call[c].id}
  /\ answer(c, Unanswered)
  /\ UNCHANGED <<dto, bookings, idempotency, holdRequests, schedule, topic,
                 handled, stream, faults>>

(* A call that throws before the locks, a lock script whose answer is      *)
(* lost (acquireSeatLocks says false, nobody unlocks), an unlock script    *)
(* that fails (swallowed) and a process that dies: the caller sees an      *)
(* error and whatever is locked stays so until it expires.                 *)
Breaks(c) ==
  /\ call[c].at # "idle" /\ fault
  /\ \/ UNCHANGED <<locks, lapsed>>
     \/ /\ call[c].at = "lock" /\ lockable(getLockKeys(dto[c]))
        /\ freshIds # {}
        /\ locks' = lockScript(getLockKeys(dto[c]), newId)
        /\ lapsed' = lapsed \ {newId}
  /\ answer(c, Unanswered)
  /\ UNCHANGED <<dto, bookings, idempotency, holdRequests, schedule, topic,
                 handled, stream>>

(* The transaction is reported as failed: it rolled back, or its commit    *)
(* went through and the answer was lost.                                   *)
TransactionFails(c) ==
  /\ call[c].at \in {"recheck", "write"} /\ fault
  /\ goto(c, "release")
  /\ \/ UNCHANGED <<bookings, topic, holdRequests, idempotency>>
     \/ /\ call[c].at = "write" /\ keyIsNew(dto[c].idempotencyKey)
        /\ commitBooking(c)
  /\ UNCHANGED <<dto, reply, locks, lapsed, schedule, handled, stream>>

LocksExpire(id) ==
  /\ expires(id)
  /\ locks' = [k \in LockKeys |-> IF locks[k] = id THEN None ELSE locks[k]]
  /\ lapsed' = lapsed \cup {id}
  /\ UNCHANGED <<dto, call, reply, bookings, idempotency, holdRequests,
                 schedule, topic, handled, stream, faults>>

(* Bound: what becomes of the schedule matters while a call may still ask. *)
StillAsked == \E c \in Callers : ~answered(c) /\ call[c].at \in {"idle", "preflight"}

ScheduleCloses ==
  /\ schedule = "ACTIVE" /\ StillAsked
  /\ schedule' \in {"INACTIVE", "DEPARTED"}
  /\ UNCHANGED <<dto, call, reply, bookings, idempotency, holdRequests, locks,
                 lapsed, topic, handled, stream, faults>>

-----------------------------------------------------------------------------
(* The live status stream.                                                 *)

(* findByIdForUser and the stream's own check: 404 and 403 otherwise.      *)
ownedBy(u, id) == bookings[id] # None /\ dto[bookings[id].by].userId = u

(* A transition of BookingLifecycle: a saga step, or the owner's cancel or *)
(* pay request. It takes the next version and records its event with it.   *)
StatusChanges(id) ==
  /\ bookings[id] # None /\ bookings[id].version < MaxVersion
  /\ LET v == bookings[id].version + 1 IN
       /\ bookings' = [bookings EXCEPT ![id].version = v]
       /\ topic' = topic \cup {[id |-> id, version |-> v]}
  /\ UNCHANGED <<dto, call, reply, idempotency, holdRequests, locks, lapsed,
                 schedule, handled, stream, faults>>

publish(m) ==
  [s \in Streams |-> IF stream[s].id = m.id /\ stream[s].at = "listening"
                     THEN [stream[s] EXCEPT !.heard = @ \cup {m.version}]
                     ELSE stream[s]]

(* The broadcaster takes a message, publishes it and commits; a message    *)
(* that was handled may come again.  (A message that is null or does not   *)
(* parse is committed and changes nothing here.)                           *)
Handle(m) ==
  /\ m \in topic
  /\ \/ m \notin handled /\ UNCHANGED faults
     \/ m \in handled /\ fault
  /\ stream' = publish(m)
  /\ handled' = handled \cup {m}
  /\ UNCHANGED <<bookingVars, topic>>

(* A publish that fails is thrown on: nothing is committed, the message    *)
(* comes back.                                                             *)
committedOnFailureAnyway(m) == {m}
committedOnFailure(m) == {}

PublishFails(m) ==
  /\ m \in topic \ handled /\ fault
  /\ handled' = handled \cup committedOnFailure(m)
  /\ UNCHANGED <<bookingVars, topic, stream>>

(* The tab opens the stream: owner check, headers and the connected event; *)
(* then subscribe is sent, and its answer comes a message or more before   *)
(* the handler is attached.                                                *)
Open(s, u, id) ==
  /\ stream[s].at = "closed" /\ ownedBy(u, id)
  /\ stream' = [stream EXCEPT ![s] = [Closed EXCEPT !.at = "opening", !.id = id]]
  /\ UNCHANGED <<bookingVars, topic, handled, faults>>

Subscribe(s) ==
  /\ stream[s].at = "opening"
  /\ stream' = [stream EXCEPT ![s].at = "subscribed"]
  /\ UNCHANGED <<bookingVars, topic, handled, faults>>

Listen(s) ==
  /\ stream[s].at = "subscribed"
  /\ stream' = [stream EXCEPT ![s].at = "listening"]
  /\ UNCHANGED <<bookingVars, topic, handled, faults>>

(* The tab goes away. cleanup runs on the close event, and its handler is  *)
(* attached last: a tab that leaves while the stream is still being set    *)
(* up leaves the subscriber behind, listening for nobody.                  *)
cleansUp(s) == stream[s].at \in {"listening", "dropped"}

Leave(s) ==
  /\ stream[s].at # "closed" /\ ~stream[s].gone
  /\ stream' = [stream EXCEPT ![s] =
                  IF cleansUp(s) THEN Closed ELSE [@ EXCEPT !.gone = TRUE]]
  /\ UNCHANGED <<bookingVars, topic, handled, faults>>

(* The subscriber's connection breaks and ioredis subscribes it again.     *)
Drop(s) ==
  /\ stream[s].at = "listening" /\ fault
  /\ stream' = [stream EXCEPT ![s].at = "dropped"]
  /\ UNCHANGED <<bookingVars, topic, handled>>

Resubscribe(s) ==
  /\ stream[s].at = "dropped"
  /\ stream' = [stream EXCEPT ![s].at = "listening"]
  /\ UNCHANGED <<bookingVars, topic, handled, faults>>

-----------------------------------------------------------------------------

CallStep(c) == \/ Post(c) \/ Preflight(c) \/ AcquireSeatLocks(c) \/ Recheck(c)
               \/ Write(c) \/ ReleaseSeatLocks(c)

StreamStep(s) == Subscribe(s) \/ Listen(s) \/ Resubscribe(s)

Next ==
  \/ \E c \in Callers : CallStep(c) \/ Breaks(c) \/ TransactionFails(c)
  \/ \E id \in Ids : LocksExpire(id) \/ StatusChanges(id)
  \/ ScheduleCloses
  \/ \E m \in Events : Handle(m) \/ PublishFails(m)
  \/ \E s \in Streams : StreamStep(s) \/ Leave(s) \/ Drop(s)
  \/ \E s \in Streams, u \in Users, id \in Ids : Open(s, u, id)

Spec == Init /\ [][Next]_vars

(* Running calls go on, a caller without a final answer posts again, keys  *)
(* expire, and the broadcaster's consumer goes on reading.                 *)
Fairness ==
  /\ \A c \in Callers : WF_vars(CallStep(c))
  /\ \A id \in Ids : WF_vars(LocksExpire(id))
  /\ \A m \in Events : WF_vars(Handle(m) /\ m \notin handled)
  /\ \A s \in Streams : WF_vars(StreamStep(s))

FairSpec == Spec /\ Fairness

-----------------------------------------------------------------------------
(* One idempotency key stands for one booking: however the calls with it   *)
(* overlap, fail and are retried, at most one row is made under it, every  *)
(* caller that is told a booking was created is told that one, and its     *)
(* hold request is recorded (createBooking, the key's unique column).      *)
OneBookingPerKey ==
  /\ \A i, j \in {n \in Ids : bookings[n] # None} :
       dto[bookings[i].by].idempotencyKey = dto[bookings[j].by].idempotencyKey
         => i = j
  /\ \A c \in Callers : reply[c].is = "created" =>
       /\ reply[c].id = idempotency[dto[c].idempotencyKey]
       /\ bookings[reply[c].id] # None
       /\ reply[c].id \in holdRequests

(* A booking keeps every one of its seat locks until they expire or its    *)
(* own call gives them back: no other call's acquisition, rollback or late *)
(* release takes one away (seat-lock.lua, seat-unlock.lua).                *)
LocksKeptForOwner ==
  \A i \in Ids : bookings[i] # None /\ i \notin lapsed =>
    \A k \in getLockKeys(dto[bookings[i].by]) : locks[k] = i

(* A caller that keeps trying is answered in the end, with its booking or  *)
(* with a refusal that is final: seats locked by a call that failed, died  *)
(* or lost the race for its key come free again.                           *)
RetryIsAnswered == \A c \in Callers : <>answered(c)

(* A change recorded while a tab is listening to the booking, and not yet  *)
(* broadcast, reaches that tab unless it leaves or loses its connection:   *)
(* a failed publish is repeated, never skipped (BookingEventBroadcaster).  *)
NewsReachesListener ==
  \A s \in Streams, v \in 1..MaxVersion :
    (/\ stream[s].at = "listening"
     /\ [id |-> stream[s].id, version |-> v] \in topic \ handled)
      ~> (v \in stream[s].heard \/ stream[s].at # "listening")
=============================================================================
