------------------------ MODULE SeatAllocationProofs ------------------------
(* Proofs about SeatAllocation, for any bookings, seats, consumer          *)
(* instances, routes and requests.                                         *)
EXTENDS SeatAllocation, TLAPS

(* The handler a worker runs is one for the kind of event it took. *)
HandlerFitsEvent ==
  \A w \in Workers :
    /\ pc[w] \in HoldSteps => cur[w] \in HoldEvents
    /\ pc[w] \in {"stRead", "stWrite"} => cur[w] \in StatusEvents

TypeInv == TypeOK /\ HandlerFitsEvent

(* From the overlap check to the commit, a transaction holds the row lock  *)
(* of every seat it was asked for.                                         *)
RowsLocked ==
  \A w \in Workers : pc[w] \in {"overlap", "insert"} =>
    \A s \in req[Booking(w)].seats : rowLock[s] = w

(* The answer of the overlap check is not stale when the rows are inserted. *)
CheckStillHolds ==
  \A w \in Workers : pc[w] = "insert" => ~hasOverlappingAllocation(Booking(w))

Inv == TypeInv /\ RowsLocked /\ CheckStillHolds /\ NoDoubleBooking

USE SeatRowsAssumption, NumStopsAssumption, RequestsAssumption,
    StatusKindsAssumption, MaxFaultsAssumption

-----------------------------------------------------------------------------
(* Type correctness of the initial states. *)
LEMMA InitType == Init => TypeInv
BY DEF Init, TypeInv, TypeOK, HandlerFitsEvent, Steps, HoldSteps, NoRows, RowStatus

(* The steps that only move a worker on keep the types. *)
LEMMA ControlType ==
  ASSUME TypeInv, NEW w \in Workers,
         \/ \E b \in Bookings : holdSeats(w, b)
         \/ \E e \in statusEvents : handleStatusChanged(w, e)
         \/ checkScheduleAndSegment(w) \/ acquireSeatLocksError(w)
         \/ txRecheck(w) \/ releaseSeatLocksError(w) \/ commitOffset(w)
  PROVE TypeInv'
<1> USE DEF TypeInv, TypeOK, HandlerFitsEvent, db, Goto
<1>1. ASSUME NEW b \in Bookings, holdSeats(w, b) PROVE TypeInv'
  BY <1>1 DEF holdSeats, HoldEvent, HoldEvents, Events, Steps, HoldSteps
<1>2. ASSUME NEW e \in statusEvents, handleStatusChanged(w, e) PROVE TypeInv'
  BY <1>2 DEF handleStatusChanged, Events, Steps, HoldSteps
<1>3. CASE checkScheduleAndSegment(w)
  BY <1>3 DEF checkScheduleAndSegment, rejectSchedule, Steps, HoldSteps
<1>4. CASE acquireSeatLocksError(w)
  BY <1>4 DEF acquireSeatLocksError, Steps, HoldSteps
<1>5. CASE txRecheck(w)
  BY <1>5 DEF txRecheck, Steps, HoldSteps
<1>6. CASE releaseSeatLocksError(w)
  BY <1>6 DEF releaseSeatLocksError, Steps, HoldSteps
<1>7. CASE commitOffset(w)
  BY <1>7 DEF commitOffset, Idle, Steps, HoldSteps, NoRows
<1> QED BY <1>1, <1>2, <1>3, <1>4, <1>5, <1>6, <1>7


(* The Redis lock steps keep the types: the keys name stops because the    *)
(* segment was resolved, and only typed locks are added or dropped.        *)
LEMMA RedisType ==
  ASSUME TypeInv
  PROVE /\ \A w \in Workers : releaseSeatLocks(w) => TypeInv'
        /\ \A l \in redisLocks : lockExpires(l) => TypeInv'
<1> USE DEF TypeInv, TypeOK, HandlerFitsEvent, db, Goto
<1>1. ASSUME NEW w \in Workers, releaseSeatLocks(w) PROVE TypeInv'
  BY <1>1 DEF releaseSeatLocks, Steps, HoldSteps
<1>2. ASSUME NEW l \in redisLocks, lockExpires(l) PROVE TypeInv'
  BY <1>2 DEF lockExpires
<1> QED BY <1>1, <1>2

(* acquireSeatLocks adds keys of the requested seats only. *)
LEMMA AcquireType ==
  ASSUME TypeInv, NEW w \in Workers, acquireSeatLocks(w)
  PROVE TypeInv'
<1> USE DEF TypeInv, TypeOK, HandlerFitsEvent, db, Goto
<1> DEFINE b == Booking(w)
<1>1. b \in Bookings /\ req[b] \in RequestType
  BY DEF acquireSeatLocks, HoldEvents, HoldSteps, Booking
<1>2. getLockKeys(b) \subseteq LockKeys
  BY <1>1 DEF getLockKeys, LockKeys, FromStop, ToStop, ResolveStop, RequestType
<1>3. redisLocks' \subseteq [key: LockKeys, token: Bookings]
  BY <1>1, <1>2 DEF acquireSeatLocks
<1> QED BY <1>3 DEF acquireSeatLocks, Steps, HoldSteps

(* The row locks, the overlap check and the ends of a hold transaction     *)
(* that write nothing keep the types.                                      *)
LEMMA TransactionType ==
  ASSUME TypeInv, NEW w \in Workers,
         \/ \E s \in Seats : lockSeats(w, s)
         \/ checkOverlap(w) \/ txError(w) \/ deadlockDetected(w) \/ crash(w)
  PROVE TypeInv'
<1> USE DEF TypeInv, TypeOK, HandlerFitsEvent, db, Goto
<1>1. ASSUME NEW s \in Seats, lockSeats(w, s) PROVE TypeInv'
  BY <1>1 DEF lockSeats, rowIsFree, Steps, HoldSteps
<1>2. CASE checkOverlap(w)
  BY <1>2 DEF checkOverlap, FreeRows, Steps, HoldSteps
<1>3. CASE txError(w)
  BY <1>3 DEF txError, FreeRows, Steps, HoldSteps, InTransaction
<1>4. CASE deadlockDetected(w)
  BY <1>4 DEF deadlockDetected, FreeRows, Steps, HoldSteps
<1>5. CASE crash(w)
  BY <1>5 DEF crash, Idle, FreeRows, Steps, HoldSteps, NoRows
<1> QED BY <1>1, <1>2, <1>3, <1>4, <1>5

(* The commit of a hold and the failure reply write typed rows. *)
LEMMA HoldWriteType ==
  ASSUME TypeInv, NEW w \in Workers, commitHold(w) \/ fail(w)
  PROVE TypeInv'
<1> USE DEF TypeInv, TypeOK, HandlerFitsEvent, db, Goto
<1> DEFINE b == Booking(w)
<1>1. /\ b \in Bookings /\ req[b] \in RequestType
      /\ cur[w] \in Events /\ pc[w] \in HoldSteps
  BY DEF commitHold, fail, HoldEvents, Events, HoldSteps, Booking
<1>2. CASE commitHold(w)
  <2>1. req[b].seats \subseteq Seats
    BY <1>1 DEF RequestType
  <2>2. alloc' \in [Bookings -> [Seats -> RowStatus \cup {"NONE"}]]
    BY <1>1, <1>2 DEF commitHold, RowStatus
  <2>3. history' \subseteq HistoryRows
    BY <1>1, <1>2, <2>1 DEF commitHold, HistoryRows, RowStatus
  <2>4. processed' \subseteq Events
    BY <1>1, <1>2 DEF commitHold, holdKey
  <2>7. replies' \in [Bookings -> SUBSET {"SeatsHeld", "SeatsHoldFailed"}]
    <3>1. replies[b] \cup {"SeatsHeld"} \in SUBSET {"SeatsHeld", "SeatsHoldFailed"}
      BY <1>1
    <3> QED BY <1>1, <1>2, <3>1 DEF commitHold
  <2>5. /\ rowLock' \in [Seats -> Workers \cup {None}]
        /\ pc' \in [Workers -> Steps]
    BY <1>2 DEF commitHold, FreeRows, Steps, HoldSteps
  <2>6. HandlerFitsEvent'
    BY <1>1, <1>2 DEF commitHold, HoldSteps
  <2> QED BY <1>2, <2>2, <2>3, <2>4, <2>5, <2>6, <2>7 DEF commitHold
<1>3. CASE fail(w)
  <2>1. replies[b] \cup {"SeatsHoldFailed"} \in SUBSET {"SeatsHeld", "SeatsHoldFailed"}
    BY <1>1
  <2>2. replies' \in [Bookings -> SUBSET {"SeatsHeld", "SeatsHoldFailed"}]
    BY <1>1, <1>3, <2>1 DEF fail, failReply
  <2> QED BY <1>1, <1>3, <2>2 DEF fail, Steps, HoldSteps
<1> QED BY <1>2, <1>3

(* The confirm and cancel transactions read and write typed rows. *)
LEMMA StatusType ==
  ASSUME TypeInv, NEW w \in Workers, findByBookingId(w) \/ commitStatus(w)
  PROVE TypeInv'
<1> USE DEF TypeInv, TypeOK, HandlerFitsEvent, db, Goto
<1> DEFINE b == Booking(w)
<1>1. /\ b \in Bookings /\ cur[w] \in Events
      /\ cur[w].kind \in {"CONFIRMED", "CANCELLED"}
  BY DEF findByBookingId, commitStatus, StatusEvents, Events, Booking
<1>2. CASE findByBookingId(w)
  BY <1>1, <1>2 DEF findByBookingId, Steps, HoldSteps
<1>3. CASE commitStatus(w)
  <2>1. alloc' \in [Bookings -> [Seats -> RowStatus \cup {"NONE"}]]
    <3> DEFINE row == [s \in Seats |->
                 IF alloc[b][s] \in SourceStatus(cur[w].kind)
                   THEN cur[w].kind ELSE alloc[b][s]]
    <3>1. row \in [Seats -> RowStatus \cup {"NONE"}]
      BY <1>1 DEF RowStatus
    <3>2. alloc' = alloc \/ alloc' = [alloc EXCEPT ![b] = row]
      BY <1>1, <1>3 DEF commitStatus, updateManyStatus, updatedRows
    <3> HIDE DEF row
    <3> QED BY <1>1, <3>1, <3>2
  <2>2. history' \subseteq HistoryRows
    <3>1. \A s \in Seats : seen[w][s] \in SourceStatus(cur[w].kind)
                             => seen[w][s] \in RowStatus
      BY DEF SourceStatus, ActiveStatus, RowStatus
    <3> QED BY <1>1, <1>3, <3>1
            DEF commitStatus, updateManyStatus, auditedRows, HistoryRows, RowStatus
  <2>3. processed' \subseteq Events
    BY <1>1, <1>3 DEF commitStatus, updateManyStatus, statusKey
  <2>4. /\ pc' \in [Workers -> Steps]
        /\ cur' \in [Workers -> Events \cup {None}]
        /\ seen' \in [Workers -> [Seats -> RowStatus \cup {"NONE"}]]
    <3>1. NoRows \in [Seats -> RowStatus \cup {"NONE"}]
      BY DEF NoRows
    <3>2. /\ \/ pc' = [pc EXCEPT ![w] = "idle"]
             \/ pc' = [pc EXCEPT ![w] = "ack"]
          /\ cur' = cur \/ cur' = [cur EXCEPT ![w] = None]
          /\ seen' = [seen EXCEPT ![w] = NoRows]
      BY <1>3 DEF commitStatus, Idle
    <3> QED BY <3>1, <3>2 DEF Steps, HoldSteps
  <2>5. HandlerFitsEvent'
    BY <1>1, <1>3 DEF commitStatus, Idle, HoldSteps
  <2> QED BY <1>3, <2>1, <2>2, <2>3, <2>4, <2>5 DEF commitStatus
<1> QED BY <1>2, <1>3

(* What happens around the consumers keeps the types. *)
LEMMA SurroundingsType ==
  ASSUME TypeInv,
         \/ \E b \in Bookings, k \in StatusKinds : publishStatus(b, k)
         \/ processStatusChanged
  PROVE TypeInv'
<1> USE DEF TypeInv, TypeOK, HandlerFitsEvent, db
<1>1. ASSUME NEW b \in Bookings, NEW k \in StatusKinds, publishStatus(b, k)
      PROVE TypeInv'
  BY <1>1 DEF publishStatus, StatusEvent, StatusEvents
<1>2. CASE processStatusChanged
  BY <1>2 DEF processStatusChanged
<1> QED BY <1>1, <1>2

(* Every step keeps the types. *)
LEMMA NextType == TypeInv /\ [Next]_vars => TypeInv'
<1> SUFFICES ASSUME TypeInv, [Next]_vars PROVE TypeInv'
  OBVIOUS
<1>1. CASE UNCHANGED vars
  BY <1>1 DEF vars, TypeInv, TypeOK, HandlerFitsEvent
<1>2. CASE Next
  BY <1>2, ControlType, RedisType, AcquireType, TransactionType,
     HoldWriteType, StatusType, SurroundingsType
     DEF Next, HoldStep, StatusStep, Fault
<1> QED BY <1>1, <1>2

(* Every reachable state of the seat-hold section is well typed, and a     *)
(* worker runs the handler of the event it took.                           *)
THEOREM TypeCorrect == Spec => [](TypeOK /\ HandlerFitsEvent)
<1>1. Init => TypeInv
  BY InitType
<1>2. TypeInv /\ [Next]_vars => TypeInv'
  BY NextType
<1> QED BY <1>1, <1>2, PTL DEF Spec, TypeInv

-----------------------------------------------------------------------------
(* A step keeps the safety part when no row becomes active and no worker   *)
(* enters, or loses a row lock in, the checked part of its transaction.    *)
QuietStep ==
  /\ req' = req
  /\ \A b \in Bookings, s \in Seats :
       alloc'[b][s] \in ActiveStatus => alloc[b][s] \in ActiveStatus
  /\ \A v \in Workers : pc'[v] \in {"overlap", "insert"} =>
       /\ pc'[v] = pc[v] /\ cur'[v] = cur[v]
       /\ \A s \in Seats : rowLock[s] = v => rowLock'[s] = v

Safe == RowsLocked /\ CheckStillHolds /\ NoDoubleBooking

(* A worker in the checked part handles a hold of a known booking, whose   *)
(* request names seats of the inventory.                                   *)
LEMMA CheckedBooking ==
  ASSUME TypeInv, NEW w \in Workers, pc[w] \in {"rows", "overlap", "insert"}
  PROVE /\ Booking(w) \in Bookings
        /\ req[Booking(w)].seats \subseteq Seats
        /\ req[Booking(w)].seats # {}
<1>1. Booking(w) \in Bookings
  BY DEF TypeInv, HandlerFitsEvent, HoldSteps, HoldEvents, Booking
<1>2. req[Booking(w)] \in RequestType
  BY <1>1 DEF TypeInv, TypeOK
<1> QED BY <1>1, <1>2 DEF RequestType

(* The stops of a booking's segment are numbers. *)
LEMMA SegmentIsNatural ==
  ASSUME TypeInv, NEW b \in Bookings
  PROVE FromStop(b) \in Nat /\ ToStop(b) \in Nat
BY DEF TypeInv, TypeOK, RequestType, FromStop, ToStop, ResolveStop, Stops

(* Overlap of segments does not depend on which booking is named first. *)
LEMMA OverlapSymmetric ==
  ASSUME TypeInv, NEW b \in Bookings, NEW c \in Bookings
  PROVE Overlap(b, c) <=> Overlap(c, b)
BY SegmentIsNatural DEF Overlap

(* A quiet step preserves the row locks, the check and NoDoubleBooking. *)
LEMMA QuietKeepsSafe == TypeInv /\ Safe /\ QuietStep => Safe'
<1> SUFFICES ASSUME TypeInv, Safe, QuietStep PROVE Safe'
  OBVIOUS
<1>1. \A b, c \in Bookings : Overlap(b, c)' = Overlap(b, c)
  BY DEF QuietStep, Overlap, FromStop, ToStop
<1>2. RowsLocked'
  <2> SUFFICES ASSUME NEW w \in Workers, pc'[w] \in {"overlap", "insert"},
                      NEW s \in req'[Booking(w)'].seats
               PROVE rowLock'[s] = w
    BY DEF RowsLocked
  <2>1. pc[w] \in {"overlap", "insert"} /\ Booking(w)' = Booking(w) /\ req' = req
    BY DEF QuietStep, Booking
  <2>2. s \in Seats /\ rowLock[s] = w
    BY <2>1, CheckedBooking DEF Safe, RowsLocked
  <2> QED BY <2>2 DEF QuietStep
<1>3. CheckStillHolds'
  <2> SUFFICES ASSUME NEW w \in Workers, pc'[w] = "insert",
                      NEW c \in Bookings, NEW s \in req'[Booking(w)'].seats,
                      alloc'[c][s] \in ActiveStatus, Overlap(c, Booking(w))'
               PROVE FALSE
    BY DEF CheckStillHolds, hasOverlappingAllocation, Active
  <2>1. pc[w] = "insert" /\ Booking(w)' = Booking(w) /\ req' = req
    BY DEF QuietStep, Booking
  <2>2. Booking(w) \in Bookings /\ s \in Seats
    BY <2>1, CheckedBooking
  <2>3. Active(c, s)
    BY <2>2 DEF QuietStep, Active
  <2>4. Overlap(c, Booking(w))
    BY <2>1 DEF Overlap, FromStop, ToStop
  <2> QED BY <2>1, <2>2, <2>3, <2>4
          DEF Safe, CheckStillHolds, hasOverlappingAllocation
<1>4. NoDoubleBooking'
  BY <1>1 DEF QuietStep, Safe, NoDoubleBooking, Active
<1> QED BY <1>2, <1>3, <1>4 DEF Safe

(* Every step but the three that lock, check and insert is quiet. *)
LEMMA OtherStepsQuiet ==
  ASSUME TypeInv, NEW w \in Workers,
         \/ \E b \in Bookings : holdSeats(w, b)
         \/ \E e \in statusEvents : handleStatusChanged(w, e)
         \/ checkScheduleAndSegment(w) \/ acquireSeatLocks(w)
         \/ acquireSeatLocksError(w) \/ txRecheck(w) \/ txError(w)
         \/ deadlockDetected(w) \/ fail(w) \/ releaseSeatLocks(w)
         \/ releaseSeatLocksError(w) \/ findByBookingId(w) \/ commitOffset(w)
         \/ crash(w)
  PROVE QuietStep
<1> USE DEF TypeInv, TypeOK, QuietStep, db, Goto
<1>1. ASSUME NEW b \in Bookings, holdSeats(w, b) PROVE QuietStep
  BY <1>1 DEF holdSeats
<1>2. ASSUME NEW e \in statusEvents, handleStatusChanged(w, e) PROVE QuietStep
  BY <1>2 DEF handleStatusChanged
<1>3. CASE checkScheduleAndSegment(w)
  BY <1>3 DEF checkScheduleAndSegment, rejectSchedule
<1>4. CASE acquireSeatLocks(w)
  BY <1>4 DEF acquireSeatLocks
<1>5. CASE acquireSeatLocksError(w)
  BY <1>5 DEF acquireSeatLocksError
<1>6. CASE txRecheck(w)
  BY <1>6 DEF txRecheck
<1>7. CASE txError(w)
  BY <1>7 DEF txError, FreeRows
<1>8. CASE deadlockDetected(w)
  BY <1>8 DEF deadlockDetected, FreeRows
<1>9. CASE fail(w)
  BY <1>9 DEF fail
<1>10. CASE releaseSeatLocks(w)
  BY <1>10 DEF releaseSeatLocks
<1>11. CASE releaseSeatLocksError(w)
  BY <1>11 DEF releaseSeatLocksError
<1>12. CASE findByBookingId(w)
  BY <1>12 DEF findByBookingId
<1>13. CASE commitOffset(w)
  BY <1>13 DEF commitOffset, Idle
<1>14. CASE crash(w)
  BY <1>14 DEF crash, Idle, FreeRows
<1> QED BY <1>1, <1>2, <1>3, <1>4, <1>5, <1>6, <1>7, <1>8, <1>9, <1>10,
           <1>11, <1>12, <1>13, <1>14

(* A confirmation keeps rows active and a cancellation ends them; no row   *)
(* of another booking changes.                                             *)
LEMMA CommitStatusRows ==
  ASSUME TypeInv, NEW w \in Workers, commitStatus(w),
         NEW b \in Bookings, NEW s \in Seats
  PROVE \/ alloc'[b][s] = alloc[b][s]
        \/ alloc[b][s] = "HELD" /\ alloc'[b][s] = "CONFIRMED"
        \/ alloc[b][s] \in ActiveStatus /\ alloc'[b][s] = "CANCELLED"
<1>1. /\ Booking(w) \in Bookings
      /\ cur[w].kind \in {"CONFIRMED", "CANCELLED"}
  BY DEF commitStatus, TypeInv, HandlerFitsEvent, StatusEvents, Booking
<1> QED BY <1>1 DEF commitStatus, updateManyStatus, updatedRows, SourceStatus, ActiveStatus,
                    TypeInv, TypeOK

(* The remaining steps that neither lock, check nor insert are quiet too. *)
LEMMA SurroundingsQuiet ==
  ASSUME TypeInv,
         \/ \E w \in Workers : commitStatus(w)
         \/ \E l \in redisLocks : lockExpires(l)
         \/ \E b \in Bookings, k \in StatusKinds : publishStatus(b, k)
         \/ processStatusChanged
  PROVE QuietStep
<1> USE DEF TypeInv, TypeOK, QuietStep, db, Goto
<1>1. ASSUME NEW w \in Workers, commitStatus(w) PROVE QuietStep
  <2>1. \A b \in Bookings, s \in Seats :
          alloc'[b][s] \in ActiveStatus => alloc[b][s] \in ActiveStatus
    BY <1>1, CommitStatusRows DEF ActiveStatus
  <2>2. \A v \in Workers : pc'[v] \in {"overlap", "insert"} =>
          pc'[v] = pc[v] /\ cur'[v] = cur[v]
    BY <1>1 DEF commitStatus, Idle
  <2> QED BY <1>1, <2>1, <2>2 DEF commitStatus
<1>2. ASSUME NEW l \in redisLocks, lockExpires(l) PROVE QuietStep
  BY <1>2 DEF lockExpires
<1>3. ASSUME NEW b \in Bookings, NEW k \in StatusKinds, publishStatus(b, k)
      PROVE QuietStep
  BY <1>3 DEF publishStatus
<1>4. CASE processStatusChanged
  BY <1>4 DEF processStatusChanged
<1> QED BY <1>1, <1>2, <1>3, <1>4

(* Locking a row takes none away from a transaction in its checked part,   *)
(* and the last row locked lets its own transaction in.                    *)
LEMMA LockSeatsSafe ==
  ASSUME TypeInv, Safe, NEW w \in Workers, NEW r \in Seats, lockSeats(w, r)
  PROVE Safe'
<1> USE NoneAssumption DEF TypeInv, TypeOK, Goto, db
<1>1. /\ \A v \in Workers : Booking(v)' = Booking(v)
      /\ req' = req /\ alloc' = alloc
  BY DEF lockSeats, Booking
<1>2. RowsLocked'
  <2> SUFFICES ASSUME NEW v \in Workers, pc'[v] \in {"overlap", "insert"},
                      NEW s \in req[Booking(v)].seats
               PROVE rowLock'[s] = v
    BY <1>1 DEF RowsLocked
  <2>1. CASE v = w
    <3>1. s \in Seats
      BY <2>1, CheckedBooking DEF lockSeats
    <3> QED BY <2>1, <3>1 DEF lockSeats, rowIsFree
  <2>2. CASE v # w
    <3>1. pc[v] \in {"overlap", "insert"}
      BY <2>2 DEF lockSeats
    <3>2. s \in Seats /\ rowLock[s] = v
      BY <3>1, CheckedBooking DEF Safe, RowsLocked
    <3> QED BY <2>2, <3>2 DEF lockSeats, rowIsFree
  <2> QED BY <2>1, <2>2
<1>3. \A v \in Workers : pc'[v] = "insert" => pc[v] = "insert"
  BY DEF lockSeats
<1>4. \A b, c \in Bookings : Overlap(b, c)' = Overlap(b, c)
  BY <1>1 DEF Overlap, FromStop, ToStop
<1>5. CheckStillHolds'
  BY <1>1, <1>3 DEF Safe, CheckStillHolds, hasOverlappingAllocation, Active,
                    Overlap, FromStop, ToStop
<1>6. NoDoubleBooking'
  BY <1>1, <1>4 DEF Safe, NoDoubleBooking, Active
<1> QED BY <1>2, <1>5, <1>6 DEF Safe

(* The overlap check lets a transaction through only when it found nothing. *)
LEMMA CheckOverlapSafe ==
  ASSUME TypeInv, Safe, NEW w \in Workers, checkOverlap(w)
  PROVE Safe'
<1> USE DEF TypeInv, TypeOK, Goto, db
<1>1. CASE hasOverlappingAllocation(Booking(w))
  <2>1. QuietStep
    BY <1>1 DEF checkOverlap, QuietStep, FreeRows
  <2> QED BY <2>1, QuietKeepsSafe
<1>2. CASE ~hasOverlappingAllocation(Booking(w))
  <2>1. /\ \A v \in Workers : Booking(v)' = Booking(v)
        /\ req' = req /\ alloc' = alloc /\ rowLock' = rowLock
        /\ pc' = [pc EXCEPT ![w] = "insert"] /\ pc[w] = "overlap"
    BY <1>2 DEF checkOverlap, Booking
  <2>2. RowsLocked'
    BY <2>1 DEF Safe, RowsLocked
  <2>3. CheckStillHolds'
    BY <1>2, <2>1 DEF Safe, CheckStillHolds, hasOverlappingAllocation, Active,
                      Overlap, FromStop, ToStop
  <2>4. NoDoubleBooking'
    BY <2>1 DEF Safe, NoDoubleBooking, Active, Overlap, FromStop, ToStop
  <2> QED BY <2>2, <2>3, <2>4 DEF Safe
<1> QED BY <1>1, <1>2

(* The insert: its own check rules out a conflict with the rows there are, *)
(* and no other transaction in its checked part shares a seat with it.     *)
LEMMA CommitHoldSafe ==
  ASSUME TypeInv, Safe, NEW w \in Workers, commitHold(w)
  PROVE Safe'
<1> USE DEF TypeInv, TypeOK, Goto, db
<1> DEFINE b == Booking(w)
           seats == req[b].seats
<1>1. /\ b \in Bookings /\ seats \subseteq Seats /\ pc[w] = "insert"
      /\ \A s \in seats : rowLock[s] = w
  BY CheckedBooking DEF commitHold, Safe, RowsLocked
<1>2. /\ req' = req /\ pc'[w] \notin {"overlap", "insert"}
      /\ \A v \in Workers : Booking(v)' = Booking(v)
      /\ \A v \in Workers \ {w} : pc'[v] = pc[v]
      /\ \A v \in Workers \ {w}, s \in Seats : rowLock[s] = v => rowLock'[s] = v
  BY DEF commitHold, FreeRows, Booking
<1>3. \A c \in Bookings, s \in Seats :
        alloc'[c][s] \in ActiveStatus =>
          alloc[c][s] \in ActiveStatus \/ (c = b /\ s \in seats)
  BY <1>1 DEF commitHold
<1>4. \A c, d \in Bookings : Overlap(c, d)' = Overlap(c, d)
  BY <1>2 DEF Overlap, FromStop, ToStop
<1>5. \A c \in Bookings, s \in seats : Active(c, s) => ~Overlap(c, b)
  BY <1>1 DEF Safe, CheckStillHolds, hasOverlappingAllocation
<1>6. RowsLocked'
  <2> SUFFICES ASSUME NEW v \in Workers, pc'[v] \in {"overlap", "insert"},
                      NEW s \in req[Booking(v)].seats
               PROVE rowLock'[s] = v
    BY <1>2 DEF RowsLocked
  <2>1. v # w /\ pc[v] \in {"overlap", "insert"}
    BY <1>2
  <2> QED BY <1>2, <2>1, CheckedBooking DEF Safe, RowsLocked
<1>7. CheckStillHolds'
  <2> SUFFICES ASSUME NEW v \in Workers, pc'[v] = "insert",
                      NEW c \in Bookings, NEW s \in req[Booking(v)].seats,
                      alloc'[c][s] \in ActiveStatus, Overlap(c, Booking(v))
               PROVE FALSE
    BY <1>2 DEF CheckStillHolds, hasOverlappingAllocation, Active, Overlap,
                FromStop, ToStop
  <2>1. v # w /\ pc[v] = "insert"
    BY <1>2
  <2>2. s \in Seats /\ rowLock[s] = v
    BY <2>1, CheckedBooking DEF Safe, RowsLocked
  <2>3. s \notin seats
    BY <1>1, <2>1, <2>2
  <2>4. Active(c, s)
    BY <1>3, <2>2, <2>3 DEF Active
  <2> QED BY <2>1, <2>4 DEF Safe, CheckStillHolds, hasOverlappingAllocation
<1>8. NoDoubleBooking'
  <2> SUFFICES ASSUME NEW c \in Bookings, NEW d \in Bookings, NEW s \in Seats,
                      c # d, alloc'[c][s] \in ActiveStatus,
                      alloc'[d][s] \in ActiveStatus
               PROVE ~Overlap(c, d)
    BY <1>4 DEF NoDoubleBooking, Active
  <2>1. CASE Active(c, s) /\ Active(d, s)
    BY <2>1 DEF Safe, NoDoubleBooking
  <2>2. CASE c = b /\ s \in seats
    <3>1. Active(d, s)
      BY <1>3, <2>2 DEF Active
    <3>2. ~Overlap(d, c)
      BY <1>5, <2>2, <3>1
    <3> QED BY <3>2, OverlapSymmetric
  <2>3. CASE d = b /\ s \in seats
    <3>1. Active(c, s)
      BY <1>3, <2>3 DEF Active
    <3> QED BY <1>5, <2>3, <3>1
  <2> QED BY <1>3, <2>1, <2>2, <2>3 DEF Active
<1> QED BY <1>6, <1>7, <1>8 DEF Safe

(* Every step preserves the inductive invariant. *)
LEMMA NextInv == Inv /\ [Next]_vars => Inv'
<1> SUFFICES ASSUME TypeInv, Safe, [Next]_vars PROVE TypeInv' /\ Safe'
  BY DEF Inv, Safe
<1>1. TypeInv'
  BY NextType
<1>2. CASE UNCHANGED vars
  <2>1. QuietStep
    BY <1>2 DEF vars, QuietStep
  <2> QED BY <1>1, <2>1, QuietKeepsSafe
<1>3. CASE Next
  BY <1>1, <1>3, OtherStepsQuiet, SurroundingsQuiet, QuietKeepsSafe,
     LockSeatsSafe, CheckOverlapSafe, CommitHoldSafe
     DEF Next, HoldStep, StatusStep, Fault
<1> QED BY <1>2, <1>3

(* No seat is ever sold twice on overlapping legs, for any number of       *)
(* bookings and consumer instances, whatever is redelivered, crashes or    *)
(* expires: the row locks taken in commitHoldTransaction keep the overlap  *)
(* check valid until the insert commits.                                   *)
THEOREM NoSeatSoldTwice == Spec => []NoDoubleBooking
<1>1. Init => Inv
  <2>1. Init => TypeInv
    BY InitType
  <2>2. Init => Safe
    BY DEF Init, Safe, RowsLocked, CheckStillHolds, NoDoubleBooking, Active,
           NoRows, ActiveStatus
  <2> QED BY <2>1, <2>2 DEF Inv, Safe
<1>2. Inv /\ [Next]_vars => Inv'
  BY NextInv
<1>3. Inv => NoDoubleBooking
  BY DEF Inv
<1> QED BY <1>1, <1>2, <1>3, PTL DEF Spec

(* One step moves a row forward only. *)
RowAdvances(b, s) ==
  \/ alloc'[b][s] = alloc[b][s]
  \/ alloc[b][s] = "NONE" /\ alloc'[b][s] = "HELD"
  \/ alloc[b][s] = "HELD" /\ alloc'[b][s] \in {"CONFIRMED", "CANCELLED"}
  \/ alloc[b][s] = "CONFIRMED" /\ alloc'[b][s] = "CANCELLED"

(* Every step of the service moves every row forward only. *)
LEMMA NextAdvances ==
  ASSUME TypeInv, Next, NEW b \in Bookings, NEW s \in Seats
  PROVE RowAdvances(b, s)
<1> USE DEF TypeInv, TypeOK, db
<1>1. ASSUME NEW w \in Workers, commitHold(w) PROVE RowAdvances(b, s)
  <2>1. Booking(w) \in Bookings
    BY <1>1, CheckedBooking DEF commitHold
  <2>2. CASE UNCHANGED alloc
    BY <2>2 DEF RowAdvances
  <2>3. CASE keysAreNew(w)
    <3>1. alloc' = [alloc EXCEPT ![Booking(w)] =
             [t \in Seats |-> IF t \in req[Booking(w)].seats
                                THEN "HELD" ELSE alloc[Booking(w)][t]]]
      BY <1>1, <2>3 DEF commitHold
    <3>2. \A t \in req[Booking(w)].seats : alloc[Booking(w)][t] = "NONE"
      BY <2>3 DEF keysAreNew
    <3> QED BY <2>1, <3>1, <3>2 DEF RowAdvances
  <2> QED BY <1>1, <2>2, <2>3 DEF commitHold
<1>2. ASSUME NEW w \in Workers, commitStatus(w) PROVE RowAdvances(b, s)
  BY <1>2, CommitStatusRows DEF RowAdvances, ActiveStatus
<1>3. CASE UNCHANGED alloc
  BY <1>3 DEF RowAdvances
<1>4. \/ \E w \in Workers : commitHold(w) \/ commitStatus(w)
      \/ UNCHANGED alloc
  BY DEF Next, HoldStep, StatusStep, Fault, holdSeats, handleStatusChanged,
         checkScheduleAndSegment, acquireSeatLocks, acquireSeatLocksError,
         txRecheck, lockSeats, checkOverlap, txError, deadlockDetected, fail,
         releaseSeatLocks, releaseSeatLocksError, lockExpires,
         findByBookingId, commitOffset, crash, publishStatus, processStatusChanged
<1> QED BY <1>1, <1>2, <1>3, <1>4

(* A released seat stays released and a confirmed seat is never demoted:   *)
(* no redelivery of a hold, confirm or cancel event takes a row back.      *)
THEOREM RowsOnlyAdvance == Spec => StatusOnlyAdvances
<1>1. TypeInv /\ [Next]_vars =>
        [\A b \in Bookings, s \in Seats :
           LET old == alloc[b][s]
               new == alloc'[b][s]
           IN old # new => \/ old = "NONE" /\ new = "HELD"
                           \/ old = "HELD" /\ new \in {"CONFIRMED", "CANCELLED"}
                           \/ old = "CONFIRMED" /\ new = "CANCELLED"]_vars
  BY NextAdvances DEF RowAdvances
<1> QED BY <1>1, InitType, NextType, PTL DEF Spec, StatusOnlyAdvances

-----------------------------------------------------------------------------
(* What the rows, the idempotency records, the replies and the readers of  *)
(* confirmSeats and cancelSeats know of each other.                        *)

(* A hold that is recorded as processed has been answered, and so has one  *)
(* that is about to give its Redis keys back.                              *)
HoldsAnswered ==
  /\ \A b \in Bookings : HoldEvent(b) \in processed => "SeatsHeld" \in replies[b]
  /\ \A w \in Workers : pc[w] = "unlock" => replies[Booking(w)] # {}

(* A booking has rows for requested seats only, for all of them once it    *)
(* was told SeatsHeld, and none is CONFIRMED or CANCELLED without the      *)
(* event's record.                                                         *)
RowsMatchReplies ==
  /\ \A b \in Bookings, s \in Seats : alloc[b][s] # "NONE" => s \in req[b].seats
  /\ \A b \in Bookings : "SeatsHeld" \in replies[b] =>
       \A s \in req[b].seats : alloc[b][s] # "NONE"
  /\ \A b \in Bookings, s \in Seats, k \in {"CONFIRMED", "CANCELLED"} :
       alloc[b][s] = k => StatusEvent(b, k) \in processed

(* A confirmation or cancellation is published, taken and recorded only    *)
(* after the booking was told SeatsHeld.                                   *)
StatusAfterHold ==
  /\ \A e \in statusEvents : "SeatsHeld" \in replies[e.booking]
  /\ \A w \in Workers : pc[w] \in {"stRead", "stWrite"} => cur[w] \in statusEvents
  /\ \A e \in processed : e.kind # "HOLD" => e \in statusEvents

(* What findByBookingId read is what the rows are or were. *)
ReadsAreOld ==
  \A w \in Workers, s \in Seats : pc[w] = "stWrite" =>
    /\ seen[w][s] = "NONE" => s \notin req[Booking(w)].seats
    /\ seen[w][s] = "CONFIRMED" => alloc[Booking(w)][s] \in {"CONFIRMED", "CANCELLED"}
    /\ seen[w][s] = "CANCELLED" => alloc[Booking(w)][s] = "CANCELLED"

(* A worker that is about to commit an offset knows its event. *)
AckNamesEvent == \A w \in Workers : pc[w] = "ack" => cur[w] \in Events

RecordsInv ==
  /\ TypeInv /\ AckNamesEvent /\ HoldsAnswered /\ NoHoldSkipped /\ RowsMatchReplies
  /\ StatusAfterHold /\ ReadsAreOld /\ StatusApplied

(* The steps of one worker. *)
WorkerStep(w) ==
  \/ \E b \in Bookings : holdSeats(w, b)
  \/ \E e \in statusEvents : handleStatusChanged(w, e)
  \/ HoldStep(w) \/ StatusStep(w) \/ commitOffset(w) \/ Fault(w)

SameWorker(w) == pc'[w] = pc[w] /\ cur'[w] = cur[w] /\ seen'[w] = seen[w]

(* Only its own steps move a worker. *)
LEMMA OwnStep ==
  ASSUME TypeInv, [Next]_vars, NEW v \in Workers
  PROVE SameWorker(v) \/ WorkerStep(v)
<1> USE DEF TypeInv, TypeOK, SameWorker, Goto, Idle
<1>1. ASSUME NEW w \in Workers, WorkerStep(w), w # v PROVE SameWorker(v)
  BY <1>1 DEF WorkerStep, HoldStep, StatusStep, Fault, holdSeats, handleStatusChanged,
     checkScheduleAndSegment, acquireSeatLocks, acquireSeatLocksError,
     txRecheck, lockSeats, checkOverlap, commitHold, txError, deadlockDetected, fail,
     releaseSeatLocks, releaseSeatLocksError, findByBookingId, commitStatus,
     commitOffset, crash
<1>2. ASSUME \/ \E l \in redisLocks : lockExpires(l)
             \/ \E b \in Bookings, k \in StatusKinds : publishStatus(b, k)
             \/ processStatusChanged
             \/ UNCHANGED vars
      PROVE SameWorker(v)
  BY <1>2 DEF lockExpires, publishStatus, processStatusChanged, vars
<1> QED BY <1>1, <1>2 DEF Next, WorkerStep

(* Nothing that is recorded, answered or published is taken back. *)
RecordsGrow ==
  /\ req' = req /\ processed \subseteq processed' /\ statusEvents \subseteq statusEvents'
  /\ \A b \in Bookings : replies[b] \subseteq replies'[b]

(* Every step lets the records grow. *)
LEMMA NextGrows == TypeInv /\ [Next]_vars => RecordsGrow
<1> SUFFICES ASSUME TypeInv, [Next]_vars PROVE RecordsGrow
  OBVIOUS
<1> USE DEF TypeInv, TypeOK, RecordsGrow, db
<1>1. ASSUME NEW w \in Workers, commitHold(w) \/ commitStatus(w) \/ fail(w) PROVE RecordsGrow
  <2>1. CASE commitHold(w)
    <3>1. req' = req /\ statusEvents' = statusEvents /\ processed \subseteq processed'
      BY <2>1 DEF commitHold
    <3>2. \/ replies' = replies
          \/ replies' = [replies EXCEPT ![Booking(w)] = @ \cup {"SeatsHeld"}]
      BY <2>1 DEF commitHold
    <3>3. ASSUME NEW b \in Bookings PROVE replies[b] \subseteq replies'[b]
      BY <3>2
    <3> QED BY <3>1, <3>3
  <2>2. CASE commitStatus(w)
    BY <2>2 DEF commitStatus, updateManyStatus
  <2>3. CASE fail(w)
    BY <2>3 DEF fail
  <2> QED BY <1>1, <2>1, <2>2, <2>3
<1>2. ASSUME NEW b \in Bookings, NEW k \in StatusKinds, publishStatus(b, k) PROVE RecordsGrow
  BY <1>2 DEF publishStatus
<1>3. CASE UNCHANGED <<req, processed, statusEvents, replies>>
  BY <1>3
<1>4. \/ \E w \in Workers : commitHold(w) \/ commitStatus(w) \/ fail(w)
      \/ \E b \in Bookings, k \in StatusKinds : publishStatus(b, k)
      \/ UNCHANGED <<req, processed, statusEvents, replies>>
  BY DEF Next, HoldStep, StatusStep, Fault, holdSeats, handleStatusChanged,
     checkScheduleAndSegment, acquireSeatLocks, acquireSeatLocksError,
     txRecheck, lockSeats, checkOverlap, txError, deadlockDetected,
     releaseSeatLocks, releaseSeatLocksError, lockExpires, findByBookingId,
     commitOffset, crash, processStatusChanged, vars
<1> QED BY <1>1, <1>2, <1>3, <1>4

(* The hold transaction of w commits. *)
HoldWrites(w) ==
  LET b == Booking(w)
  IN /\ commitHold(w) /\ keysAreNew(w) /\ b \in Bookings /\ cur[w] = HoldEvent(b)
     /\ alloc' = [alloc EXCEPT ![b] =
          [s \in Seats |-> IF s \in req[b].seats THEN "HELD" ELSE alloc[b][s]]]
     /\ processed' = processed \cup {HoldEvent(b)}
     /\ replies' = [replies EXCEPT ![b] = @ \cup {"SeatsHeld"}]
     /\ statusEvents' = statusEvents

(* The confirm or cancel transaction of w commits. *)
StatusWrites(w) ==
  /\ commitStatus(w) /\ cur[w] \in StatusEvents
  /\ updateManyStatus(w) /\ processed' = processed \cup {cur[w]}
  /\ replies' = replies /\ statusEvents' = statusEvents

(* A step that writes neither rows nor idempotency records may add a       *)
(* failure reply or an event for a booking that was told SeatsHeld.        *)
RecordsKept ==
  /\ alloc' = alloc /\ processed' = processed
  /\ \A b \in Bookings : "SeatsHeld" \in replies'[b] => "SeatsHeld" \in replies[b]
  /\ \A e \in statusEvents' \ statusEvents :
       e.booking \in Bookings /\ "SeatsHeld" \in replies[e.booking]

(* The two commits are the only steps that write rows and records. *)
LEMMA NextWrites ==
  ASSUME TypeInv, [Next]_vars
  PROVE RecordsKept \/ \E w \in Workers : HoldWrites(w) \/ StatusWrites(w)
<1> USE DEF TypeInv, TypeOK, db
<1>1. ASSUME NEW w \in Workers, commitHold(w) PROVE RecordsKept \/ HoldWrites(w)
  <2>1. Booking(w) \in Bookings /\ cur[w] = HoldEvent(Booking(w))
    BY <1>1 DEF commitHold, HandlerFitsEvent, HoldSteps, HoldEvents, HoldEvent, Booking
  <2>2. CASE keysAreNew(w)
    BY <1>1, <2>1, <2>2 DEF commitHold, HoldWrites, holdKey
  <2>3. CASE ~keysAreNew(w)
    BY <1>1, <2>3 DEF commitHold, RecordsKept
  <2> QED BY <2>2, <2>3
<1>2. ASSUME NEW w \in Workers, commitStatus(w) PROVE RecordsKept \/ StatusWrites(w)
  <2>1. cur[w] \in StatusEvents
    BY <1>2 DEF commitStatus, HandlerFitsEvent
  <2>2. CASE cur[w] \in processed
    BY <1>2, <2>2 DEF commitStatus, RecordsKept
  <2>3. CASE cur[w] \notin processed
    BY <1>2, <2>1, <2>3 DEF commitStatus, updateManyStatus, statusKey, StatusWrites
  <2> QED BY <2>2, <2>3
<1>3. ASSUME NEW w \in Workers, fail(w) PROVE RecordsKept
  BY <1>3 DEF fail, failReply, RecordsKept
<1>4. ASSUME NEW b \in Bookings, NEW k \in StatusKinds, publishStatus(b, k)
      PROVE RecordsKept
  BY <1>4 DEF publishStatus, RecordsKept, StatusEvent
<1>5. CASE UNCHANGED <<alloc, processed, statusEvents, replies>>
  BY <1>5 DEF RecordsKept
<1>6. \/ \E w \in Workers : commitHold(w) \/ commitStatus(w) \/ fail(w)
      \/ \E b \in Bookings, k \in StatusKinds : publishStatus(b, k)
      \/ UNCHANGED <<alloc, processed, statusEvents, replies>>
  BY DEF Next, HoldStep, StatusStep, Fault, holdSeats, handleStatusChanged,
     checkScheduleAndSegment, acquireSeatLocks, acquireSeatLocksError,
     txRecheck, lockSeats, checkOverlap, txError, deadlockDetected,
     releaseSeatLocks, releaseSeatLocksError, lockExpires, findByBookingId,
     commitOffset, crash, processStatusChanged, vars
<1> QED BY <1>1, <1>2, <1>3, <1>4, <1>5, <1>6

(* The hold transaction commits for a booking that was not told SeatsHeld  *)
(* before: the unique key of its rows would have refused it.  So none of   *)
(* its confirmations or cancellations is recorded yet.                     *)
LEMMA HoldIsFirst ==
  ASSUME RecordsInv, NEW w \in Workers, HoldWrites(w), NEW k \in {"CONFIRMED", "CANCELLED"}
  PROVE StatusEvent(Booking(w), k) \notin processed
<1> DEFINE b == Booking(w)
<1>1. b \in Bookings /\ req[b].seats # {} /\ \A s \in req[b].seats : alloc[b][s] = "NONE"
  BY CheckedBooking DEF RecordsInv, HoldWrites, commitHold, keysAreNew
<1>2. "SeatsHeld" \notin replies[b]
  BY <1>1 DEF RecordsInv, RowsMatchReplies
<1> QED BY <1>1, <1>2 DEF RecordsInv, StatusAfterHold, StatusEvent

(* The row of a booking that the committing confirm or cancel handles. *)
LEMMA StatusRow ==
  ASSUME TypeInv, NEW w \in Workers, StatusWrites(w)
  PROVE /\ Booking(w) \in Bookings /\ cur[w].kind \in {"CONFIRMED", "CANCELLED"}
        /\ cur[w] = StatusEvent(Booking(w), cur[w].kind)
        /\ pc[w] = "stWrite"
BY DEF StatusWrites, commitStatus, StatusEvents, StatusEvent, Booking

(* Recorded holds stay answered. *)
LEMMA RecordedAnswered ==
  ASSUME RecordsInv, [Next]_vars
  PROVE \A b \in Bookings : HoldEvent(b) \in processed' => "SeatsHeld" \in replies'[b]
<1> SUFFICES ASSUME NEW b \in Bookings, HoldEvent(b) \in processed'
             PROVE "SeatsHeld" \in replies'[b]
  OBVIOUS
<1> USE DEF RecordsInv, TypeInv, TypeOK
<1>1. CASE HoldEvent(b) \in processed
  BY <1>1, NextGrows DEF HoldsAnswered, RecordsGrow
<1>2. CASE HoldEvent(b) \notin processed
  <2>1. PICK w \in Workers : HoldWrites(w) \/ StatusWrites(w)
    BY <1>2, NextWrites DEF RecordsKept
  <2>2. ~StatusWrites(w)
    <3> SUFFICES ASSUME StatusWrites(w) PROVE FALSE
      OBVIOUS
    <3>1. cur[w] = HoldEvent(b)
      BY <1>2 DEF StatusWrites
    <3>2. cur[w].kind = "HOLD"
      BY <3>1 DEF HoldEvent
    <3> QED BY <3>2, StatusRow
  <2>3. HoldWrites(w) /\ b = Booking(w)
    BY <1>2, <2>1, <2>2 DEF HoldWrites, HoldEvent
  <2> QED BY <2>3 DEF HoldWrites
<1> QED BY <1>1, <1>2

(* Rows keep matching requests, replies and records. *)
LEMMA RowsStayMatched ==
  ASSUME RecordsInv, [Next]_vars
  PROVE RowsMatchReplies'
<1> USE DEF RecordsInv, TypeInv, TypeOK
<1>1. RecordsGrow
  BY NextGrows
<1>2. CASE RecordsKept
  BY <1>1, <1>2 DEF RecordsKept, RecordsGrow, RowsMatchReplies
<1>3. ASSUME NEW w \in Workers, HoldWrites(w) PROVE RowsMatchReplies'
  <2> DEFINE b == Booking(w)
  <2>1. /\ b \in Bookings /\ req[b].seats \subseteq Seats /\ req' = req
        /\ \A c \in Bookings \ {b} : alloc'[c] = alloc[c] /\ replies'[c] = replies[c]
        /\ \A s \in Seats : alloc'[b][s] = IF s \in req[b].seats THEN "HELD" ELSE alloc[b][s]
    <3>1. b \in Bookings /\ req[b].seats \subseteq Seats
      BY <1>3, CheckedBooking DEF HoldWrites, commitHold
    <3>2. req' = req
      BY <1>1 DEF RecordsGrow
    <3>3. /\ alloc' = [alloc EXCEPT ![b] =
                [s \in Seats |-> IF s \in req[b].seats THEN "HELD" ELSE alloc[b][s]]]
          /\ replies' = [replies EXCEPT ![b] = @ \cup {"SeatsHeld"}]
      BY <1>3 DEF HoldWrites, commitHold
    <3> HIDE DEF b
    <3> QED BY <3>1, <3>2, <3>3
  <2> HIDE DEF b
  <2>2. \A c \in Bookings, s \in Seats : alloc'[c][s] # "NONE" => s \in req[c].seats
    BY <2>1 DEF RowsMatchReplies
  <2>3. ASSUME NEW c \in Bookings, "SeatsHeld" \in replies'[c], NEW s \in req[c].seats
        PROVE alloc'[c][s] # "NONE"
    BY <2>1, <2>3 DEF RowsMatchReplies
  <2>4. ASSUME NEW c \in Bookings, NEW s \in Seats, NEW k \in {"CONFIRMED", "CANCELLED"},
               alloc'[c][s] = k
        PROVE StatusEvent(c, k) \in processed'
    <3>1. alloc[c][s] = k
      BY <2>1, <2>4
    <3>2. StatusEvent(c, k) \in processed
      BY <3>1 DEF RowsMatchReplies
    <3> QED BY <1>1, <3>2 DEF RecordsGrow
  <2> QED BY <2>1, <2>2, <2>3, <2>4 DEF RowsMatchReplies
<1>4. ASSUME NEW w \in Workers, StatusWrites(w) PROVE RowsMatchReplies'
  <2>1. \A b \in Bookings, s \in Seats : alloc'[b][s] # "NONE" <=> alloc[b][s] # "NONE"
    BY <1>4, CommitStatusRows DEF StatusWrites, ActiveStatus
  <2>2. ASSUME NEW b \in Bookings, NEW s \in Seats, NEW k \in {"CONFIRMED", "CANCELLED"},
               alloc'[b][s] = k
        PROVE StatusEvent(b, k) \in processed'
    <3>1. CASE alloc[b][s] = k
      BY <1>1, <3>1 DEF RowsMatchReplies, RecordsGrow
    <3>2. CASE alloc[b][s] # k
      <4>1. b = Booking(w) /\ cur[w].kind = k
        BY <1>4, <2>2, <3>2, StatusRow DEF StatusWrites, updateManyStatus
      <4> QED BY <1>4, <4>1, StatusRow DEF StatusWrites
    <3> QED BY <3>1, <3>2
  <2>3. \A b \in Bookings : req[b].seats \subseteq Seats
    BY DEF RequestType
  <2> QED BY <1>1, <1>4, <2>1, <2>2, <2>3 DEF StatusWrites, RowsMatchReplies, RecordsGrow
<1> QED BY <1>2, <1>3, <1>4, NextWrites

(* What is recorded as processed stays applied to the rows. *)
LEMMA RecordedApplied ==
  ASSUME RecordsInv, [Next]_vars, NEW b \in Bookings, NEW s \in Seats
  PROVE /\ StatusEvent(b, "CONFIRMED") \in processed' => alloc'[b][s] # "HELD"
        /\ StatusEvent(b, "CANCELLED") \in processed' => alloc'[b][s] \notin ActiveStatus
<1> USE DEF RecordsInv, TypeInv, TypeOK
<1>1. /\ StatusEvent(b, "CONFIRMED") \in processed => alloc[b][s] # "HELD"
      /\ StatusEvent(b, "CANCELLED") \in processed => alloc[b][s] \notin ActiveStatus
  BY DEF StatusApplied, Active
<1>2. CASE RecordsKept
  BY <1>1, <1>2 DEF RecordsKept
<1>3. ASSUME NEW w \in Workers, HoldWrites(w)
      PROVE /\ StatusEvent(b, "CONFIRMED") \in processed' => alloc'[b][s] # "HELD"
            /\ StatusEvent(b, "CANCELLED") \in processed' => alloc'[b][s] \notin ActiveStatus
  <2>1. \A k \in {"CONFIRMED", "CANCELLED"} :
          StatusEvent(b, k) \in processed' => StatusEvent(b, k) \in processed
    BY <1>3 DEF HoldWrites, StatusEvent, HoldEvent
  <2>2. CASE b = Booking(w)
    BY <1>3, <2>1, <2>2, HoldIsFirst
  <2>3. CASE b # Booking(w)
    BY <1>1, <1>3, <2>1, <2>3 DEF HoldWrites
  <2> QED BY <2>2, <2>3
<1>4. ASSUME NEW w \in Workers, StatusWrites(w)
      PROVE /\ StatusEvent(b, "CONFIRMED") \in processed' => alloc'[b][s] # "HELD"
            /\ StatusEvent(b, "CANCELLED") \in processed' => alloc'[b][s] \notin ActiveStatus
  <2>1. \/ alloc'[b][s] = alloc[b][s]
        \/ alloc[b][s] = "HELD" /\ alloc'[b][s] = "CONFIRMED"
        \/ alloc[b][s] \in ActiveStatus /\ alloc'[b][s] = "CANCELLED"
    BY <1>4, CommitStatusRows DEF StatusWrites
  <2>2. ASSUME NEW k \in {"CONFIRMED", "CANCELLED"}, cur[w] = StatusEvent(b, k)
        PROVE alloc'[b][s] \notin SourceStatus(k)
    <3>1. /\ Booking(w) = b /\ cur[w].kind = k /\ pc[w] = "stWrite"
          /\ k \notin SourceStatus(k)
      BY <1>4, <2>2, StatusRow DEF StatusEvent, Booking, SourceStatus, ActiveStatus
    <3>2. CASE \A t \in Seats : seen[w][t] \notin SourceStatus(k)
      <4>1. alloc' = alloc
        BY <1>4, <3>1, <3>2 DEF StatusWrites, updateManyStatus
      <4>2. seen[w][s] \notin SourceStatus(k) /\ seen[w][s] \in RowStatus \cup {"NONE"}
        BY <3>2
      <4>3. seen[w][s] = "NONE" => alloc[b][s] = "NONE"
        BY <3>1 DEF ReadsAreOld, RowsMatchReplies
      <4>4. /\ seen[w][s] = "CONFIRMED" => alloc[b][s] \in {"CONFIRMED", "CANCELLED"}
            /\ seen[w][s] = "CANCELLED" => alloc[b][s] = "CANCELLED"
        BY <3>1 DEF ReadsAreOld
      <4> QED BY <4>1, <4>2, <4>3, <4>4 DEF SourceStatus, ActiveStatus, RowStatus
    <3>3. CASE ~\A t \in Seats : seen[w][t] \notin SourceStatus(k)
      <4>1. alloc'[b][s] = IF alloc[b][s] \in SourceStatus(k) THEN k ELSE alloc[b][s]
        BY <1>4, <3>1, <3>3 DEF StatusWrites, updateManyStatus, updatedRows
      <4> QED BY <3>1, <4>1
    <3> QED BY <3>2, <3>3
  <2>3. \A k \in {"CONFIRMED", "CANCELLED"} :
          StatusEvent(b, k) \in processed' =>
            StatusEvent(b, k) \in processed \/ cur[w] = StatusEvent(b, k)
    BY <1>4 DEF StatusWrites
  <2> QED BY <1>1, <2>1, <2>2, <2>3 DEF SourceStatus, ActiveStatus
<1> QED BY <1>2, <1>3, <1>4, NextWrites

(* Events stay published, taken and recorded after SeatsHeld only. *)
LEMMA StatusStaysAfterHold ==
  ASSUME RecordsInv, [Next]_vars
  PROVE StatusAfterHold'
<1> USE DEF RecordsInv, TypeInv, TypeOK
<1>1. RecordsGrow
  BY NextGrows
<1>2. \A e \in statusEvents' : "SeatsHeld" \in replies'[e.booking]
  <2>1. \A e \in statusEvents : e.booking \in Bookings
    BY DEF StatusEvents
  <2> QED BY <1>1, <2>1, NextWrites DEF StatusAfterHold, RecordsKept, RecordsGrow,
             HoldWrites, StatusWrites
<1>3. ASSUME NEW w \in Workers, pc'[w] \in {"stRead", "stWrite"}
      PROVE cur'[w] \in statusEvents'
  <2>1. CASE SameWorker(w)
    BY <1>1, <1>3, <2>1 DEF StatusAfterHold, SameWorker, RecordsGrow
  <2>2. CASE WorkerStep(w)
    <3>1. ASSUME NEW e \in statusEvents, handleStatusChanged(w, e)
          PROVE cur'[w] \in statusEvents'
      BY <1>1, <3>1 DEF handleStatusChanged, RecordsGrow
    <3>2. CASE findByBookingId(w)
      BY <1>1, <3>2 DEF findByBookingId, RecordsGrow, StatusAfterHold
    <3>3. \/ \E e \in statusEvents : handleStatusChanged(w, e)
          \/ findByBookingId(w)
      BY <1>3, <2>2 DEF WorkerStep, HoldStep, StatusStep, Fault, Goto, Idle, holdSeats,
         checkScheduleAndSegment, rejectSchedule, acquireSeatLocks, acquireSeatLocksError,
         txRecheck, lockSeats, checkOverlap, commitHold, txError, deadlockDetected, fail,
         releaseSeatLocks, releaseSeatLocksError, commitStatus, commitOffset, crash
    <3> QED BY <3>1, <3>2, <3>3
  <2> QED BY <2>1, <2>2, OwnStep
<1>4. \A e \in processed' : e.kind # "HOLD" => e \in statusEvents'
  <2>1. CASE RecordsKept
    BY <1>1, <2>1 DEF RecordsKept, StatusAfterHold, RecordsGrow
  <2>2. ASSUME NEW w \in Workers, HoldWrites(w)
        PROVE \A e \in processed' : e.kind # "HOLD" => e \in statusEvents'
    BY <1>1, <2>2 DEF HoldWrites, HoldEvent, StatusAfterHold, RecordsGrow
  <2>3. ASSUME NEW w \in Workers, StatusWrites(w)
        PROVE \A e \in processed' : e.kind # "HOLD" => e \in statusEvents'
    BY <1>1, <2>3, StatusRow DEF StatusWrites, StatusAfterHold, RecordsGrow
  <2> QED BY <2>1, <2>2, <2>3, NextWrites
<1> QED BY <1>2, <1>3, <1>4 DEF StatusAfterHold

(* Where a worker may come to release its Redis keys, or to the end. *)
LEMMA EndOfHandler ==
  ASSUME TypeInv, NEW w \in Workers, WorkerStep(w), pc'[w] \in {"unlock", "ack"}
  PROVE \/ \E b \in Bookings : holdSeats(w, b)
        \/ \E e \in statusEvents : handleStatusChanged(w, e)
        \/ txRecheck(w) \/ commitHold(w) \/ fail(w) \/ releaseSeatLocks(w)
        \/ releaseSeatLocksError(w) \/ findByBookingId(w) \/ commitStatus(w)
BY DEF TypeInv, TypeOK, WorkerStep, HoldStep, StatusStep, Fault, Goto, Idle,
   checkScheduleAndSegment, rejectSchedule, acquireSeatLocks, acquireSeatLocksError,
   lockSeats, checkOverlap, txError, deadlockDetected, commitOffset, crash

(* What is true of a worker at the end of its handler. *)
EndOK(w) ==
  /\ pc[w] = "unlock" => replies[Booking(w)] # {}
  /\ pc[w] = "ack" =>
       /\ cur[w] \in Events
       /\ cur[w].kind = "HOLD" => replies[Booking(w)] # {}
       /\ cur[w].kind # "HOLD" => cur[w] \in processed

(* A worker comes to the end of a hold only after an answer, and to the    *)
(* end of a confirmation or cancellation only after its record.            *)
LEMMA EndIsReached ==
  ASSUME RecordsInv, [Next]_vars, NEW w \in Workers, EndOK(w)
  PROVE EndOK(w)'
<1> USE DEF RecordsInv, TypeInv, TypeOK
<1>1. RecordsGrow
  BY NextGrows
<1>2. ASSUME cur[w] \in HoldEvents, cur'[w] = cur[w], replies[Booking(w)] # {}
      PROVE EndOK(w)'
  BY <1>1, <1>2 DEF RecordsGrow, EndOK, HoldEvents, Events, Booking
<1>3. ASSUME cur'[w] = cur[w], cur[w] \in HoldEvents, replies'[Booking(w)] # {}
      PROVE EndOK(w)'
  BY <1>3 DEF EndOK, HoldEvents, Events, Booking
<1>4. CASE SameWorker(w)
  <2>1. pc[w] \in {"unlock", "ack"} => Booking(w) \in Bookings
    BY DEF HandlerFitsEvent, HoldSteps, HoldEvents, EndOK, Events, StatusEvents, Booking
  <2> QED BY <1>1, <1>4, <2>1 DEF SameWorker, RecordsGrow, EndOK, Booking
<1>5. ASSUME NEW b \in Bookings, holdSeats(w, b) PROVE EndOK(w)'
  <2>1. cur'[w] = HoldEvent(b) /\ replies' = replies /\ processed' = processed
    BY <1>5 DEF holdSeats, db
  <2>2. CASE HoldEvent(b) \in processed
    BY <1>5, <2>1, <2>2 DEF HoldsAnswered, EndOK, HoldEvent, HoldEvents, Events, Booking
  <2>3. CASE HoldEvent(b) \notin processed
    BY <1>5, <2>3 DEF holdSeats, Goto, EndOK
  <2> QED BY <2>2, <2>3
<1>6. ASSUME NEW e \in statusEvents, handleStatusChanged(w, e) PROVE EndOK(w)'
  BY <1>6 DEF handleStatusChanged, Goto, db, EndOK, StatusEvents, Events
<1>7. CASE txRecheck(w)
  <2>1. cur[w] \in HoldEvents /\ cur'[w] = cur[w]
    BY <1>7 DEF txRecheck, HandlerFitsEvent, HoldSteps
  <2>2. CASE cur[w] \in processed
    <3>1. replies[Booking(w)] # {}
      BY <2>1, <2>2 DEF HoldsAnswered, HoldEvent, HoldEvents, Booking
    <3> QED BY <1>2, <2>1, <3>1
  <2>3. CASE cur[w] \notin processed
    BY <1>7, <2>3 DEF txRecheck, Goto, EndOK
  <2> QED BY <2>2, <2>3
<1>8. CASE commitHold(w)
  <2>1. cur[w] \in HoldEvents /\ cur'[w] = cur[w] /\ Booking(w) \in Bookings
    BY <1>8 DEF commitHold, HandlerFitsEvent, HoldSteps, HoldEvents, Booking
  <2>2. CASE keysAreNew(w)
    <3>1. replies' = [replies EXCEPT ![Booking(w)] = @ \cup {"SeatsHeld"}]
      BY <1>8, <2>2 DEF commitHold
    <3>2. "SeatsHeld" \in replies'[Booking(w)]
      BY <2>1, <3>1
    <3> QED BY <1>3, <2>1, <3>2
  <2>3. CASE ~keysAreNew(w)
    BY <1>8, <2>3 DEF commitHold, Goto, EndOK
  <2> QED BY <2>2, <2>3
<1>9. CASE fail(w)
  <2>1. cur[w] \in HoldEvents /\ cur'[w] = cur[w] /\ Booking(w) \in Bookings
    BY <1>9 DEF fail, HandlerFitsEvent, HoldSteps, HoldEvents, Booking
  <2>2. replies'[Booking(w)] # {}
    BY <1>9, <2>1 DEF fail, failReply
  <2> QED BY <1>3, <2>1, <2>2
<1>10. CASE releaseSeatLocks(w) \/ releaseSeatLocksError(w)
  <2>1. cur[w] \in HoldEvents /\ cur'[w] = cur[w] /\ pc[w] \in {"unlock", "failNotFound"}
    BY <1>10 DEF releaseSeatLocks, releaseSeatLocksError, HandlerFitsEvent, HoldSteps
  <2>2. CASE pc[w] = "unlock"
    BY <1>2, <2>1, <2>2 DEF HoldsAnswered
  <2>3. CASE pc[w] # "unlock"
    BY <1>10, <2>1, <2>3 DEF releaseSeatLocks, releaseSeatLocksError, Goto, EndOK
  <2> QED BY <2>2, <2>3
<1>11. CASE findByBookingId(w)
  <2>1. cur[w] \in StatusEvents
    BY <1>11 DEF findByBookingId, HandlerFitsEvent
  <2> QED BY <1>11, <2>1 DEF findByBookingId, Goto, db, EndOK, StatusEvents, Events
<1>12. CASE commitStatus(w)
  <2>1. cur[w] \in StatusEvents
    BY <1>12 DEF commitStatus, HandlerFitsEvent
  <2>2. CASE cur[w] \in processed
    BY <1>12, <2>2 DEF commitStatus, Goto, Idle, EndOK
  <2>3. CASE cur[w] \notin processed
    BY <1>12, <2>1, <2>3 DEF commitStatus, updateManyStatus, statusKey, Goto, EndOK,
       StatusEvents, Events
  <2> QED BY <2>2, <2>3
<1>13. CASE pc'[w] \notin {"unlock", "ack"}
  BY <1>13 DEF EndOK
<1> QED BY <1>4, <1>5, <1>6, <1>7, <1>8, <1>9, <1>10, <1>11, <1>12, <1>13,
           OwnStep, EndOfHandler

(* What a confirmation or cancellation read stays a state the rows were in. *)
LEMMA ReadsStayOld ==
  ASSUME RecordsInv, [Next]_vars
  PROVE ReadsAreOld'
<1> USE DEF RecordsInv, TypeInv, TypeOK
<1> SUFFICES ASSUME NEW w \in Workers, NEW s \in Seats, pc'[w] = "stWrite"
             PROVE /\ seen'[w][s] = "NONE" => s \notin req'[cur'[w].booking].seats
                   /\ seen'[w][s] = "CONFIRMED" =>
                        alloc'[cur'[w].booking][s] \in {"CONFIRMED", "CANCELLED"}
                   /\ seen'[w][s] = "CANCELLED" =>
                        alloc'[cur'[w].booking][s] = "CANCELLED"
  BY DEF ReadsAreOld, Booking
<1>1. RecordsGrow
  BY NextGrows
<1>2. CASE SameWorker(w)
  <2>1. Booking(w) \in Bookings /\ pc[w] = "stWrite"
    BY <1>2 DEF SameWorker, HandlerFitsEvent, StatusEvents, Booking
  <2>2. RowAdvances(Booking(w), s)
    BY <2>1, NextAdvances DEF RowAdvances, vars
  <2> QED BY <1>1, <1>2, <2>1, <2>2
          DEF SameWorker, RecordsGrow, ReadsAreOld, RowAdvances, Booking
<1>3. CASE WorkerStep(w)
  <2>1. findByBookingId(w) \/ SameWorker(w)
    BY <1>3 DEF WorkerStep, HoldStep, StatusStep, Fault, Goto, Idle, holdSeats,
       handleStatusChanged, checkScheduleAndSegment, rejectSchedule, acquireSeatLocks,
       acquireSeatLocksError, txRecheck, lockSeats, checkOverlap, commitHold, txError,
       deadlockDetected, fail, releaseSeatLocks, releaseSeatLocksError, commitStatus,
       commitOffset, crash
  <2>2. CASE findByBookingId(w)
    <3>1. /\ Booking(w) \in Bookings /\ cur[w] \in statusEvents
          /\ cur'[w] = cur[w] /\ alloc' = alloc /\ req' = req
          /\ seen'[w] = alloc[Booking(w)]
      BY <2>2 DEF findByBookingId, HandlerFitsEvent, StatusEvents, Booking, StatusAfterHold, db
    <3>2. "SeatsHeld" \in replies[Booking(w)]
      BY <3>1 DEF StatusAfterHold, Booking
    <3> QED BY <3>1, <3>2 DEF RowsMatchReplies, Booking
  <2> QED BY <1>2, <2>1, <2>2
<1> QED BY <1>2, <1>3, OwnStep

(* Every step preserves the invariant of the records. *)
LEMMA NextRecords == RecordsInv /\ [Next]_vars => RecordsInv'
<1> SUFFICES ASSUME RecordsInv, [Next]_vars PROVE RecordsInv'
  OBVIOUS
<1>1. TypeInv'
  BY NextType DEF RecordsInv
<1>2. \A w \in Workers : EndOK(w)
  BY DEF RecordsInv, AckNamesEvent, HoldsAnswered, NoHoldSkipped, StatusApplied, EndOK
<1>3. \A w \in Workers : EndOK(w)'
  BY <1>2, EndIsReached
<1>4. AckNamesEvent' /\ NoHoldSkipped'
  BY <1>3 DEF AckNamesEvent, NoHoldSkipped, EndOK
<1>5. HoldsAnswered'
  BY <1>3, RecordedAnswered DEF HoldsAnswered, EndOK
<1>6. StatusApplied'
  BY <1>3, RecordedApplied DEF StatusApplied, EndOK, Active
<1> QED BY <1>1, <1>4, <1>5, <1>6, RowsStayMatched, StatusStaysAfterHold, ReadsStayOld
        DEF RecordsInv

(* The invariant of the records holds at first. *)
LEMMA InitRecords == Init => RecordsInv
<1> SUFFICES ASSUME Init PROVE RecordsInv
  OBVIOUS
<1>1. TypeInv
  BY InitType
<1>2. \A w \in Workers : pc[w] = "idle"
  BY DEF Init
<1>3. \A b \in Bookings, s \in Seats : alloc[b][s] = "NONE"
  BY DEF Init, NoRows
<1>4. processed = {} /\ statusEvents = {} /\ \A b \in Bookings : replies[b] = {}
  BY DEF Init
<1> QED BY <1>1, <1>2, <1>3, <1>4
        DEF RecordsInv, AckNamesEvent, HoldsAnswered, NoHoldSkipped, RowsMatchReplies,
            StatusAfterHold, ReadsAreOld, StatusApplied, Active, ActiveStatus

(* The invariant of the records holds in every reachable state. *)
LEMMA RecordsAlways == Spec => []RecordsInv
BY InitRecords, NextRecords, PTL DEF Spec

(* A crash mid-handler leads to a replay, never to a skip: no offset of a  *)
(* hold request is committed before a reply to the booking service is in   *)
(* the outbox, on any path through holdSeats and for any number of         *)
(* instances that handle the same event.                                   *)
THEOREM HoldsNotSkipped == Spec => []NoHoldSkipped
<1>1. RecordsInv => NoHoldSkipped
  BY DEF RecordsInv
<1> QED BY <1>1, RecordsAlways, PTL

(* What is recorded as processed has been applied: a confirmed booking has *)
(* no HELD row and a cancelled one no active row, in whichever order and   *)
(* however often the two events were delivered, although updateMany runs   *)
(* on rows that may have changed since findByBookingId read them.          *)
THEOREM RecordedStatusIsApplied == Spec => []StatusApplied
<1>1. RecordsInv => StatusApplied
  BY DEF RecordsInv
<1> QED BY <1>1, RecordsAlways, PTL

(* A booking that was told SeatsHeld and is not cancelled keeps its rows   *)
(* active: HELD, and CONFIRMED once the confirmation is recorded.          *)
LEMMA ToldIsActive ==
  ASSUME RecordsInv, NEW b \in Bookings, "SeatsHeld" \in replies[b],
         StatusEvent(b, "CANCELLED") \notin processed, NEW s \in req[b].seats
  PROVE /\ s \in Seats /\ Active(b, s)
        /\ StatusEvent(b, "CONFIRMED") \in processed => alloc[b][s] = "CONFIRMED"
<1>1. s \in Seats /\ alloc[b][s] \in RowStatus \cup {"NONE"}
  BY DEF RecordsInv, TypeInv, TypeOK, RequestType
<1>2. alloc[b][s] \notin {"NONE", "CANCELLED"}
  BY <1>1 DEF RecordsInv, RowsMatchReplies
<1> QED BY <1>1, <1>2 DEF RecordsInv, StatusApplied, Active, ActiveStatus, RowStatus

(* The seat map never offers a seat that a booking was told it holds and   *)
(* that was not cancelled: not before its time is up, and not at all once  *)
(* the booking is confirmed, whatever other bookings do with the seat.     *)
THEOREM SeatMapKeepsHeldSeats == Spec => []HeldSeatsNotOffered
<1>1. RecordsInv => HeldSeatsNotOffered
  <2> SUFFICES ASSUME RecordsInv, NEW b \in Bookings, NEW from \in Stops, NEW to \in Stops,
                      "SeatsHeld" \in replies[b], StatusEvent(b, "CANCELLED") \notin processed,
                      FromStop(b) < to, ToStop(b) > from, NEW s \in req[b].seats
               PROVE /\ "AVAILABLE" \notin statusStr(s, from, to, {})
                     /\ StatusEvent(b, "CONFIRMED") \in processed =>
                          "AVAILABLE" \notin statusStr(s, from, to, Bookings)
    BY DEF HeldSeatsNotOffered
  <2>1. /\ Active(b, s)
        /\ StatusEvent(b, "CONFIRMED") \in processed => alloc[b][s] = "CONFIRMED"
    BY ToldIsActive
  <2>2. b \in findActiveAllocationsBySegment(s, from, to, {})
    BY <2>1 DEF findActiveAllocationsBySegment
  <2>3. StatusEvent(b, "CONFIRMED") \in processed =>
          b \in findActiveAllocationsBySegment(s, from, to, Bookings)
    BY <2>1 DEF findActiveAllocationsBySegment
  <2> QED BY <2>2, <2>3 DEF statusStr
<1> QED BY <1>1, RecordsAlways, PTL

=============================================================================
