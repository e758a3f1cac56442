------------------------- MODULE BookingFrontProofs -------------------------
(***************************************************************************)
(* Proofs about BookingFront, for any callers, requests, seats, booking    *)
(* ids, tabs and bounds: the types, one booking for one idempotency key,   *)
(* and seat locks that stay with the booking they were taken for.          *)
(*                                                                         *)
(* The two properties speak of rows and replies.  What keeps them is what  *)
(* the running calls own meanwhile: an id that nothing else names, with    *)
(* its locks, and a row only once the commit has gone through.             *)
(***************************************************************************)
EXTENDS BookingFront, TLAPS

keyOf(c) == dto[c].idempotencyKey

(* A call that has passed the lock script.                                 *)
HasId(c) == call[c].at \in {"recheck", "write", "release"}

(* A call has an id from the lock script on, and no two have the same.     *)
CallsHaveIds ==
  /\ \A c \in Callers : IF HasId(c) THEN call[c].id \in Ids ELSE call[c].id = None
  /\ \A c, d \in Callers : HasId(c) /\ HasId(d) /\ call[c].id = call[d].id => c = d

(* A row made under a running call's id was made by that call, whose       *)
(* commit went through though it was told otherwise: it is at the release. *)
RowsOfRunningCalls ==
  \A c \in Callers : HasId(c) /\ bookings[call[c].id] # None =>
    call[c].at = "release" /\ bookings[call[c].id].by = c

(* The key table and the rows name each other.                             *)
RowsHaveKeys == \A i \in Ids : bookings[i] # None =>
  idempotency[keyOf(bookings[i].by)] = i
KeysHaveRows == \A k \in Keys : idempotency[k] # None =>
  bookings[idempotency[k]] # None /\ idempotency[k] \in holdRequests
RepliesHaveKeys == \A c \in Callers : reply[c].is = "created" =>
  idempotency[keyOf(c)] # None /\ reply[c].id = idempotency[keyOf(c)]

(* A running call whose locks did not run out has all of them.             *)
CallsHoldLocks == \A c \in Callers : HasId(c) /\ call[c].id \notin lapsed =>
  \A k \in getLockKeys(dto[c]) : locks[k] = call[c].id

FrontInv == /\ TypeOK /\ CallsHaveIds /\ RowsOfRunningCalls
            /\ RowsHaveKeys /\ KeysHaveRows /\ RepliesHaveKeys
            /\ CallsHoldLocks /\ LocksKeptForOwner

-----------------------------------------------------------------------------
(* What a step may be given, and what newId is.                            *)

(* The locks and the key of a caller's request are among those there are.  *)
LEMMA RequestInRange ==
  ASSUME TypeOK, NEW c \in Callers
  PROVE  getLockKeys(dto[c]) \subseteq LockKeys /\ keyOf(c) \in Keys
  BY DEF TypeOK, LockKeys, Keys, keyOf

(* A fresh id is named by no row, no lock and no running call.             *)
LEMMA NewIdIsFresh ==
  ASSUME freshIds # {}
  PROVE  /\ newId \in Ids /\ bookings[newId] = None
         /\ \A k \in LockKeys : locks[k] # newId
         /\ \A c \in Callers : call[c].id # newId
<1>1. newId \in freshIds BY DEF newId
<1> QED BY <1>1 DEF freshIds

-----------------------------------------------------------------------------
(* Types.                                                                  *)

CallType == [Callers -> [at : {"idle", "preflight", "lock", "recheck", "write",
                               "release"}, id : Ids \cup {None}]]
ReplyType == [Callers -> [is : {"none", "created", "rejected"},
                          id : Ids \cup {None}]]
StreamType == [Streams -> [at : {"closed", "opening", "subscribed", "listening",
                                 "dropped"},
                           id : Ids \cup {None}, gone : BOOLEAN,
                           heard : SUBSET (1..MaxVersion)]]

(* Going on to another place, and ending with an answer.                   *)
LEMMA CallTyped ==
  ASSUME TypeOK, NEW c \in Callers
  PROVE  /\ goto(c, "preflight") \/ goto(c, "lock") \/ goto(c, "write")
            \/ goto(c, "release") => call' \in CallType
         /\ \A i \in Ids \cup {None} :
              answer(c, Created(i)) => call' \in CallType /\ reply' \in ReplyType
         /\ answer(c, Rejected) => call' \in CallType /\ reply' \in ReplyType
         /\ answer(c, Unanswered) => call' \in CallType /\ reply' \in ReplyType
<1>1. call \in CallType /\ reply \in ReplyType
  BY DEF TypeOK, CallType, ReplyType
<1>2. ASSUME NEW at \in {"preflight", "lock", "write", "release"}, goto(c, at)
      PROVE  call' \in CallType
  BY <1>1, <1>2 DEF goto, CallType
<1>3. ASSUME NEW r \in [is : {"none", "created", "rejected"}, id : Ids \cup {None}],
             answer(c, r)
      PROVE  call' \in CallType /\ reply' \in ReplyType
  <2>1. Idle \in [at : {"idle", "preflight", "lock", "recheck", "write",
                        "release"}, id : Ids \cup {None}]
    BY DEF Idle
  <2> QED BY <1>1, <1>3, <2>1 DEF answer, CallType, ReplyType
<1>4. \A i \in Ids \cup {None} :
        Created(i) \in [is : {"none", "created", "rejected"}, id : Ids \cup {None}]
  BY DEF Created
<1>5. {Rejected, Unanswered}
        \subseteq [is : {"none", "created", "rejected"}, id : Ids \cup {None}]
  BY DEF Rejected, Unanswered
<1> QED BY <1>2, <1>3, <1>4, <1>5

(* A commit gives the running call's id a row, a key and a hold request.   *)
LEMMA CommitTyped ==
  ASSUME TypeOK, NEW c \in Callers, call[c].id \in Ids, commitBooking(c)
  PROVE  /\ bookings' \in [Ids -> [by : Callers, version : 1..MaxVersion] \cup {None}]
         /\ idempotency' \in [Keys -> Ids \cup {None}]
         /\ holdRequests' \subseteq Ids
         /\ topic' \subseteq Events /\ topic \subseteq topic'
<1>1. keyOf(c) \in Keys BY RequestInRange
<1>2. 1 \in 1..MaxVersion BY BoundsAssumption
<1>3. create(c) \in [by : Callers, version : 1..MaxVersion] BY <1>2 DEF create
<1>4. [id |-> call[c].id, version |-> 1] \in Events BY <1>2 DEF Events
<1> QED BY <1>1, <1>3, <1>4 DEF TypeOK, commitBooking, keyOf

(* Every step keeps the types.                                             *)
LEMMA NextType ==
  ASSUME TypeOK, CallsHaveIds, [Next]_vars
  PROVE  TypeOK'
<1> USE BoundsAssumption
<1>1. ASSUME NEW c \in Callers, CallStep(c)
      PROVE  TypeOK'
  <2>0. keyOf(c) \in Keys /\ idempotency[keyOf(c)] \in Ids \cup {None}
    BY RequestInRange DEF TypeOK
  <2>1. CASE Post(c)
    <3>1. /\ call' \in CallType
          /\ reply' \in ReplyType \/ reply' = reply
      BY <2>0, <2>1, CallTyped DEF Post, keyOf
    <3> QED BY <2>1, <3>1 DEF Post, TypeOK, CallType, ReplyType
  <2>2. CASE Preflight(c)
    <3>1. /\ call' \in CallType
          /\ reply' \in ReplyType \/ reply' = reply
      BY <2>2, CallTyped DEF Preflight
    <3> QED BY <2>2, <3>1 DEF Preflight, TypeOK, CallType, ReplyType
  <2>3. CASE AcquireSeatLocks(c)
    <3>1. CASE lockable(getLockKeys(dto[c]))
      <4>1. newId \in Ids BY <2>3, <3>1, NewIdIsFresh DEF AcquireSeatLocks
      <4>2. [at |-> "recheck", id |-> newId]
              \in [at : {"idle", "preflight", "lock", "recheck", "write",
                          "release"}, id : Ids \cup {None}]
        BY <4>1
      <4>3. call' \in CallType
        BY <2>3, <3>1, <4>2 DEF AcquireSeatLocks, TypeOK, CallType
      <4>4. locks' \in [LockKeys -> Ids \cup {None}]
        BY <2>3, <3>1, <4>1 DEF AcquireSeatLocks, TypeOK, lockScript
      <4> QED BY <2>3, <3>1, <4>3, <4>4 DEF AcquireSeatLocks, TypeOK, CallType
    <3>2. CASE ~lockable(getLockKeys(dto[c]))
      <4>1. call' \in CallType /\ reply' \in ReplyType
        BY <2>3, <3>2, CallTyped DEF AcquireSeatLocks
      <4> QED BY <2>3, <3>2, <4>1 DEF AcquireSeatLocks, TypeOK, CallType, ReplyType
    <3> QED BY <3>1, <3>2
  <2>4. CASE Recheck(c)
    <3>1. /\ call' \in CallType
          /\ reply' \in ReplyType \/ reply' = reply
      BY <2>0, <2>4, CallTyped DEF Recheck, keyOf
    <3> QED BY <2>4, <3>1 DEF Recheck, TypeOK, CallType, ReplyType
  <2>5. CASE Write(c)
    <3>0. call[c].id \in Ids BY <2>5 DEF Write, CallsHaveIds, HasId
    <3>1. CASE keyIsNew(dto[c].idempotencyKey)
      <4>1. commitBooking(c) /\ answer(c, Created(call[c].id))
        BY <2>5, <3>1 DEF Write
      <4>2. call' \in CallType /\ reply' \in ReplyType
        BY <3>0, <4>1, CallTyped
      <4>3. handled' \subseteq topic'
        BY <2>5, <3>0, <4>1, CommitTyped DEF Write, TypeOK
      <4> QED BY <2>5, <3>0, <4>1, <4>2, <4>3, CommitTyped
              DEF Write, TypeOK, CallType, ReplyType
    <3>2. CASE ~keyIsNew(dto[c].idempotencyKey)
      <4>1. call' \in CallType BY <2>5, <3>2, CallTyped DEF Write
      <4> QED BY <2>5, <3>2, <4>1 DEF Write, TypeOK, CallType
    <3> QED BY <3>1, <3>2
  <2>6. CASE ReleaseSeatLocks(c)
    <3>1. call[c].id \in Ids BY <2>6 DEF ReleaseSeatLocks, CallsHaveIds, HasId
    <3>2. call' \in CallType /\ reply' \in ReplyType
      BY <2>6, CallTyped DEF ReleaseSeatLocks
    <3>3. locks' \in [LockKeys -> Ids \cup {None}]
      BY <2>6 DEF ReleaseSeatLocks, unlockScript, TypeOK
    <3> QED BY <2>6, <3>1, <3>2, <3>3
            DEF ReleaseSeatLocks, TypeOK, CallType, ReplyType
  <2> QED BY <1>1, <2>1, <2>2, <2>3, <2>4, <2>5, <2>6 DEF CallStep
<1>2. ASSUME NEW c \in Callers, Breaks(c)
      PROVE  TypeOK'
  <2>1. CASE UNCHANGED <<locks, lapsed>>
    BY <1>2, <2>1 DEF Breaks, TypeOK, answer, fault, Idle, Unanswered
  <2>2. CASE /\ freshIds # {}
             /\ locks' = lockScript(getLockKeys(dto[c]), newId)
             /\ lapsed' = lapsed \ {newId}
    <3>1. newId \in Ids BY <2>2, NewIdIsFresh
    <3> QED BY <1>2, <2>2, <3>1 DEF Breaks, TypeOK, answer, fault, Idle,
                                    Unanswered, lockScript
  <2> QED BY <1>2, <2>1, <2>2 DEF Breaks
<1>3. ASSUME NEW c \in Callers, TransactionFails(c)
      PROVE  TypeOK'
  <2>0. call[c].id \in Ids BY <1>3 DEF TransactionFails, CallsHaveIds, HasId
  <2>1. CASE UNCHANGED <<bookings, topic, holdRequests, idempotency>>
    BY <1>3, <2>1 DEF TransactionFails, TypeOK, goto, fault
  <2>2. CASE commitBooking(c)
    BY <1>3, <2>0, <2>2, CommitTyped DEF TransactionFails, TypeOK, goto, fault
  <2> QED BY <1>3, <2>1, <2>2 DEF TransactionFails
<1>4. ASSUME NEW id \in Ids, LocksExpire(id)
      PROVE  TypeOK'
  BY <1>4 DEF LocksExpire, TypeOK
<1>5. ASSUME NEW id \in Ids, StatusChanges(id)
      PROVE  TypeOK'
  <2>1. bookings[id] \in [by : Callers, version : 1..MaxVersion]
    BY <1>5 DEF StatusChanges, TypeOK
  <2>2. bookings[id].version + 1 \in 1..MaxVersion
    BY <1>5, <2>1 DEF StatusChanges
  <2>3. /\ [bookings[id] EXCEPT !.version = bookings[id].version + 1]
             \in [by : Callers, version : 1..MaxVersion]
        /\ [id |-> id, version |-> bookings[id].version + 1] \in Events
    BY <2>1, <2>2 DEF Events
  <2> QED BY <1>5, <2>1, <2>3 DEF StatusChanges, TypeOK
<1>6. ASSUME ScheduleCloses
      PROVE  TypeOK'
  BY <1>6 DEF ScheduleCloses, TypeOK
<1>7. ASSUME NEW m \in Events, Handle(m)
      PROVE  TypeOK'
  <2>1. stream' \in StreamType
    BY <1>7 DEF Handle, publish, TypeOK, Events, StreamType
  <2> QED BY <1>7, <2>1 DEF Handle, TypeOK, StreamType, fault, bookingVars
<1>8. ASSUME NEW m \in Events, PublishFails(m)
      PROVE  TypeOK'
  BY <1>8 DEF PublishFails, TypeOK, fault, bookingVars, committedOnFailure
<1>9. ASSUME NEW s \in Streams, StreamStep(s) \/ Leave(s) \/ Drop(s)
      PROVE  TypeOK'
  <2>0. stream \in StreamType
    BY DEF TypeOK, StreamType
  <2>1. CASE StreamStep(s)
    <3>1. PICK at \in {"subscribed", "listening"} :
                 stream' = [stream EXCEPT ![s].at = at]
      BY <2>1 DEF StreamStep, Subscribe, Listen, Resubscribe
    <3>2. stream' \in StreamType BY <3>1, <2>0 DEF StreamType
    <3> QED BY <2>1, <3>2 DEF StreamStep, Subscribe, Listen, Resubscribe,
                              TypeOK, StreamType, bookingVars
  <2>2. CASE Leave(s)
    <3>1. CASE stream' = [stream EXCEPT ![s] = Closed]
      <4>1. stream' \in StreamType BY <3>1, <2>0 DEF StreamType, Closed
      <4> QED BY <2>2, <4>1 DEF Leave, TypeOK, StreamType, bookingVars
    <3>2. CASE stream' = [stream EXCEPT ![s].gone = TRUE]
      <4>1. stream' \in StreamType BY <3>2, <2>0 DEF StreamType
      <4> QED BY <2>2, <4>1 DEF Leave, TypeOK, StreamType, bookingVars
    <3> QED BY <2>2, <3>1, <3>2 DEF Leave
  <2>3. CASE Drop(s)
    BY <2>3 DEF Drop, TypeOK, bookingVars, fault
  <2> QED BY <1>9, <2>1, <2>2, <2>3
<1>10. ASSUME NEW s \in Streams, NEW u \in Users, NEW id \in Ids, Open(s, u, id)
       PROVE  TypeOK'
  BY <1>10 DEF Open, TypeOK, bookingVars, Closed
<1>11. CASE UNCHANGED vars
  BY <1>11 DEF vars, TypeOK
<1> QED BY <1>1, <1>2, <1>3, <1>4, <1>5, <1>6, <1>7, <1>8, <1>9, <1>10, <1>11
        DEF Next

-----------------------------------------------------------------------------
(* Ids, rows and keys.                                                     *)

Core == /\ CallsHaveIds /\ RowsOfRunningCalls
        /\ RowsHaveKeys /\ KeysHaveRows /\ RepliesHaveKeys
        /\ CallsHoldLocks /\ LocksKeptForOwner

(* What a caller is told does not contradict the key table.                *)
ToldTheKey(c) ==
  \/ reply' = reply
  \/ \E r : /\ reply' = [reply EXCEPT ![c] = r]
            /\ r.is = "created" => idempotency'[keyOf(c)] # None
                                    /\ r.id = idempotency'[keyOf(c)]

(* A call that only moves on, or ends, disturbs nothing.                   *)
LEMMA CallMoves ==
  ASSUME TypeOK, Core, NEW c \in Callers,
         UNCHANGED <<dto, bookings, idempotency, holdRequests, locks, lapsed>>,
         ToldTheKey(c),
         \/ call' = [call EXCEPT ![c] = Idle]
         \/ ~HasId(c) /\ \E at \in {"preflight", "lock"} : goto(c, at)
         \/ call[c].at = "recheck" /\ goto(c, "write")
         \/ call[c].at \in {"recheck", "write"} /\ goto(c, "release")
  PROVE  Core'
<1>0. call \in CallType /\ reply \in ReplyType
  BY DEF TypeOK, CallType, ReplyType
<1>1. /\ \A d \in Callers \ {c} : call'[d] = call[d]
      /\ HasId(c)' => HasId(c) /\ call'[c].id = call[c].id
      /\ HasId(c)' /\ bookings[call[c].id] # None => call'[c].at = "release"
      /\ ~HasId(c)' => call'[c].id = None
  BY <1>0 DEF CallType, HasId, goto, Idle, Core, CallsHaveIds, RowsOfRunningCalls
<1>2. \A d \in Callers : HasId(d)' => HasId(d) /\ call'[d].id = call[d].id
  BY <1>1 DEF HasId
<1>3. CallsHaveIds'
  BY <1>1, <1>2 DEF Core, CallsHaveIds, HasId
<1>4. RowsOfRunningCalls'
  BY <1>1, <1>2 DEF Core, RowsOfRunningCalls, HasId
<1>5. RepliesHaveKeys'
  BY <1>0 DEF Core, RepliesHaveKeys, ToldTheKey, ReplyType, keyOf
<1>6. CallsHoldLocks'
  BY <1>2 DEF Core, CallsHoldLocks, getLockKeys, legIndices
<1>7. RowsHaveKeys' /\ KeysHaveRows' /\ LocksKeptForOwner'
  BY DEF Core, RowsHaveKeys, KeysHaveRows, LocksKeptForOwner, keyOf, Keys,
         getLockKeys, legIndices
<1> QED BY <1>3, <1>4, <1>5, <1>6, <1>7 DEF Core

(* The lock script, whether or not its caller hears of it: the keys were   *)
(* free, so no other call and no row loses one, and the id is new.         *)
LEMMA LocksTaken ==
  ASSUME TypeOK, Core, NEW c \in Callers,
         UNCHANGED <<dto, bookings, idempotency, holdRequests>>,
         ToldTheKey(c),
         freshIds # {}, lockable(getLockKeys(dto[c])),
         locks' = lockScript(getLockKeys(dto[c]), newId),
         lapsed' = lapsed \ {newId},
         \/ call' = [call EXCEPT ![c] = Idle]
         \/ call' = [call EXCEPT ![c] = [at |-> "recheck", id |-> newId]]
  PROVE  Core'
<1>0. call \in CallType /\ reply \in ReplyType
  BY DEF TypeOK, CallType, ReplyType
<1>1. /\ newId \in Ids /\ bookings[newId] = None
      /\ \A k \in LockKeys : locks[k] # newId
      /\ \A d \in Callers : call[d].id # newId
  BY NewIdIsFresh
<1>2. /\ \A d \in Callers \ {c} : call'[d] = call[d]
      /\ HasId(c)' => call'[c].id = newId /\ call'[c].at = "recheck"
      /\ ~HasId(c)' => call'[c].id = None
  BY <1>0 DEF CallType, HasId, Idle
<1>3. \A d \in Callers : getLockKeys(dto[d]) \subseteq LockKeys
  BY RequestInRange
<1>4. \A i \in Ids, k \in LockKeys : locks[k] = i => locks'[k] = i
  BY <1>3, NoneAssumption DEF lockScript, lockable
<1>5. \A k \in getLockKeys(dto[c]) : locks'[k] = newId
  BY <1>3 DEF lockScript
<1>6. CallsHaveIds'
  BY <1>1, <1>2 DEF Core, CallsHaveIds, HasId
<1>7. RowsOfRunningCalls'
  BY <1>1, <1>2 DEF Core, RowsOfRunningCalls, HasId
<1>8. RepliesHaveKeys'
  BY <1>0 DEF Core, RepliesHaveKeys, ToldTheKey, ReplyType, keyOf
<1>9. CallsHoldLocks'
  <2> SUFFICES ASSUME NEW d \in Callers, HasId(d)', call'[d].id \notin lapsed',
                      NEW k \in getLockKeys(dto[d])
               PROVE  locks'[k] = call'[d].id
    BY DEF CallsHoldLocks, getLockKeys, legIndices
  <2>1. CASE d = c
    BY <1>2, <1>5, <2>1
  <2>2. CASE d # c
    <3>1. HasId(d) /\ call'[d].id = call[d].id /\ call[d].id \in Ids
      BY <1>2, <2>2 DEF HasId, Core, CallsHaveIds
    <3>2. locks[k] = call[d].id
      BY <1>1, <3>1 DEF Core, CallsHoldLocks
    <3> QED BY <1>3, <1>4, <3>1, <3>2
  <2> QED BY <2>1, <2>2
<1>10. LocksKeptForOwner'
  <2> SUFFICES ASSUME NEW i \in Ids, bookings[i] # None, i \notin lapsed',
                      NEW k \in getLockKeys(dto[bookings[i].by])
               PROVE  locks'[k] = i
    BY DEF LocksKeptForOwner, getLockKeys, legIndices
  <2>1. bookings[i].by \in Callers BY DEF TypeOK
  <2>2. locks[k] = i BY <1>1 DEF Core, LocksKeptForOwner
  <2> QED BY <1>3, <1>4, <2>1, <2>2
<1>11. RowsHaveKeys' /\ KeysHaveRows'
  BY DEF Core, RowsHaveKeys, KeysHaveRows, keyOf, Keys
<1> QED BY <1>6, <1>7, <1>8, <1>9, <1>10, <1>11 DEF Core

(* The commit: the key was free, so its row is the only one under it.      *)
LEMMA BookingCommitted ==
  ASSUME TypeOK, Core, NEW c \in Callers,
         call[c].at = "write", keyIsNew(keyOf(c)), commitBooking(c),
         UNCHANGED <<dto, locks, lapsed>>,
         ToldTheKey(c),
         \/ call' = [call EXCEPT ![c] = Idle]
         \/ goto(c, "release")
  PROVE  Core'
<1>0. call \in CallType /\ reply \in ReplyType
  BY DEF TypeOK, CallType, ReplyType
<1> DEFINE id == call[c].id
<1>1. id \in Ids /\ HasId(c) BY DEF Core, CallsHaveIds, HasId
<1>2. bookings[id] = None BY <1>1 DEF Core, RowsOfRunningCalls
<1>3. /\ bookings'[id] = [by |-> c, version |-> 1] /\ bookings'[id] # None
      /\ \A i \in Ids \ {id} : bookings'[i] = bookings[i]
  <2>1. [by |-> c, version |-> 1] \in [by : Callers, version : 1..MaxVersion]
    BY BoundsAssumption
  <2> QED BY <1>1, <2>1, NoneAssumption DEF commitBooking, create, TypeOK
<1>4. /\ keyOf(c) \in Keys /\ idempotency[keyOf(c)] = None
      /\ idempotency'[keyOf(c)] = id
      /\ \A k \in Keys \ {keyOf(c)} : idempotency'[k] = idempotency[k]
      /\ Keys' = Keys
  BY RequestInRange DEF keyIsNew, commitBooking, TypeOK, keyOf, Keys
<1>5. /\ \A d \in Callers \ {c} : call'[d] = call[d]
      /\ HasId(c)' => call'[c].id = id /\ call'[c].at = "release"
      /\ ~HasId(c)' => call'[c].id = None
  BY <1>0 DEF CallType, HasId, Idle, goto
<1>6. \A d \in Callers : HasId(d)' => HasId(d) /\ call'[d].id = call[d].id
  BY <1>1, <1>5 DEF HasId
<1>7. CallsHaveIds'
  BY <1>1, <1>5, <1>6 DEF Core, CallsHaveIds, HasId
<1>8. RowsOfRunningCalls'
  <2> SUFFICES ASSUME NEW d \in Callers, HasId(d)', bookings'[call'[d].id] # None
               PROVE  call'[d].at = "release" /\ bookings'[call'[d].id].by = d
    BY DEF RowsOfRunningCalls
  <2>1. CASE d = c
    BY <1>3, <1>5, <2>1
  <2>2. CASE d # c
    <3>1. call[d].id # id /\ call[d].id \in Ids /\ call'[d] = call[d]
      BY <1>1, <1>5, <1>6, <2>2 DEF Core, CallsHaveIds
    <3> QED BY <1>3, <1>6, <3>1 DEF Core, RowsOfRunningCalls
  <2> QED BY <2>1, <2>2
<1>9. RowsHaveKeys'
  <2> SUFFICES ASSUME NEW i \in Ids, bookings'[i] # None
               PROVE  idempotency'[keyOf(bookings'[i].by)] = i
    BY DEF RowsHaveKeys, keyOf
  <2>1. CASE i = id
    BY <1>3, <1>4, <2>1
  <2>2. CASE i # id
    <3>1. bookings'[i] = bookings[i] /\ bookings[i].by \in Callers
      BY <1>3, <2>2 DEF TypeOK
    <3>2. idempotency[keyOf(bookings[i].by)] = i
      BY <3>1 DEF Core, RowsHaveKeys
    <3>3. keyOf(bookings[i].by) \in Keys /\ i # None
      BY <3>1, RequestInRange, NoneAssumption
    <3> QED BY <1>4, <3>1, <3>2, <3>3
  <2> QED BY <2>1, <2>2
<1>10. KeysHaveRows'
  <2> SUFFICES ASSUME NEW k \in Keys, idempotency'[k] # None
               PROVE  bookings'[idempotency'[k]] # None
                      /\ idempotency'[k] \in holdRequests'
    BY <1>4 DEF KeysHaveRows
  <2>1. CASE k = keyOf(c)
    BY <1>3, <1>4, <2>1 DEF commitBooking
  <2>2. CASE k # keyOf(c)
    <3>1. /\ idempotency'[k] = idempotency[k] /\ idempotency[k] \in Ids
          /\ bookings[idempotency[k]] # None /\ idempotency[k] \in holdRequests
      BY <1>4, <2>2 DEF Core, KeysHaveRows, TypeOK
    <3> QED BY <1>2, <1>3, <3>1 DEF commitBooking
  <2> QED BY <2>1, <2>2
<1>11. RepliesHaveKeys'
  <2> SUFFICES ASSUME NEW d \in Callers, reply'[d].is = "created"
               PROVE  idempotency'[keyOf(d)] # None
                      /\ reply'[d].id = idempotency'[keyOf(d)]
    BY DEF RepliesHaveKeys, keyOf
  <2>1. keyOf(d) \in Keys BY RequestInRange
  <2>2. CASE reply'[d] = reply[d]
    <3>1. idempotency[keyOf(d)] # None /\ reply[d].id = idempotency[keyOf(d)]
      BY <2>2 DEF Core, RepliesHaveKeys
    <3> QED BY <1>4, <2>1, <2>2, <3>1
  <2>3. CASE reply'[d] # reply[d]
    BY <1>0, <2>3 DEF ToldTheKey, ReplyType
  <2> QED BY <2>2, <2>3
<1>12. CallsHoldLocks'
  BY <1>6 DEF Core, CallsHoldLocks, getLockKeys, legIndices
<1>13. LocksKeptForOwner'
  <2> SUFFICES ASSUME NEW i \in Ids, bookings'[i] # None, i \notin lapsed,
                      NEW k \in getLockKeys(dto[bookings'[i].by])
               PROVE  locks[k] = i
    BY DEF LocksKeptForOwner, getLockKeys, legIndices
  <2>1. CASE i = id
    BY <1>1, <1>3, <2>1 DEF Core, CallsHoldLocks
  <2>2. CASE i # id
    BY <1>3, <2>2 DEF Core, LocksKeptForOwner
  <2> QED BY <2>1, <2>2
<1> QED BY <1>7, <1>8, <1>9, <1>10, <1>11, <1>12, <1>13 DEF Core

(* Locks with one token go, because its call gives them back or because    *)
(* they ran out: the keys of every other id stay.                          *)
LEMMA LocksGo ==
  ASSUME TypeOK, Core, NEW c \in Callers, NEW i \in Ids,
         UNCHANGED <<dto, bookings, idempotency, holdRequests>>,
         lapsed' = lapsed \cup {i},
         \A k \in LockKeys : locks[k] # i => locks'[k] = locks[k],
         ToldTheKey(c),
         call' = call \/ call' = [call EXCEPT ![c] = Idle]
  PROVE  Core'
<1>0. call \in CallType /\ reply \in ReplyType
  BY DEF TypeOK, CallType, ReplyType
<1>1. /\ \A d \in Callers : HasId(d)' => HasId(d) /\ call'[d] = call[d]
      /\ \A d \in Callers : ~HasId(d)' => call'[d].id = None
  BY <1>0 DEF CallType, HasId, Idle, Core, CallsHaveIds
<1>2. \A d \in Callers : getLockKeys(dto[d]) \subseteq LockKeys
  BY RequestInRange
<1>3. CallsHaveIds'
  BY <1>1 DEF Core, CallsHaveIds, HasId
<1>4. RowsOfRunningCalls'
  BY <1>1 DEF Core, RowsOfRunningCalls, HasId
<1>5. RepliesHaveKeys'
  BY <1>0 DEF Core, RepliesHaveKeys, ToldTheKey, ReplyType, keyOf
<1>6. CallsHoldLocks'
  <2> SUFFICES ASSUME NEW d \in Callers, HasId(d)', call'[d].id \notin lapsed',
                      NEW k \in getLockKeys(dto[d])
               PROVE  locks'[k] = call'[d].id
    BY DEF CallsHoldLocks, getLockKeys, legIndices
  <2>1. locks[k] = call[d].id /\ call[d].id # i
    BY <1>1 DEF Core, CallsHoldLocks
  <2> QED BY <1>1, <1>2, <2>1
<1>7. LocksKeptForOwner'
  <2> SUFFICES ASSUME NEW j \in Ids, bookings[j] # None, j \notin lapsed',
                      NEW k \in getLockKeys(dto[bookings[j].by])
               PROVE  locks'[k] = j
    BY DEF LocksKeptForOwner, getLockKeys, legIndices
  <2>1. bookings[j].by \in Callers BY DEF TypeOK
  <2>2. locks[k] = j /\ j # i BY DEF Core, LocksKeptForOwner
  <2> QED BY <1>2, <2>1, <2>2
<1>8. RowsHaveKeys' /\ KeysHaveRows'
  BY DEF Core, RowsHaveKeys, KeysHaveRows, keyOf, Keys
<1> QED BY <1>3, <1>4, <1>5, <1>6, <1>7, <1>8 DEF Core

(* A change of status keeps the row's owner, and so all that rests on it.  *)
LEMMA StatusKeepsOwner ==
  ASSUME TypeOK, Core, NEW id \in Ids, StatusChanges(id)
  PROVE  Core'
<1>1. /\ \A i \in Ids : bookings'[i] # None <=> bookings[i] # None
      /\ \A i \in Ids : bookings[i] # None => bookings'[i].by = bookings[i].by
  <2>1. bookings[id] \in [by : Callers, version : 1..MaxVersion]
    BY DEF StatusChanges, TypeOK
  <2>2. /\ bookings'[id].by = bookings[id].by
        /\ bookings'[id] \in [by : Callers, version : 1..MaxVersion]
        /\ \A i \in Ids \ {id} : bookings'[i] = bookings[i]
    BY <2>1, BoundsAssumption DEF StatusChanges, TypeOK
  <2> QED BY <2>1, <2>2, NoneAssumption
<1>2. UNCHANGED <<dto, call, reply, idempotency, holdRequests, locks, lapsed>>
  BY DEF StatusChanges
<1>3. CallsHaveIds' /\ RepliesHaveKeys' /\ CallsHoldLocks'
  BY <1>2 DEF Core, CallsHaveIds, RepliesHaveKeys, CallsHoldLocks, HasId, keyOf,
              getLockKeys, legIndices
<1>4. RowsOfRunningCalls'
  BY <1>1, <1>2 DEF Core, RowsOfRunningCalls, CallsHaveIds, HasId
<1>5. RowsHaveKeys'
  BY <1>1, <1>2 DEF Core, RowsHaveKeys, keyOf
<1>6. KeysHaveRows'
  BY <1>1, <1>2 DEF Core, KeysHaveRows, Keys, TypeOK
<1>7. LocksKeptForOwner'
  BY <1>1, <1>2 DEF Core, LocksKeptForOwner, getLockKeys, legIndices
<1> QED BY <1>3, <1>4, <1>5, <1>6, <1>7 DEF Core

-----------------------------------------------------------------------------
(* Every step, one action after the other.                                 *)

(* A change of the callers' answers alone, as the code words it.           *)
LEMMA AnswerTellsTheKey ==
  ASSUME TypeOK, NEW c \in Callers
  PROVE  /\ answer(c, Rejected) \/ answer(c, Unanswered) =>
              ToldTheKey(c) /\ call' = [call EXCEPT ![c] = Idle]
         /\ \A i : answer(c, Created(i)) /\ i # None /\ idempotency'[keyOf(c)] = i =>
              ToldTheKey(c) /\ call' = [call EXCEPT ![c] = Idle]
<1>1. ASSUME NEW r, answer(c, r),
             r.is = "created" => idempotency'[keyOf(c)] # None
                                 /\ r.id = idempotency'[keyOf(c)]
      PROVE  ToldTheKey(c) /\ call' = [call EXCEPT ![c] = Idle]
  BY <1>1 DEF answer, ToldTheKey
<1>2. /\ Rejected.is # "created" /\ Unanswered.is # "created"
      /\ \A i : Created(i).id = i
  BY DEF Rejected, Unanswered, Created
<1> QED BY <1>1, <1>2

(* Every step keeps the ids, rows, keys and locks in order.                *)
LEMMA NextCore ==
  ASSUME TypeOK, Core, [Next]_vars
  PROVE  Core'
<1>1. ASSUME NEW c \in Callers, CallStep(c)
      PROVE  Core'
  <2>1. CASE Post(c)
    <3>1. /\ UNCHANGED <<dto, bookings, idempotency, holdRequests, locks, lapsed>>
          /\ call[c].at = "idle"
          /\ \/ answer(c, Rejected)
             \/ /\ idempotency[keyOf(c)] # None
                /\ answer(c, Created(idempotency[keyOf(c)]))
             \/ goto(c, "preflight") /\ UNCHANGED reply
      BY <2>1 DEF Post, keyOf
    <3>2. /\ ToldTheKey(c)
          /\ call' = [call EXCEPT ![c] = Idle] \/ goto(c, "preflight")
      BY <3>1, AnswerTellsTheKey DEF ToldTheKey, keyOf
    <3> QED BY <3>1, <3>2, CallMoves DEF HasId
  <2>2. CASE Preflight(c)
    <3>1. /\ UNCHANGED <<dto, bookings, idempotency, holdRequests, locks, lapsed>>
          /\ call[c].at = "preflight"
          /\ \/ answer(c, Rejected)
             \/ goto(c, "lock") /\ UNCHANGED reply
      BY <2>2 DEF Preflight
    <3>2. /\ ToldTheKey(c)
          /\ call' = [call EXCEPT ![c] = Idle] \/ goto(c, "lock")
      BY <3>1, AnswerTellsTheKey DEF ToldTheKey
    <3> QED BY <3>1, <3>2, CallMoves DEF HasId
  <2>3. CASE AcquireSeatLocks(c)
    <3>1. CASE lockable(getLockKeys(dto[c]))
      <4>1. ToldTheKey(c) BY <2>3, <3>1 DEF AcquireSeatLocks, ToldTheKey
      <4> QED BY <2>3, <3>1, <4>1, LocksTaken DEF AcquireSeatLocks
    <3>2. CASE ~lockable(getLockKeys(dto[c]))
      <4>1. answer(c, Unanswered) BY <2>3, <3>2 DEF AcquireSeatLocks
      <4> QED BY <2>3, <3>2, <4>1, AnswerTellsTheKey, CallMoves
              DEF AcquireSeatLocks
    <3> QED BY <3>1, <3>2
  <2>4. CASE Recheck(c)
    <3>1. /\ UNCHANGED <<dto, bookings, idempotency, holdRequests, locks, lapsed>>
          /\ call[c].at = "recheck"
          /\ \/ /\ idempotency[keyOf(c)] # None
                /\ answer(c, Created(idempotency[keyOf(c)]))
             \/ goto(c, "write") /\ UNCHANGED reply
      BY <2>4 DEF Recheck, keyOf
    <3>2. /\ ToldTheKey(c)
          /\ call' = [call EXCEPT ![c] = Idle] \/ goto(c, "write")
      BY <3>1, AnswerTellsTheKey DEF ToldTheKey, keyOf
    <3> QED BY <3>1, <3>2, CallMoves
  <2>5. CASE Write(c)
    <3>1. CASE keyIsNew(dto[c].idempotencyKey)
      <4>1. commitBooking(c) /\ answer(c, Created(call[c].id))
        BY <2>5, <3>1 DEF Write
      <4>2. call[c].id # None
        BY <2>5, NoneAssumption DEF Write, Core, CallsHaveIds, HasId
      <4>3. idempotency'[keyOf(c)] = call[c].id
        BY <4>1, RequestInRange DEF commitBooking, keyOf, TypeOK
      <4>4. ToldTheKey(c) /\ call' = [call EXCEPT ![c] = Idle]
        BY <4>1, <4>2, <4>3, AnswerTellsTheKey
      <4> QED BY <2>5, <3>1, <4>1, <4>4, BookingCommitted DEF Write, keyOf
    <3>2. CASE ~keyIsNew(dto[c].idempotencyKey)
      <4>1. ToldTheKey(c) BY <2>5, <3>2 DEF Write, ToldTheKey
      <4> QED BY <2>5, <3>2, <4>1, CallMoves DEF Write
    <3> QED BY <3>1, <3>2
  <2>6. CASE ReleaseSeatLocks(c)
    <3>1. call[c].id \in Ids BY <2>6 DEF ReleaseSeatLocks, Core, CallsHaveIds, HasId
    <3>2. \A k \in LockKeys : locks[k] # call[c].id => locks'[k] = locks[k]
      BY <2>6 DEF ReleaseSeatLocks, unlockScript
    <3>3. ToldTheKey(c) /\ call' = [call EXCEPT ![c] = Idle]
      BY <2>6, AnswerTellsTheKey DEF ReleaseSeatLocks
    <3> QED BY <2>6, <3>1, <3>2, <3>3, LocksGo DEF ReleaseSeatLocks
  <2> QED BY <1>1, <2>1, <2>2, <2>3, <2>4, <2>5, <2>6 DEF CallStep
<1>2. ASSUME NEW c \in Callers, Breaks(c)
      PROVE  Core'
  <2>0. ToldTheKey(c) /\ call' = [call EXCEPT ![c] = Idle]
    BY <1>2, AnswerTellsTheKey DEF Breaks
  <2>1. CASE UNCHANGED <<locks, lapsed>>
    BY <1>2, <2>0, <2>1, CallMoves DEF Breaks
  <2>2. CASE /\ lockable(getLockKeys(dto[c])) /\ freshIds # {}
             /\ locks' = lockScript(getLockKeys(dto[c]), newId)
             /\ lapsed' = lapsed \ {newId}
    BY <1>2, <2>0, <2>2, LocksTaken DEF Breaks
  <2> QED BY <1>2, <2>1, <2>2 DEF Breaks
<1>3. ASSUME NEW c \in Callers, TransactionFails(c)
      PROVE  Core'
  <2>0. ToldTheKey(c) BY <1>3 DEF TransactionFails, ToldTheKey
  <2>1. CASE UNCHANGED <<bookings, topic, holdRequests, idempotency>>
    BY <1>3, <2>0, <2>1, CallMoves DEF TransactionFails
  <2>2. CASE /\ call[c].at = "write" /\ keyIsNew(dto[c].idempotencyKey)
             /\ commitBooking(c)
    BY <1>3, <2>0, <2>2, BookingCommitted DEF TransactionFails, keyOf
  <2> QED BY <1>3, <2>1, <2>2 DEF TransactionFails
<1>4. ASSUME NEW id \in Ids, LocksExpire(id), NEW c \in Callers
      PROVE  Core'
  <2>1. \A k \in LockKeys : locks[k] # id => locks'[k] = locks[k]
    BY <1>4 DEF LocksExpire
  <2>2. ToldTheKey(c) BY <1>4 DEF LocksExpire, ToldTheKey
  <2> QED BY <1>4, <2>1, <2>2, LocksGo DEF LocksExpire
<1>5. ASSUME NEW id \in Ids, LocksExpire(id)
      PROVE  \E c : c \in Callers
  BY <1>5 DEF LocksExpire, expires, LockKeys
<1>6. ASSUME NEW id \in Ids, StatusChanges(id)
      PROVE  Core'
  BY <1>6, StatusKeepsOwner
<1>7. ASSUME UNCHANGED <<dto, call, reply, bookings, idempotency, holdRequests,
                         locks, lapsed>>
      PROVE  Core'
  BY <1>7 DEF Core, CallsHaveIds, RowsOfRunningCalls, RowsHaveKeys, KeysHaveRows,
              RepliesHaveKeys, CallsHoldLocks, LocksKeptForOwner, HasId, keyOf,
              Keys, getLockKeys, legIndices
<1>8. CASE ScheduleCloses
  BY <1>8, <1>7 DEF ScheduleCloses
<1>9. CASE \E m \in Events : Handle(m) \/ PublishFails(m)
  BY <1>9, <1>7 DEF Handle, PublishFails, bookingVars
<1>10. CASE \E s \in Streams : StreamStep(s) \/ Leave(s) \/ Drop(s)
  BY <1>10, <1>7 DEF StreamStep, Subscribe, Listen, Resubscribe, Leave, Drop,
                     bookingVars
<1>11. CASE \E s \in Streams, u \in Users, id \in Ids : Open(s, u, id)
  BY <1>11, <1>7 DEF Open, bookingVars
<1>12. CASE UNCHANGED vars
  BY <1>12, <1>7 DEF vars
<1> QED BY <1>1, <1>2, <1>3, <1>4, <1>5, <1>6, <1>8, <1>9, <1>10, <1>11, <1>12
        DEF Next

-----------------------------------------------------------------------------
(* The invariants.                                                         *)

LEMMA InitFront ==
  ASSUME Init
  PROVE  TypeOK /\ Core
<1>1. TypeOK
  BY BoundsAssumption DEF Init, TypeOK, Idle, Unanswered, Closed
<1>2. Core
  BY DEF Init, Core, CallsHaveIds, RowsOfRunningCalls, RowsHaveKeys,
         KeysHaveRows, RepliesHaveKeys, CallsHoldLocks, LocksKeptForOwner, HasId,
         Idle, Unanswered, keyOf, Keys, LockKeys
<1> QED BY <1>1, <1>2

LEMMA FrontAlways == Spec => [](TypeOK /\ Core)
<1>1. Init => TypeOK /\ Core BY InitFront
<1>2. TypeOK /\ Core /\ [Next]_vars => (TypeOK /\ Core)'
  BY NextType, NextCore DEF Core
<1> QED BY <1>1, <1>2, PTL DEF Spec

(* Every variable of the front keeps its type in every behaviour.          *)
THEOREM FrontTypes == Spec => []TypeOK
BY FrontAlways, PTL

(* However many calls post one idempotency key, and however they overlap,  *)
(* fail, lose the answer to their commit and are retried, one booking row  *)
(* is made under it, and every caller told of a booking is told that one   *)
(* (createBooking, the recheck inside the transaction, the unique key).    *)
THEOREM KeyNamesOneBooking == Spec => []OneBookingPerKey
<1>1. TypeOK /\ Core => OneBookingPerKey
  <2> SUFFICES ASSUME TypeOK, Core PROVE OneBookingPerKey OBVIOUS
  <2>1. ASSUME NEW i \in {n \in Ids : bookings[n] # None},
               NEW j \in {n \in Ids : bookings[n] # None},
               dto[bookings[i].by].idempotencyKey = dto[bookings[j].by].idempotencyKey
        PROVE  i = j
    BY <2>1 DEF Core, RowsHaveKeys, keyOf
  <2>2. ASSUME NEW c \in Callers, reply[c].is = "created"
        PROVE  /\ reply[c].id = idempotency[dto[c].idempotencyKey]
               /\ bookings[reply[c].id] # None
               /\ reply[c].id \in holdRequests
    <3>1. keyOf(c) \in Keys BY RequestInRange
    <3> QED BY <2>2, <3>1 DEF Core, RepliesHaveKeys, KeysHaveRows, keyOf
  <2> QED BY <2>1, <2>2 DEF OneBookingPerKey
<1> QED BY <1>1, FrontAlways, PTL

(* A booking has all of its seat locks until they expire or its own call   *)
(* gives them back, for any number of calls over the same seats and legs   *)
(* (acquireSeatLocks and releaseSeatLocks with the two scripts).           *)
THEOREM LocksStayWithOwner == Spec => []LocksKeptForOwner
<1>1. TypeOK /\ Core => LocksKeptForOwner BY DEF Core
<1> QED BY <1>1, FrontAlways, PTL
=============================================================================
