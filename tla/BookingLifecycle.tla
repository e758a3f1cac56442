-------------------------- MODULE BookingLifecycle --------------------------
(***************************************************************************)
(* The life of one booking row in the booking service                      *)
(* (apps/booking-service/src/services/booking.service.ts and               *)
(* booking-saga.orchestrator.ts), from the PENDING row createBooking       *)
(* commits.  Workers are the executions that may be under way at once: the *)
(* four Kafka consumers of each instance and the HTTP handlers.  Each      *)
(* database transaction reads the row in one step and writes it in a later *)
(* one, so whatever another execution commits in between is seen by the    *)
(* version guard alone.                                                    *)
(***************************************************************************)
EXTENDS Naturals, Sequences

CONSTANTS
  Tasks,       \* inputs: replies of other services and requests of the user
  Workers,     \* concurrent executions
  None,        \* no worker, no task
  MaxFaults    \* bound: crashes and errors in a behaviour

ReplyKinds == {"SeatsHeld", "SeatsHoldFailed", "SeatHoldExpired"}
EventKinds == ReplyKinds \cup {"PaymentSuccess"}
RequestKinds == {"Cancel", "Pay"}

ASSUME TasksAssumption == Tasks \subseteq [kind: EventKinds \cup RequestKinds, id: Nat]
ASSUME BookingNoneAssumption == None \notin Workers /\ None \notin Tasks
ASSUME BookingFaultsAssumption == MaxFaults \in Nat

VARIABLES
  status,         \* bookings.status
  version,        \* bookings.version
  failureReason,  \* bookings.failure_reason is set
  saga,           \* saga_logs.status of each step
  outbox,         \* BookingStatusChanged rows, in commit order
  paymentOrder,   \* payment-service has an order for this booking
  sagaLock,       \* worker whose open transaction wrote saga CREATE_PAYMENT
  key,            \* Redis idempotency key of each event
  task,           \* task[t]: not sent yet, on its topic or open, done
  pc,             \* pc[w]: where execution w stands
  cur,            \* cur[w]: the task w executes
  goal,           \* goal[w]: target status of the transition w performs
  seen,           \* seen[w]: the row as w last read it
  faults          \* faults so far

row == <<status, version, failureReason>>
vars == <<row, saga, outbox, paymentOrder, sagaLock, key, task, pc, cur, goal,
          seen, faults>>

Status ==
  {"PENDING", "SEATS_HELD", "PAYMENT_PENDING", "CONFIRMING", "CONFIRMED",
   "FAILED", "EXPIRED", "CANCELLING", "CANCELLED"}
SagaStep == {"HOLD_SEATS", "CREATE_PAYMENT", "CONFIRM_SEATS"}
SagaStatus == {"PENDING", "COMPLETED", "FAILED", "COMPENSATED"}
StatusChanged == [previous: Status, current: Status, version: Nat]
Goals == {"PAYMENT_PENDING", "CONFIRMING", "CONFIRMED", "CANCELLING", "CANCELLED"}

ReplySteps == {"replyRead", "replyWrite"}
PaymentSteps == {"payRead", "payLock", "confirmRead", "confirmSaga", "payCommit"}
OrderSteps == {"order", "orderDone", "orderFailed"}
TransitionSteps == {"trRead", "trWrite"}
Steps ==
  {"idle", "mark", "release", "ack"}
    \cup ReplySteps \cup PaymentSteps \cup OrderSteps \cup TransitionSteps

TypeOK ==
  /\ status \in Status
  /\ version \in Nat
  /\ failureReason \in BOOLEAN
  /\ saga \in [SagaStep -> SagaStatus]
  /\ outbox \in Seq(StatusChanged)
  /\ paymentOrder \in BOOLEAN
  /\ sagaLock \in Workers \cup {None}
  /\ key \in [Tasks -> {"free", "PROCESSING", "PROCESSED"}]
  /\ task \in [Tasks -> {"unsent", "open", "done"}]
  /\ pc \in [Workers -> Steps]
  /\ cur \in [Workers -> Tasks \cup {None}]
  /\ goal \in [Workers -> Goals]
  /\ seen \in [Workers -> [status: Status, version: Nat]]
  /\ faults \in 0..MaxFaults

-----------------------------------------------------------------------------
(* The row createBooking commits, with its first event and its saga rows.  *)
Init ==
  /\ status = "PENDING"
  /\ version = 1
  /\ failureReason = FALSE
  /\ saga = [s \in SagaStep |-> "PENDING"]
  /\ outbox = <<>>
  /\ paymentOrder = FALSE
  /\ sagaLock = None
  /\ key = [t \in Tasks |-> "free"]
  /\ task = [t \in Tasks |-> "unsent"]
  /\ pc = [w \in Workers |-> "idle"]
  /\ cur = [w \in Workers |-> None]
  /\ goal = [w \in Workers |-> "PAYMENT_PENDING"]
  /\ seen = [w \in Workers |-> [status |-> "PENDING", version |-> 1]]
  /\ faults = 0

Kind(w) == cur[w].kind
Goto(w, step) == pc' = [pc EXCEPT ![w] = step]
Read(w) == seen' = [seen EXCEPT ![w] = [status |-> status, version |-> version]]
SetSaga(step, st) == saga' = [saga EXCEPT ![step] = st]
SetKey(w, k) == key' = [key EXCEPT ![cur[w]] = k]

(* Where an execution goes on when it has performed a transition. *)
Advance(w, target) == goal' = [goal EXCEPT ![w] = target] /\ Goto(w, "trRead")

(* The execution ends; its local variables go with it. *)
Finish(w) ==
  /\ Goto(w, "idle")
  /\ cur' = [cur EXCEPT ![w] = None]
  /\ goal' = [goal EXCEPT ![w] = "PAYMENT_PENDING"]
  /\ seen' = [seen EXCEPT ![w] = [status |-> "PENDING", version |-> 1]]

(* An open transaction that ends gives its row lock back. *)
UnlockSaga(w) == sagaLock' = IF sagaLock = w THEN None ELSE sagaLock

-----------------------------------------------------------------------------
(* The environment: replies of inventory-service, captures reported by     *)
(* payment-service for an order it has, and the user's requests.           *)
send(t) ==
  /\ task[t] = "unsent"
  /\ t.kind = "PaymentSuccess" => paymentOrder
  /\ task' = [task EXCEPT ![t] = "open"]
  /\ UNCHANGED <<row, saga, outbox, paymentOrder, sagaLock, key, pc, cur, goal, seen, faults>>

(* reserveIfNew: SET key PROCESSING EX lease NX.  A key that exists, in    *)
(* either state, makes the handler return, and the offset is committed.    *)
reserveIfNew(w, t) ==
  /\ pc[w] = "idle"
  /\ task[t] = "open"
  /\ t.kind \in EventKinds
  /\ cur' = [cur EXCEPT ![w] = t]
  /\ key' = IF key[t] = "free" THEN [key EXCEPT ![t] = "PROCESSING"] ELSE key
  /\ Goto(w, CASE key[t] # "free" -> "ack"
               [] t.kind = "PaymentSuccess" -> "payRead"
               [] OTHER -> "replyRead")
  /\ UNCHANGED <<row, saga, outbox, paymentOrder, sagaLock, task, goal, seen, faults>>

(* The lease runs out while the handler is still at work, or after it died. *)
leaseExpires(t) ==
  /\ key[t] = "PROCESSING"
  /\ key' = [key EXCEPT ![t] = "free"]
  /\ UNCHANGED <<row, saga, outbox, paymentOrder, sagaLock, task, pc, cur, goal, seen, faults>>

markProcessed(w) ==
  /\ pc[w] = "mark"
  /\ SetKey(w, "PROCESSED")
  /\ IF Kind(w) = "SeatsHeld"
       THEN Advance(w, "PAYMENT_PENDING")
       ELSE Goto(w, "ack") /\ UNCHANGED goal
  /\ UNCHANGED <<row, saga, outbox, paymentOrder, sagaLock, task, cur, seen, faults>>

(* The error path: release deletes the key only while it is PROCESSING;    *)
(* the rethrown error leaves the offset uncommitted.                       *)
release(w) ==
  /\ pc[w] = "release"
  /\ key' = IF key[cur[w]] = "PROCESSING" THEN [key EXCEPT ![cur[w]] = "free"] ELSE key
  /\ Finish(w)
  /\ UNCHANGED <<row, saga, outbox, paymentOrder, sagaLock, task, faults>>

(* The offset is committed, or the HTTP response is sent. *)
acknowledge(w) ==
  /\ pc[w] = "ack"
  /\ task' = [task EXCEPT ![cur[w]] = "done"]
  /\ Finish(w)
  /\ UNCHANGED <<row, saga, outbox, paymentOrder, sagaLock, key, faults>>

-----------------------------------------------------------------------------
(* updateStatus: version < read version + 1.                               *)

(* Mutant: updateMany without the version guard. *)
versionIsCurrentUnguarded(w) == TRUE

versionIsCurrent(w) == version < seen[w].version + 1

updateStatus(w, target) ==
  /\ status' = target
  /\ version' = seen[w].version + 1

(* Mutant: the three handlers share the guard of a held booking. *)
ReplyFromHeldOnly(kind) == {"SEATS_HELD"}

(* handleSeatsHeld, handleSeatsHoldFailed and handleSeatHoldExpired: the   *)
(* statuses each of them takes a booking from, the one it sets, and what   *)
(* it writes to the saga step HOLD_SEATS.                                  *)
ReplyFrom(kind) ==
  IF kind = "SeatHoldExpired" THEN {"SEATS_HELD", "PENDING"} ELSE {"PENDING"}

ReplyStatus(kind) ==
  CASE kind = "SeatsHeld" -> "SEATS_HELD"
    [] kind = "SeatsHoldFailed" -> "FAILED"
    [] OTHER -> "EXPIRED"

ReplySaga(kind) ==
  CASE kind = "SeatsHeld" -> "COMPLETED"
    [] kind = "SeatsHoldFailed" -> "FAILED"
    [] OTHER -> "COMPENSATED"

replyRead(w) ==
  /\ pc[w] = "replyRead"
  /\ Read(w)
  /\ Goto(w, IF status \in ReplyFrom(Kind(w)) THEN "replyWrite" ELSE "mark")
  /\ UNCHANGED <<row, saga, outbox, paymentOrder, sagaLock, key, task, cur, goal, faults>>

(* The rest of the transaction.  A lost race makes handleSeatsHeld throw;  *)
(* the other two do not look at the result and write the saga step, the    *)
(* failed one the failure reason too.  No status event is recorded.        *)
replyWrite(w) ==
  /\ pc[w] = "replyWrite"
  /\ IF versionIsCurrent(w)
       THEN updateStatus(w, ReplyStatus(Kind(w)))
       ELSE UNCHANGED <<status, version>>
  /\ IF Kind(w) = "SeatsHeld" /\ ~versionIsCurrent(w)
       THEN Goto(w, "release") /\ UNCHANGED <<failureReason, saga>>
       ELSE /\ Goto(w, "mark")
            /\ failureReason' = (failureReason \/ Kind(w) = "SeatsHoldFailed")
            /\ SetSaga("HOLD_SEATS", ReplySaga(Kind(w)))
  /\ UNCHANGED <<outbox, paymentOrder, sagaLock, key, task, cur, goal, seen, faults>>

-----------------------------------------------------------------------------
(* BookingService.transition, in the transaction of its own.               *)

(* allowedFrom and fromStates of the five callers. *)
permittedStates(target) ==
  CASE target = "PAYMENT_PENDING" -> {"SEATS_HELD"}
    [] target = "CONFIRMING" -> {"PAYMENT_PENDING"}
    [] target = "CONFIRMED" -> {"CONFIRMING"}
    [] target = "CANCELLING" -> {"CONFIRMED", "SEATS_HELD"}
    [] OTHER -> {"CANCELLING"}

(* Mutant: the saga step is closed without markConfirmed. *)
afterTransitionNotConfirmed(kind, target) ==
  CASE kind = "PaymentSuccess" /\ target = "PAYMENT_PENDING" -> "CONFIRMING"
    [] kind = "Cancel" /\ target = "CANCELLING" -> "CANCELLED"
    [] OTHER -> "DONE"

(* The transition the caller performs next. *)
afterTransition(kind, target) ==
  CASE kind = "PaymentSuccess" /\ target = "PAYMENT_PENDING" -> "CONFIRMING"
    [] kind = "PaymentSuccess" /\ target = "CONFIRMING" -> "CONFIRMED"
    [] kind = "Cancel" /\ target = "CANCELLING" -> "CANCELLED"
    [] OTHER -> "DONE"

(* What a thrown error leads to: handleSeatsHeld logs that its automatic   *)
(* step failed, handlePaymentSuccess rolls back and releases its key, a    *)
(* request is answered with an error.                                      *)
onThrow(kind) == IF kind = "PaymentSuccess" THEN "release" ELSE "ack"

transitionRead(w) ==
  /\ pc[w] = "trRead"
  /\ Read(w)
  /\ IF status \in permittedStates(goal[w])
       THEN Goto(w, "trWrite") /\ UNCHANGED sagaLock
       ELSE Goto(w, onThrow(Kind(w))) /\ UnlockSaga(w)
  /\ UNCHANGED <<row, saga, outbox, paymentOrder, key, task, cur, goal, faults>>

(* Mutant: the event carries the status that was read. *)
statusChangedStale(w) ==
  [previous |-> seen[w].status, current |-> seen[w].status, version |-> seen[w].version + 1]

(* The outbox row of the transition. *)
statusChangedPayload(w) ==
  [previous |-> seen[w].status, current |-> goal[w], version |-> seen[w].version + 1]

transitionWrite(w) ==
  LET next == afterTransition(Kind(w), goal[w])
  IN /\ pc[w] = "trWrite"
     /\ IF versionIsCurrent(w)
          THEN /\ updateStatus(w, goal[w])
               /\ outbox' = Append(outbox, statusChangedPayload(w))
               /\ IF next # "DONE"
                    THEN Advance(w, next)
                    ELSE /\ Goto(w, IF Kind(w) = "PaymentSuccess" THEN "confirmSaga" ELSE "ack")
                         /\ UNCHANGED goal
               /\ UNCHANGED sagaLock
          ELSE /\ Goto(w, onThrow(Kind(w)))
               /\ UnlockSaga(w)
               /\ UNCHANGED <<status, version, outbox, goal>>
     /\ UNCHANGED <<failureReason, saga, paymentOrder, key, task, cur, seen, faults>>

-----------------------------------------------------------------------------
(* handlePaymentSuccess: a transaction that stays open around              *)
(* confirmPayment, whose own transactions commit one by one.               *)

PaymentStates == {"SEATS_HELD", "PAYMENT_PENDING", "CONFIRMING"}

paymentRead(w) ==
  /\ pc[w] = "payRead"
  /\ Read(w)
  /\ Goto(w, IF status \in PaymentStates THEN "payLock" ELSE "mark")
  /\ UNCHANGED <<row, saga, outbox, paymentOrder, sagaLock, key, task, cur, goal, faults>>

(* 1. The CREATE_PAYMENT update, uncommitted: its row stays locked.        *)
paymentLock(w) ==
  /\ pc[w] = "payLock"
  /\ sagaLock = None
  /\ sagaLock' = w
  /\ Goto(w, "confirmRead")
  /\ UNCHANGED <<row, saga, outbox, paymentOrder, key, task, cur, goal, seen, faults>>

(* 2. confirmPayment decides on a read of its own which step comes first.  *)
confirmPayment(w) ==
  /\ pc[w] = "confirmRead"
  /\ Read(w)
  /\ Advance(w, IF status = "SEATS_HELD" THEN "PAYMENT_PENDING" ELSE "CONFIRMING")
  /\ UNCHANGED <<row, saga, outbox, paymentOrder, sagaLock, key, task, cur, faults>>

(* Mutant: the statement writes the row that the outer transaction holds.  *)
confirmSagaSameRow(w) ==
  /\ pc[w] = "confirmSaga"
  /\ sagaLock = None
  /\ saga' = [saga EXCEPT !["CREATE_PAYMENT"] = "COMPLETED", !["CONFIRM_SEATS"] = "COMPLETED"]
  /\ Goto(w, "payCommit")
  /\ UNCHANGED <<row, outbox, paymentOrder, sagaLock, key, task, cur, goal, seen, faults>>

(* Its last statement runs outside any transaction. *)
confirmSaga(w) ==
  /\ pc[w] = "confirmSaga"
  /\ SetSaga("CONFIRM_SEATS", "COMPLETED")
  /\ Goto(w, "payCommit")
  /\ UNCHANGED <<row, outbox, paymentOrder, sagaLock, key, task, cur, goal, seen, faults>>

(* 3. CONFIRM_SEATS again, and the outer transaction commits. *)
paymentCommit(w) ==
  /\ pc[w] = "payCommit"
  /\ saga' = [saga EXCEPT !["CREATE_PAYMENT"] = "COMPLETED", !["CONFIRM_SEATS"] = "COMPLETED"]
  /\ UnlockSaga(w)
  /\ Goto(w, "mark")
  /\ UNCHANGED <<row, outbox, paymentOrder, key, task, cur, goal, seen, faults>>

-----------------------------------------------------------------------------
(* The two requests, each run once by the execution that receives it.      *)
cancelBooking(w, t) ==
  /\ pc[w] = "idle"
  /\ task[t] = "open"
  /\ t.kind = "Cancel"
  /\ \A v \in Workers : cur[v] # t
  /\ cur' = [cur EXCEPT ![w] = t]
  /\ Advance(w, "CANCELLING")
  /\ UNCHANGED <<row, saga, outbox, paymentOrder, sagaLock, key, task, seen, faults>>

(* createPaymentOrder reads the row and asks payment-service whatever its  *)
(* status is.                                                              *)
createPaymentOrder(w, t) ==
  /\ pc[w] = "idle"
  /\ task[t] = "open"
  /\ t.kind = "Pay"
  /\ \A v \in Workers : cur[v] # t
  /\ cur' = [cur EXCEPT ![w] = t]
  /\ Read(w)
  /\ Goto(w, "order")
  /\ UNCHANGED <<row, saga, outbox, paymentOrder, sagaLock, key, task, goal, faults>>

(* payment-service answers, or fails with or without having made an order. *)
createOrder(w) ==
  /\ pc[w] = "order"
  /\ \E made \in BOOLEAN, answered \in BOOLEAN :
       /\ answered => made
       /\ paymentOrder' = (paymentOrder \/ made)
       /\ Goto(w, IF answered THEN "orderDone" ELSE "orderFailed")
  /\ UNCHANGED <<row, saga, outbox, sagaLock, key, task, cur, goal, seen, faults>>

(* The saga update waits for a transaction that holds its row, and an      *)
(* error of it is swallowed; only the status read before the call decides  *)
(* whether markPaymentPending follows.                                     *)
orderSaga(w) ==
  /\ pc[w] \in {"orderDone", "orderFailed"}
  /\ \/ /\ sagaLock = None
        /\ SetSaga("CREATE_PAYMENT", IF pc[w] = "orderDone" THEN "COMPLETED" ELSE "FAILED")
        /\ UNCHANGED faults
     \/ faults < MaxFaults /\ faults' = faults + 1 /\ UNCHANGED saga
  /\ IF pc[w] = "orderDone" /\ seen[w].status = "SEATS_HELD"
       THEN Advance(w, "PAYMENT_PENDING")
       ELSE Goto(w, "ack") /\ UNCHANGED goal
  /\ UNCHANGED <<row, outbox, paymentOrder, sagaLock, key, task, cur, seen>>

-----------------------------------------------------------------------------
(* Faults.                                                                 *)

(* A statement or a Redis call of the handler throws. *)
error(w) ==
  /\ pc[w] \in ReplySteps \cup PaymentSteps \cup TransitionSteps \cup {"mark"}
  /\ faults < MaxFaults
  /\ faults' = faults + 1
  /\ Goto(w, IF pc[w] \in TransitionSteps THEN onThrow(Kind(w)) ELSE "release")
  /\ UnlockSaga(w)
  /\ UNCHANGED <<row, saga, outbox, paymentOrder, key, task, cur, goal, seen>>

(* The instance dies: what it had not committed is gone, its Redis key     *)
(* stays, an event comes again and a request does not.                     *)
crash(w) ==
  /\ pc[w] # "idle"
  /\ faults < MaxFaults
  /\ faults' = faults + 1
  /\ UnlockSaga(w)
  /\ task' = IF Kind(w) \in RequestKinds THEN [task EXCEPT ![cur[w]] = "done"] ELSE task
  /\ Finish(w)
  /\ UNCHANGED <<row, saga, outbox, paymentOrder, key>>

-----------------------------------------------------------------------------
start(w, t) ==
  reserveIfNew(w, t) \/ cancelBooking(w, t) \/ createPaymentOrder(w, t)

step(w) ==
  \/ replyRead(w)
  \/ replyWrite(w)
  \/ transitionRead(w)
  \/ transitionWrite(w)
  \/ paymentRead(w)
  \/ paymentLock(w)
  \/ confirmPayment(w)
  \/ confirmSaga(w)
  \/ paymentCommit(w)
  \/ createOrder(w)
  \/ orderSaga(w)
  \/ markProcessed(w)
  \/ release(w)
  \/ acknowledge(w)

(* What happens while no statement throws and no instance dies. *)
Work ==
  \/ \E w \in Workers, t \in Tasks : start(w, t)
  \/ \E w \in Workers : step(w)
  \/ \E t \in Tasks : send(t) \/ leaseExpires(t)

Next == Work \/ \E w \in Workers : error(w) \/ crash(w)

Spec == Init /\ [][Next]_vars

-----------------------------------------------------------------------------
(* The lifecycle BookingService documents. *)
Lifecycle ==
  {<<"PENDING", "SEATS_HELD">>, <<"PENDING", "FAILED">>, <<"PENDING", "EXPIRED">>,
   <<"SEATS_HELD", "PAYMENT_PENDING">>, <<"SEATS_HELD", "EXPIRED">>,
   <<"SEATS_HELD", "CANCELLING">>, <<"PAYMENT_PENDING", "CONFIRMING">>,
   <<"CONFIRMING", "CONFIRMED">>, <<"CONFIRMED", "CANCELLING">>,
   <<"CANCELLING", "CANCELLED">>}

(* Every committed write of the row follows one edge of the lifecycle and  *)
(* takes the next version number, although each writer decides on a row it *)
(* read before other executions wrote it: the CAS of updateStatus.         *)
FollowsLifecycle ==
  [][\/ UNCHANGED <<status, version>>
     \/ <<status, status'>> \in Lifecycle /\ version' = version + 1]_vars

(* BookingStatusChanged rows are recorded in version order, no version     *)
(* twice, none ahead of the row, and the one that carries the row's        *)
(* version carries its status: a consumer may keep the highest version it  *)
(* has seen.                                                               *)
EventsInOrder ==
  /\ \A i, j \in 1..Len(outbox) : i < j => outbox[i].version < outbox[j].version
  /\ \A i \in 1..Len(outbox) :
       /\ outbox[i].version <= version
       /\ outbox[i].version = version => outbox[i].current = status

(* A completed saga step tells the truth about the booking: HOLD_SEATS is  *)
(* COMPLETED only when the seats were held, CONFIRM_SEATS only when the    *)
(* booking was confirmed, whatever executions overlapped.                  *)
SagaStepsHappened ==
  /\ saga["HOLD_SEATS"] = "COMPLETED" => status \notin {"PENDING", "FAILED"}
  /\ saga["CONFIRM_SEATS"] = "COMPLETED" => status \in {"CONFIRMED", "CANCELLING", "CANCELLED"}

(* The outer transaction of handlePaymentSuccess keeps the saga row locked *)
(* while confirmPayment runs transactions of its own.  None of those waits *)
(* for that row, and every way out (commit, refused transition, lost       *)
(* version race, thrown error, crash) gives it back: whoever holds the row *)
(* can take a step, so whoever waits for it is not stuck.                  *)
RowOwnerGoesOn == sagaLock # None => ENABLED step(sagaLock)

(* While nothing fails, a hold reply is acknowledged only when the booking *)
(* has left PENDING or somebody is still at work on the reply:             *)
(* reserveIfNew skips a delivery while another one holds the key.          *)
ReplyNotLost ==
  faults = 0 =>
    \A t \in Tasks :
      t.kind \in ReplyKinds /\ task[t] = "done" =>
        status # "PENDING" \/ \E w \in Workers : cur[w] = t

=============================================================================
