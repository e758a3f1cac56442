-------------------------- MODULE BookingSagaProofs --------------------------
(***************************************************************************)
(* Proofs about one booking.  First the booking service alone              *)
(* (BookingLifecycle), next to an arbitrary inventory: any number of       *)
(* concurrent executions, events, requests and faults.  Then the whole     *)
(* composition (BookingSaga), without the bounds of the model-checked one: *)
(* any number of executions in both services, deliveries in any order,     *)
(* crashes and errors on either side.  Last the payment service, alone and *)
(* next to the booking service (BookingPayment).                           *)
(***************************************************************************)
EXTENDS BookingSaga, BookingPayment, TLAPS

-----------------------------------------------------------------------------
(* The booking service: what holds of every execution.                     *)

(* An execution that is not idle has a task, and one its code handles; the *)
(* transitions of handlePaymentSuccess are those of confirmPayment.        *)
TaskFitsStep ==
  \A w \in Workers :
    /\ pc[w] # "idle" => cur[w] \in Tasks
    /\ pc[w] \in ReplySteps => Kind(w) \in ReplyKinds
    /\ pc[w] \in TransitionSteps /\ Kind(w) = "PaymentSuccess" =>
         goal[w] \in {"PAYMENT_PENDING", "CONFIRMING", "CONFIRMED"}

TypeInv == TypeOK /\ TaskFitsStep

(* What an execution read is the row as it is, or an older version of it.  *)
ReadsAreOld ==
  /\ version >= 1
  /\ version = 1 => status = "PENDING"
  /\ \A w \in Workers :
       /\ seen[w].version <= version
       /\ seen[w].version = version => seen[w].status = status

(* The status an execution read is one its next write may leave.           *)
ReadsAllowWrite ==
  \A w \in Workers :
    /\ pc[w] = "replyWrite" => seen[w].status \in ReplyFrom(Kind(w))
    /\ pc[w] = "trWrite" => seen[w].status \in permittedStates(goal[w])

PaidStatus == {"CONFIRMED", "CANCELLING", "CANCELLED"}

(* confirmPayment closes its saga step for a booking it has confirmed.     *)
ConfirmedFirst ==
  \A w \in Workers : pc[w] \in {"confirmSaga", "payCommit"} => status \in PaidStatus

RowInv == TypeInv /\ ReadsAreOld /\ ReadsAllowWrite
Inv == RowInv /\ ConfirmedFirst /\ SagaStepsHappened /\ EventsInOrder

(* One step of the row: none, or an edge of the lifecycle and the next     *)
(* version.                                                                *)
RowStep ==
  \/ UNCHANGED <<status, version>>
  \/ <<status, status'>> \in Lifecycle /\ version' = version + 1

USE TasksAssumption, BookingNoneAssumption, BookingFaultsAssumption

-----------------------------------------------------------------------------
(* Type correctness of the initial state and of every step. *)
LEMMA InitType == Init => TypeInv
<1> SUFFICES ASSUME Init PROVE TypeInv
  OBVIOUS
<1>1. outbox \in Seq(StatusChanged)
  BY DEF Init
<1>2. TypeOK
  <2>1. failureReason \in BOOLEAN /\ paymentOrder \in BOOLEAN
    BY DEF Init
  <2>2. /\ pc \in [Workers -> Steps]
        /\ goal \in [Workers -> Goals]
        /\ seen \in [Workers -> [status: Status, version: Nat]]
    BY DEF Init, Steps, Goals, Status
  <2>3. /\ status \in Status /\ saga \in [SagaStep -> SagaStatus]
        /\ cur \in [Workers -> Tasks \cup {None}]
    BY DEF Init, Status, SagaStatus
  <2> QED BY <1>1, <2>1, <2>2, <2>3 DEF Init, TypeOK
<1>3. TaskFitsStep
  BY DEF Init, TaskFitsStep, ReplySteps, TransitionSteps
<1> QED
  BY <1>2, <1>3 DEF TypeInv

LEMMA NextType == TypeInv /\ [Next]_vars => TypeInv'
<1> SUFFICES ASSUME TypeInv, [Next]_vars PROVE TypeInv'
  OBVIOUS
<1> USE DEF TypeInv, TypeOK, TaskFitsStep, row, Kind, Steps, ReplySteps,
            PaymentSteps, OrderSteps, TransitionSteps, Goals, Status, EventKinds,
            RequestKinds, ReplyKinds, SagaStep, SagaStatus
<1>1. ASSUME NEW w \in Workers, replyRead(w) PROVE TypeInv'
  BY <1>1 DEF replyRead, Read, Goto
<1>2. ASSUME NEW w \in Workers, replyWrite(w) PROVE TypeInv'
  <2>1. status' \in Status /\ version' \in Nat
    BY <1>2 DEF replyWrite, updateStatus, ReplyStatus
  <2>4. failureReason' \in BOOLEAN
    BY <1>2 DEF replyWrite
  <2>2. saga' \in [SagaStep -> SagaStatus]
    BY <1>2 DEF replyWrite, SetSaga, ReplySaga
  <2>0. /\ pc \in [Workers -> Steps] /\ goal \in [Workers -> Goals]
        /\ sagaLock \in Workers \cup {None}
    OBVIOUS
  <2> HIDE DEF TypeInv, TypeOK, TaskFitsStep, Status
  <2>8. /\ pc' \in [Workers -> Steps] /\ goal' \in [Workers -> Goals]
        /\ sagaLock' \in Workers \cup {None}
    BY <1>2, <2>0 DEF replyWrite, Goto, updateStatus, SetSaga, ReplyStatus, ReplySaga
  <2> USE DEF TypeInv, TypeOK, TaskFitsStep, Status
  <2>9. TaskFitsStep'
    <3> SUFFICES ASSUME NEW v \in Workers
                 PROVE /\ pc'[v] # "idle" => cur'[v] \in Tasks
                       /\ pc'[v] \in ReplySteps => cur'[v].kind \in ReplyKinds
                       /\ pc'[v] \in TransitionSteps /\ cur'[v].kind = "PaymentSuccess" =>
                            goal'[v] \in {"PAYMENT_PENDING", "CONFIRMING", "CONFIRMED"}
      OBVIOUS
    <3>1. CASE v = w
      BY <1>2, <3>1 DEF replyWrite, Goto, updateStatus, SetSaga, ReplyStatus, ReplySaga
    <3>2. CASE v # w
      BY <1>2, <3>2 DEF replyWrite, Goto, updateStatus, SetSaga, ReplyStatus, ReplySaga
    <3> QED BY <3>1, <3>2
  <2> QED BY <1>2, <2>1, <2>2, <2>4, <2>8, <2>9 DEF replyWrite
<1>3. ASSUME NEW w \in Workers, transitionRead(w) PROVE TypeInv'
  <2>1. seen' \in [Workers -> [status: Status, version: Nat]]
    BY <1>3 DEF transitionRead, Read
  <2>0. /\ pc \in [Workers -> Steps] /\ goal \in [Workers -> Goals]
        /\ sagaLock \in Workers \cup {None}
    OBVIOUS
  <2> HIDE DEF TypeInv, TypeOK, TaskFitsStep, Status
  <2>8. /\ pc' \in [Workers -> Steps] /\ goal' \in [Workers -> Goals]
        /\ sagaLock' \in Workers \cup {None}
    BY <1>3, <2>0 DEF transitionRead, Read, Goto, onThrow, UnlockSaga
  <2> USE DEF TypeInv, TypeOK, TaskFitsStep, Status
  <2>9. TaskFitsStep'
    <3> SUFFICES ASSUME NEW v \in Workers
                 PROVE /\ pc'[v] # "idle" => cur'[v] \in Tasks
                       /\ pc'[v] \in ReplySteps => cur'[v].kind \in ReplyKinds
                       /\ pc'[v] \in TransitionSteps /\ cur'[v].kind = "PaymentSuccess" =>
                            goal'[v] \in {"PAYMENT_PENDING", "CONFIRMING", "CONFIRMED"}
      OBVIOUS
    <3>1. CASE v = w
      BY <1>3, <3>1 DEF transitionRead, Read, Goto, onThrow, UnlockSaga
    <3>2. CASE v # w
      BY <1>3, <3>2 DEF transitionRead, Read, Goto, onThrow, UnlockSaga
    <3> QED BY <3>1, <3>2
  <2>7. UNCHANGED <<status, version, failureReason, saga, outbox, paymentOrder,
                    key, task, cur, goal, faults>>
    BY <1>3 DEF transitionRead
  <2> QED BY <2>1, <2>7, <2>8, <2>9
<1>4. ASSUME NEW w \in Workers, transitionWrite(w) PROVE TypeInv'
  <2>1. statusChangedPayload(w) \in StatusChanged
    BY DEF statusChangedPayload, StatusChanged
  <2>2. outbox' \in Seq(StatusChanged)
    <3>1. outbox \in Seq(StatusChanged)
      OBVIOUS
    <3>2. Append(outbox, statusChangedPayload(w)) \in Seq(StatusChanged)
      BY <2>1, <3>1
    <3> QED BY <1>4, <3>1, <3>2 DEF transitionWrite
  <2>3. /\ status' \in Status /\ version' \in Nat
        /\ sagaLock' \in Workers \cup {None}
    BY <1>4 DEF transitionWrite, updateStatus, UnlockSaga
  <2>0. /\ pc \in [Workers -> Steps] /\ goal \in [Workers -> Goals]
        /\ sagaLock \in Workers \cup {None}
    OBVIOUS
  <2> HIDE DEF TypeInv, TypeOK, TaskFitsStep, Status
  <2>8. /\ pc' \in [Workers -> Steps] /\ goal' \in [Workers -> Goals]
        /\ sagaLock' \in Workers \cup {None}
    BY <1>4, <2>0 DEF transitionWrite, Goto, updateStatus, Advance, afterTransition, onThrow, UnlockSaga, statusChangedPayload
  <2> USE DEF TypeInv, TypeOK, TaskFitsStep, Status
  <2>9. TaskFitsStep'
    <3> SUFFICES ASSUME NEW v \in Workers
                 PROVE /\ pc'[v] # "idle" => cur'[v] \in Tasks
                       /\ pc'[v] \in ReplySteps => cur'[v].kind \in ReplyKinds
                       /\ pc'[v] \in TransitionSteps /\ cur'[v].kind = "PaymentSuccess" =>
                            goal'[v] \in {"PAYMENT_PENDING", "CONFIRMING", "CONFIRMED"}
      OBVIOUS
    <3>1. CASE v = w
      BY <1>4, <3>1 DEF transitionWrite, Goto, updateStatus, Advance, afterTransition, onThrow, UnlockSaga, statusChangedPayload
    <3>2. CASE v # w
      BY <1>4, <3>2 DEF transitionWrite, Goto, updateStatus, Advance, afterTransition, onThrow, UnlockSaga, statusChangedPayload
    <3> QED BY <3>1, <3>2
  <2> QED BY <1>4, <2>2, <2>3, <2>8, <2>9 DEF transitionWrite
<1>5. ASSUME NEW w \in Workers, paymentRead(w) PROVE TypeInv'
  BY <1>5 DEF paymentRead, Read, Goto
<1>6. ASSUME NEW w \in Workers, paymentLock(w) PROVE TypeInv'
  BY <1>6 DEF paymentLock, Goto
<1>7. ASSUME NEW w \in Workers, confirmPayment(w) PROVE TypeInv'
  BY <1>7 DEF confirmPayment, Read, Advance, Goto
<1>8. ASSUME NEW w \in Workers, confirmSaga(w) PROVE TypeInv'
  BY <1>8 DEF confirmSaga, SetSaga, Goto
<1>9. ASSUME NEW w \in Workers, paymentCommit(w) PROVE TypeInv'
  BY <1>9 DEF paymentCommit, UnlockSaga, Goto
<1>10. ASSUME NEW w \in Workers, createOrder(w) PROVE TypeInv'
  BY <1>10 DEF createOrder, Goto
<1>11. ASSUME NEW w \in Workers, orderSaga(w) PROVE TypeInv'
  <2>0. /\ pc \in [Workers -> Steps] /\ goal \in [Workers -> Goals]
        /\ sagaLock \in Workers \cup {None}
    OBVIOUS
  <2> HIDE DEF TypeInv, TypeOK, TaskFitsStep, Status
  <2>8. /\ pc' \in [Workers -> Steps] /\ goal' \in [Workers -> Goals]
        /\ sagaLock' \in Workers \cup {None}
    BY <1>11, <2>0 DEF orderSaga, SetSaga, Advance, Goto
  <2> USE DEF TypeInv, TypeOK, TaskFitsStep, Status
  <2>2. saga' \in [SagaStep -> SagaStatus]
    BY <1>11 DEF orderSaga, SetSaga
  <2>9. TaskFitsStep'
    <3> SUFFICES ASSUME NEW v \in Workers
                 PROVE /\ pc'[v] # "idle" => cur'[v] \in Tasks
                       /\ pc'[v] \in ReplySteps => cur'[v].kind \in ReplyKinds
                       /\ pc'[v] \in TransitionSteps /\ cur'[v].kind = "PaymentSuccess" =>
                            goal'[v] \in {"PAYMENT_PENDING", "CONFIRMING", "CONFIRMED"}
      OBVIOUS
    <3>1. CASE v = w
      BY <1>11, <3>1 DEF orderSaga, SetSaga, Advance, Goto
    <3>2. CASE v # w
      BY <1>11, <3>2 DEF orderSaga, SetSaga, Advance, Goto
    <3> QED BY <3>1, <3>2
  <2> QED BY <1>11, <2>2, <2>8, <2>9 DEF orderSaga
<1>12. ASSUME NEW w \in Workers, markProcessed(w) PROVE TypeInv'
  <2>0. /\ pc \in [Workers -> Steps] /\ goal \in [Workers -> Goals]
        /\ sagaLock \in Workers \cup {None}
    OBVIOUS
  <2> HIDE DEF TypeInv, TypeOK, TaskFitsStep, Status
  <2>8. /\ pc' \in [Workers -> Steps] /\ goal' \in [Workers -> Goals]
        /\ sagaLock' \in Workers \cup {None}
    BY <1>12, <2>0 DEF markProcessed, SetKey, Advance, Goto
  <2> USE DEF TypeInv, TypeOK, TaskFitsStep, Status
  <2>2. key' \in [Tasks -> {"free", "PROCESSING", "PROCESSED"}]
    BY <1>12 DEF markProcessed, SetKey
  <2>9. TaskFitsStep'
    <3> SUFFICES ASSUME NEW v \in Workers
                 PROVE /\ pc'[v] # "idle" => cur'[v] \in Tasks
                       /\ pc'[v] \in ReplySteps => cur'[v].kind \in ReplyKinds
                       /\ pc'[v] \in TransitionSteps /\ cur'[v].kind = "PaymentSuccess" =>
                            goal'[v] \in {"PAYMENT_PENDING", "CONFIRMING", "CONFIRMED"}
      OBVIOUS
    <3>1. CASE v = w
      BY <1>12, <3>1 DEF markProcessed, SetKey, Advance, Goto
    <3>2. CASE v # w
      BY <1>12, <3>2 DEF markProcessed, SetKey, Advance, Goto
    <3> QED BY <3>1, <3>2
  <2> QED BY <1>12, <2>2, <2>8, <2>9 DEF markProcessed
<1>13. ASSUME NEW w \in Workers, release(w) PROVE TypeInv'
  BY <1>13 DEF release, Finish, Goto
<1>14. ASSUME NEW w \in Workers, acknowledge(w) PROVE TypeInv'
  BY <1>14 DEF acknowledge, Finish, Goto
<1>15. ASSUME NEW w \in Workers, error(w) PROVE TypeInv'
  BY <1>15 DEF error, Goto, onThrow, UnlockSaga
<1>16. ASSUME NEW w \in Workers, crash(w) PROVE TypeInv'
  BY <1>16 DEF crash, Finish, Goto, UnlockSaga
<1>17. ASSUME NEW w \in Workers, NEW t \in Tasks, reserveIfNew(w, t) PROVE TypeInv'
  BY <1>17 DEF reserveIfNew, Goto
<1>18. ASSUME NEW w \in Workers, NEW t \in Tasks, cancelBooking(w, t) PROVE TypeInv'
  BY <1>18 DEF cancelBooking, Advance, Goto
<1>19. ASSUME NEW w \in Workers, NEW t \in Tasks, createPaymentOrder(w, t) PROVE TypeInv'
  BY <1>19 DEF createPaymentOrder, Read, Goto
<1>20. ASSUME NEW t \in Tasks, send(t) PROVE TypeInv'
  BY <1>20 DEF send
<1>21. ASSUME NEW t \in Tasks, leaseExpires(t) PROVE TypeInv'
  BY <1>21 DEF leaseExpires
<1>22. CASE UNCHANGED vars
  BY <1>22 DEF vars
<1> QED
  BY <1>1, <1>2, <1>3, <1>4, <1>5, <1>6, <1>7, <1>8, <1>9, <1>10, <1>11, <1>12, <1>13, <1>14, <1>15, <1>16, <1>17, <1>18, <1>19, <1>20, <1>21, <1>22 DEF Next, Work, start, step

-----------------------------------------------------------------------------
(* A writer whose version guard succeeds read the row as it still is. *)
LEMMA GuardMeansFresh ==
  ASSUME RowInv, NEW w \in Workers, versionIsCurrent(w)
  PROVE seen[w].version = version /\ seen[w].status = status
BY DEF RowInv, TypeInv, TypeOK, ReadsAreOld, versionIsCurrent

(* Every step moves the row along the lifecycle, or not at all. *)
LEMMA RowAdvances == RowInv /\ [Next]_vars => RowStep
<1> SUFFICES ASSUME RowInv, [Next]_vars PROVE RowStep
  OBVIOUS
<1>1. ASSUME NEW w \in Workers, replyWrite(w) PROVE RowStep
  <2>1. CASE versionIsCurrent(w)
    <3>1. /\ status' = ReplyStatus(Kind(w)) /\ version' = version + 1
          /\ status \in ReplyFrom(Kind(w)) /\ Kind(w) \in ReplyKinds
      BY <1>1, <2>1, GuardMeansFresh
      DEF replyWrite, updateStatus, RowInv, ReadsAllowWrite, TypeInv, TaskFitsStep, ReplySteps
    <3>2. <<status, status'>> \in Lifecycle
      BY <3>1 DEF ReplyStatus, ReplyFrom, ReplyKinds, Lifecycle
    <3> QED BY <3>1, <3>2 DEF RowStep
  <2>2. CASE ~versionIsCurrent(w)
    BY <1>1, <2>2 DEF replyWrite, RowStep
  <2> QED BY <2>1, <2>2
<1>2. ASSUME NEW w \in Workers, transitionWrite(w) PROVE RowStep
  <2>1. CASE versionIsCurrent(w)
    <3>1. /\ status' = goal[w] /\ version' = version + 1
          /\ status \in permittedStates(goal[w]) /\ goal[w] \in Goals
      BY <1>2, <2>1, GuardMeansFresh
      DEF transitionWrite, updateStatus, RowInv, ReadsAllowWrite, TypeInv, TypeOK
    <3>2. <<status, status'>> \in Lifecycle
      BY <3>1 DEF permittedStates, Goals, Lifecycle
    <3> QED BY <3>1, <3>2 DEF RowStep
  <2>2. CASE ~versionIsCurrent(w)
    BY <1>2, <2>2 DEF transitionWrite, RowStep
  <2> QED BY <2>1, <2>2
<1>3. CASE UNCHANGED row
  BY <1>3 DEF row, RowStep
<1> QED
  BY <1>1, <1>2, <1>3
  DEF Next, Work, start, step, vars, reserveIfNew, cancelBooking, createPaymentOrder,
      replyRead, transitionRead, paymentRead, paymentLock, confirmPayment,
      confirmSaga, paymentCommit, createOrder, orderSaga, markProcessed, release,
      acknowledge, error, crash, send, leaseExpires, row

(* A step leaves what an execution read alone, or replaces it by the row   *)
(* as it is or by the initial value.                                       *)
LEMMA SeenStep ==
  TypeInv /\ [Next]_vars =>
    \A v \in Workers :
      seen'[v] \in {seen[v], [status |-> status, version |-> version],
                    [status |-> "PENDING", version |-> 1]}
<1> SUFFICES ASSUME TypeInv, [Next]_vars, NEW v \in Workers
             PROVE seen'[v] \in {seen[v], [status |-> status, version |-> version],
                                 [status |-> "PENDING", version |-> 1]}
  OBVIOUS
<1> seen \in [Workers -> [status: Status, version: Nat]]
  BY DEF TypeInv, TypeOK
<1>1. CASE UNCHANGED seen
  BY <1>1
<1>2. ASSUME NEW w \in Workers, Read(w) \/ Finish(w)
      PROVE seen'[v] \in {seen[v], [status |-> status, version |-> version],
                          [status |-> "PENDING", version |-> 1]}
  BY <1>2 DEF Read, Finish
<1> QED
  BY <1>1, <1>2
  DEF Next, Work, start, step, vars, reserveIfNew, cancelBooking, createPaymentOrder,
      replyRead, replyWrite, transitionRead, transitionWrite, paymentRead,
      paymentLock, confirmPayment, confirmSaga, paymentCommit, createOrder,
      orderSaga, markProcessed, release, acknowledge, error, crash, send, leaseExpires

LEMMA NextReads == RowInv /\ [Next]_vars => ReadsAreOld'
<1> SUFFICES ASSUME RowInv, [Next]_vars PROVE ReadsAreOld'
  OBVIOUS
<1>1. RowStep
  BY RowAdvances
<1>2. TypeInv' /\ version \in Nat /\ status \in Status
  BY NextType DEF RowInv, TypeInv, TypeOK
<1>3. ASSUME NEW v \in Workers
      PROVE /\ seen'[v].version <= version /\ seen'[v].version \in Nat
            /\ seen'[v].version = version => seen'[v].status = status
  <2>1. seen'[v] \in {seen[v], [status |-> status, version |-> version],
                      [status |-> "PENDING", version |-> 1]}
    BY SeenStep DEF RowInv
  <2> QED BY <1>2, <2>1 DEF RowInv, ReadsAreOld, TypeInv, TypeOK
<1>4. version' >= 1 /\ (version' = 1 => status' = "PENDING")
  BY <1>1, <1>2 DEF RowStep, RowInv, ReadsAreOld
<1>5. ASSUME NEW v \in Workers
      PROVE /\ seen'[v].version <= version'
            /\ seen'[v].version = version' => seen'[v].status = status'
  BY <1>1, <1>2, <1>3 DEF RowStep
<1> QED BY <1>4, <1>5 DEF ReadsAreOld

(* Only a read takes an execution to a write, and it checks the status.    *)
LEMMA NextGuards == RowInv /\ [Next]_vars => ReadsAllowWrite'
<1> SUFFICES ASSUME RowInv, [Next]_vars PROVE ReadsAllowWrite'
  OBVIOUS
<1>0. /\ pc \in [Workers -> Steps] /\ cur \in [Workers -> Tasks \cup {None}]
      /\ goal \in [Workers -> Goals]
      /\ seen \in [Workers -> [status: Status, version: Nat]]
  BY DEF RowInv, TypeInv, TypeOK
<1> USE <1>0 DEF ReadsAllowWrite, RowInv, Kind, row
<1>1. ASSUME NEW w \in Workers, replyRead(w) PROVE ReadsAllowWrite'
  BY <1>1 DEF replyRead, Read, Goto
<1>2. ASSUME NEW w \in Workers, replyWrite(w) PROVE ReadsAllowWrite'
  BY <1>2 DEF replyWrite, Goto, updateStatus, SetSaga, ReplyStatus, ReplySaga
<1>3. ASSUME NEW w \in Workers, transitionRead(w) PROVE ReadsAllowWrite'
  BY <1>3 DEF transitionRead, Read, Goto, onThrow, UnlockSaga
<1>4. ASSUME NEW w \in Workers, transitionWrite(w) PROVE ReadsAllowWrite'
  BY <1>4 DEF transitionWrite, Goto, updateStatus, Advance, afterTransition, onThrow, UnlockSaga, statusChangedPayload
<1>5. ASSUME NEW w \in Workers, paymentRead(w) PROVE ReadsAllowWrite'
  BY <1>5 DEF paymentRead, Read, Goto
<1>6. ASSUME NEW w \in Workers, paymentLock(w) PROVE ReadsAllowWrite'
  BY <1>6 DEF paymentLock, Goto
<1>7. ASSUME NEW w \in Workers, confirmPayment(w) PROVE ReadsAllowWrite'
  BY <1>7 DEF confirmPayment, Read, Advance, Goto
<1>8. ASSUME NEW w \in Workers, confirmSaga(w) PROVE ReadsAllowWrite'
  BY <1>8 DEF confirmSaga, SetSaga, Goto
<1>9. ASSUME NEW w \in Workers, paymentCommit(w) PROVE ReadsAllowWrite'
  BY <1>9 DEF paymentCommit, UnlockSaga, Goto
<1>10. ASSUME NEW w \in Workers, createOrder(w) PROVE ReadsAllowWrite'
  BY <1>10 DEF createOrder, Goto
<1>11. ASSUME NEW w \in Workers, orderSaga(w) PROVE ReadsAllowWrite'
  BY <1>11 DEF orderSaga, SetSaga, Advance, Goto
<1>12. ASSUME NEW w \in Workers, markProcessed(w) PROVE ReadsAllowWrite'
  BY <1>12 DEF markProcessed, SetKey, Advance, Goto
<1>13. ASSUME NEW w \in Workers, release(w) PROVE ReadsAllowWrite'
  BY <1>13 DEF release, Finish, Goto
<1>14. ASSUME NEW w \in Workers, acknowledge(w) PROVE ReadsAllowWrite'
  BY <1>14 DEF acknowledge, Finish, Goto
<1>15. ASSUME NEW w \in Workers, error(w) PROVE ReadsAllowWrite'
  BY <1>15 DEF error, Goto, onThrow, UnlockSaga
<1>16. ASSUME NEW w \in Workers, crash(w) PROVE ReadsAllowWrite'
  BY <1>16 DEF crash, Finish, Goto, UnlockSaga
<1>17. ASSUME NEW w \in Workers, NEW t \in Tasks, reserveIfNew(w, t) PROVE ReadsAllowWrite'
  BY <1>17 DEF reserveIfNew, Goto
<1>18. ASSUME NEW w \in Workers, NEW t \in Tasks, cancelBooking(w, t) PROVE ReadsAllowWrite'
  BY <1>18 DEF cancelBooking, Advance, Goto
<1>19. ASSUME NEW w \in Workers, NEW t \in Tasks, createPaymentOrder(w, t) PROVE ReadsAllowWrite'
  BY <1>19 DEF createPaymentOrder, Read, Goto
<1>20. ASSUME NEW t \in Tasks, send(t) PROVE ReadsAllowWrite'
  BY <1>20 DEF send
<1>21. ASSUME NEW t \in Tasks, leaseExpires(t) PROVE ReadsAllowWrite'
  BY <1>21 DEF leaseExpires
<1>22. CASE UNCHANGED vars
  BY <1>22 DEF vars
<1> QED
  BY <1>1, <1>2, <1>3, <1>4, <1>5, <1>6, <1>7, <1>8, <1>9, <1>10, <1>11, <1>12, <1>13, <1>14, <1>15, <1>16, <1>17, <1>18, <1>19, <1>20, <1>21, <1>22 DEF Next, Work, start, step

(* The row invariant is inductive. *)
LEMMA RowInduction == RowInv /\ [Next]_vars => RowInv'
BY NextType, NextReads, NextGuards DEF RowInv

LEMMA InitRow == Init => RowInv
<1> SUFFICES ASSUME Init PROVE RowInv
  OBVIOUS
<1>1. ReadsAreOld /\ ReadsAllowWrite
  BY DEF Init, ReadsAreOld, ReadsAllowWrite
<1> QED BY <1>1, InitType DEF RowInv

(* The booking row is well typed in every reachable state. *)
THEOREM TypeCorrect == Spec => []TypeOK
BY InitRow, RowInduction, PTL DEF Spec, RowInv, TypeInv

(* The CAS on the version column keeps the booking on its lifecycle, for   *)
(* any number of concurrent handlers that decide on stale reads.           *)
THEOREM BookingFollowsLifecycle == Spec => FollowsLifecycle
<1>1. RowInv /\ [Next]_vars =>
        [\/ UNCHANGED <<status, version>>
         \/ <<status, status'>> \in Lifecycle /\ version' = version + 1]_vars
  BY RowAdvances DEF RowStep
<1> QED BY InitRow, RowInduction, <1>1, PTL DEF Spec, FollowsLifecycle

-----------------------------------------------------------------------------
(* A booking that left PENDING, or was paid, stays so. *)
LEMMA NeverBack ==
  ASSUME RowStep
  PROVE /\ status \notin {"PENDING", "FAILED"} => status' \notin {"PENDING", "FAILED"}
        /\ status \in PaidStatus => status' \in PaidStatus
BY DEF RowStep, Lifecycle, PaidStatus

LEMMA NextConfirmed == Inv /\ [Next]_vars => ConfirmedFirst'
<1> SUFFICES ASSUME Inv, [Next]_vars PROVE ConfirmedFirst'
  OBVIOUS
<1>0. /\ pc \in [Workers -> Steps] /\ cur \in [Workers -> Tasks \cup {None}]
      /\ goal \in [Workers -> Goals]
      /\ status \in PaidStatus => status' \in PaidStatus
  BY RowAdvances, NeverBack DEF Inv, RowInv, TypeInv, TypeOK
<1> USE <1>0 DEF ConfirmedFirst, Inv, Kind, row
<1>1. ASSUME NEW w \in Workers, replyRead(w) PROVE ConfirmedFirst'
  BY <1>1 DEF replyRead, Read, Goto
<1>2. ASSUME NEW w \in Workers, replyWrite(w) PROVE ConfirmedFirst'
  BY <1>2 DEF replyWrite, Goto, updateStatus, SetSaga, ReplyStatus, ReplySaga
<1>3. ASSUME NEW w \in Workers, transitionRead(w) PROVE ConfirmedFirst'
  BY <1>3 DEF transitionRead, Read, Goto, onThrow, UnlockSaga
<1>4. ASSUME NEW w \in Workers, transitionWrite(w) PROVE ConfirmedFirst'
  <2>1. ASSUME pc'[w] = "confirmSaga" PROVE status' \in PaidStatus
    <3>1. /\ Kind(w) = "PaymentSuccess" /\ status' = goal[w]
          /\ afterTransition(Kind(w), goal[w]) = "DONE"
      BY <1>4, <2>1 DEF transitionWrite, Goto, Advance, onThrow, updateStatus
    <3>2. goal[w] \in {"PAYMENT_PENDING", "CONFIRMING", "CONFIRMED"}
      BY <1>4, <3>1 DEF transitionWrite, RowInv, TypeInv, TaskFitsStep, TransitionSteps
    <3> QED BY <3>1, <3>2 DEF afterTransition, PaidStatus
  <2>2. pc'[w] # "payCommit"
    BY <1>4 DEF transitionWrite, Goto, Advance, onThrow
  <2>3. \A v \in Workers \ {w} : pc'[v] = pc[v]
    BY <1>4 DEF transitionWrite, Goto, Advance
  <2> QED BY <2>1, <2>2, <2>3
<1>5. ASSUME NEW w \in Workers, paymentRead(w) PROVE ConfirmedFirst'
  BY <1>5 DEF paymentRead, Read, Goto
<1>6. ASSUME NEW w \in Workers, paymentLock(w) PROVE ConfirmedFirst'
  BY <1>6 DEF paymentLock, Goto
<1>7. ASSUME NEW w \in Workers, confirmPayment(w) PROVE ConfirmedFirst'
  BY <1>7 DEF confirmPayment, Read, Advance, Goto
<1>8. ASSUME NEW w \in Workers, confirmSaga(w) PROVE ConfirmedFirst'
  BY <1>8 DEF confirmSaga, SetSaga, Goto
<1>9. ASSUME NEW w \in Workers, paymentCommit(w) PROVE ConfirmedFirst'
  BY <1>9 DEF paymentCommit, UnlockSaga, Goto
<1>10. ASSUME NEW w \in Workers, createOrder(w) PROVE ConfirmedFirst'
  BY <1>10 DEF createOrder, Goto
<1>11. ASSUME NEW w \in Workers, orderSaga(w) PROVE ConfirmedFirst'
  BY <1>11 DEF orderSaga, SetSaga, Advance, Goto
<1>12. ASSUME NEW w \in Workers, markProcessed(w) PROVE ConfirmedFirst'
  BY <1>12 DEF markProcessed, SetKey, Advance, Goto
<1>13. ASSUME NEW w \in Workers, release(w) PROVE ConfirmedFirst'
  BY <1>13 DEF release, Finish, Goto
<1>14. ASSUME NEW w \in Workers, acknowledge(w) PROVE ConfirmedFirst'
  BY <1>14 DEF acknowledge, Finish, Goto
<1>15. ASSUME NEW w \in Workers, error(w) PROVE ConfirmedFirst'
  BY <1>15 DEF error, Goto, onThrow, UnlockSaga
<1>16. ASSUME NEW w \in Workers, crash(w) PROVE ConfirmedFirst'
  BY <1>16 DEF crash, Finish, Goto, UnlockSaga
<1>17. ASSUME NEW w \in Workers, NEW t \in Tasks, reserveIfNew(w, t) PROVE ConfirmedFirst'
  BY <1>17 DEF reserveIfNew, Goto
<1>18. ASSUME NEW w \in Workers, NEW t \in Tasks, cancelBooking(w, t) PROVE ConfirmedFirst'
  BY <1>18 DEF cancelBooking, Advance, Goto
<1>19. ASSUME NEW w \in Workers, NEW t \in Tasks, createPaymentOrder(w, t) PROVE ConfirmedFirst'
  BY <1>19 DEF createPaymentOrder, Read, Goto
<1>20. ASSUME NEW t \in Tasks, send(t) PROVE ConfirmedFirst'
  BY <1>20 DEF send
<1>21. ASSUME NEW t \in Tasks, leaseExpires(t) PROVE ConfirmedFirst'
  BY <1>21 DEF leaseExpires
<1>22. CASE UNCHANGED vars
  BY <1>22 DEF vars
<1> QED
  BY <1>1, <1>2, <1>3, <1>4, <1>5, <1>6, <1>7, <1>8, <1>9, <1>10, <1>11, <1>12, <1>13, <1>14, <1>15, <1>16, <1>17, <1>18, <1>19, <1>20, <1>21, <1>22 DEF Next, Work, start, step

LEMMA NextSaga == Inv /\ [Next]_vars => SagaStepsHappened'
<1> SUFFICES ASSUME Inv, [Next]_vars PROVE SagaStepsHappened'
  OBVIOUS
<1>0. /\ saga \in [SagaStep -> SagaStatus]
      /\ status \in PaidStatus => status' \in PaidStatus
      /\ status \notin {"PENDING", "FAILED"} => status' \notin {"PENDING", "FAILED"}
  BY RowAdvances, NeverBack DEF Inv, RowInv, TypeInv, TypeOK
<1>1. CASE UNCHANGED saga
  BY <1>0, <1>1 DEF Inv, SagaStepsHappened, PaidStatus
<1>2. ASSUME NEW w \in Workers, replyWrite(w) PROVE SagaStepsHappened'
  <2>1. Kind(w) \in ReplyKinds
    BY <1>2 DEF replyWrite, Inv, RowInv, TypeInv, TaskFitsStep, ReplySteps
  <2>2. saga'["CONFIRM_SEATS"] = saga["CONFIRM_SEATS"]
    BY <1>0, <1>2 DEF replyWrite, SetSaga, SagaStep
  <2>3. CASE UNCHANGED saga
    BY <1>1, <2>3
  <2>4. CASE SetSaga("HOLD_SEATS", ReplySaga(Kind(w)))
    <3>1. ASSUME saga'["HOLD_SEATS"] = "COMPLETED" PROVE status' \notin {"PENDING", "FAILED"}
      <4>1. Kind(w) = "SeatsHeld"
        BY <1>0, <2>1, <2>4, <3>1 DEF SetSaga, ReplySaga, SagaStep, ReplyKinds
      <4>2. CASE versionIsCurrent(w)
        BY <1>2, <4>1, <4>2 DEF replyWrite, updateStatus, ReplyStatus
      <4>3. CASE ~versionIsCurrent(w)
        <5>1. UNCHANGED saga
          BY <1>2, <4>1, <4>3 DEF replyWrite
        <5> QED BY <1>0, <3>1, <5>1 DEF Inv, SagaStepsHappened
      <4> QED BY <4>2, <4>3
    <3> QED BY <1>0, <2>2, <3>1 DEF Inv, SagaStepsHappened, PaidStatus
  <2> QED BY <1>2, <2>3, <2>4 DEF replyWrite
<1>3. ASSUME NEW w \in Workers, confirmSaga(w) \/ paymentCommit(w) PROVE SagaStepsHappened'
  <2>1. status \in PaidStatus
    BY <1>3 DEF Inv, ConfirmedFirst, confirmSaga, paymentCommit
  <2>2. saga'["HOLD_SEATS"] = saga["HOLD_SEATS"]
    BY <1>0, <1>3 DEF confirmSaga, paymentCommit, SetSaga, SagaStep
  <2> QED BY <1>0, <2>1, <2>2 DEF Inv, SagaStepsHappened, PaidStatus
<1>4. ASSUME NEW w \in Workers, orderSaga(w) PROVE SagaStepsHappened'
  <2>1. /\ saga'["HOLD_SEATS"] = saga["HOLD_SEATS"]
        /\ saga'["CONFIRM_SEATS"] = saga["CONFIRM_SEATS"]
    BY <1>0, <1>4 DEF orderSaga, SetSaga, SagaStep
  <2> QED BY <1>0, <2>1 DEF Inv, SagaStepsHappened, PaidStatus
<1> QED
  BY <1>1, <1>2, <1>3, <1>4
  DEF Next, Work, start, step, vars, reserveIfNew, cancelBooking, createPaymentOrder,
      replyRead, transitionRead, transitionWrite, paymentRead, paymentLock,
      confirmPayment, createOrder, markProcessed, release, acknowledge, error,
      crash, send, leaseExpires

LEMMA NextEvents == Inv /\ [Next]_vars => EventsInOrder'
<1> SUFFICES ASSUME Inv, [Next]_vars PROVE EventsInOrder'
  OBVIOUS
<1>0. RowStep /\ outbox \in Seq(StatusChanged) /\ version \in Nat
  BY RowAdvances DEF Inv, RowInv, TypeInv, TypeOK
<1>1. \A i \in 1..Len(outbox) : outbox[i].version \in Nat
  <2>1. \A i \in 1..Len(outbox) : outbox[i] \in StatusChanged
    BY <1>0
  <2> QED BY <2>1 DEF StatusChanged
<1>2. CASE UNCHANGED outbox
  BY <1>0, <1>1, <1>2 DEF Inv, EventsInOrder, RowStep
<1>3. ASSUME NEW w \in Workers, transitionWrite(w), versionIsCurrent(w) PROVE EventsInOrder'
  <2> DEFINE e == statusChangedPayload(w)
  <2>1. /\ outbox' = Append(outbox, e)
        /\ e.version = version + 1 /\ version' = version + 1
        /\ e.current = status'
    BY <1>3, GuardMeansFresh DEF transitionWrite, statusChangedPayload, updateStatus, Inv
  <2>2. /\ Len(outbox') = Len(outbox) + 1 /\ Len(outbox) \in Nat
        /\ outbox'[Len(outbox) + 1] = e
        /\ \A i \in 1..Len(outbox) : outbox'[i] = outbox[i]
    BY <1>0, <2>1
  <2> QED BY <1>0, <1>1, <2>1, <2>2 DEF Inv, EventsInOrder
<1> QED
  BY <1>2, <1>3
  DEF Next, Work, start, step, vars, reserveIfNew, cancelBooking, createPaymentOrder,
      replyRead, replyWrite, transitionRead, transitionWrite, paymentRead,
      paymentLock, confirmPayment, confirmSaga, paymentCommit, createOrder,
      orderSaga, markProcessed, release, acknowledge, error, crash, send, leaseExpires

(* The whole invariant is inductive. *)
LEMMA Induction == Inv /\ [Next]_vars => Inv'
BY RowInduction, NextConfirmed, NextSaga, NextEvents DEF Inv

LEMMA InitInv == Init => Inv
<1> SUFFICES ASSUME Init PROVE Inv
  OBVIOUS
<1>1. ConfirmedFirst /\ SagaStepsHappened /\ EventsInOrder
  BY DEF Init, ConfirmedFirst, SagaStepsHappened, EventsInOrder, SagaStep
<1> QED BY <1>1, InitRow DEF Inv

(* A saga step that is COMPLETED happened to the booking. *)
THEOREM CompletedStepsHappened == Spec => []SagaStepsHappened
BY InitInv, Induction, PTL DEF Spec, Inv

(* The status events of a booking are recorded in version order, the one   *)
(* with the row's version with the row's status.                           *)
THEOREM StatusEventsInOrder == Spec => []EventsInOrder
BY InitInv, Induction, PTL DEF Spec, Inv

-----------------------------------------------------------------------------
(* Hold replies while nothing fails (the steps of Work).                   *)

(* The row is PENDING in its first version only, and no read is older.     *)
PendingIsFirst ==
  /\ status = "PENDING" => version = 1
  /\ \A w \in Workers : seen[w].version >= 1

(* Somebody is about to decide on reply t. *)
AtWork(t) == \E w \in Workers : cur[w] = t /\ pc[w] \in ReplySteps

(* A reply whose key is taken, that a delivery skipped or whose offset is  *)
(* committed has moved the booking, or somebody is about to.               *)
ReplyTaken ==
  \A t \in Tasks : t.kind \in ReplyKinds /\ status = "PENDING" =>
    \/ AtWork(t)
    \/ /\ key[t] = "free" /\ task[t] # "done"
       /\ \A w \in Workers : cur[w] = t => pc[w] # "ack"

(* Past the decision on a reply the booking is not PENDING. *)
ReplyDecided ==
  \A w \in Workers :
    status = "PENDING" /\ pc[w] # "idle" /\ Kind(w) \in ReplyKinds =>
      pc[w] \in ReplySteps \cup {"ack"}

ReplyInv == RowInv /\ PendingIsFirst /\ ReplyTaken /\ ReplyDecided

(* A step without a fault is a step. *)
LEMMA WorkIsNext == [Work]_vars => [Next]_vars
BY DEF Next

Untouched(v) ==
  pc'[v] = pc[v] /\ cur'[v] = cur[v] /\ goal'[v] = goal[v] /\ seen'[v] = seen[v]

(* An execution is moved by its own steps only. *)
LEMMA OwnStep ==
  ASSUME TypeInv, [Work]_vars, NEW v \in Workers
  PROVE Untouched(v) \/ step(v) \/ \E t \in Tasks : start(v, t)
<1>0. /\ pc \in [Workers -> Steps] /\ cur \in [Workers -> Tasks \cup {None}]
      /\ goal \in [Workers -> Goals]
      /\ seen \in [Workers -> [status: Status, version: Nat]]
  BY DEF TypeInv, TypeOK
<1> USE <1>0 DEF Untouched, Goto, Advance, Finish, Read
<1>1. ASSUME NEW w \in Workers, w # v, step(w) PROVE Untouched(v)
  BY <1>1 DEF step, replyRead, replyWrite, transitionRead, transitionWrite, paymentRead,
     paymentLock, confirmPayment, confirmSaga, paymentCommit, createOrder, orderSaga,
     markProcessed, release, acknowledge
<1>2. ASSUME NEW w \in Workers, NEW t \in Tasks, w # v, start(w, t) PROVE Untouched(v)
  BY <1>2 DEF start, reserveIfNew, cancelBooking, createPaymentOrder
<1>3. ASSUME (\E t \in Tasks : send(t) \/ leaseExpires(t)) \/ UNCHANGED vars
      PROVE Untouched(v)
  BY <1>3 DEF send, leaseExpires, vars
<1> QED BY <1>1, <1>2, <1>3 DEF Work

(* The version is 1 as long as the row is PENDING, and every read is of a  *)
(* version that was written.                                               *)
LEMMA NextPending ==
  ASSUME RowInv, PendingIsFirst, [Next]_vars
  PROVE PendingIsFirst' /\ (status' = "PENDING" => status = "PENDING")
<1>1. RowStep
  BY RowAdvances
<1>2. version \in Nat /\ version >= 1
  BY DEF RowInv, TypeInv, TypeOK, ReadsAreOld
<1>3. ASSUME NEW v \in Workers PROVE seen'[v].version >= 1
  BY <1>2, SeenStep DEF PendingIsFirst, RowInv
<1> QED BY <1>1, <1>3 DEF PendingIsFirst, RowStep, Lifecycle

(* The write of a reply takes the booking out of PENDING: while it is      *)
(* PENDING nobody can have been faster.                                    *)
LEMMA ReplyMoves ==
  ASSUME RowInv, PendingIsFirst, NEW w \in Workers, replyWrite(w)
  PROVE status' # "PENDING"
<1>1. CASE versionIsCurrent(w)
  BY <1>1 DEF replyWrite, updateStatus, ReplyStatus
<1>2. CASE ~versionIsCurrent(w)
  <2>1. version \in Nat /\ seen[w].version \in Nat /\ status' = status
    BY <1>2 DEF RowInv, TypeInv, TypeOK, replyWrite
  <2> QED BY <1>2, <2>1 DEF versionIsCurrent, PendingIsFirst
<1> QED BY <1>1, <1>2

(* Whoever is about to decide on a reply stays so as long as the booking   *)
(* stays PENDING.                                                          *)
LEMMA AtWorkStays ==
  ASSUME ReplyInv, [Work]_vars, status' = "PENDING", NEW t \in Tasks, t.kind \in ReplyKinds,
         AtWork(t)
  PROVE AtWork(t)'
<1>0. pc \in [Workers -> Steps] /\ cur \in [Workers -> Tasks \cup {None}] /\ status = "PENDING"
  BY WorkIsNext, NextPending DEF ReplyInv, RowInv, TypeInv, TypeOK
<1>1. PICK w \in Workers : cur[w] = t /\ pc[w] \in ReplySteps
  BY DEF AtWork
<1>2. CASE Untouched(w)
  BY <1>1, <1>2 DEF AtWork, Untouched
<1>3. ASSUME NEW u \in Tasks, start(w, u) PROVE FALSE
  BY <1>1, <1>3 DEF start, reserveIfNew, cancelBooking, createPaymentOrder, ReplySteps
<1>4. CASE step(w)
  <2>1. replyRead(w) \/ replyWrite(w)
    BY <1>1, <1>4 DEF ReplySteps, step, transitionRead, transitionWrite, paymentRead,
       paymentLock, confirmPayment, confirmSaga, paymentCommit, createOrder, orderSaga,
       markProcessed, release, acknowledge
  <2>2. replyRead(w)
    BY <2>1, ReplyMoves DEF ReplyInv
  <2>3. status \in ReplyFrom(Kind(w))
    BY <1>0, <1>1 DEF ReplyFrom
  <2> QED BY <1>0, <1>1, <2>2, <2>3 DEF replyRead, Goto, AtWork, ReplySteps
<1> QED BY <1>2, <1>3, <1>4, OwnStep DEF ReplyInv, RowInv

(* Past its decision, no execution of a reply sees a PENDING booking. *)
LEMMA NextDecided == ReplyInv /\ [Work]_vars => ReplyDecided'
<1> SUFFICES ASSUME ReplyInv, [Work]_vars, NEW w \in Workers, status' = "PENDING",
                    pc'[w] # "idle", cur'[w].kind \in ReplyKinds
             PROVE pc'[w] \in ReplySteps \cup {"ack"}
  BY DEF ReplyDecided, Kind
<1>0. pc \in [Workers -> Steps] /\ cur \in [Workers -> Tasks \cup {None}] /\ status = "PENDING"
  BY WorkIsNext, NextPending DEF ReplyInv, RowInv, TypeInv, TypeOK
<1>1. CASE Untouched(w)
  BY <1>0, <1>1 DEF ReplyInv, ReplyDecided, Kind, Untouched
<1>2. ASSUME NEW t \in Tasks, start(w, t) PROVE pc'[w] \in ReplySteps \cup {"ack"}
  BY <1>0, <1>2 DEF start, reserveIfNew, cancelBooking, createPaymentOrder, Goto, Advance,
     ReplySteps, ReplyKinds
<1>3. CASE step(w)
  <2>1. pc[w] # "idle"
    BY <1>3 DEF step, replyRead, replyWrite, transitionRead, transitionWrite, paymentRead,
       paymentLock, confirmPayment, confirmSaga, paymentCommit, createOrder, orderSaga,
       markProcessed, release, acknowledge
  <2>2. CASE acknowledge(w) \/ release(w)
    BY <1>0, <2>2 DEF acknowledge, release, Finish, Goto
  <2>3. CASE cur'[w] = cur[w]
    <3>1. pc[w] \in ReplySteps \cup {"ack"}
      BY <1>0, <2>1, <2>3 DEF ReplyInv, ReplyDecided, Kind
    <3>2. replyRead(w) \/ replyWrite(w) \/ acknowledge(w)
      BY <1>3, <3>1 DEF ReplySteps, step, transitionRead, transitionWrite, paymentRead,
         paymentLock, confirmPayment, confirmSaga, paymentCommit, createOrder, orderSaga,
         markProcessed, release
    <3>3. CASE replyRead(w)
      <4>1. status \in ReplyFrom(Kind(w))
        BY <1>0 DEF ReplyFrom
      <4> QED BY <1>0, <3>3, <4>1 DEF replyRead, Goto, ReplySteps
    <3> QED BY <2>2, <3>2, <3>3, ReplyMoves DEF ReplyInv
  <2> QED BY <1>3, <2>2, <2>3 DEF step, replyRead, replyWrite, transitionRead,
          transitionWrite, paymentRead, paymentLock, confirmPayment, confirmSaga,
          paymentCommit, createOrder, orderSaga, markProcessed
<1> QED BY <1>1, <1>2, <1>3, OwnStep DEF ReplyInv, RowInv

(* A reply is taken up by somebody who will decide on it. *)
LEMMA NextTaken == ReplyInv /\ [Work]_vars => ReplyTaken'
<1> SUFFICES ASSUME ReplyInv, [Work]_vars, NEW t \in Tasks, t.kind \in ReplyKinds,
                    status' = "PENDING", ~AtWork(t)'
             PROVE /\ key'[t] = "free" /\ task'[t] # "done"
                   /\ \A w \in Workers : cur'[w] = t => pc'[w] # "ack"
  BY DEF ReplyTaken
<1>0. /\ pc \in [Workers -> Steps] /\ cur \in [Workers -> Tasks \cup {None}]
      /\ key \in [Tasks -> {"free", "PROCESSING", "PROCESSED"}]
      /\ task \in [Tasks -> {"unsent", "open", "done"}]
      /\ status = "PENDING"
  BY WorkIsNext, NextPending DEF ReplyInv, RowInv, TypeInv, TypeOK
<1>1. ~AtWork(t)
  BY AtWorkStays
<1>2. /\ key[t] = "free" /\ task[t] # "done"
      /\ \A w \in Workers : cur[w] = t => pc[w] # "ack"
  BY <1>0, <1>1 DEF ReplyInv, ReplyTaken
(* Nobody executes t. *)
<1>3. ASSUME NEW w \in Workers, cur[w] = t PROVE pc[w] = "idle"
  BY <1>0, <1>1, <1>2, <1>3 DEF ReplyInv, ReplyDecided, AtWork, Kind
<1>4. ASSUME NEW w \in Workers PROVE ~reserveIfNew(w, t)
  <2> SUFFICES ASSUME reserveIfNew(w, t) PROVE FALSE
    OBVIOUS
  <2>1. cur'[w] = t /\ pc'[w] = "replyRead"
    BY <1>0, <1>2 DEF reserveIfNew, Goto, ReplyKinds
  <2> QED BY <2>1 DEF AtWork, ReplySteps
<1>5. ASSUME NEW w \in Workers, step(w) PROVE cur[w] # t
  <2>1. pc[w] # "idle"
    BY <1>5 DEF step, replyRead, replyWrite, transitionRead, transitionWrite, paymentRead,
       paymentLock, confirmPayment, confirmSaga, paymentCommit, createOrder, orderSaga,
       markProcessed, release, acknowledge
  <2> QED BY <1>3, <2>1
<1>6. key'[t] = "free"
  <2>1. ASSUME NEW w \in Workers, step(w) PROVE key'[t] = key[t]
    BY <1>0, <1>5, <2>1 DEF step, replyRead, replyWrite, transitionRead, transitionWrite,
       paymentRead, paymentLock, confirmPayment, confirmSaga, paymentCommit, createOrder,
       orderSaga, markProcessed, release, acknowledge, SetKey
  <2>2. ASSUME NEW w \in Workers, NEW u \in Tasks, start(w, u) PROVE key'[t] = key[t]
    BY <1>0, <1>4, <2>2 DEF start, reserveIfNew, cancelBooking, createPaymentOrder
  <2>3. ASSUME NEW u \in Tasks, send(u) \/ leaseExpires(u) PROVE key'[t] = key[t]
    BY <1>0, <1>2, <2>3 DEF send, leaseExpires
  <2> QED BY <1>2, <2>1, <2>2, <2>3 DEF Work, vars
<1>7. task'[t] # "done"
  <2>1. ASSUME NEW w \in Workers, step(w) PROVE task'[t] = task[t]
    BY <1>0, <1>5, <2>1 DEF step, replyRead, replyWrite, transitionRead, transitionWrite,
       paymentRead, paymentLock, confirmPayment, confirmSaga, paymentCommit, createOrder,
       orderSaga, markProcessed, release, acknowledge
  <2>2. ASSUME NEW w \in Workers, NEW u \in Tasks, start(w, u) PROVE task'[t] = task[t]
    BY <2>2 DEF start, reserveIfNew, cancelBooking, createPaymentOrder
  <2>3. ASSUME NEW u \in Tasks, send(u) \/ leaseExpires(u)
        PROVE task'[t] = task[t] \/ task'[t] = "open"
    BY <1>0, <2>3 DEF send, leaseExpires
  <2> QED BY <1>2, <2>1, <2>2, <2>3 DEF Work, vars
<1>8. ASSUME NEW w \in Workers, cur'[w] = t PROVE pc'[w] # "ack"
  <2>1. CASE Untouched(w)
    BY <1>2, <1>8, <2>1 DEF Untouched
  <2>2. CASE step(w)
    <3>1. cur'[w] = cur[w] \/ cur'[w] = None
      BY <1>0, <2>2 DEF step, replyRead, replyWrite, transitionRead, transitionWrite,
         paymentRead, paymentLock, confirmPayment, confirmSaga, paymentCommit, createOrder,
         orderSaga, markProcessed, release, acknowledge, Finish
    <3> QED BY <1>5, <1>8, <2>2, <3>1
  <2>3. ASSUME NEW u \in Tasks, start(w, u) PROVE FALSE
    <3>1. cur'[w] = u
      BY <1>0, <2>3 DEF start, reserveIfNew, cancelBooking, createPaymentOrder
    <3> QED BY <1>4, <1>8, <2>3, <3>1 DEF start, cancelBooking, createPaymentOrder, ReplyKinds
  <2> QED BY <2>1, <2>2, <2>3, OwnStep DEF ReplyInv, RowInv
<1> QED BY <1>6, <1>7, <1>8

-----------------------------------------------------------------------------
(* Transitions in two steps while nothing fails.                           *)

(* Only handlePaymentSuccess confirms and only cancelBooking cancels. *)
GoalFitsTask ==
  \A w \in Workers :
    /\ pc[w] \in PaymentSteps => Kind(w) = "PaymentSuccess"
    /\ pc[w] \in TransitionSteps /\ goal[w] \in {"CONFIRMING", "CONFIRMED"} =>
         Kind(w) = "PaymentSuccess"
    /\ pc[w] \in TransitionSteps /\ goal[w] \in {"CANCELLING", "CANCELLED"} =>
         Kind(w) = "Cancel"

(* Some execution is about to perform the transition to target, and what   *)
(* it has read of the row is the row as it is.                             *)
Continues(target) ==
  \E w \in Workers :
    /\ goal[w] = target
    /\ pc[w] = "trRead" \/ (pc[w] = "trWrite" /\ seen[w].version = version)

(* A booking is in one of the two passing statuses only while somebody     *)
(* takes it on.                                                            *)
TransitionsGoOn ==
  /\ status = "CONFIRMING" => Continues("CONFIRMED")
  /\ status = "CANCELLING" => Continues("CANCELLED")

(* Every step without a fault keeps GoalFitsTask. *)
LEMMA NextGoal == TypeInv /\ GoalFitsTask /\ [Work]_vars => GoalFitsTask'
<1> SUFFICES ASSUME TypeInv, GoalFitsTask, [Work]_vars, NEW w \in Workers
             PROVE /\ pc'[w] \in PaymentSteps => cur'[w].kind = "PaymentSuccess"
                   /\ pc'[w] \in TransitionSteps /\ goal'[w] \in {"CONFIRMING", "CONFIRMED"} =>
                        cur'[w].kind = "PaymentSuccess"
                   /\ pc'[w] \in TransitionSteps /\ goal'[w] \in {"CANCELLING", "CANCELLED"} =>
                        cur'[w].kind = "Cancel"
  BY DEF GoalFitsTask, Kind
<1>0. /\ pc \in [Workers -> Steps] /\ cur \in [Workers -> Tasks \cup {None}]
      /\ goal \in [Workers -> Goals]
  BY DEF TypeInv, TypeOK
<1> DEFINE Fits ==
      /\ pc'[w] \in PaymentSteps => cur'[w].kind = "PaymentSuccess"
      /\ pc'[w] \in TransitionSteps /\ goal'[w] \in {"CONFIRMING", "CONFIRMED"} =>
           cur'[w].kind = "PaymentSuccess"
      /\ pc'[w] \in TransitionSteps /\ goal'[w] \in {"CANCELLING", "CANCELLED"} =>
           cur'[w].kind = "Cancel"
<1> USE <1>0 DEF GoalFitsTask, Kind, PaymentSteps, TransitionSteps, Goto, Advance
<1>1. CASE Untouched(w)
  BY <1>1 DEF Untouched
<1>2. ASSUME NEW t \in Tasks, start(w, t) PROVE Fits
  BY <1>2 DEF start, reserveIfNew, cancelBooking, createPaymentOrder
<1>3. CASE transitionWrite(w)
  <2>1. cur'[w] = cur[w] /\ pc[w] = "trWrite" /\ goal[w] \in Goals
    BY <1>3 DEF transitionWrite
  <2>2. CASE pc'[w] \in TransitionSteps
    <3>1. goal'[w] = afterTransition(Kind(w), goal[w]) /\ goal'[w] # "DONE"
      BY <1>3, <2>1, <2>2 DEF transitionWrite, onThrow
    <3> QED BY <2>1, <2>2, <3>1 DEF afterTransition, Goals
  <2>3. CASE pc'[w] \in PaymentSteps
    BY <1>3, <2>1, <2>3 DEF transitionWrite, onThrow
  <2> QED BY <2>2, <2>3
<1>4. CASE step(w) /\ ~transitionWrite(w)
  BY <1>4 DEF step, replyRead, replyWrite, transitionRead, paymentRead, paymentLock,
     confirmPayment, confirmSaga, paymentCommit, createOrder, orderSaga, markProcessed,
     release, acknowledge, Finish, onThrow
<1> QED BY <1>1, <1>2, <1>3, <1>4, OwnStep

(* The execution that takes the booking on stays at it until it is done. *)
LEMMA ContinuesStays ==
  ASSUME RowInv, [Work]_vars, UNCHANGED <<status, version>>,
         NEW from, NEW target \in Goals, status = from, permittedStates(target) = {from},
         target # from, Continues(target)
  PROVE Continues(target)'
<1>0. /\ pc \in [Workers -> Steps] /\ goal \in [Workers -> Goals] /\ version \in Nat
      /\ seen \in [Workers -> [status: Status, version: Nat]]
  BY DEF RowInv, TypeInv, TypeOK
<1>1. PICK w \in Workers :
        /\ goal[w] = target
        /\ pc[w] = "trRead" \/ (pc[w] = "trWrite" /\ seen[w].version = version)
  BY DEF Continues
<1>2. CASE Untouched(w)
  BY <1>1, <1>2 DEF Untouched, Continues
<1>3. ASSUME NEW t \in Tasks, start(w, t) PROVE FALSE
  BY <1>1, <1>3 DEF start, reserveIfNew, cancelBooking, createPaymentOrder
<1>4. CASE step(w)
  <2>1. transitionRead(w) \/ transitionWrite(w)
    BY <1>1, <1>4 DEF step, replyRead, replyWrite, paymentRead, paymentLock, confirmPayment,
       confirmSaga, paymentCommit, createOrder, orderSaga, markProcessed, release, acknowledge
  <2>2. CASE transitionRead(w)
    <3>1. goal'[w] = target /\ pc'[w] = "trWrite" /\ seen'[w].version = version
      BY <1>0, <1>1, <2>2 DEF transitionRead, Read, Goto
    <3> QED BY <3>1 DEF Continues
  <2>3. CASE transitionWrite(w)
    BY <1>0, <1>1, <2>3 DEF transitionWrite, versionIsCurrent, updateStatus
  <2> QED BY <2>1, <2>2, <2>3
<1> QED BY <1>2, <1>3, <1>4, OwnStep DEF RowInv

(* Who enters a passing status goes on. *)
LEMMA EntersAndContinues ==
  ASSUME RowInv, GoalFitsTask, [Work]_vars, status' # status,
         status' \in {"CONFIRMING", "CANCELLING"}
  PROVE /\ status' = "CONFIRMING" => Continues("CONFIRMED")'
        /\ status' = "CANCELLING" => Continues("CANCELLED")'
<1>0. pc \in [Workers -> Steps] /\ goal \in [Workers -> Goals]
  BY DEF RowInv, TypeInv, TypeOK
<1>1. PICK w \in Workers : replyWrite(w) \/ transitionWrite(w)
  BY DEF Work, start, step, vars, row, reserveIfNew, cancelBooking, createPaymentOrder,
     replyRead, transitionRead, paymentRead, paymentLock, confirmPayment, confirmSaga,
     paymentCommit, createOrder, orderSaga, markProcessed, release, acknowledge, send,
     leaseExpires
<1>2. ~replyWrite(w)
  BY DEF replyWrite, updateStatus, ReplyStatus
<1>3. transitionWrite(w) /\ versionIsCurrent(w) /\ status' = goal[w] /\ pc[w] = "trWrite"
  BY <1>1, <1>2 DEF transitionWrite, updateStatus
<1>4. /\ goal[w] = "CONFIRMING" => Kind(w) = "PaymentSuccess"
      /\ goal[w] = "CANCELLING" => Kind(w) = "Cancel"
  BY <1>3 DEF GoalFitsTask, TransitionSteps
<1>5. /\ goal[w] = "CONFIRMING" => afterTransition(Kind(w), goal[w]) = "CONFIRMED"
      /\ goal[w] = "CANCELLING" => afterTransition(Kind(w), goal[w]) = "CANCELLED"
  BY <1>4 DEF afterTransition
<1>6. pc'[w] = "trRead" /\ goal'[w] = afterTransition(Kind(w), goal[w])
  BY <1>0, <1>3, <1>5 DEF transitionWrite, Advance, Goto
<1> QED BY <1>3, <1>5, <1>6 DEF Continues

(* Every step without a fault keeps TransitionsGoOn. *)
LEMMA NextGoOn ==
  ASSUME RowInv, GoalFitsTask, TransitionsGoOn, [Work]_vars
  PROVE TransitionsGoOn'
<1>1. RowStep
  BY WorkIsNext, RowAdvances
<1>2. CASE status' # status
  BY <1>2, EntersAndContinues DEF TransitionsGoOn
<1>3. CASE status' = status
  <2>1. UNCHANGED <<status, version>>
    BY <1>1, <1>3 DEF RowStep, Lifecycle
  <2>2. permittedStates("CONFIRMED") = {"CONFIRMING"} /\ permittedStates("CANCELLED") = {"CANCELLING"}
    BY DEF permittedStates
  <2>3. status = "CONFIRMING" => Continues("CONFIRMED")'
    BY <2>1, <2>2, ContinuesStays DEF Goals, TransitionsGoOn
  <2>4. status = "CANCELLING" => Continues("CANCELLED")'
    BY <2>1, <2>2, ContinuesStays DEF Goals, TransitionsGoOn
  <2> QED BY <1>3, <2>3, <2>4 DEF TransitionsGoOn
<1> QED BY <1>2, <1>3

(* What holds as long as nothing has failed. *)
CalmInv == ReplyInv /\ GoalFitsTask /\ TransitionsGoOn

(* A step after which no fault has happened is none, and comes after none. *)
LEMMA NoFaultIsWork ==
  ASSUME TypeInv, [Next]_vars, faults' = 0
  PROVE [Work]_vars /\ faults = 0
<1>0. faults \in Nat
  BY DEF TypeInv, TypeOK
<1>1. \A w \in Workers : ~error(w) /\ ~crash(w)
  BY <1>0 DEF error, crash
<1>2. faults' = faults \/ faults' = faults + 1
  BY DEF Next, Work, start, step, vars, reserveIfNew, cancelBooking, createPaymentOrder,
     replyRead, replyWrite, transitionRead, transitionWrite, paymentRead, paymentLock,
     confirmPayment, confirmSaga, paymentCommit, createOrder, orderSaga, markProcessed,
     release, acknowledge, error, crash, send, leaseExpires
<1> QED BY <1>0, <1>1, <1>2 DEF Next

(* The calm invariant holds at first, and after every step that is no      *)
(* fault.                                                                  *)
LEMMA CalmInduction ==
  /\ Init => CalmInv
  /\ CalmInv /\ [Work]_vars => CalmInv'
<1>1. ASSUME Init PROVE CalmInv
  <2>1. PendingIsFirst /\ ReplyTaken /\ ReplyDecided
    BY <1>1 DEF Init, PendingIsFirst, ReplyTaken, ReplyDecided
  <2>2. GoalFitsTask /\ TransitionsGoOn
    BY <1>1 DEF Init, GoalFitsTask, TransitionsGoOn, PaymentSteps, TransitionSteps
  <2> QED BY <1>1, <2>1, <2>2, InitRow DEF ReplyInv, CalmInv
<1>2. CalmInv /\ [Work]_vars => ReplyInv'
  BY WorkIsNext, RowInduction, NextPending, NextTaken, NextDecided DEF ReplyInv, CalmInv
<1> QED BY <1>1, <1>2, NextGoal, NextGoOn DEF CalmInv, ReplyInv, RowInv

(* While nothing fails, no hold reply is acknowledged and forgotten: the   *)
(* lease of reserveIfNew may make a delivery return without a look at the  *)
(* booking, for any number of deliveries at once, but never the last one   *)
(* that could still move it out of PENDING.                                *)
THEOREM RepliesNotLost == Spec => []ReplyNotLost
<1> DEFINE IInv == TypeInv /\ (faults = 0 => CalmInv)
<1>1. Init => IInv
  BY InitType, CalmInduction
<1>2. IInv /\ [Next]_vars => IInv'
  BY NextType, NoFaultIsWork, CalmInduction
<1>3. IInv => ReplyNotLost
  BY DEF CalmInv, ReplyInv, ReplyTaken, AtWork, ReplyNotLost
<1> QED BY <1>1, <1>2, <1>3, PTL DEF Spec

-----------------------------------------------------------------------------
(* The composition with the inventory.                                     *)

(* The inventory with what is proved of it. *)
Stock ==
  INSTANCE SeatAllocationProofs
    WITH Bookings <- {booking}, Workers <- InventoryWorkers, StatusKinds <- InventoryKinds,
         MaxFaults <- InventoryFaults, pc <- invPc, cur <- invCur, seen <- invSeen,
         faults <- invFaults

-----------------------------------------------------------------------------
(* The inventory of the composition is the one the proofs are about. *)
LEMMA SameInventory == [Inventory!Next]_inventoryVars => [Stock!Next]_(Stock!vars)
<1> USE DEF Inventory!Goto, Stock!Goto, Inventory!Booking, Stock!Booking, Inventory!db,
    Stock!db, Inventory!FreeRows, Stock!FreeRows, Inventory!Idle, Stock!Idle,
    Inventory!NoRows, Stock!NoRows, Inventory!HoldEvent, Stock!HoldEvent,
    Inventory!StatusEvent, Stock!StatusEvent, Inventory!FromStop, Stock!FromStop,
    Inventory!ToStop, Stock!ToStop, Inventory!ResolveStop, Stock!ResolveStop,
    Inventory!Stops, Stock!Stops
<1>1. ASSUME NEW w, NEW b PROVE Inventory!holdSeats(w, b) = Stock!holdSeats(w, b)
  BY DEF Inventory!holdSeats, Stock!holdSeats
<1>2. ASSUME NEW w, NEW e PROVE Inventory!handleStatusChanged(w, e) = Stock!handleStatusChanged(w, e)
  BY DEF Inventory!handleStatusChanged, Stock!handleStatusChanged
<1>3. ASSUME NEW w PROVE Inventory!checkScheduleAndSegment(w) = Stock!checkScheduleAndSegment(w)
  BY DEF Inventory!checkScheduleAndSegment, Stock!checkScheduleAndSegment,
      Inventory!resolveSegmentStops, Stock!resolveSegmentStops,
      Inventory!rejectSchedule, Stock!rejectSchedule
<1>4. ASSUME NEW w PROVE Inventory!acquireSeatLocks(w) = Stock!acquireSeatLocks(w)
  BY DEF Inventory!acquireSeatLocks, Stock!acquireSeatLocks, Inventory!getLockKeys,
      Stock!getLockKeys, Inventory!fetchSeatMap, Stock!fetchSeatMap
<1>5. ASSUME NEW w PROVE Inventory!txRecheck(w) = Stock!txRecheck(w)
  BY DEF Inventory!txRecheck, Stock!txRecheck
<1>6. ASSUME NEW w, NEW s PROVE Inventory!lockSeats(w, s) = Stock!lockSeats(w, s)
  BY DEF Inventory!lockSeats, Stock!lockSeats, Inventory!rowIsFree, Stock!rowIsFree
<1>7. ASSUME NEW w PROVE Inventory!checkOverlap(w) = Stock!checkOverlap(w)
  BY DEF Inventory!checkOverlap, Stock!checkOverlap, Inventory!hasOverlappingAllocation,
      Stock!hasOverlappingAllocation, Inventory!Active, Stock!Active,
      Inventory!ActiveStatus, Stock!ActiveStatus, Inventory!Overlap, Stock!Overlap
<1>8. ASSUME NEW w PROVE Inventory!commitHold(w) = Stock!commitHold(w)
  BY DEF Inventory!commitHold, Stock!commitHold, Inventory!keysAreNew, Stock!keysAreNew,
      Inventory!holdKey, Stock!holdKey
<1>9. ASSUME NEW w PROVE Inventory!deadlockDetected(w) = Stock!deadlockDetected(w)
  BY DEF Inventory!deadlockDetected, Stock!deadlockDetected
<1>10. ASSUME NEW w PROVE Inventory!fail(w) = Stock!fail(w)
  BY DEF Inventory!fail, Stock!fail, Inventory!failReply, Stock!failReply
<1>11. ASSUME NEW w PROVE Inventory!releaseSeatLocks(w) = Stock!releaseSeatLocks(w)
  BY DEF Inventory!releaseSeatLocks, Stock!releaseSeatLocks, Inventory!getLockKeys,
      Stock!getLockKeys
<1>12. ASSUME NEW w PROVE Inventory!findByBookingId(w) = Stock!findByBookingId(w)
  BY DEF Inventory!findByBookingId, Stock!findByBookingId
<1>13. ASSUME NEW w PROVE Inventory!commitStatus(w) = Stock!commitStatus(w)
  BY DEF Inventory!commitStatus, Stock!commitStatus, Inventory!updateManyStatus,
      Stock!updateManyStatus, Inventory!SourceStatus, Stock!SourceStatus,
      Inventory!ActiveStatus, Stock!ActiveStatus, Inventory!updatedRows,
      Stock!updatedRows, Inventory!auditedRows, Stock!auditedRows, Inventory!statusKey,
      Stock!statusKey
<1>14. ASSUME NEW w PROVE Inventory!commitOffset(w) = Stock!commitOffset(w)
  BY DEF Inventory!commitOffset, Stock!commitOffset
<1>15. ASSUME NEW w PROVE Inventory!acquireSeatLocksError(w) = Stock!acquireSeatLocksError(w)
  BY DEF Inventory!acquireSeatLocksError, Stock!acquireSeatLocksError
<1>16. ASSUME NEW w PROVE Inventory!txError(w) = Stock!txError(w)
  BY DEF Inventory!txError, Stock!txError, Inventory!InTransaction, Stock!InTransaction
<1>17. ASSUME NEW w PROVE Inventory!releaseSeatLocksError(w) = Stock!releaseSeatLocksError(w)
  BY DEF Inventory!releaseSeatLocksError, Stock!releaseSeatLocksError
<1>18. ASSUME NEW w PROVE Inventory!crash(w) = Stock!crash(w)
  BY DEF Inventory!crash, Stock!crash
<1>19. ASSUME NEW l PROVE Inventory!lockExpires(l) = Stock!lockExpires(l)
  BY DEF Inventory!lockExpires, Stock!lockExpires
<1>20. ASSUME NEW b, NEW k PROVE Inventory!publishStatus(b, k) = Stock!publishStatus(b, k)
  BY DEF Inventory!publishStatus, Stock!publishStatus
<1>21. Inventory!processStatusChanged = Stock!processStatusChanged
  BY DEF Inventory!processStatusChanged, Stock!processStatusChanged
<1> QED BY <1>1, <1>2, <1>3, <1>4, <1>5, <1>6, <1>7, <1>8, <1>9, <1>10, <1>11, <1>12,
    <1>13, <1>14, <1>15, <1>16, <1>17, <1>18, <1>19, <1>20, <1>21 DEF inventoryVars,
    Stock!vars, Inventory!Next, Stock!Next, Inventory!HoldStep, Stock!HoldStep,
    Inventory!StatusStep, Stock!StatusStep, Inventory!Fault, Stock!Fault

(* The assumptions of the inventory's proofs hold of its constants here. *)
LEMMA StockAssumptions ==
  /\ SeatRows \subseteq Seats /\ NumStops \in Nat /\ InventoryFaults \in Nat
  /\ Requests \subseteq Stock!RequestType /\ None \notin InventoryWorkers
  /\ InventoryKinds \subseteq {"CONFIRMED", "CANCELLED"}
BY InventoryConstantsAssumption, InventoryRequestsAssumption
   DEF InventoryKinds, Inventory!RequestType, Stock!RequestType, Inventory!Stops, Stock!Stops

(* A step of the composition is a step, or none, of each service. *)
LEMMA StepOfEach ==
  [SagaNext]_sagaVars => [Next]_vars /\ [Stock!Next]_(Stock!vars)
<1> SUFFICES ASSUME [SagaNext]_sagaVars
             PROVE [Next]_vars /\ [Inventory!Next]_inventoryVars
  BY SameInventory
<1>1. CASE BookingStep
  BY <1>1 DEF BookingStep
<1>2. ASSUME NEW k \in InventoryKinds, StatusPublished(k)
      PROVE [Next]_vars /\ [Inventory!Next]_inventoryVars
  <2>1. Inventory!publishStatus(booking, k) /\ UNCHANGED vars
    BY <1>2 DEF StatusPublished
  <2>2. Inventory!Next
    BY <2>1 DEF Inventory!Next
  <2> QED BY <2>1, <2>2
<1>3. CASE InventoryStep
  BY <1>3 DEF InventoryStep
<1>4. CASE UNCHANGED sagaVars
  BY <1>4 DEF sagaVars
<1> QED BY <1>1, <1>2, <1>3, <1>4 DEF SagaNext

(* The initial state of the composition is one of each service. *)
LEMMA InitOfEach == SagaInit => Init /\ Stock!Init
BY DEF SagaInit, Inventory!Init, Stock!Init, Inventory!NoRows, Stock!NoRows

(* Every behaviour of the composition is a behaviour of the booking        *)
(* service and one of the inventory: what is proved of either service in   *)
(* an arbitrary environment holds of it next to the other.                 *)
THEOREM SagaImplementsServices == SagaSpec => Spec /\ Stock!Spec
BY InitOfEach, StepOfEach, PTL DEF SagaSpec, Spec, Stock!Spec

(* The bounded composition that is model-checked is part of the whole one. *)
THEOREM BoundedIsSaga == BoundedSpec => SagaSpec
<1>1. BoundedNext => SagaNext
  BY DEF BoundedNext, SagaNext
<1> QED BY <1>1, PTL DEF BoundedSpec, SagaSpec

-----------------------------------------------------------------------------
(* What the two services know of each other.                               *)

(* The booking service knows of held seats only from the inventory's       *)
(* reply: on the topic, in an execution, and in the row.                   *)
HeldIsReplied ==
  /\ \A t \in Tasks :
       t.kind = "SeatsHeld" /\ task[t] # "unsent" => "SeatsHeld" \in replies[booking]
  /\ \A w \in Workers : pc[w] # "idle" => task[cur[w]] # "unsent"
  /\ status \notin {"PENDING", "FAILED", "EXPIRED"} => "SeatsHeld" \in replies[booking]

(* The status events the inventory acts on tell what became of the row.    *)
EventsTellStatus ==
  /\ \A i \in 1..Len(outbox) :
       /\ outbox[i].current \in Goals
       /\ outbox[i].current = "CANCELLED" => status = "CANCELLED"
       /\ outbox[i].current = "CONFIRMED" => status \in PaidStatus
  /\ status \in {"CONFIRMED", "CANCELLED"} =>
       \E i \in 1..Len(outbox) : outbox[i].current = status

(* The inventory sees the events that were recorded. *)
PublishedIsRecorded ==
  \A k \in InventoryKinds : Stock!StatusEvent(booking, k) \in statusEvents => recorded(k)

SagaInv ==
  /\ RowInv /\ Stock!RecordsInv
  /\ HeldIsReplied /\ EventsTellStatus /\ PublishedIsRecorded
  /\ faults = 0 => CalmInv

(* An execution has a task that was sent, and a task is never unsent. *)
LEMMA TasksWereSent ==
  ASSUME TypeInv, [Next]_vars, \A w \in Workers : pc[w] # "idle" => task[cur[w]] # "unsent"
  PROVE /\ \A t \in Tasks : task[t] # "unsent" => task'[t] # "unsent"
        /\ \A w \in Workers : pc'[w] # "idle" => task'[cur'[w]] # "unsent"
<1>0. /\ pc \in [Workers -> Steps] /\ cur \in [Workers -> Tasks \cup {None}]
      /\ task \in [Tasks -> {"unsent", "open", "done"}]
      /\ \A w \in Workers : pc[w] # "idle" => cur[w] \in Tasks
  BY DEF TypeInv, TypeOK, TaskFitsStep
<1>1. \A t \in Tasks : task[t] # "unsent" => task'[t] # "unsent"
  BY <1>0 DEF Next, Work, start, step, vars, reserveIfNew, cancelBooking, createPaymentOrder,
     replyRead, replyWrite, transitionRead, transitionWrite, paymentRead, paymentLock,
     confirmPayment, confirmSaga, paymentCommit, createOrder, orderSaga, markProcessed,
     release, acknowledge, error, crash, send, leaseExpires
<1>2. ASSUME NEW w \in Workers, pc'[w] # "idle" PROVE task'[cur'[w]] # "unsent"
  <2> DEFINE Moved == \/ \E t \in Tasks : cur'[w] = t /\ task[t] = "open"
                      \/ pc[w] # "idle" /\ cur'[w] = cur[w]
  <2>1. Moved
    <3>1. ASSUME NEW v \in Workers, NEW t \in Tasks, start(v, t) PROVE Moved
      BY <1>0, <1>2, <3>1 DEF start, reserveIfNew, cancelBooking, createPaymentOrder,
         Goto, Advance
    <3>2. ASSUME NEW v \in Workers, step(v) PROVE Moved
      BY <1>0, <1>2, <3>2 DEF step, replyRead, replyWrite, transitionRead, transitionWrite,
         paymentRead, paymentLock, confirmPayment, confirmSaga, paymentCommit, createOrder,
         orderSaga, markProcessed, release, acknowledge, Goto, Advance, Finish
    <3>3. ASSUME NEW v \in Workers, error(v) \/ crash(v) PROVE Moved
      BY <1>0, <1>2, <3>3 DEF error, crash, Goto, Finish, ReplySteps, PaymentSteps, TransitionSteps
    <3>4. ASSUME (\E t \in Tasks : send(t) \/ leaseExpires(t)) \/ UNCHANGED vars PROVE Moved
      BY <1>2, <3>4 DEF send, leaseExpires, vars
    <3> QED BY <3>1, <3>2, <3>3, <3>4 DEF Next, Work
  <2> QED BY <1>0, <1>1, <2>1
<1> QED BY <1>1, <1>2

(* The row becomes SEATS_HELD only through a SeatsHeld reply, and a status *)
(* of a transition only together with its event.                           *)
LEMMA RowWriters ==
  ASSUME RowInv, [Next]_vars
  PROVE \/ /\ outbox' = outbox
           /\ \/ status' = status
              \/ status' \in {"FAILED", "EXPIRED"}
              \/ status' = "SEATS_HELD" /\ \E w \in Workers : pc[w] # "idle" /\ Kind(w) = "SeatsHeld"
        \/ \E e \in StatusChanged :
             /\ outbox' = Append(outbox, e) /\ e.current = status' /\ status' \in Goals
<1> DEFINE Written ==
      \/ /\ outbox' = outbox
         /\ \/ status' = status
            \/ status' \in {"FAILED", "EXPIRED"}
            \/ status' = "SEATS_HELD" /\ \E w \in Workers : pc[w] # "idle" /\ Kind(w) = "SeatsHeld"
      \/ \E e \in StatusChanged :
           /\ outbox' = Append(outbox, e) /\ e.current = status' /\ status' \in Goals
<1>1. ASSUME NEW w \in Workers, replyWrite(w) PROVE Written
  BY <1>1 DEF replyWrite, updateStatus, ReplyStatus
<1>2. ASSUME NEW w \in Workers, transitionWrite(w) PROVE Written
  <2>1. CASE versionIsCurrent(w)
    <3>1. statusChangedPayload(w) \in StatusChanged /\ goal[w] \in Goals
      BY DEF statusChangedPayload, StatusChanged, RowInv, TypeInv, TypeOK, Goals, Status
    <3> QED BY <1>2, <2>1, <3>1 DEF transitionWrite, updateStatus, statusChangedPayload
  <2>2. CASE ~versionIsCurrent(w)
    BY <1>2, <2>2 DEF transitionWrite
  <2> QED BY <2>1, <2>2
<1>3. CASE UNCHANGED <<status, outbox>>
  BY <1>3
<1> QED
  BY <1>1, <1>2, <1>3
  DEF Next, Work, start, step, vars, row, reserveIfNew, cancelBooking, createPaymentOrder,
      replyRead, transitionRead, paymentRead, paymentLock, confirmPayment, confirmSaga,
      paymentCommit, createOrder, orderSaga, markProcessed, release, acknowledge, error,
      crash, send, leaseExpires

(* The events in the outbox after a step. *)
LEMMA OutboxGrows ==
  ASSUME RowInv, [Next]_vars
  PROVE /\ Len(outbox) \in Nat /\ Len(outbox') \in Nat /\ Len(outbox) <= Len(outbox')
        /\ \A i \in 1..Len(outbox) : outbox'[i] = outbox[i]
        /\ \A i \in 1..Len(outbox') : i \in 1..Len(outbox) \/ outbox'[i].current = status'
<1>1. outbox \in Seq(StatusChanged)
  BY DEF RowInv, TypeInv, TypeOK
<1>2. CASE outbox' = outbox
  BY <1>1, <1>2
<1>3. ASSUME NEW e \in StatusChanged, outbox' = Append(outbox, e), e.current = status'
      PROVE /\ Len(outbox) \in Nat /\ Len(outbox') \in Nat /\ Len(outbox) <= Len(outbox')
            /\ \A i \in 1..Len(outbox) : outbox'[i] = outbox[i]
            /\ \A i \in 1..Len(outbox') : i \in 1..Len(outbox) \/ outbox'[i].current = status'
  <2>1. /\ Len(outbox') = Len(outbox) + 1 /\ Len(outbox) \in Nat
        /\ outbox'[Len(outbox) + 1] = e
        /\ \A i \in 1..Len(outbox) : outbox'[i] = outbox[i]
    BY <1>1, <1>3
  <2> QED BY <1>3, <2>1
<1> QED BY <1>2, <1>3, RowWriters

(* The inventory's replies are not taken back. *)
LEMMA RepliesGrow ==
  ASSUME SagaInv, [SagaNext]_sagaVars
  PROVE replies[booking] \subseteq replies'[booking]
<1>1. Stock!TypeInv
  BY DEF SagaInv, Stock!RecordsInv
<1>2. Stock!RecordsGrow
  BY <1>1, StepOfEach, StockAssumptions, Stock!NextGrows
<1> QED BY <1>2 DEF Stock!RecordsGrow

(* Held seats stay a matter of the inventory's reply. *)
LEMMA NextHeld ==
  ASSUME SagaInv, [SagaNext]_sagaVars
  PROVE HeldIsReplied'
<1>0. RowInv /\ TypeInv /\ [Next]_vars /\ HeldIsReplied
  BY StepOfEach DEF SagaInv, RowInv
<1>1. \A w \in Workers : pc'[w] # "idle" => task'[cur'[w]] # "unsent"
  BY <1>0, TasksWereSent DEF HeldIsReplied
<1>2. ASSUME NEW t \in Tasks, t.kind = "SeatsHeld", task'[t] # "unsent"
      PROVE "SeatsHeld" \in replies'[booking]
  <2>1. CASE task[t] # "unsent"
    BY <1>0, <1>2, <2>1, RepliesGrow DEF HeldIsReplied
  <2>2. CASE task[t] = "unsent"
    <3>1. BookingStep
      BY <1>2, <2>2 DEF SagaNext, sagaVars, vars, StatusPublished, InventoryStep
    <3> QED BY <1>2, <2>2, <3>1, RepliesGrow DEF BookingStep, replied
  <2> QED BY <2>1, <2>2
<1>3. ASSUME status' \notin {"PENDING", "FAILED", "EXPIRED"}
      PROVE "SeatsHeld" \in replies'[booking]
  <2>1. CASE status \notin {"PENDING", "FAILED", "EXPIRED"}
    BY <1>0, <2>1, RepliesGrow DEF HeldIsReplied
  <2>2. CASE status \in {"PENDING", "FAILED", "EXPIRED"}
    <3>1. status' = "SEATS_HELD"
      BY <1>0, <1>3, <2>2, RowAdvances DEF RowStep, Lifecycle
    <3>2. PICK w \in Workers : pc[w] # "idle" /\ Kind(w) = "SeatsHeld"
      BY <1>0, <2>2, <3>1, RowWriters DEF Goals
    <3>3. cur[w] \in Tasks /\ task[cur[w]] # "unsent"
      BY <1>0, <3>2 DEF TypeInv, TaskFitsStep, HeldIsReplied
    <3> QED BY <1>0, <3>2, <3>3, RepliesGrow DEF HeldIsReplied, Kind
  <2> QED BY <2>1, <2>2
<1> QED BY <1>1, <1>2, <1>3 DEF HeldIsReplied

(* The events keep telling what became of the row. *)
LEMMA NextTell ==
  ASSUME RowInv, EventsTellStatus, [Next]_vars
  PROVE EventsTellStatus'
<1>1. /\ status = "CANCELLED" => status' = "CANCELLED"
      /\ status \in PaidStatus => status' \in PaidStatus
  BY RowAdvances DEF RowStep, Lifecycle, PaidStatus
<1>2. ASSUME NEW i \in 1..Len(outbox')
      PROVE /\ outbox'[i].current \in Goals
            /\ outbox'[i].current = "CANCELLED" => status' = "CANCELLED"
            /\ outbox'[i].current = "CONFIRMED" => status' \in PaidStatus
  <2>1. CASE i \in 1..Len(outbox)
    BY <1>1, <2>1, OutboxGrows DEF EventsTellStatus
  <2>2. CASE i \notin 1..Len(outbox)
    <3>1. outbox'[i].current = status' /\ status' \in Goals
      BY <2>2, OutboxGrows, RowWriters
    <3> QED BY <3>1 DEF PaidStatus
  <2> QED BY <2>1, <2>2
<1>3. ASSUME status' \in {"CONFIRMED", "CANCELLED"}
      PROVE \E i \in 1..Len(outbox') : outbox'[i].current = status'
  <2>1. CASE outbox' = outbox
    BY <1>3, <2>1, RowWriters DEF EventsTellStatus
  <2>2. ASSUME NEW e \in StatusChanged, outbox' = Append(outbox, e), e.current = status'
        PROVE \E i \in 1..Len(outbox') : outbox'[i].current = status'
    <3>1. outbox \in Seq(StatusChanged)
      BY DEF RowInv, TypeInv, TypeOK
    <3>2. Len(outbox') = Len(outbox) + 1 /\ Len(outbox) \in Nat /\ outbox'[Len(outbox) + 1] = e
      BY <2>2, <3>1
    <3> QED BY <2>2, <3>2
  <2> QED BY <2>1, <2>2, RowWriters
<1> QED BY <1>2, <1>3 DEF EventsTellStatus

(* The inventory keeps seeing recorded events only. *)
LEMMA NextPublished ==
  ASSUME SagaInv, [SagaNext]_sagaVars
  PROVE PublishedIsRecorded'
<1>1. ASSUME NEW k \in InventoryKinds, recorded(k) PROVE recorded(k)'
  <2>1. PICK i \in 1..Len(outbox) : handledAs(outbox[i].current) = k
    BY <1>1 DEF recorded
  <2>2. i \in 1..Len(outbox') /\ outbox'[i] = outbox[i]
    BY <2>1, StepOfEach, OutboxGrows DEF SagaInv
  <2> QED BY <2>1, <2>2 DEF recorded, handledAs
<1>2. CASE statusEvents' = statusEvents
  BY <1>1, <1>2 DEF SagaInv, PublishedIsRecorded, Stock!StatusEvent
<1>3. ASSUME NEW k \in InventoryKinds, StatusPublished(k) PROVE PublishedIsRecorded'
  <2>1. recorded(k) /\ statusEvents' = statusEvents \cup {Stock!StatusEvent(booking, k)}
    BY <1>3 DEF StatusPublished, Inventory!publishStatus, Inventory!StatusEvent, Stock!StatusEvent
  <2> QED BY <1>1, <2>1 DEF SagaInv, PublishedIsRecorded, Stock!StatusEvent
<1> QED BY <1>2, <1>3 DEF SagaNext, sagaVars, BookingStep, InventoryStep, inventoryVars

(* The invariant of the composition is inductive. *)
LEMMA SagaAlways == SagaSpec => []SagaInv
<1>1. SagaInit => SagaInv
  <2> SUFFICES ASSUME SagaInit PROVE SagaInv
    OBVIOUS
  <2>1. Init /\ Stock!Init
    BY InitOfEach
  <2>2. RowInv /\ CalmInv
    BY <2>1, InitRow, CalmInduction
  <2>3. Stock!RecordsInv
    BY <2>1, StockAssumptions, Stock!InitRecords
  <2>4. HeldIsReplied /\ EventsTellStatus
    BY <2>1 DEF Init, HeldIsReplied, EventsTellStatus
  <2>5. PublishedIsRecorded
    BY <2>1 DEF Stock!Init, PublishedIsRecorded
  <2> QED BY <2>2, <2>3, <2>4, <2>5 DEF SagaInv
<1>2. SagaInv /\ [SagaNext]_sagaVars => SagaInv'
  <2> SUFFICES ASSUME SagaInv, [SagaNext]_sagaVars PROVE SagaInv'
    OBVIOUS
  <2>1. [Next]_vars /\ [Stock!Next]_(Stock!vars)
    BY StepOfEach
  <2>2. RowInv' /\ EventsTellStatus'
    BY <2>1, RowInduction, NextTell DEF SagaInv
  <2>3. (Stock!RecordsInv)'
    BY <2>1, StockAssumptions, Stock!NextRecords DEF SagaInv
  <2>4. (faults = 0 => CalmInv)'
    BY <2>1, NoFaultIsWork, CalmInduction DEF SagaInv, RowInv
  <2> QED BY <2>2, <2>3, <2>4, NextHeld, NextPublished DEF SagaInv
<1> QED BY <1>1, <1>2, PTL DEF SagaSpec

(* What the inventory recorded as processed is the booking's own status. *)
LEMMA ProcessedIsStatus ==
  ASSUME SagaInv
  PROVE /\ Stock!StatusEvent(booking, "CANCELLED") \in processed => status = "CANCELLED"
        /\ Stock!StatusEvent(booking, "CONFIRMED") \in processed => status \in PaidStatus
<1>1. ASSUME NEW k \in InventoryKinds, Stock!StatusEvent(booking, k) \in processed
      PROVE \E i \in 1..Len(outbox) : outbox[i].current \in Goals /\ handledAs(outbox[i].current) = k
  <2>1. Stock!StatusEvent(booking, k) \in statusEvents
    BY <1>1 DEF SagaInv, Stock!RecordsInv, Stock!StatusAfterHold, Stock!StatusEvent, InventoryKinds
  <2> QED BY <2>1 DEF SagaInv, PublishedIsRecorded, recorded, EventsTellStatus
<1>2. \A c \in Goals : /\ handledAs(c) = "CANCELLED" => c = "CANCELLED"
                       /\ handledAs(c) = "CONFIRMED" => c = "CONFIRMED"
  BY DEF handledAs, Goals
<1> QED BY <1>1, <1>2 DEF SagaInv, EventsTellStatus, InventoryKinds

(* The rows of a booking that was told SeatsHeld and is not cancelled. *)
LEMMA SoldIsActive ==
  ASSUME SagaInv, status \notin {"PENDING", "FAILED", "EXPIRED", "CANCELLED"},
         NEW s \in req[booking].seats
  PROVE /\ alloc[booking][s] \in {"HELD", "CONFIRMED"}
        /\ Stock!StatusEvent(booking, "CONFIRMED") \in processed <=> alloc[booking][s] = "CONFIRMED"
<1>1. /\ "SeatsHeld" \in replies[booking]
      /\ Stock!StatusEvent(booking, "CANCELLED") \notin processed
  BY ProcessedIsStatus DEF SagaInv, HeldIsReplied
<1>2. Stock!RecordsInv
  BY DEF SagaInv
<1>3. /\ s \in Seats /\ Stock!Active(booking, s)
      /\ Stock!StatusEvent(booking, "CONFIRMED") \in processed => alloc[booking][s] = "CONFIRMED"
  BY <1>1, <1>2, StockAssumptions, Stock!ToldIsActive
<1>4. alloc[booking][s] = "CONFIRMED" => Stock!StatusEvent(booking, "CONFIRMED") \in processed
  BY <1>2, <1>3 DEF Stock!RecordsInv, Stock!RowsMatchReplies
<1> QED BY <1>3, <1>4 DEF Stock!Active, Stock!ActiveStatus

(* A booking that its service calls held, payable or confirmed has all its *)
(* seats in the inventory, for any interleaving of the two services'       *)
(* handlers, any redeliveries and crashes, and contradictory replies: the  *)
(* status comes from a reply that was recorded with the rows, and the rows *)
(* are released only by an event of a booking that is cancelled for good.  *)
THEOREM SoldSeatsAreThere == SagaSpec => []SoldSeatsExist
<1>1. SagaInv => SoldSeatsExist
  BY SoldIsActive DEF SoldSeatsExist, SeatsAre
<1> QED BY <1>1, SagaAlways, PTL

(* Once every event is handled, and unless the booking service failed, the *)
(* two services agree, whatever failed in the inventory: no booking stays  *)
(* CONFIRMING or CANCELLING or PENDING with a reply, and its seats have    *)
(* the status that goes with its own.                                      *)
THEOREM ServicesAgreeAtRest == SagaSpec => []AgreeAtRest
<1>1. SagaInv => AgreeAtRest
  <2> SUFFICES ASSUME SagaInv, AtRest, faults = 0
               PROVE /\ status \notin {"CONFIRMING", "CANCELLING"}
                     /\ status = "CONFIRMED" => SeatsAre({"CONFIRMED"})
                     /\ status = "CANCELLED" => SeatsAre({"CANCELLED"})
                     /\ status \in {"SEATS_HELD", "PAYMENT_PENDING"} => SeatsAre({"HELD"})
                     /\ status = "PENDING" => replies[booking] = {}
    BY DEF AgreeAtRest
  <2>1. CalmInv /\ Stock!RecordsInv /\ \A w \in Workers : pc[w] = "idle"
    BY DEF SagaInv, AtRest
  <2>2. status \notin {"CONFIRMING", "CANCELLING"}
    BY <2>1 DEF CalmInv, TransitionsGoOn, Continues
  <2>3. ASSUME status \in {"CONFIRMED", "CANCELLED"}
        PROVE Stock!StatusEvent(booking, status) \in processed
    <3>1. PICK i \in 1..Len(outbox) : outbox[i].current = status
      BY <2>3 DEF SagaInv, EventsTellStatus
    <3>2. recorded(status) /\ status \in InventoryKinds
      BY <2>3, <3>1 DEF recorded, handledAs, InventoryKinds
    <3> QED BY <3>2 DEF AtRest, Inventory!StatusEvent, Stock!StatusEvent
  <2>4. ASSUME status = "CONFIRMED" PROVE SeatsAre({"CONFIRMED"})
    BY <2>3, <2>4, SoldIsActive DEF SeatsAre
  <2>5. ASSUME status = "CANCELLED", NEW s \in req[booking].seats
        PROVE alloc[booking][s] = "CANCELLED"
    <3>1. s \in Seats /\ alloc[booking][s] \in Stock!RowStatus \cup {"NONE"}
      BY <2>1, StockAssumptions
         DEF Stock!RecordsInv, Stock!TypeInv, Stock!TypeOK, Stock!RequestType
    <3>2. alloc[booking][s] # "NONE"
      BY <2>1, <2>5 DEF SagaInv, HeldIsReplied, Stock!RecordsInv, Stock!RowsMatchReplies
    <3>3. alloc[booking][s] \notin Stock!ActiveStatus
      BY <2>1, <2>3, <2>5, <3>1 DEF Stock!RecordsInv, Stock!StatusApplied, Stock!Active
    <3> QED BY <3>1, <3>2, <3>3 DEF Stock!RowStatus, Stock!ActiveStatus
  <2>6. ASSUME status \in {"SEATS_HELD", "PAYMENT_PENDING"} PROVE SeatsAre({"HELD"})
    BY <2>6, SoldIsActive, ProcessedIsStatus DEF SeatsAre, PaidStatus
  <2>7. ASSUME status = "PENDING", NEW k \in replies[booking] PROVE FALSE
    <3>1. k \in ReplyKinds
      BY <2>1 DEF Stock!RecordsInv, Stock!TypeInv, Stock!TypeOK, ReplyKinds
    <3>2. PICK t \in Tasks : t.kind = k /\ task[t] = "done"
      BY DEF AtRest
    <3> QED BY <2>1, <2>7, <3>1, <3>2
            DEF CalmInv, ReplyInv, ReplyTaken, AtWork, ReplySteps
  <2> QED BY <2>2, <2>4, <2>5, <2>6, <2>7 DEF SeatsAre
<1> QED BY <1>1, SagaAlways, PTL

-----------------------------------------------------------------------------
(* The payment service: any number of orders and concurrent requests, with *)
(* real keys and with dummies.                                             *)

(* A request between its read and its write works on an order that exists, *)
(* and one that captures under live keys, on an order that was paid.       *)
RequestsGrounded ==
  \A w \in TillWorkers :
    /\ tillPc[w] = "capture" =>
         /\ tillCur[w] \in Till!Orders
         /\ DummyKeys \/ tillCur[w] \in paid
    /\ tillPc[w] = "markFailed" => tillCur[w] \in Till!Orders

TillInv == Till!TypeOK /\ Till!EventBehindStatus /\ RequestsGrounded

LEMMA InitTill == Till!Init => TillInv
BY TillAssumption
DEF Till!Init, TillInv, Till!TypeOK, Till!EventBehindStatus, RequestsGrounded, Till!PaymentStatus

(* One more row of an order: still 0..2, and certainly not 0. *)
LEMMA AddRowFacts ==
  ASSUME NEW rows \in [Till!Orders -> 0..2], NEW o \in Till!Orders
  PROVE  /\ Till!AddRow(rows, o) \in [Till!Orders -> 0..2]
         /\ Till!AddRow(rows, o)[o] > 0
         /\ \A p \in Till!Orders : p # o => Till!AddRow(rows, o)[p] = rows[p]
BY DEF Till!AddRow

(* Steps that write no row. *)
LEMMA TillQuiet ==
  ASSUME TillInv, NEW w \in TillWorkers,
         \/ Till!createOrder(w) \/ Till!createRazorpayOrder(w) \/ Till!crash(w)
         \/ \E o \in Till!Orders :
              Till!verifyAndCapture(w, o, "CLIENT") \/ Till!handleWebhook(w, o)
  PROVE TillInv'
<1>1. CASE Till!createOrder(w)
  BY <1>1 DEF Till!createOrder, Till!Goto, TillInv, Till!TypeOK, Till!EventBehindStatus, RequestsGrounded
<1>2. CASE Till!createRazorpayOrder(w)
  BY <1>2 DEF Till!createRazorpayOrder, Till!Goto, TillInv, Till!TypeOK, Till!EventBehindStatus, RequestsGrounded
<1>3. CASE Till!crash(w)
  BY <1>3, TillAssumption
  DEF Till!crash, Till!Answer, Till!Goto, TillInv, Till!TypeOK, Till!EventBehindStatus, RequestsGrounded
<1>4. CASE \E o \in Till!Orders :
             Till!verifyAndCapture(w, o, "CLIENT") \/ Till!handleWebhook(w, o)
  <2>1. ASSUME NEW o \in Till!Orders, NEW source \in {"CLIENT", "WEBHOOK"},
               Till!verifyAndCapture(w, o, source)
        PROVE TillInv'
    <3>1. CASE UNCHANGED <<tillPc, tillCur>> /\ rejected' = rejected \cup {<<o, source>>}
      BY <2>1, <3>1
      DEF Till!verifyAndCapture, TillInv, Till!TypeOK, Till!EventBehindStatus, RequestsGrounded
    <3>2. CASE Till!verifyPaymentSignature(o, source) /\ UNCHANGED rejected
      <4>1. /\ tillPc' = [tillPc EXCEPT ![w] = "capture"]
            /\ tillCur' = [tillCur EXCEPT ![w] = o]
            /\ UNCHANGED <<payment, successes, failures, paid, attempted, tillFaults>>
        BY <2>1, <3>2 DEF Till!verifyAndCapture, Till!Goto
      <4>2. DummyKeys \/ o \in paid
        BY <3>2 DEF Till!verifyPaymentSignature
      <4> QED
        BY <3>2, <4>1, <4>2
        DEF TillInv, Till!TypeOK, Till!EventBehindStatus, RequestsGrounded
    <3> QED BY <2>1, <3>1, <3>2 DEF Till!verifyAndCapture
  <2>2. ASSUME NEW o \in Till!Orders, Till!markAsFailed(w, o) PROVE TillInv'
    BY <2>2 DEF Till!markAsFailed, Till!Goto, TillInv, Till!TypeOK, Till!EventBehindStatus, RequestsGrounded
  <2> QED BY <1>4, <2>1, <2>2 DEF Till!handleWebhook
<1> QED BY <1>1, <1>2, <1>3, <1>4

(* A new row is PENDING, of which EventBehindStatus says nothing. *)
LEMMA TillCreates == ASSUME TillInv, NEW w \in TillWorkers, Till!create(w) PROVE TillInv'
<1>1. PICK o \in Till!Orders : payment' = [payment EXCEPT ![o] = "PENDING"]
  BY DEF Till!create, Till!initialStatus
<1>2. (Till!TypeOK)'
  BY <1>1 DEF Till!create, Till!Answer, Till!Goto, TillInv, Till!TypeOK, Till!PaymentStatus
<1>3. (Till!EventBehindStatus)'
  BY <1>1 DEF Till!create, TillInv, Till!TypeOK, Till!EventBehindStatus
<1>4. RequestsGrounded'
  BY DEF Till!create, Till!Answer, Till!Goto, TillInv, Till!TypeOK, RequestsGrounded
<1> QED BY <1>2, <1>3, <1>4 DEF TillInv

(* The row and its PaymentSuccess change together. *)
LEMMA TillCaptures ==
  ASSUME TillInv, NEW w \in TillWorkers, Till!updateStatusToCaptured(w) PROVE TillInv'
<1>1. /\ tillCur[w] \in Till!Orders
      /\ DummyKeys \/ tillCur[w] \in paid
      /\ payment \in [Till!Orders -> Till!PaymentStatus]
  BY DEF Till!updateStatusToCaptured, TillInv, RequestsGrounded, Till!TypeOK
<1>2. /\ successes' = Till!AddRow(successes, tillCur[w])
      /\ payment' \in {payment, [payment EXCEPT ![tillCur[w]] = "CAPTURED"]}
      /\ UNCHANGED <<failures, paid, attempted, rejected, tillFaults>>
  BY DEF Till!updateStatusToCaptured, Till!reportsCapture
<1>3. /\ successes' \in [Till!Orders -> 0..2]
      /\ successes'[tillCur[w]] > 0
      /\ \A p \in Till!Orders : p # tillCur[w] => successes'[p] = successes[p]
  BY <1>1, <1>2, AddRowFacts DEF TillInv, Till!TypeOK
<1>4. (Till!TypeOK)'
  BY <1>1, <1>2, <1>3
  DEF Till!updateStatusToCaptured, Till!Answer, Till!Goto, TillInv, Till!TypeOK, Till!PaymentStatus
<1>5. (Till!EventBehindStatus)'
  BY <1>1, <1>2, <1>3 DEF TillInv, Till!EventBehindStatus
<1>6. RequestsGrounded'
  BY <1>2 DEF Till!updateStatusToCaptured, Till!Answer, Till!Goto, TillInv, Till!TypeOK, RequestsGrounded
<1> QED BY <1>4, <1>5, <1>6 DEF TillInv

(* The row and its PaymentFailed change together. *)
LEMMA TillFails == ASSUME TillInv, NEW w \in TillWorkers, Till!writeFailed(w) PROVE TillInv'
<1>1. tillCur[w] \in Till!Orders /\ payment \in [Till!Orders -> Till!PaymentStatus]
  BY DEF Till!writeFailed, TillInv, RequestsGrounded, Till!TypeOK
<1>2. /\ failures' = Till!AddRow(failures, tillCur[w])
      /\ payment' = [payment EXCEPT ![tillCur[w]] = "FAILED"]
      /\ UNCHANGED <<successes, paid, attempted, rejected, tillFaults>>
  BY DEF Till!writeFailed
<1>3. /\ failures' \in [Till!Orders -> 0..2]
      /\ failures'[tillCur[w]] > 0
      /\ \A p \in Till!Orders : p # tillCur[w] => failures'[p] = failures[p]
  BY <1>1, <1>2, AddRowFacts DEF TillInv, Till!TypeOK
<1>4. (Till!TypeOK)'
  BY <1>1, <1>2, <1>3 DEF Till!writeFailed, Till!Answer, Till!Goto, TillInv, Till!TypeOK, Till!PaymentStatus
<1>5. (Till!EventBehindStatus)'
  BY <1>1, <1>2, <1>3 DEF TillInv, Till!EventBehindStatus
<1>6. RequestsGrounded'
  BY <1>2 DEF Till!writeFailed, Till!Answer, Till!Goto, TillInv, Till!TypeOK, RequestsGrounded
<1> QED BY <1>4, <1>5, <1>6 DEF TillInv

(* A step without a worker of its own. *)
LEMMA TillGateway ==
  ASSUME TillInv, NEW o \in Till!Orders, Till!pay(o) \/ Till!decline(o) PROVE TillInv'
BY DEF Till!pay, Till!decline, Till!Created, TillInv, Till!TypeOK, Till!EventBehindStatus, RequestsGrounded

LEMMA TillInduction == TillInv /\ [Till!Next]_(Till!vars) => TillInv'
<1>1. TillInv /\ UNCHANGED Till!vars => TillInv'
  BY DEF Till!vars, TillInv, Till!TypeOK, Till!EventBehindStatus, RequestsGrounded
<1> QED BY <1>1, TillQuiet, TillCreates, TillCaptures, TillFails, TillGateway DEF Till!Next, Till!step

(* Type correctness of the payment orders. *)
THEOREM PaymentTypes == Till!Spec => []Till!TypeOK
BY InitTill, TillInduction, PTL DEF Till!Spec, TillInv

(* Whatever the keys, no status without its event; under live keys no      *)
(* PaymentSuccess without the money, since a verification that reaches the *)
(* capture had the signature of a payment.                                 *)
THEOREM StatusIsAnnounced == Till!Spec => []Till!EventBehindStatus
BY InitTill, TillInduction, PTL DEF Till!Spec, TillInv

(* FAILED is never overwritten, by any overlap of verifications, webhooks, *)
(* new orders and crashes.                                                 *)
THEOREM FailedStaysFailed == Till!Spec => Till!FailedIsFinal
<1>1. TillInv /\ [Till!Next]_(Till!vars)
      => [\A o \in Till!Orders : payment[o] = "FAILED" => payment'[o] = "FAILED"]_(Till!vars)
  <2> SUFFICES ASSUME TillInv, Till!Next, NEW o \in Till!Orders, payment[o] = "FAILED"
               PROVE payment'[o] = "FAILED"
    OBVIOUS
  <2>0. payment \in [Till!Orders -> Till!PaymentStatus]
    BY DEF TillInv, Till!TypeOK
  <2>1. ASSUME NEW w \in TillWorkers, Till!create(w) PROVE payment'[o] = "FAILED"
    <3>1. PICK n \in Till!Orders : /\ \A p \in Till!Orders : payment[p] = "NONE" <=> p >= n
                              /\ payment' = [payment EXCEPT ![n] = "PENDING"]
      BY <2>1 DEF Till!create, Till!initialStatus
    <3>2. payment[n] = "NONE"
      BY <3>1, TillAssumption DEF Till!Orders
    <3> QED BY <2>0, <3>1, <3>2
  <2>2. ASSUME NEW w \in TillWorkers, Till!updateStatusToCaptured(w) PROVE payment'[o] = "FAILED"
    BY <2>0, <2>2 DEF Till!updateStatusToCaptured, Till!capturable
  <2>3. ASSUME NEW w \in TillWorkers, Till!writeFailed(w) PROVE payment'[o] = "FAILED"
    BY <2>0, <2>3 DEF Till!writeFailed
  <2>4. ASSUME UNCHANGED payment PROVE payment'[o] = "FAILED"
    BY <2>4
  <2> QED
    BY <2>1, <2>2, <2>3, <2>4
    DEF Till!Next, Till!step, Till!createOrder, Till!createRazorpayOrder, Till!crash, Till!verifyAndCapture,
        Till!handleWebhook, Till!markAsFailed, Till!pay, Till!decline
<1> QED BY <1>1, InitTill, TillInduction, PTL DEF Till!Spec, Till!FailedIsFinal

-----------------------------------------------------------------------------
(* The booking service next to the payment service.                        *)

(* A step of the composition is a step, or none, of each service. *)
LEMMA PaymentStepOfEach ==
  [PaymentNext]_paymentVars => [Next]_vars /\ [Till!Next]_(Till!vars)
BY DEF PaymentNext, paymentVars, OrderingStep, TillStep, tillVars, Till!vars

(* Every behaviour of the composition is a behaviour of the booking        *)
(* service and one of the payment service: what is proved of either in an  *)
(* arbitrary environment holds of it next to the other.                    *)
THEOREM PaymentImplementsServices == PaymentSpec => Spec /\ Till!Spec
<1>1. PaymentInit => Init /\ Till!Init
  BY DEF PaymentInit
<1> QED BY <1>1, PaymentStepOfEach, PTL DEF PaymentSpec, Spec, Till!Spec

(* Beside the booking service too a payment that was marked FAILED is      *)
(* never captured, for any number of orders and requests and any crashes.  *)
THEOREM FailedPaymentsStayFailed == PaymentSpec => FailedIsFinal
BY PaymentImplementsServices, FailedStaysFailed DEF FailedIsFinal

(* Under live keys the booking service knows of captured money only from   *)
(* the success event of an order: on the topic, in an execution, and in    *)
(* the row.                                                                *)
CaptureIsPaid ==
  /\ \A t \in Tasks :
       ~DummyKeys /\ t.kind = "PaymentSuccess" /\ task[t] # "unsent" => paid # {}
  /\ \A w \in Workers : pc[w] # "idle" => task[cur[w]] # "unsent"

OrderingInv == RowInv /\ GoalFitsTask /\ TillInv /\ CaptureIsPaid /\ ConfirmedIsPaid

(* An execution that fails keeps no transition. *)
LEMMA FaultGoal ==
  ASSUME TypeInv, GoalFitsTask, NEW v \in Workers, error(v) \/ crash(v)
  PROVE GoalFitsTask'
<1>0. /\ pc \in [Workers -> Steps] /\ cur \in [Workers -> Tasks \cup {None}]
      /\ goal \in [Workers -> Goals]
  BY DEF TypeInv, TypeOK
<1>1. \A w \in Workers :
        \/ pc'[w] \notin PaymentSteps \cup TransitionSteps
        \/ pc'[w] = pc[w] /\ cur'[w] = cur[w] /\ goal'[w] = goal[w]
  BY <1>0 DEF error, crash, onThrow, Finish, Goto, PaymentSteps, TransitionSteps
<1> QED BY <1>1 DEF GoalFitsTask, Kind

(* Money once captured stays captured. *)
LEMMA PaidGrows == [Till!Next]_(Till!vars) => paid \subseteq paid'
BY DEF Till!Next, Till!vars, Till!step, Till!createOrder, Till!createRazorpayOrder, Till!create,
   Till!updateStatusToCaptured, Till!writeFailed, Till!crash, Till!verifyAndCapture,
   Till!handleWebhook, Till!markAsFailed, Till!pay, Till!decline

(* The row enters CONFIRMING or CONFIRMED only by an execution of a        *)
(* success event.                                                          *)
LEMMA WhoConfirms ==
  ASSUME RowInv, GoalFitsTask, [Next]_vars,
         status \notin {"CONFIRMING", "CONFIRMED"}, status' \in {"CONFIRMING", "CONFIRMED"}
  PROVE \E w \in Workers : pc[w] # "idle" /\ Kind(w) = "PaymentSuccess"
<1> DEFINE Confirmer == \E w \in Workers : pc[w] # "idle" /\ Kind(w) = "PaymentSuccess"
<1>1. ASSUME NEW w \in Workers, transitionWrite(w) PROVE Confirmer
  <2>1. pc[w] = "trWrite" /\ goal[w] \in {"CONFIRMING", "CONFIRMED"}
    BY <1>1 DEF transitionWrite, updateStatus
  <2> QED BY <2>1 DEF GoalFitsTask, TransitionSteps
<1>2. ASSUME NEW w \in Workers, replyWrite(w) PROVE Confirmer
  BY <1>2 DEF replyWrite, updateStatus, ReplyStatus
<1>3. CASE UNCHANGED status
  BY <1>3
<1> QED
  BY <1>1, <1>2, <1>3
  DEF Next, Work, start, step, vars, row, reserveIfNew, cancelBooking, createPaymentOrder,
      replyRead, transitionRead, paymentRead, paymentLock, confirmPayment, confirmSaga,
      paymentCommit, createOrder, orderSaga, markProcessed, release, acknowledge, error,
      crash, send, leaseExpires

(* Under live keys no booking is confirmed without captured money, and no  *)
(* final status of an order is without its event, for any number of        *)
(* executions, events, orders and requests, and any crashes and errors in  *)
(* both services: a success event is behind every confirming execution, a  *)
(* recorded success behind the event, a verified signature behind that,    *)
(* and the capture at Razorpay behind the signature.                       *)
THEOREM ConfirmedBookingsArePaid == PaymentSpec => []PaidBehindStatus
<1>1. PaymentInit => OrderingInv
  <2> SUFFICES ASSUME PaymentInit PROVE OrderingInv
    OBVIOUS
  <2>1. RowInv /\ TillInv
    BY InitRow, InitTill DEF PaymentInit
  <2>2. GoalFitsTask /\ CaptureIsPaid /\ ConfirmedIsPaid
    BY DEF PaymentInit, Init, GoalFitsTask, CaptureIsPaid, ConfirmedIsPaid, PaymentSteps,
       TransitionSteps
  <2> QED BY <2>1, <2>2 DEF OrderingInv
<1>2. OrderingInv /\ [PaymentNext]_paymentVars => OrderingInv'
  <2> SUFFICES ASSUME OrderingInv, [PaymentNext]_paymentVars PROVE OrderingInv'
    OBVIOUS
  <2>0. /\ [Next]_vars /\ [Till!Next]_(Till!vars)
        /\ RowInv /\ TypeInv /\ GoalFitsTask /\ TillInv /\ CaptureIsPaid /\ ConfirmedIsPaid
    BY PaymentStepOfEach DEF OrderingInv, RowInv
  <2>1. RowInv' /\ TillInv'
    BY <2>0, RowInduction, TillInduction
  <2>2. GoalFitsTask'
    BY <2>0, NextGoal, FaultGoal DEF Next
  <2>3. paid # {} => paid' # {}
    BY <2>0, PaidGrows
  <2>4. CaptureIsPaid'
    <3>1. \A w \in Workers : pc'[w] # "idle" => task'[cur'[w]] # "unsent"
      BY <2>0, TasksWereSent DEF CaptureIsPaid
    <3>2. ASSUME ~DummyKeys, NEW t \in Tasks, t.kind = "PaymentSuccess", task'[t] # "unsent"
          PROVE paid' # {}
      <4>1. CASE task[t] # "unsent"
        BY <2>0, <2>3, <3>2, <4>1 DEF CaptureIsPaid
      <4>2. CASE task[t] = "unsent"
        <5>1. OrderingStep
          BY <3>2, <4>2 DEF PaymentNext, paymentVars, TillStep, vars
        <5>2. captureRecorded
          BY <3>2, <4>2, <5>1 DEF OrderingStep
        <5>3. paid # {}
          BY <2>0, <3>2, <5>2 DEF captureRecorded, TillInv, Till!EventBehindStatus
        <5> QED BY <2>3, <5>3
      <4> QED BY <4>1, <4>2
    <3> QED BY <3>1, <3>2 DEF CaptureIsPaid
  <2>5. ConfirmedIsPaid'
    <3>1. CASE status \in {"CONFIRMING", "CONFIRMED"}
      BY <2>0, <2>3, <3>1 DEF ConfirmedIsPaid
    <3>2. ASSUME ~DummyKeys,
                 status \notin {"CONFIRMING", "CONFIRMED"},
                 status' \in {"CONFIRMING", "CONFIRMED"}
          PROVE paid' # {}
      <4>1. PICK w \in Workers : pc[w] # "idle" /\ Kind(w) = "PaymentSuccess"
        BY <2>0, <3>2, WhoConfirms
      <4>2. cur[w] \in Tasks /\ task[cur[w]] # "unsent"
        BY <2>0, <4>1 DEF TypeInv, TaskFitsStep, CaptureIsPaid
      <4> QED BY <2>0, <2>3, <3>2, <4>1, <4>2 DEF CaptureIsPaid, Kind
    <3> QED BY <3>1, <3>2 DEF ConfirmedIsPaid
  <2> QED BY <2>1, <2>2, <2>4, <2>5 DEF OrderingInv
<1>3. OrderingInv => PaidBehindStatus
  BY DEF OrderingInv, TillInv, PaidBehindStatus
<1> QED BY <1>1, <1>2, <1>3, PTL DEF PaymentSpec
=============================================================================
