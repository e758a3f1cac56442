---------------------------- MODULE BookingPayment ----------------------------
(***************************************************************************)
(* One booking across the booking service (BookingLifecycle) and the       *)
(* payment service (Payment).  The booking service asks for an order by    *)
(* gRPC (payment.adapter.ts) and learns of a capture from the other's      *)
(* outbox; what either component left to its environment is here what the  *)
(* other one does.                                                         *)
(***************************************************************************)
EXTENDS BookingLifecycle

CONSTANTS
  NumOrders, DummyKeys,   \* see Payment
  TillWorkers,            \* concurrent requests in the payment service
  TillFaults              \* bound: its crashes and errors in a behaviour

ASSUME TillAssumption ==
  NumOrders \in Nat /\ DummyKeys \in BOOLEAN /\ TillFaults \in Nat

VARIABLES
  payment, successes, failures, paid, attempted, rejected, tillPc, tillCur, tillFaults
                          \* see Payment

tillVars ==
  <<payment, successes, failures, paid, attempted, rejected, tillPc, tillCur, tillFaults>>
paymentVars == <<vars, tillVars>>

Till ==
  INSTANCE Payment
    WITH Workers <- TillWorkers, MaxFaults <- TillFaults, pc <- tillPc, cur <- tillCur,
         faults <- tillFaults

PaymentInit == Init /\ Till!Init

-----------------------------------------------------------------------------
(* The booking service is told of an order that the payment service has    *)
(* committed, and of a success that is in its outbox.                      *)
answered == paymentOrder' => paymentOrder \/ Till!Created # {}

(* Mutant: the success is recorded together with the order. *)
captureRecordedWithOrder == Till!Created # {}

captureRecorded == \E o \in Till!Orders : successes[o] > 0

OrderingStep ==
  /\ Next
  /\ answered
  /\ \A t \in Tasks :
       t.kind = "PaymentSuccess" /\ task[t] = "unsent" /\ task'[t] # "unsent" => captureRecorded
  /\ UNCHANGED tillVars

(* An order is asked for by a call of the booking service, which may give  *)
(* up before it is made; the client pays one it was told of.               *)
asksForOrder == \E w \in Workers : pc[w] = "order"

TillStep ==
  /\ Till!Next
  /\ (\E v \in TillWorkers : tillPc[v] = "idle" /\ tillPc'[v] = "razorpay") => asksForOrder
  /\ paid' # paid \/ attempted' # attempted => paymentOrder
  /\ UNCHANGED vars

PaymentNext == OrderingStep \/ TillStep

PaymentSpec == PaymentInit /\ [][PaymentNext]_paymentVars

-----------------------------------------------------------------------------
(* Under live keys no booking is confirmed, or on its way there, unless    *)
(* Razorpay captured the money of one of its orders: although payment      *)
(* requests and captures of several orders overlap in both services, an    *)
(* order may be made after the call for it has failed, and a transition is *)
(* decided on a status that was read before (confirmPayment,               *)
(* verifyAndCapture).                                                      *)
ConfirmedIsPaid == ~DummyKeys /\ status \in {"CONFIRMING", "CONFIRMED"} => paid # {}

(* What either service calls paid was paid, and every final status of an   *)
(* order was announced with it: the chain from a capture at Razorpay over  *)
(* the payment row and its event to the booking (verifyAndCapture,         *)
(* markAsFailed, confirmPayment).                                          *)
PaidBehindStatus == ConfirmedIsPaid /\ Till!EventBehindStatus

(* A payment that Razorpay declined and the service marked FAILED is not   *)
(* turned into a captured one by a verification of the client that read it *)
(* before, or comes later (markAsFailed, updateStatusToCaptured).          *)
FailedIsFinal == Till!FailedIsFinal

=============================================================================
