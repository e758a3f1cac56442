------------------------------ MODULE Payment ------------------------------
(***************************************************************************)
(* The payment orders of one booking in the payment service                *)
(* (apps/payment-service/src/services/payment.service.ts).  Workers are    *)
(* the requests it serves at once: CreateOrder calls of the booking        *)
(* service, /verify calls of the client, webhooks of Razorpay.  Each reads *)
(* the payment row outside the transaction that writes it.                 *)
(***************************************************************************)
EXTENDS Naturals, FiniteSets

CONSTANTS
  NumOrders,   \* bound, in Nat: orders are 1..NumOrders, by created_at
  Workers,     \* concurrent requests
  DummyKeys,   \* BOOLEAN: the keys of the environment are dummies: orders are mocks that
               \* Razorpay never saw, and every signature passes
  MaxFaults    \* bound, in Nat: crashes and database errors in a behaviour

Orders == 1..NumOrders

VARIABLES
  payment,     \* payments.status of each order, NONE before the insert
  successes,   \* PaymentSuccess rows of each order: none, one, or more
  failures,    \* PaymentFailed rows of each order: none, one, or more
  paid,        \* orders whose amount Razorpay has captured
  attempted,   \* orders with an attempt that Razorpay declined
  rejected,    \* the requests <<order, source>> answered 400 for their signature
  pc,          \* pc[w]: where request w stands
  cur,         \* cur[w]: the order w works on, 0 for none
  faults       \* faults so far

vars == <<payment, successes, failures, paid, attempted, rejected, pc, cur, faults>>

PaymentStatus == {"NONE", "PENDING", "CAPTURED", "FAILED"}

TypeOK ==
  /\ payment \in [Orders -> PaymentStatus]
  /\ successes \in [Orders -> 0..2]
  /\ failures \in [Orders -> 0..2]
  /\ paid \subseteq Orders
  /\ attempted \subseteq Orders
  /\ rejected \subseteq Orders \X {"CLIENT", "WEBHOOK"}
  /\ pc \in [Workers -> {"idle", "razorpay", "create", "capture", "markFailed"}]
  /\ cur \in [Workers -> Orders \cup {0}]
  /\ faults \in 0..MaxFaults

Init ==
  /\ payment = [o \in Orders |-> "NONE"]
  /\ successes = [o \in Orders |-> 0]
  /\ failures = [o \in Orders |-> 0]
  /\ paid = {}
  /\ attempted = {}
  /\ rejected = {}
  /\ pc = [w \in Workers |-> "idle"]
  /\ cur = [w \in Workers |-> 0]
  /\ faults = 0

Goto(w, step) == pc' = [pc EXCEPT ![w] = step]
Answer(w) == Goto(w, "idle") /\ cur' = [cur EXCEPT ![w] = 0]

(* Another row: the properties tell none, one and several apart. *)
AddRow(rows, o) == [rows EXCEPT ![o] = IF @ < 2 THEN @ + 1 ELSE @]

-----------------------------------------------------------------------------
(* createOrder.                                                            *)

Created == {o \in Orders : payment[o] # "NONE"}

(* findByBookingId: the booking's newest payment. *)
Newest(o) == o \in Created /\ \A p \in Created : p <= o

(* The newest payment is PENDING, and is returned once more. *)
hasPending == \E o \in Orders : Newest(o) /\ payment[o] = "PENDING"

(* Bound: requests that will make an order find one left. *)
Creating == {w \in Workers : pc[w] \in {"razorpay", "create"}}
OrdersLeft == Cardinality(Created) + Cardinality(Creating) < NumOrders

createOrder(w) ==
  /\ pc[w] = "idle"
  /\ OrdersLeft
  /\ ~hasPending
  /\ Goto(w, "razorpay")
  /\ UNCHANGED <<payment, successes, failures, paid, attempted, rejected, cur, faults>>

(* Razorpay makes an order, or the call fails and the request with it.     *)
createRazorpayOrder(w) ==
  /\ pc[w] = "razorpay"
  /\ Goto(w, "create") \/ Goto(w, "idle")
  /\ UNCHANGED <<payment, successes, failures, paid, attempted, rejected, cur, faults>>

(* The status of a new row; CREATED and REFUNDED are never written. *)
initialStatus == "PENDING"

(* The row and its PaymentOrderCreated event are committed. *)
create(w) ==
  /\ pc[w] = "create"
  /\ \E o \in Orders :
       /\ \A p \in Orders : payment[p] = "NONE" <=> p >= o
       /\ payment' = [payment EXCEPT ![o] = initialStatus]
  /\ Answer(w)
  /\ UNCHANGED <<successes, failures, paid, attempted, rejected, faults>>

-----------------------------------------------------------------------------
(* verifyAndCapture.                                                       *)

(* Mutant: the signature is not looked at. *)
signatureIgnored(o, source) == TRUE

(* HMAC(order|payment) under the key, which Razorpay gives to the client   *)
(* that paid; dummy keys let everything pass.  A webhook hands over the    *)
(* signature of its own body under the webhook secret, which is never that *)
(* value.                                                                  *)
verifyPaymentSignature(o, source) == DummyKeys \/ (source = "CLIENT" /\ o \in paid)

(* A captured payment is returned without a change. *)
verifyAndCapture(w, o, source) ==
  /\ pc[w] = "idle"
  /\ o \in Created
  /\ \/ /\ ~verifyPaymentSignature(o, source)
        /\ rejected' = rejected \cup {<<o, source>>}
        /\ UNCHANGED <<pc, cur>>
     \/ /\ verifyPaymentSignature(o, source)
        /\ payment[o] # "CAPTURED"
        /\ cur' = [cur EXCEPT ![w] = o]
        /\ Goto(w, "capture")
        /\ UNCHANGED rejected
  /\ UNCHANGED <<payment, successes, failures, paid, attempted, faults>>

(* Mutants: a failed payment is captured after all; no event is inserted. *)
capturableFailed(o) == payment[o] \in {"PENDING", "FAILED"}
reportsCaptureNever(o) == FALSE

(* WHERE status IN (CREATED, PENDING). *)
capturable(o) == payment[o] = "PENDING"

(* A count of 0 is not told apart: the row is returned and the event goes  *)
(* out all the same.                                                       *)
reportsCapture(o) == TRUE

updateStatusToCaptured(w) ==
  LET o == cur[w]
  IN /\ pc[w] = "capture"
     /\ payment' = IF capturable(o) THEN [payment EXCEPT ![o] = "CAPTURED"] ELSE payment
     /\ successes' = IF reportsCapture(o) THEN AddRow(successes, o) ELSE successes
     /\ Answer(w)
     /\ UNCHANGED <<failures, paid, attempted, rejected, faults>>

-----------------------------------------------------------------------------
(* markAsFailed.                                                           *)

markAsFailed(w, o) ==
  /\ pc[w] = "idle"
  /\ o \in Created
  /\ payment[o] \notin {"FAILED", "CAPTURED"}
  /\ cur' = [cur EXCEPT ![w] = o]
  /\ Goto(w, "markFailed")
  /\ UNCHANGED <<payment, successes, failures, paid, attempted, rejected, faults>>

(* The update names the row by its id alone. *)
writeFailed(w) ==
  /\ pc[w] = "markFailed"
  /\ payment' = [payment EXCEPT ![cur[w]] = "FAILED"]
  /\ failures' = AddRow(failures, cur[w])
  /\ Answer(w)
  /\ UNCHANGED <<successes, paid, attempted, rejected, faults>>

-----------------------------------------------------------------------------
(* handleWebhook.                                                          *)

(* HMAC(body) under the webhook secret: Razorpay's own report of a capture *)
(* or of a declined attempt, or anything under a dummy secret.             *)
verifyWebhookSignature(o, reported) == DummyKeys \/ o \in reported

handleWebhook(w, o) ==
  \/ verifyWebhookSignature(o, paid) /\ verifyAndCapture(w, o, "WEBHOOK")
  \/ verifyWebhookSignature(o, attempted) /\ markAsFailed(w, o)

(* The gateway: an order whose row is committed is known to the client,    *)
(* who may fail to pay any number of times, and pays once.  Razorpay has   *)
(* no order of that name if the keys are dummies.                          *)
pay(o) ==
  /\ ~DummyKeys
  /\ o \in Created \ paid
  /\ paid' = paid \cup {o}
  /\ UNCHANGED <<payment, successes, failures, attempted, rejected, pc, cur, faults>>

decline(o) ==
  /\ ~DummyKeys
  /\ o \in Created \ (paid \cup attempted)
  /\ attempted' = attempted \cup {o}
  /\ UNCHANGED <<payment, successes, failures, paid, rejected, pc, cur, faults>>

(* A crash or a database error: the open transaction is rolled back. *)
crash(w) ==
  /\ pc[w] # "idle"
  /\ faults < MaxFaults
  /\ faults' = faults + 1
  /\ Answer(w)
  /\ UNCHANGED <<payment, successes, failures, paid, attempted, rejected>>

step(w) ==
  createRazorpayOrder(w) \/ create(w) \/ updateStatusToCaptured(w) \/ writeFailed(w)

Next ==
  \/ \E w \in Workers : createOrder(w) \/ step(w) \/ crash(w)
  \/ \E w \in Workers, o \in Orders :
       verifyAndCapture(w, o, "CLIENT") \/ handleWebhook(w, o)
  \/ \E o \in Orders : pay(o) \/ decline(o)

Spec == Init /\ [][Next]_vars

(* A request that was accepted is served to its end, and Razorpay repeats  *)
(* the webhook of a captured payment until it is answered with success.    *)
Fairness ==
  /\ \A w \in Workers : WF_vars(step(w))
  /\ \A o \in Orders :
       SF_vars(o \in paid /\ \E w \in Workers : verifyAndCapture(w, o, "WEBHOOK"))

FairSpec == Spec /\ Fairness

-----------------------------------------------------------------------------
(* What the row says was announced in the same transaction, and under live *)
(* keys nothing is announced as paid that Razorpay did not capture,        *)
(* whichever requests overlap (verifyAndCapture, markAsFailed).            *)
EventBehindStatus ==
  \A o \in Orders :
    /\ payment[o] = "CAPTURED" => successes[o] > 0
    /\ payment[o] = "FAILED" => failures[o] > 0
    /\ ~DummyKeys /\ successes[o] > 0 => o \in paid

(* A payment that is marked FAILED stays so: a capture that was already    *)
(* under way, or is verified later, does not overwrite it                  *)
(* (updateStatusToCaptured).                                               *)
FailedIsFinal ==
  [][\A o \in Orders : payment[o] = "FAILED" => payment'[o] = "FAILED"]_vars

(* The README's payment sequence: the webhook of a captured payment leads  *)
(* to its success event, whether or not the client comes back from its     *)
(* checkout.  The code hands the signature of the webhook's body to        *)
(* verifyAndCapture, which refuses it under live keys.                     *)
PaidIsReported == \A o \in Orders : o \in paid ~> successes[o] > 0

=============================================================================
