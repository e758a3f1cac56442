-------------------------- MODULE MCBookingPayment --------------------------
(* An instance of BookingPayment for TLC: the hold reply, a payment        *)
(* request and the success event in the booking service; two orders and    *)
(* two requests at once in the payment service.                            *)
EXTENDS BookingPayment, TLC

CONSTANTS w1, v1, v2

MCTasks == {[kind |-> k, id |-> 1] : k \in {"SeatsHeld", "Pay", "PaymentSuccess"}}

(* Bound: Razorpay declines an attempt on the first order only, so that    *)
(* the second may be made beside it and paid.                              *)
FirstDeclined == attempted' \subseteq {1}

(* The requests of the payment service are alike. *)
MCSymmetry == Permutations({v1, v2})

MCSpec == PaymentInit /\ [][PaymentNext /\ FirstDeclined]_paymentVars
=============================================================================
