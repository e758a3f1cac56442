--------------------------- MODULE MCBookingSaga ---------------------------
(* An instance of BookingSaga for TLC: a booking of two seats, both hold   *)
(* replies, a payment request, a capture and a cancellation.               *)
EXTENDS BookingSaga, TLC

CONSTANTS b1, w1, w2, i1

Task(k) == [kind |-> k, id |-> 1]

MCTasks == {Task(k) : k \in {"SeatsHeld", "SeatsHoldFailed", "PaymentSuccess", "Pay", "Cancel"}}

MCRequests ==
  {[seats |-> {1, 2}, fromSequence |-> 1, toSequence |-> 2, fromStation |-> 0, toStation |-> 0]}

MCSymmetry == Permutations({w1, w2})
=============================================================================
