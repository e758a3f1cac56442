------------------------- MODULE MCSeatAllocation -------------------------
(* Instances of SeatAllocation for TLC: a route of three stops, two seats  *)
(* with an inventory row and one without.                                  *)
EXTENDS SeatAllocation, TLC

CONSTANTS b1, b2, w1, w2

MCSeats == 1..3
MCSeatRows == {1, 2}

MaxInt == 2147483647
Leg(seats, f, t) ==
  [seats |-> seats, fromSequence |-> f, toSequence |-> t,
   fromStation |-> 0, toStation |-> 0]

(* The whole journey, given by stations only, as a booking without         *)
(* sequence numbers sends it.                                              *)
Journey(seats) ==
  [seats |-> seats, fromSequence |-> 0, toSequence |-> MaxInt,
   fromStation |-> 1, toStation |-> 3]

(* Requests that overlap on a leg under different Redis keys, that share   *)
(* one of two seats, that touch without overlapping, and that fail.        *)
MCRequests ==
  {Leg({1}, 1, 2), Leg({1, 2}, 2, 3), Journey({1, 2})}

MCBadRequests ==
  {Leg({1}, 2, 1), Leg({1, 3}, 1, 2), Journey({1})}

MCAllRequests == MCRequests \cup MCBadRequests

MCSymmetry == Permutations({w1, w2}) \cup Permutations({b1, b2})

=============================================================================
