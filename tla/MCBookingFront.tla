--------------------------- MODULE MCBookingFront ---------------------------
(* Instances of BookingFront for TLC.                                      *)
EXTENDS BookingFront, TLC

CONSTANTS c1, c2, k1, k2, u1, u2, s1, s2, bad, t1

Dto(k, u, seats, legs, from, to) ==
  [idempotencyKey |-> k, userId |-> u, seatIds |-> seats, legIndices |-> legs,
   fromSequence |-> from, toSequence |-> to, passengers |-> Cardinality(seats),
   from |-> "NDLS", to |-> "HWH"]

(* One client posts twice under one key, the second time for other legs,   *)
(* so that the locks do not stop it.                                       *)
TwoPosts == (c1 :> Dto(k1, u1, {s1}, {1}, 0, 0)) @@
            (c2 :> Dto(k1, u1, {s1}, None, 2, 3))

(* Two clients want the same seat on one of the legs of the first; or a    *)
(* whole seat each, one naming no journey and one of no length.            *)
Rivals == (c1 :> Dto(k1, u1, {s1}, None, 1, 3)) @@
          (c2 :> Dto(k2, u2, {s1}, {1}, 0, 0))
WholeSeats == (c1 :> Dto(k1, u1, {s1}, {}, 1, 2)) @@
              (c2 :> Dto(k2, u2, {s1, s2}, None, 2, 2))

(* A seat the inventory does not know, and a passenger too many.           *)
Refused == (c1 :> Dto(k1, u1, {bad}, None, 1, 2)) @@
           (c2 :> [Dto(k2, u2, {s1}, None, 2, 2) EXCEPT !.passengers = 2])

(* A station off the route, and a journey to where it begins.              *)
Nowhere == (c1 :> [Dto(k1, u1, {s1}, None, 1, 2) EXCEPT !.to = "GOA"]) @@
           (c2 :> [Dto(k2, u2, {s1}, None, 2, 3) EXCEPT !.to = "NDLS"])

MCScenarios == {TwoPosts, Rivals, WholeSeats, Refused, Nowhere}
=============================================================================
