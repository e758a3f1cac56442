CONSTANTS
  b1 = b1
  b2 = b2
  w1 = w1
  w2 = w2
  None = None
  Bookings = {b1, b2}
  Workers = {w1, w2}
  Seats <- MCSeats
  SeatRows <- MCSeatRows
  NumStops = 3
  Requests <- MCRequests
  StatusKinds = {"CONFIRMED", "CANCELLED"}
  MaxFaults = 0
SYMMETRY MCSymmetry
SPECIFICATION Spec
INVARIANTS
  NoDoubleBooking
  HeldSeatsNotOffered
PROPERTIES
  StatusOnlyAdvances
