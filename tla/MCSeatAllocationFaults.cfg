CONSTANTS
  b1 = b1
  b2 = b2
  w1 = w1
  w2 = w2
  None = None
  Bookings = {b1}
  Workers = {w1, w2}
  Seats <- MCSeats
  SeatRows <- MCSeatRows
  NumStops = 3
  Requests <- MCAllRequests
  StatusKinds = {"CONFIRMED", "CANCELLED"}
  MaxFaults = 1
SPECIFICATION FairSpec
INVARIANTS
  NoHoldSkipped
  StatusApplied
PROPERTIES
  StatusHandled
  HoldAnswered
