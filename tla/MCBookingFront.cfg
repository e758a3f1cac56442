CONSTANTS
  c1 = c1
  c2 = c2
  k1 = k1
  k2 = k2
  u1 = u1
  u2 = u2
  s1 = s1
  s2 = s2
  bad = bad
  None = None
  Callers = {c1, c2}
  Scenarios <- MCScenarios
  RouteStops = {"NDLS", "HWH"}
  SeatInventory = {s1, s2}
  Ids = {1, 2, 3}
  Streams = {t1}
  t1 = t1
  Users = {u1, u2}
  MaxSeats = 2
  MaxVersion = 2
  MaxFaults = 1
SPECIFICATION FairSpec
INVARIANTS
  OneBookingPerKey
  LocksKeptForOwner
PROPERTIES
  RetryIsAnswered
  NewsReachesListener
CHECK_DEADLOCK FALSE
