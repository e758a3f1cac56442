CONSTANTS
  v1 = v1
  v2 = v2
  NumOrders = 1
  DummyKeys = FALSE
  Workers = {v1, v2}
  MaxFaults = 0
SPECIFICATION FairSpec
PROPERTIES
  PaidIsReported
CHECK_DEADLOCK FALSE
