CONSTANTS
  w1 = w1
  v1 = v1
  v2 = v2
  None = None
  Tasks <- MCTasks
  Workers = {w1}
  MaxFaults = 0
  NumOrders = 2
  DummyKeys = FALSE
  TillWorkers = {v1, v2}
  TillFaults = 1
SYMMETRY MCSymmetry
SPECIFICATION MCSpec
INVARIANTS
  PaidBehindStatus
PROPERTIES
  FailedIsFinal
CHECK_DEADLOCK FALSE
