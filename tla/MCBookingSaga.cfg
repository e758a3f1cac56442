CONSTANTS
  b1 = b1
  w1 = w1
  w2 = w2
  i1 = i1
  None = None
  booking = b1
  Tasks <- MCTasks
  Workers = {w1, w2}
  MaxFaults = 1
  Seats = {1, 2}
  SeatRows = {1, 2}
  NumStops = 2
  Requests <- MCRequests
  InventoryWorkers = {i1}
  InventoryFaults = 0
SYMMETRY MCSymmetry
SPECIFICATION BoundedSpec
INVARIANTS
  EventsInOrder
  SagaStepsHappened
  SoldSeatsExist
  AgreeAtRest
  ReplyNotLost
  RowOwnerGoesOn
PROPERTIES
  FollowsLifecycle
CHECK_DEADLOCK FALSE
