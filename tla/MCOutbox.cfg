CONSTANTS
  w1 = w1
  w2 = w2
  Workers = {w1, w2}
  NumEvents = 2
  BatchSize = 1
  MaxRetry = 2
  MaxFaults = 1
SPECIFICATION FairSpec
PROPERTIES
  AtLeastOnce
  EventuallyClosed
CHECK_DEADLOCK FALSE
