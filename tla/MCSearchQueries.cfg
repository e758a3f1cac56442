CONSTANTS
  w1 = w1
  w2 = w2
  r1 = r1
  None = None
  NoTime = NoTime
  Workers = {w1, w2}
  Readers = {r1}
  Targets = {"ACTIVE", "CANCELLED", "COMPLETED"}
  MaxVersion = 2
  MaxFaults = 1
SPECIFICATION FairQuerySpec
PROPERTIES
  SearchIsACopy
  InventoryIsACopy
  InventoryCatchesUp
  ShownCatchesUp
CHECK_DEADLOCK FALSE
