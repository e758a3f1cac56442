CONSTANTS
  none = none
  Scenarios <- MCScenarios
  Ids <- MCIds
  MaxTotal = 2
  Capacity = {1, 2}
  MaxFaults = 2
SPECIFICATION FairSpec
INVARIANTS
  SeatsOneGeneration
  ActiveScheduleIsServed
PROPERTIES
  StationIsShown
CHECK_DEADLOCK FALSE
