CONSTANTS
  none = none
  Requests <- MCRequests
  Scenarios <- MCScenarios
  RateMax = 1
  AttemptLimit = 1
  MaxFaults = 1
SPECIFICATION FairSpec
INVARIANTS
  RegisteredKeepsAccount
  RevocationHolds
PROPERTIES
  OtpServedInTheEnd
CHECK_DEADLOCK FALSE
