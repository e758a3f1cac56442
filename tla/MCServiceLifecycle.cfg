CONSTANTS
  Deployed <- MCDeployed
  MaxFaults = 2
SPECIFICATION FairProcess
INVARIANTS
  ClosedWhenUnused
  ExitIsClean
PROPERTIES
  ShutdownEnds
  ReadinessRecovers
CHECK_DEADLOCK FALSE
