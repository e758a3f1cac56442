CONSTANTS
  r1 = r1
  r2 = r2
  f1 = f1
  f2 = f2
  None = None
  Requests = {r1, r2}
  Refreshes = {f1, f2}
  UsedRoutes = {"users", "login", "logout"}
  FailureThreshold = 2
  SuccessThreshold = 2
  HalfOpenMaxTrials = 1
  DefaultCapacity = 1
  AuthCapacity = 1
SPECIFICATION FairSpec
INVARIANTS
  RefreshIsShared
  TrialsBounded
PROPERTIES
  RequestsEnd
  CircuitCloses
