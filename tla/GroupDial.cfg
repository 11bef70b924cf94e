SPECIFICATION DialSpec
CONSTANTS
  a = a
  b = b
  d = d
  k = k
  NoThread = NoThread
  fwdrs <- Slice
  Pri <- OneLevel
  MaxFailures = 2
  CountBound = 3
  Threads <- Goroutines
  Dialers = {d}
  Configs <- RetryAndLatency
  Costs = {1, 2}
  IndexMod = 2
  Hashes = {0, 1}
INVARIANTS RotationExact DistinctTargets FitsBudget LimitNoticed
PROPERTIES HealthyAreTried
