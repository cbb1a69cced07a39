SPECIFICATION Spec
CONSTANTS
  N = 3
  Offset <- BurstOffset
  ScheduleFails = TRUE
  MaxInFlight = 1
  MaxRequests = 2
  MaxDuration = 2
  MaxCostUSD = 5
  Reserve = 2
  MaxScheduleLag = 1
  Costs <- MixedCosts
  MaxTime = 3
INVARIANTS
  StartedRecorded
