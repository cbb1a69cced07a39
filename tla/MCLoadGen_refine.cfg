SPECIFICATION Spec
CONSTANTS
  N = 4
  Offset <- BurstOffset
  ScheduleFails = FALSE
  MaxInFlight = 2
  MaxRequests = 3
  MaxDuration = 1
  MaxCostUSD = 7
  Reserve = 2
  MaxScheduleLag = 1
  Costs <- BreachCosts
  MaxTime = 2
INVARIANTS
  SendNeverBlocks
PROPERTIES
  ImplementsAdmission
  Termination
