SPECIFICATION Spec
CONSTANTS
  N = 4
  Offset <- BurstOffset
  ScheduleFails = TRUE
  MaxInFlight = 2
  MaxRequests = 3
  MaxDuration = 2
  MaxCostUSD = 5
  Reserve = 2
  MaxScheduleLag = 1
  Costs <- MixedCosts
  MaxTime = 3
INVARIANTS
  TypeOK
  SlotsAccounted
  CountsAgree
  DroppedNeverSent
  ReturnReconciled
  RequestCap
  ReservationsAccounted
  BudgetHeld
PROPERTIES
  BreachStops
