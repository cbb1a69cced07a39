SPECIFICATION Spec
CONSTANTS
  Timeout = 2
  IdleTimeout = 1
  Kinds <- AnyKind
  MaxEvents = 2
  MaxTime = 2
INVARIANT
  IntervalPerEvent
