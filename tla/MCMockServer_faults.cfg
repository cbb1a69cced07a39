SPECIFICATION MockSpec
CONSTANTS
  Timeout = 2
  IdleTimeout = 1
  Kinds <- ScriptKinds
  MaxEvents = 5
  MaxTime = 2
  FirstTokenDelay = 0
  ChunkDelay = 1
  ChunkCount = 2
  FaultEvery = 2
  StallDurations = {1}
  Grace = 1
INVARIANTS
  FaultsArrive
PROPERTIES
  ServeReturns
