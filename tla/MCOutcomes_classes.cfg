SPECIFICATION OutcomesSpec
CONSTANTS
  Timeout = 2
  IdleTimeout = 1
  Kinds <- AnyKind
  MaxEvents = 3
  MaxTime = 2
  HistogramMax = 1
INVARIANTS
  TypeOK
  IdleIsNotCancellation
  SuccessIsComplete
  MeasurementsAddUp
  ClassesAgree
  FaultsAttributed
  RecordsReadable
PROPERTIES
  Termination
