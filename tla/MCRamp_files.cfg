SPECIFICATION Spec
CONSTANTS
  MaxRuns = 2
  MaxOutcomes = 2
INVARIANTS
  TypeOK
  FilesIntact
  PartialOnlyLast
  OwnRecordsOnly
  ExitCodeMeans
