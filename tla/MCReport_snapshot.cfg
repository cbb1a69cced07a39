SPECIFICATION Spec
CONSTANTS
  Micros = {1, 2}
  MaxRecords = 6
  Cap = 2
INVARIANTS
  SnapshotShown
  SpoolRemoved
  StripEven
