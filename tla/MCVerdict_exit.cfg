SPECIFICATION Spec
CONSTANTS
  Observations <- SomeObservations
  Settings <- SomeSettings
  Prices <- SomePrices
  MaxOutcomes = 3
  Whole = 2
  Bin = 2
  Percentile = 60
INVARIANTS
  VerdictEarned
  MeasuredIsJudged
