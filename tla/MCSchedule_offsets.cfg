SPECIFICATION ScheduleSpec
CONSTANTS
  Stages <- SomeStages
  MaxStages = 3
  RateUnit = 2
  Second = 5
  Slopes = 4
  LeastDuration <- Least
INVARIANTS
  OffsetsFollowRate
  FailsOnlyAtTolerance
