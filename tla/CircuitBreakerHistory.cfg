CONSTANTS
  NumBuckets = 2
  RTs = {0, 3}
  RequestVolumeThreshold = 2
  ErrorThresholdPercentage = 50
  SleepWindow = 2
  ForceModes = {{}, {"open"}, {"closed"}}
  MaxCalls = 3
  MaxPeriod = 4
SPECIFICATION MCSpec
INVARIANTS
  WindowHoldsLastPeriods
PROPERTIES
  ImplementsBreaker
  TestsSpaced
  FreshEvidenceTrips
