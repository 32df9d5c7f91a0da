CONSTANTS
  NumBuckets = 1
  RTs = {0}
  RequestVolumeThreshold = 1
  ErrorThresholdPercentage = 50
  SleepWindow = 0
  ForceModes = {{}, {"open"}}
  Req = {r1, r2}
  UserClosers = {"user"}
  MaxWindow = 2
SPECIFICATION FairSpec
INVARIANTS
  PendingIsTimed
  CloseKeepsItsPromise
PROPERTIES
  ImplementsCalls
  EveryCallIsAnswered
  CloseEnds
  HalfOpenEnds
