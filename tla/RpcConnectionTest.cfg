CONSTANTS
  NumBuckets = 1
  RTs = {0}
  RequestVolumeThreshold = 1
  ErrorThresholdPercentage = 50
  SleepWindow = 0
  ForceModes = {{}}
  Req = {r1, r2}
  UserClosers = {"user"}
  MaxWindow = 3
SPECIFICATION MCSpec
PROPERTIES
  HalfOpenWaitsForItsTest
