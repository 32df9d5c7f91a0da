SPECIFICATION Spec
CONSTANTS
  Address = {a1, a2}
  First = {a1}
  Pushes <- MCPushes
  Counts <- MCCounts
  DefaultWeight = 3
  WeightDegradePercent = 34
  WeightRecoverRate = 2
  DegradeLeastWeight = 1
  LeastErrorMultiple10 = 30
  RecoverErrorMultiple10 = 15
  LeastRtMultiple10 = 100
  RecoverRtMultiple10 = 15
  MaxIsolatedPercent = 40
  EnableThreshold = 2
  MinAddressCount = 1
  MaxAddressCount = 2
  InitConnectionSize = 2
  CapacityPerConnection = 10
  RegulationEffective = TRUE
  DegradeEffective = TRUE
  ElasticControl = TRUE
  WaitConnect = TRUE
  LoadBalancerClass = "roundRobin"
INVARIANTS
  GoodWindowRestoresWeight
