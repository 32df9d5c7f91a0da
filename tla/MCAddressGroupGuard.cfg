SPECIFICATION Spec
CONSTANTS
  Address = {a1, a2, a3, a4, a5}
  First = {}
  Pushes <- MCPushes
  Counts <- MCCounts
  DefaultWeight = 3
  WeightDegradePercent = 34
  WeightRecoverRate = 2
  DegradeLeastWeight = 1
  LeastErrorMultiple10 = 30
  RecoverErrorMultiple10 = 15
  LeastRtMultiple10 = 100
  RecoverRtMultiple10 = 15
  MaxIsolatedPercent = 40
  EnableThreshold = 4
  MinAddressCount = 4
  MaxAddressCount = 4
  InitConnectionSize = 4
  CapacityPerConnection = 10
  RegulationEffective = TRUE
  DegradeEffective = TRUE
  ElasticControl = TRUE
  WaitConnect = TRUE
  LoadBalancerClass = "roundRobin"
PROPERTIES
  AvalancheGuarded
