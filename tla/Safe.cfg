\* A scheduling cycle over two nodes, with percentiles above zero.
SPECIFICATION Spec
CONSTANTS
  n1 = n1
  n2 = n2
  Node = {n1, n2}
  NULL = NULL
  NaN = NaN
  Capacity = 10
  NodeStats <- SomeStats
  Pods <- OnePod
  Probabilities <- SomeProbabilities
  SafeUtilization = 90
  SafePercentiles = {30, 100}
  ForecastWeight = 20
SYMMETRY NodeSymmetry
CHECK_DEADLOCK FALSE
INVARIANTS
  FilterAgreesWithScore
  OverloadOrdersByRisk
  BalanceRespectsDominance
