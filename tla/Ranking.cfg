\* The three objectives over sequences of three pods; the environment does not
\* ask for A_BINPACK when the file selects another objective.
SPECIFICATION Spec
CONSTANTS
  n1 = n1
  n2 = n2
  n3 = n3
  Node = {n1, n2, n3}
  NULL = NULL
  NaN = NaN
  NumRes = 2
  CountMax = 2
  Unit = 4
  IntBits = 16
  U = 2
  PolicyIndex = 1
  MaxRequests = 3
  Capacities <- SomeCapacities
  Usages <- SomeUsages
  Demands <- SomeDemands
  FileObjectives <- Files
  EnvObjectives <- Envs
INVARIANTS
  AveragesExact
  OnlyUnfitRankedZero
  ConsolidatePacks
  PodsSpread
  VariabilityLearned
CHECK_DEADLOCK FALSE
