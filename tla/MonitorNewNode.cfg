\* A node joins a cluster in which the pod type is known.
SPECIFICATION Spec
CONSTANTS
  n1 = n1
  n2 = n2
  t1 = t1
  All = All
  NULL = NULL
  Node = {n1, n2}
  PodType = {t1}
  InitialClusters <- OneNode
  MaxFailures = 0
  Times <- TwoTimes
  MaxContainers = 2
  MaxEvents = 3
  MaxCrashes = 0
INVARIANTS
  PrioritizesHigherRewards
CHECK_DEADLOCK FALSE
