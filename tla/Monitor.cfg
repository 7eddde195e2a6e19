\* A node may join, the monitor may crash, and any request may fail.
SPECIFICATION Spec
CONSTANTS
  n1 = n1
  n2 = n2
  t1 = t1
  All = All
  NULL = NULL
  Node = {n1, n2}
  PodType = {t1}
  InitialClusters <- Clusters
  MaxFailures = 2
  Times <- TwoTimes
  MaxContainers = 2
  MaxEvents = 3
  MaxCrashes = 1
INVARIANTS
  CacheWrittenThrough
  ListedNodesPrioritized
PROPERTIES
  LearnedRewardsKept
CHECK_DEADLOCK FALSE
