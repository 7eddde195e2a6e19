\* Two concurrent calls; every call is handled in the end.
SPECIFICATION FairSpec
CONSTANTS
  Node = {n1, n2}
  NULL = NULL
  Call = {c1, c2}
  MaxCongestion = 7
  Congestions <- SomeCongestions
  AgentScores <- LowestAndHighest
  Paths <- AllPaths
INVARIANTS
  LowCongestionPreferred
PROPERTIES
  CallsEnd
CHECK_DEADLOCK FALSE
