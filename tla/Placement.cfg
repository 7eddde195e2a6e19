\* Sessions that observe nodes and pods; usage comes from placements only.
SPECIFICATION Spec
CONSTANTS
  n1 = n1
  n2 = n2
  p1 = p1
  p2 = p2
  cpu = cpu
  Res = {cpu}
  PEid = {n1, n2}
  LEid = {p1, p2}
  NULL = NULL
  Generations <- MCGenerations
  Capacities <- MCCapacity
  Usages <- MCNoUsage
  Overflows <- MCNoOverflow
  Demands <- MCDemands
SYMMETRY Symmetry
INVARIANTS
  TypeOK
  HostConsistent
  ModelStructure
  ReportExact
  SnapshotApplied
  UsageConserved
  NoTransientOverflow
PROPERTIES
  RemovalsBeforePlacements
