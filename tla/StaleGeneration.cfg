\* start() returns false only for a model that is up to date: violated when requests overlap.
SPECIFICATION AgentSpec
CONSTANTS
  n1 = n1
  n2 = n2
  h1 = h1
  h2 = h2
  cpu = cpu
  Res = {cpu}
  PEid = {n1, n2}
  LEid = {}
  NULL = NULL
  Generations <- MCGenerations
  Capacities <- MCVectors
  Usages <- MCVectors
  Overflows <- MCOverflows
  Demands <- MCVectors
  Handler = {h1, h2}
  MaxRequests = 2
  MaxGen = 2
  NoName = NoName
  Garbage = Garbage
INVARIANTS
  FalseMeansUpToDate
CHECK_DEADLOCK FALSE
