\* Up to three requests, by two handlers, that may overlap; annotations may
\* give a negative usage.
SPECIFICATION FairAgentSpec
CONSTANTS
  n1 = n1
  n2 = n2
  h1 = h1
  h2 = h2
  cpu = cpu
  Res = {cpu}
  PEid = {n1, n2}
  LEid = {}
  NULL = NULL
  Generations <- MCGenerations
  Capacities <- MCVectors
  Usages <- MCUsages
  Overflows <- MCOverflows
  Demands <- MCVectors
  Handler = {h1, h2}
  MaxRequests = 3
  MaxGen = 3
  NoName = NoName
  Garbage = Garbage
INVARIANTS
  ResponseExact
  SelfHealing
PROPERTIES
  EvalKeepsModel
  Answered
CHECK_DEADLOCK FALSE
