\* Allocation: two nodes, two pods, two failed requests, two changes of nodes.
\* Usage: three nodes, any of them without data; three requests fail.  The loops
\* of both annotators are weakly fair.
SPECIFICATION MCSpec
CONSTANTS
  n1 = n1
  n2 = n2
  n3 = n3
  p1 = p1
  p2 = p2
  Node = {n1, n2}
  Pod = {p1, p2}
  NULL = NULL
  Capacity = 5
  Request <- Requests
  MaxFaults = 2
  MaxNodeChanges = 2
INVARIANTS
  AnnotationOnceTrue
PROPERTIES
  AnnotationsCatchUp
  NodesAnnotated
