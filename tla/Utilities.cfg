\* The maps, vectors, queues, texts, configuration files, matrices and statistics
\* of libpigeon.  Computations end, and a maparray does not change.
SPECIFICATION MCSpec
CONSTANTS
  k1 = k1
  k2 = k2
  k3 = k3
  k4 = k4
  d1 = d1
  d2 = d2
  Key = {k1, k2, k3, k4}
  Data = {d1}
  Values = {d1, d2}
  NULL = NULL
  Garbage = Garbage
  StartSizes = {3, 15}
  Hashes = {0, 4, 9}
SYMMETRY Symmetry
INVARIANTS
  EntriesExact
  InsertFindsPlace
  EncodingReadsBack
  PolicyFromFile
  InverseExact
  VariationsAgree
  OrderedAveragesExact
  VectorIsSequence
  QueueIsFIFO
PROPERTIES
  ImplementsMap
CHECK_DEADLOCK FALSE
