\* A set whose elements are added again after a deletion.
SPECIFICATION SetSpec
CONSTANTS
  self = SET
  Key = {k1, k2, k3}
  Data = {SET}
  Values = {SET}
  NULL = NULL
  StartSizes = {3}
  Hashes = {0, 1, 2, 3}
INVARIANTS
  CountsElements
