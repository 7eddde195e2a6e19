SPECIFICATION Spec
CONSTANTS
  NULL = NULL
  Kilo = 2
  IntBits = 6
  MinCPU = 1
  MinMemory = 1
  NumResources = 3
  Allocatables <- SomeAllocatables
  Allocations <- SomeAllocations
  Requests <- SomeRequests
INVARIANTS
  FittingPodAccepted
  AcceptedPodFits
