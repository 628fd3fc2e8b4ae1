SPECIFICATION Spec
CONSTANTS
  MaxOperations = 2
  Budget = 1
  PipeCapacity = 1
  MaxNoise = 2
  MaxRequests = 3
INVARIANT
  OverflowRejected
