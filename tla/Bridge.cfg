SPECIFICATION FairSpec
CONSTANTS
  MaxOperations = 2
  Budget = 1
  PipeCapacity = 1
  MaxNoise = 2
  MaxRequests = 3
INVARIANTS
  PassedMeansAnswered
  CleanChannel
  FrozenMeansSilent
  LifelineLast
PROPERTIES
  CallsReturn
  NamespaceTornDown
