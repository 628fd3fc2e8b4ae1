SPECIFICATION FairSpec
CONSTANTS
  Payloads = {p1, p2}
  MaxOperations = 3
  MaxSeq = 4
  Ready = Ready
  Blank = Blank
INVARIANTS
  SlotExclusion
  QuietWhileProposed
  AnswerIntegrity
  InStep
  DestroyAfterChild
PROPERTIES
  OnDemand
  ImplementsObservation
  EveryRequestSettled
  NoOrphan
