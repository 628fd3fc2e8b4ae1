SPECIFICATION FairSpec
CONSTANTS
  NModules = 2
  NTests = 2
  MaxSuite = 2
  MaxRecord = 3
INVARIANTS
  PassMeansExecuted
  ReplayExact
  OutputFinal
PROPERTY SupervisorEnds
