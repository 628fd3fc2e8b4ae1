SPECIFICATION FairSpec
CONSTANTS
  OutputBytes = 1
  PipeCapacity = 1
  MaxOutput = 2
INVARIANTS
  SuitePassIsComplete
  ZeroIsEarned
  OrderlyExit
PROPERTIES
  LauncherEnds
  NamespaceDies
