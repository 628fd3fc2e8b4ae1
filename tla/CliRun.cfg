SPECIFICATION FairSpec
CONSTANTS
  Budget = 2
  Frame = 2
  PipeCapacity = 1
  MaxWrites = 3
INVARIANT
  OutputGenuine
PROPERTIES
  CliReturns
  GroupDies
