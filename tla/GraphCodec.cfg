SPECIFICATION Spec
CONSTANTS
  Graphs <- SmallGraphs
  Memo <- Numbering
  Encode <- EncodeGraph
  Decode <- DecodeGraph
  DataIndices <- ArgumentDataIndices
  ExportState <- EncodeState
  ApplyStates <- UpdateStates
  MaxNodes = 3
  MaxLinks = 3
  MaxRequests = 3
  MaxEdits = 1
  Addresses = {a1, a2, a3}
  MaxHandles = 2
  MaxDepth = 5
INVARIANTS
  AliasesPreserved
  MutationSeen
  HandleIdentity
