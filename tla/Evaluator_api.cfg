SPECIFICATION Spec
CONSTANTS
  Producers = {p1, p2}
  Capabilities = {c}
  Pool <- MCPool
  MaxVariants = 2
  MaxControls = 2
  MaxEdits = 2
  NoResult = NoResult
INVARIANTS
  DecisionNeverWeakens
  NoEvidenceLost
  RecordBound
  SchemaAgrees
PROPERTY
  EvidenceNeverHardens
