SPECIFICATION Spec
CONSTANTS
  Payloads = {p1, p2}
  MaxOperations = 2
  MaxSeq = 2
  Ready = Ready
  Blank = Blank
INVARIANT
  LegalOperationAnswered
