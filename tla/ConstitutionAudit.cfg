SPECIFICATION Spec
CONSTANTS
  MaxGovern = 1
  MaxEdits = 2
  MaxMerges = 2
INVARIANTS
  TrustKept
  SuccessorAuthorized
  RejectedForCause
