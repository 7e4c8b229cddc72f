SPECIFICATION Spec
CONSTANTS
  Cert = {c1}
  Names <- SameNames
  Request = {c1}
  Target <- OwnTarget
  MaxIssuance = 1
  MaxOrder = 1
  MaxAttempts = 2
  Solver = "http-01"
  StoreMayFail = TRUE
  LateRequests = FALSE
INVARIANTS
  UnfinishedHasWorker
