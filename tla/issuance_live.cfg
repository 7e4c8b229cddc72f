SPECIFICATION FairSpec
CONSTANTS
  Cert = {c1}
  Names <- SameNames
  Request = {c1}
  Target <- OwnTarget
  MaxIssuance = 1
  MaxOrder = 2
  MaxAttempts = 2
  Solver = "manual"
  StoreMayFail = FALSE
  LateRequests = TRUE
INVARIANTS
  TypeOK
  IInv
  Recoverable
  OneOrderPerKey
  AttemptsWithinBudget
  UnfinishedHasWorker
  AnswerAvailable
  TerminalTellsTruth
  SucceededOrderRecorded
PROPERTIES
  GoesForward
  KeepsPromise
  Finishes
  CancelFinishes
  CloseReturns
