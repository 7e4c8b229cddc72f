SPECIFICATION Spec
CONSTANTS
  Cert = {c1}
  Names <- SameNames
  Request = {c1}
  Target <- OwnTarget
  MaxIssuance = 2
  MaxOrder = 2
  MaxAttempts = 1
  Solver = "http-01"
  StoreMayFail = TRUE
  LateRequests = FALSE
INVARIANTS
  Recoverable
  OneOrderPerKey
  RetryRecoversOrder
  ServedUntilStop
  NoStaleChallenge
PROPERTIES
  TerminalIsFinal
  RenewalKeepsCertificate
  KeepsPromise
