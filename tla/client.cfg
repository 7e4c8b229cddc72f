SPECIFICATION FairFinalSpec
CONSTANTS
  Caller = {q1, q2}
  Finalizer = {q1}
  Nonce = {n1, n2, n3}
  Attempts = 2
  RateLimited = {q1}
  Call = q1
  Read = "ready"
  Domains = "example.org"
  Bound = 32
  Second = 1
  MaxAttempt = 6
INVARIANTS
  TypeOK
  NonceFresh
  SubmitsOnlyReady
  OutcomeTrue
  
  BackoffIsExponential
PROPERTIES
  EndsSoon
  FinalizesAsPromised
  CallReturns
