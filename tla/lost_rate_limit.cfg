SPECIFICATION Spec
CONSTANTS
  Caller = {q1}
  Finalizer = {q1}
  Nonce = {n1, n2, n3}
  Attempts = 2
  RateLimited = {q1}
INVARIANTS
  LimitReported
