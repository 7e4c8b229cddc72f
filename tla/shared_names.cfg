SPECIFICATION Spec
CONSTANTS
  Cert = {c1, c2}
  Names <- SameNames
  Request = {c1, c2}
  Target <- OwnTarget
  MaxIssuance = 2
  MaxOrder = 1
  MaxAttempts = 1
  Solver = "provider"
  StoreMayFail = FALSE
  LateRequests = FALSE
SYMMETRY Symmetry
INVARIANTS
  InstalledKeyMatches
