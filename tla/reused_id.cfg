SPECIFICATION Spec
CONSTANTS
  Caller = {q1, q2}
  Domains = {"d1", "d2"}
  Operation = {"create", "renew", "delete"}
  MaxCertificate = 1
  MaxIssuance = 2
  MaxWorker = 3
SYMMETRY Symmetry
INVARIANTS
  InstalledForDomains
