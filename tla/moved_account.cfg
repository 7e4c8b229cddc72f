SPECIFICATION Spec
CONSTANTS
  Caller = {q1}
  AutoRenewal = auto
  Directory = {"d1", "d2"}
  Operation = {"provider", "register", "update", "revoke"}
  MaxProvider = 2
  MaxAccount = 2
  MaxCertificate = 1
  MaxKey = 2
INVARIANTS
  RevocationAtIssuer
