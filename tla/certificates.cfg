SPECIFICATION Spec
CONSTANTS
  Caller = {q1, q2}
  Domains = {"d1"}
  Operation = {"create", "renew", "update", "revoke", "delete"}
  MaxCertificate = 1
  MaxIssuance = 2
  MaxWorker = 2
SYMMETRY Symmetry
INVARIANTS
  TypeOK
  RevokedAtCA
  RowTellsTruth
