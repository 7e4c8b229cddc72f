SPECIFICATION Spec
CONSTANTS
  Caller = {q1}
  Domains = {"d1"}
  Operation = {"create", "renew", "update", "revoke", "delete"}
  MaxCertificate = 1
  MaxIssuance = 1
  MaxWorker = 1
SYMMETRY Symmetry
PROPERTIES
  UpdateKeepsCertificate
