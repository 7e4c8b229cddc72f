SPECIFICATION FairSpec
CONSTANTS
  Caller = {q1}
  AutoRenewal = auto
  Directory = {"d1", "d2"}
  Operation = {"provider", "register", "deactivate", "deleteAccount", "update", "renew", "revoke", "delete"}
  MaxProvider = 2
  MaxAccount = 2
  MaxCertificate = 1
  MaxKey = 2
INVARIANTS
  TypeOK
  IInv
  SignedByOwner
  OrderKeepsAccount

  
