CONSTANTS
  Accounts = {ann, ben}
  Spenders = {ben}
  FirstAdmin = ann
  MaxAmount = 2
  Threshold = 0
  Bump = 1
  InstThreshold = 0
  InstBump = 1
  MinTtl = 1
  MinTempTtl = 1
  MaxTtl = 2
  MaxLedger = 2
SPECIFICATION Spec
INVARIANTS
  TypeOK
  Conserved
  AllowanceHonoured
