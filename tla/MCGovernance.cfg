CONSTANTS
  Channels = {c1, c2}
  AuthContract = auth
  Admins = {a1, a2}
  FirstAdmin = a1
  Wasms = {w1}
  FirstWasm = w1
  InstThreshold = 0
  InstBump = 2
  MinTtl = 1
  MaxTtl = 2
  MaxLedger = 3
SPECIFICATION Spec
INVARIANTS
  TypeOK
  UsedStaysLive
PROPERTIES
  HandoverByConsent
