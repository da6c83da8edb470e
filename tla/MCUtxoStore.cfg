CONSTANTS
  Utxos = {u1, u2}
  MaxAmount = 2
  Threshold = 1
  Bump = 3
  MinTtl = 2
  MaxLedger = 8
SPECIFICATION Spec
INVARIANTS
  TypeOK
  TouchedStaysLive
PROPERTIES
  Lifecycle
