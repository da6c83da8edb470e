CONSTANTS
  alice = alice
  bob = bob
  Channel = Channel
  Utxos = {u1, u2, u3}
  Accounts = {alice, bob}
  MaxAmount = 3
  Threshold = 1
  Bump = 2
  MinTtl = 1
  MaxLedger = 0
  InstThreshold = 1
  InstBump = 2
  InitialBal <- MCBal
  Ops <- AllOps
SPECIFICATION Spec
INVARIANTS
  TypeOK
  SupplyBacked
  Solvent
  SignedEffectsRealised
  FeeIsResidual
  ConditionsAgree
  SettlesExactly
  AcceptedGoesThrough
  SupplyOffByPending
