CONSTANTS
  alice = alice
  u1 = u1
  u2 = u2
  c1 = c1
  c2 = c2
  Channels = {c1, c2}
  Accounts = {alice}
  Utxos = {u1, u2}
  Providers = {p1}
  Admin = p1
  MaxAmount = 2
  InitialBal <- MCBal
  Ops <- MCOps
  Intents <- MCIntents
  InstThreshold = 1
  InstBump = 2
  MinTtl = 1
  MaxTtl = 1
  MaxLedger = 1
  MaxSigs = 2
  MaxGrants = 1
SPECIFICATION Spec
PROPERTIES
  SignedWithdrawalsArePaid
