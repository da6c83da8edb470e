CONSTANTS
  alice = alice
  bob = bob
  Channel = Channel
  Utxos = {u1, u2}
  Accounts = {alice}
  MaxAmount = 3
  Threshold = 0
  Bump = 2
  MinTtl = 1
  MaxLedger = 4
  InstThreshold = 0
  InstBump = 2
  InitialBal <- MCBal
  Ops <- FewOps
SPECIFICATION FairSpec
PROPERTIES
  KeepsPromise
  CallsStartSettled
  TransactIsAtomic
  GuardReleased
