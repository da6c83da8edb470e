CONSTANTS
  u1 = u1
  u2 = u2
  u3 = u3
  alice = alice
  bob = bob
  Channel = chan
  Utxos = {u1, u2, u3}
  CondLists <- MCCondLists
  Amount = {2}
  Providers = {p1}
  Ed25519Keys = {k1}
  MaxLedger = 1
  MaxSpends = 2
  MaxCreates = 1
  MaxHanded = 3
SPECIFICATION Spec
INVARIANTS
  BuiltEntryPasses
  SpendsAgree
CHECK_DEADLOCK FALSE
