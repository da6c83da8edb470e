SPECIFICATION Spec
CONSTANTS
  u1 = u1
  u2 = u2
  alice = alice
  p1 = p1
  chan = chan
  other = other
  Admins = {adm}
  FirstAdmin = adm
  Providers = {p1}
  Utxos = {u1}
  Channels = {chan, other}
  Outputs = {u2}
  Addresses = {alice}
  CondLists <- MCCondLists
  Checks <- MCChecks
  InstThreshold = 0
  InstBump = 2
  MinTtl = 1
  MaxTtl = 1
  MaxLedger = 3
  MaxSigs = 2
INVARIANTS
  TypeOK
  InUseStaysLive
PROPERTIES
  SpendersConsented
  ProviderConsented
