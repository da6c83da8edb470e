CONSTANTS
  Keys = {u1, u2, u3}
  Addresses = {auth1, auth2}
  MaxAmount = 2
  MaxLen = 2
SPECIFICATION CoreSpec
INVARIANTS
  ValueAccountedFor
PROPERTIES
  MovesOnce
