SPECIFICATION ConnectionSpec
CONSTANTS
  alice = alice
  bob = bob
  a1 = a1
  a2 = a2
  c1 = c1
  c2 = c2
  c3 = c3
  Actors = {alice, bob}
  Authorizations = {a1, a2}
  Calls = {c1, c2, c3}
  None = None
  MaxTokens = 4
SYMMETRY ConnectionSymmetry
INVARIANTS ConnectionSound StoredTokenLive
CHECK_DEADLOCK FALSE
