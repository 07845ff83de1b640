SPECIFICATION SessionsSpec
CONSTANTS
  None = None
  alice = alice
  bob = bob
  c1 = c1
  c2 = c2
  Users = {alice, bob}
  Conns = {c1, c2}
  Ids = {i1, i2, i3, i4}
  Accounts <- SharedAccounts
  QueueLength = 1
SYMMETRY Symmetric
INVARIANT
  SingleLogin
