SPECIFICATION MCSpec
CONSTANTS
  None = None
  alice = alice
  bob = bob
  c1 = c1
  c2 = c2
  Users = {alice, bob}
  Conns = {c1, c2}
  QueueLength = 1
  Ids = {i1, i2, i3, i4}
  Accounts <- SharedDevices
  Budget = 8
  SubOps = {"sub", "unsub", "cancelAll"}
SYMMETRY SymmetricShared
INVARIANTS
  SubsTypeOK
  RecordsAgree
  RegisteredIsCurrent
  OneUserPerConnection
