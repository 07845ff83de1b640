SPECIFICATION MCSpec
CONSTANTS
  None = None
  alice = alice
  bob = bob
  c1 = c1
  c2 = c2
  Users = {alice, bob}
  Conns = {c1, c2}
  Ids = {i1, i2, i3, i4}
  Accounts <- OwnDevices
  Budget = 9
  QueueLength = 1
  GroupIds = {nogroup}
  Objs = {o1, o2}
  GroupOps = {"create", "join", "quit", "send", "cancelAll"}
SYMMETRY SymmetricDevices
INVARIANTS
  GroupsTypeOK
  BroadcastReaches
  ScanSeesWhoStays
