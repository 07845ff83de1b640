SPECIFICATION MCSpec
CONSTANTS
  None = None
  alice = alice
  bob = bob
  c1 = c1
  c2 = c2
  Users = {alice, bob}
  Conns = {c1, c2}
  Ids = {i1, i2, i3}
  Accounts <- OwnDevices
  Budget = 8
  QueueLength = 1
  GroupIds = {nogroup}
  Objs = {o1}
  GroupOps = {"create", "join"}
PROPERTY
  DisbandsOnlyEmpty
