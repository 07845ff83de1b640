SPECIFICATION MCSpec
CONSTANTS
  None = None
  alice = alice
  bob = bob
  carol = carol
  c1 = c1
  c2 = c2
  Users = {alice, bob, carol}
  Conns = {c1, c2}
  QueueLength = 1
  Ids = {i1, i2, i3}
  Accounts <- Devices
  Memberships = {{bob, carol}}
  Kinds = {"personal", "world", "change"}
  Events = 5
  Sent = 2
  Turns = 1
SYMMETRY Symmetric
INVARIANTS
  MsgTypeOK
  OnlyAddressees
  PairOrder
  WorldReaches
CHECK_DEADLOCK FALSE
