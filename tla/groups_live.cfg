SPECIFICATION MCFair
CONSTANTS
  None = None
  alice = alice
  bob = bob
  c1 = c1
  c2 = c2
  Users = {alice, bob}
  Conns = {c1}
  Ids = {i1, i2, i3}
  Accounts <- SharedDevices
  Budget = 0
  QueueLength = 1
  GroupIds = {nogroup}
  Objs = {o1}
  GroupOps = {"create", "join", "quit"}
INVARIANT
  LiveIsRegistered
PROPERTIES
  DeadIsReaped
  KeepsPresence
  AbandonedIsDisbanded
