SPECIFICATION MCSpec
CONSTANTS
  None = None
  Junk = Junk
  Ticker = 0
  Users = {1, 2}
  Peers = {3}
  Groups = {5}
  Slots = {1, 2}
  Lines <- SafetyLines
  Typed = 4
  Mishaps = 1
  Others = 0
CHECK_DEADLOCK FALSE
INVARIANTS
  DaemonTypeOK
  OwnIsSelf
  SpeaksForItself
  AcceptedIsServed
