SPECIFICATION MCSpec
CONSTANTS
  None = None
  Junk = Junk
  Ticker = 0
  Users = {1}
  Peers = {3}
  Groups = {5}
  Slots = {1}
  Lines <- LivenessLines
  Typed = 3
  Mishaps = 1
  Others = 2
CHECK_DEADLOCK FALSE
PROPERTIES
  RequestsEnd
  StaleEntriesGo
  EntriesComeBack
