SPECIFICATION Fair
CONSTANTS
  t1 = t1
  t2 = t2
  t3 = t3
  Tasks <- Senders
  Shard <- Sharding
  Pipeline = 2
  None = None
  Cap = 2
  Stoppers = {s1, s2}
INVARIANTS
  TGTypeOK
  NeverStuckOnNil
  NothingLeftBehind
PROPERTIES
  CallsEnd
  ServesEachKeyInOrder
  EachTaskRuns
CHECK_DEADLOCK FALSE
