SPECIFICATION FairSpec
CONSTANTS
  Conn = {p}
  Bridge = Bridge
  MaxStatus = 3
  MaxAsked = 2
  FeedCap = 1
  QueueCap = 1
INVARIANTS
  TypeOK
  NoGap
PROPERTIES
  StreamSpec
  BroadcastEnds
  ConnectionsEnd
CHECK_DEADLOCK FALSE
