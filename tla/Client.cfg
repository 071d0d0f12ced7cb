SPECIFICATION FairSpec
CONSTANTS
  MaxSock = 2
  MaxCall = 2
  MaxEvent = 2
INVARIANTS
  TypeOK
  CallsMatchPending
  HeartbeatMatches
  FramesWhole
PROPERTIES
  ServiceSpec
  CallsSettle
CHECK_DEADLOCK FALSE
