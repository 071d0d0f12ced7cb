SPECIFICATION Spec
CONSTANTS
  ConfigID = {c1, c2}
  NoConfig = NoConfig
  MaxCmds = 3
  MaxRequests = 4
  KillFails = FALSE
SYMMETRY Symmetry
INVARIANTS
  TypeOK
  AtMostOneChild
  NoOrphan
  ConnectedIsArmed
  ServesLastRequest
  ErrorWillRevert
PROPERTIES
  SwitchNotLost
  ServiceSpec
