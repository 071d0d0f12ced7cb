SPECIFICATION Spec
CONSTANTS
  ConfigID = {c1, c2}
  NoConfig = NoConfig
  MaxCmds = 3
  MaxRequests = 2
  KillFails = FALSE
INVARIANT
  ShutdownLeavesNoChild
