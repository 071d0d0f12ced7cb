SPECIFICATION FairSpec
CONSTANTS
  ConfigID = {c1, c2}
  NoConfig = NoConfig
  MaxCmds = 2
  MaxRequests = 2
  KillFails = TRUE
PROPERTIES
  AttemptSettles
  ErrorReverts
  DeadChildNoticed
  ShutdownReturns
  GoroutinesEnd
