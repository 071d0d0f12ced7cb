SPECIFICATION FairSpec
CONSTANTS
  Caller = {p, q}
  Main = Main
  Nobody = Nobody
  MaxCalls = 3
  ChanCap = 1
  Verdict = {"Online", "Offline"}
INVARIANTS
  TypeOK
  FlagMatchesLoop
PROPERTIES
  ServiceSpec
  SetEnabledReturns
  CloseEndsLoops
  HealthHeals
