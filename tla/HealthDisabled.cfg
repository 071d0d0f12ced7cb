SPECIFICATION Spec
CONSTANTS
  Caller = {p, q}
  Main = Main
  Nobody = Nobody
  MaxCalls = 2
  ChanCap = 1
  Verdict = {"Online", "Offline"}
PROPERTY
  DisabledIsSilent
