SPECIFICATION Spec
CONSTANTS
  Caller = {p, q}
  NoConfig = NoConfig
  MaxAdds = 3
  MaxConfigs = 1
  MaxConcurrent = 1
  MaxQueue = 1
INVARIANT
  ActiveIsStored
