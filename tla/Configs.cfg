SPECIFICATION FairSpec
CONSTANTS
  Caller = {p, q}
  NoConfig = NoConfig
  MaxAdds = 2
  MaxConfigs = 1
  MaxConcurrent = 1
  MaxQueue = 1
INVARIANTS
  TypeOK
  LimiterExact
  StagingOwned
PROPERTIES
  RegistrySpec
  RemovalRespectsTunnel
  CallsEnd
