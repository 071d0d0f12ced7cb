SPECIFICATION FairSpec
CONSTANTS
  Pid = {p, q}
  ConfigID = {c}
  NoConfig = NoConfig
  MaxBirth = 3
INVARIANTS
  TypeOK
  CleanStart
  OnlyOursSignalled
PROPERTIES
  StartSettles
