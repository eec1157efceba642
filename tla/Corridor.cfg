SPECIFICATION Spec
CONSTANTS
  Radius = 12
  Target = 11
  Limit = 2
  Release = 1
  K = 2
  ErrorBound = 1
  Slew = 1
  Speed = 1
  RequestAt = 6
  End = 22
  LandTicks = 3
  Configs <- AllConfigs
  Roots <- AllRoots
INVARIANTS
  Corridor
  AsRegistered
  RecoveryAdmissible
CHECK_DEADLOCK FALSE
