SPECIFICATION PackageSpec
CONSTANTS
  Required <- TwoRequired
  Variations = 3
  Changes = 3
  Tools <- AllTools
  Domains <- TwoDomains
  SomeRequests <- Flights
  SomeSnapshots <- Scenarios
  OddRequests <- FarTarget
  OddSnapshots <- OddReadings
INVARIANTS
  HonestVerifies
  EffectsAreEarned
  ResourceStateIsHonest
  FixOnlyTightens
PROPERTIES
  ReplayAgrees
  Constrained
  PortsAgree
CHECK_DEADLOCK FALSE
