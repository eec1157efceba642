SPECIFICATION ObservedSpec
CONSTANTS
  Run = {r1, r2}
  RecordId = {id1}
  Action = {good, bad}
  Authorized = {good}
  NoAction = NoAction
  NoToken = NoToken
  ReadErrors = TRUE
SYMMETRY Symmetry
INVARIANTS
  EffectAsDecided
  RecordIsHonest
  EffectHoldsKey
  ObserverTellsRight
CHECK_DEADLOCK FALSE
