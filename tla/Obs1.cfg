SPECIFICATION Spec
CONSTANTS
  Attempts = 3
  NoToken = NoToken
  ReadErrors = TRUE
INVARIANTS
  LandsAtMostOnce
  ComparatorFindsNothing
  RetriesAreReconciled
CHECK_DEADLOCK FALSE
