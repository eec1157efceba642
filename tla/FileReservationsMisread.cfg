SPECIFICATION Spec
CONSTANTS
  Attempt = {a1, a2}
  Operator = {o1}
  NoToken = NoToken
  Free = Free
  DistinctStamps = TRUE
  ReadErrors = TRUE
INVARIANTS
  LateOnlyAfterRelease
