SPECIFICATION FairSpec
CONSTANTS
  Attempt = {a1, a2}
  Operator = {o1, o2}
  NoToken = NoToken
  Free = Free
  DistinctStamps = TRUE
  ReadErrors = TRUE
INVARIANTS
  EveryGrantRecordedOnce
  ReportNotLost
  FailClosed
  IInv
PROPERTIES
  ImplementsContract
  CallsReturn
