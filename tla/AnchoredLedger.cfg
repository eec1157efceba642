SPECIFICATION FairSpec
CONSTANTS
  p1 = p1
  p2 = p2
  w1 = w1
  w2 = w2
  w3 = w3
  Process <- Processes
  Writer <- Writers
  ProcessOf <- ProcessMap
  RecordId = {id1, id2}
  NoRecord = NoRecord
  Free = Free
  Tears <- Torn
INVARIANTS
  AcceptedReadable
  AcceptedAnchored
  NoFalseAlarm
PROPERTIES
  ImplementsLedger
  AppendsEnd
