SPECIFICATION Spec
CONSTANTS
  p1 = p1
  p2 = p2
  w1 = w1
  w2 = w2
  w3 = w3
  Process <- Alone
  Writer <- Threads
  ProcessOf <- ThreadMap
  RecordId = {id1, id2}
  NoRecord = NoRecord
  Free = Free
  Tears <- TornOrUnended
INVARIANTS
  AcceptedReadable
