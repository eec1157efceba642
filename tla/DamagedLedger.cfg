SPECIFICATION LossySpec
CONSTANTS
  p1 = p1
  p2 = p2
  w1 = w1
  w2 = w2
  w3 = w3
  Process <- Processes
  Writer <- Pair
  ProcessOf <- PairMap
  RecordId = {id1, id2}
  NoRecord = NoRecord
  Free = Free
  Tears <- Torn
  Worker = {w1, w2}
  PerWorker = 2
  Damages = 2
INVARIANTS
  ReloadTellsAll
PROPERTIES
  SeenIsKept
CHECK_DEADLOCK FALSE
