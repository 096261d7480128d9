SPECIFICATION FairSpec
CONSTANTS
  r1 = r1
  r2 = r2
  r3 = r3
  p1 = p1
  one = one
  all = all
  Requests <- ThreeRequests
  Peers <- None
  CallerOf <- NoCallers
  Unserved <- Third
  Cancellable <- OneRequest
  Hung <- None
  Pools <- TwoPools
  ChainOf <- ChainsThree
  Declared <- RoomAtStart
  Numbers <- ChangeTo
  MaxChanges = 2
  Window = 1
  Reading <- None
  Chunks <- NoChunks
CHECK_DEADLOCK FALSE
INVARIANTS TypeOK SlotsAccounted NobodyWaitsWithRoom
