SPECIFICATION FairSpec
CONSTANTS
  r1 = r1
  r2 = r2
  r3 = r3
  p1 = p1
  one = one
  all = all
  Requests <- TwoRequests
  Peers <- OnePeer
  CallerOf <- Callers
  Unserved <- None
  Cancellable <- TwoRequests
  Hung <- None
  Pools <- TwoPools
  ChainOf <- ChainsTwo
  Declared <- LimitsAtStart
  Numbers <- ChangeTo
  MaxChanges = 0
  Window = 1
  Chunks <- ChunksTwo
  Reading <- OneRequest
CHECK_DEADLOCK FALSE
INVARIANTS OneTerminal
PROPERTIES CancelInterrupts AnsweredUnlessCancelled
