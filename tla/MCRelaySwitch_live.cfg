SPECIFICATION FairSpec
CONSTANTS
  m1 = m1
  m2 = m2
  r1 = r1
  r2 = r2
  p1 = p1
  Masters <- TwoMasters
  Rank <- Ranks
  Serves <- ServesApart
  Requests <- TwoWithPeer
  Parent <- ParentAll
  TooLarge <- Fits
  Capacity = 1
  MaxAttach = 1
  MaxUpdates = 0
CHECK_DEADLOCK FALSE
INVARIANT OneTerminal
  
