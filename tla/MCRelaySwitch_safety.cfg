SPECIFICATION Spec
CONSTANTS
  m1 = m1
  m2 = m2
  r1 = r1
  r2 = r2
  p1 = p1
  Masters <- OneMaster
  Rank <- RankOfOne
  Serves <- ServesHere
  Requests <- TwoWithPeer
  Parent <- ParentAll
  TooLarge <- SecondTooLarge
  Capacity = 1
  MaxAttach = 2
  MaxUpdates = 2
CHECK_DEADLOCK FALSE
INVARIANTS TypeOK PermitOwned CascadeComplete
