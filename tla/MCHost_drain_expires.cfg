SPECIFICATION FairSpec
CONSTANTS
  c1 = c1
  c2 = c2
  r1 = r1
  r2 = r2
  Slots <- OneSlot
  Requests <- TwoRequests
  SlotOf <- BothOnOne
  Bodied <- OneRequest
  MaxSpawns = 2
  MaxTicks = 1
  MaxSyncs = 2
  MaxKills = 1
  DrainExpires = TRUE
CHECK_DEADLOCK FALSE
PROPERTY EveryRequestAnswered
