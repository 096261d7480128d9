SPECIFICATION FairSpec
CONSTANTS
  r1 = r1
  r2 = r2
  r3 = r3
  r4 = r4
  Refs <- SomeRefs
  Caps <- TwoCaps
  Canonical <- Spelt
  NoCap = NoCap
  Absent = Absent
  All = "all"
  Requests <- FourRequests
  Pools <- SentPools
  Chain <- Chains
  Cancellable <- OnlyFirst
  Adverts <- ColdAndWarm
  Grace = 1
  MaxOutages = 1
INVARIANTS TypeOK SlotsAccounted NobodyStranded
PROPERTIES NoOvertaking ImplementsSlots EveryWaitEnds
