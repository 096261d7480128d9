\* A ring of two and a delivery queue of one: the feeder blocks, the ring
\* fills, and items are lost before, between and after deliveries.
SPECIFICATION FairFeedSpec
CONSTANTS
    Selectors <- AllSelectors
    RingCap = 2
    QueueCap = 1
    MaxCaptures = 6
INVARIANTS GapsAccounted LossSurfaced
PROPERTIES ClosedFeedEnds
