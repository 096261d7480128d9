SPECIFICATION FairSpec
CONSTANTS
  w1 = w1
  w2 = w2
  Writers <- TwoWriters
  SenderWindow = 2
  ReceiverWindow = 4
  ItemSizes <- Fragmented
  MaxItems = 2
INVARIANTS TypeOK  NoCreditViolation NoLostWakeup 
PROPERTIES ClosedReleasesWriters 
