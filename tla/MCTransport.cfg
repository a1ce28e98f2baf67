SPECIFICATION FairSpec
CONSTANTS
  Peers = {p1}
  Broadcast = Broadcast
  Flushers = {f1, f2}
  MaxMessages = 3
  MaxSends = 1
INVARIANTS
  TypeOK
  LossNeedsOverlap
  DuplicateNeedsOverlap
  RemovalsArePaidFor
  FlushKeepsOrder
PROPERTIES
  EventuallyLeaves
CHECK_DEADLOCK FALSE
