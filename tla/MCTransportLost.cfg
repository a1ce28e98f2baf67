SPECIFICATION Spec
CONSTANTS
  Peers = {p1}
  Broadcast = Broadcast
  Flushers = {f1}
  MaxMessages = 2
  MaxSends = 2
INVARIANTS
  NoMessageLost
CHECK_DEADLOCK FALSE
