SPECIFICATION Spec
CONSTANTS
  d1 = d1  d2 = d2  h1 = h1  h2 = h2
  Replicas = {d1, d2}
  Active = {d1, d2}
  Recipients = {d1, d2}
  Handlers = {h1}
  NoEvent = NoEvent
  MaxParents = 2
  MinQ = 1
  Budget = 6
  Amounts = {1}
  MaxPending = 1
  MaxReloads = 1
  MaxEvents = 4
  MaxMoves = 4
  MaxId = 5
  NewIds <- EitherEnd
INVARIANTS
  OwnHistoryIsChain
CONSTRAINT NoGaps
SYMMETRY DomainSymmetry
CHECK_DEADLOCK FALSE
