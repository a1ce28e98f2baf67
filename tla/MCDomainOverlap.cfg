SPECIFICATION Spec
CONSTANTS
  d1 = d1  d2 = d2  h1 = h1  h2 = h2
  Replicas = {d1}
  Active = {d1}
  Recipients = {d1, d2}
  Handlers = {h1, h2}
  NoEvent = NoEvent
  MaxParents = 2
  MinQ = 1
  Budget = 6
  Amounts = {1}
  MaxPending = 1
  MaxReloads = 0
  MaxEvents = 6
  MaxMoves = 6
  MaxId = 7
  NewIds <- EitherEnd
INVARIANTS
  ForkNeedsOverlap
  RejectionNeedsOverlap
  CadenceTipsAgree
  ViewsBalance
CONSTRAINT NoGaps
SYMMETRY HandlerSymmetry
CHECK_DEADLOCK FALSE
