SPECIFICATION Spec
CONSTANTS
  d1 = d1  d2 = d2  h1 = h1  h2 = h2
  Replicas = {d1, d2}
  Active = {d1, d2}
  Recipients = {d1, d2}
  Handlers = {h1}
  NoEvent = NoEvent
  MaxParents = 2
  MinQ = 1
  Budget = 1
  Amounts = {1}
  MaxPending = 1
  MaxReloads = 1
  MaxEvents = 8
  MaxMoves = 6
  MaxId = 9
  NewIds <- EitherEnd
INVARIANTS
  TypeOK
  ForkNeedsOverlap
  RejectionNeedsOverlap
  CadenceTipsAgree
  ViewsBalance
  HonestReceptionsAccepted
CONSTRAINT NoGaps
SYMMETRY DomainSymmetry
CHECK_DEADLOCK FALSE
