SPECIFICATION Spec
CONSTANTS
  d1 = d1  d2 = d2
  Replicas = {d1, d2}
  Pot = Pot
  Escrow = Escrow
  None = None
  Unit = 2
  Plugins <- MCPlugins
  DrawHash <- MCDrawHash
  MaxParents = 2
  MaxEvents = 9
  MaxId = 11
  NewIds <- EitherEnd
INVARIANTS
  TypeOK
  CyclesAreExact
  PrizesGoToWinners
  DonationsCounted
  PaidStaysPaid
CONSTRAINT NoGaps
CHECK_DEADLOCK FALSE
