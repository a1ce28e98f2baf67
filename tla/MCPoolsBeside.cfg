SPECIFICATION Spec
CONSTANTS
  d1 = d1  d2 = d2
  Replicas = {d1, d2}
  Pot = Pot
  Escrow = Escrow
  None = None
  Unit = 2
  Plugins <- MCBeside
  DrawHash <- MCDrawHash
  MaxParents = 2
  MaxEvents = 8
  MaxId = 10
  NewIds <- EitherEnd
INVARIANTS
  OnlyTheDrawPays
CONSTRAINT NoGaps
CHECK_DEADLOCK FALSE
