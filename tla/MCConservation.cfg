SPECIFICATION Spec
CONSTANTS
  Roots = {r1}
  Owners = {o1, o2}
  Amounts = {1, 2}
  Nonces = {n1}
  Callers = {c1, c2, c3}
  MaxHops = 3
  NoProof = NoProof
SYMMETRY Symmetry
INVARIANTS
  TypeOK
  NoDoubleConsume
  ValueConserved
  ChainOfCustody
PROPERTIES
  ClaimsOnlyProgress
  ImplementsClaimLedger
CHECK_DEADLOCK FALSE
