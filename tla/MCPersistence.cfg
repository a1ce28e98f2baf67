SPECIFICATION FairSpec
CONSTANTS
  t1 = t1  t2 = t2  p1 = p1  mine = mine  theirs = theirs
  MaxId = 3
  NewIds <- AnyId
  Payloads = {mine, theirs}
  Replicas = {t1, t2, p1}
  Tabs = {t1, t2}
  PageOf <- MCPageOf
  DomainOf <- MCDomainOf
  Backend = "js"
  MaxParents = 2
  MaxEvents = 3
  MaxFailures = 1
INVARIANTS
  TypeOK
  CausalOrder
  TopoOrderIsCausal
  OpenMemoryIsDurable
  HoleNeedsFailedWrite
PROPERTIES
  ReopenRestores
  EventuallyStored
