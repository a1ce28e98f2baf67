SPECIFICATION Spec
CONSTANTS
  d1 = d1  d2 = d2
  Replicas = {d1, d2}
  Pages = {d1, d2}
  Runnable = {"m", "n", "o"}
  NoModule = NoModule
  MaxRuns = 3
  None = None
  Genesis = Genesis
  Churn <- MCChurn
  Rank <- MCRank
  Visits <- MCVisits
  MaxParents = 2
  MaxEvents = 7
  MaxId = 9
  NewIds <- EitherEnd
INVARIANTS
  TypeOK
  FirstRegistrationStands
  NothingIsOutlived
  ToldIsKept
  ClosedMeansStopped
  DesktopKeepsModules
CONSTRAINT NoGaps
CHECK_DEADLOCK FALSE
