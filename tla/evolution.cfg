SPECIFICATION Spec
CONSTANTS
  Proposals = {p1, p2}
  Operators = {o1, o2}
  Ticker = ticker
  MaxActive = 2
  MaxSnapshots = 1
  MaxCalls = 3
  None = None
SYMMETRY Symmetry
CHECK_DEADLOCK FALSE
INVARIANTS
  DeploymentsWereReviewed
  FailuresStop
  EntriesPay
  SnapshotsRestoreOnce
  TurnsAreClean
