SPECIFICATION Spec
CONSTANTS
  Proposals = {p1}
  Operators = {o1}
  Ticker = ticker
  MaxActive = 1
  MaxSnapshots = 1
  MaxCalls = 3
  None = None
CHECK_DEADLOCK FALSE
INVARIANTS
  RolledBackNeverDeployed
