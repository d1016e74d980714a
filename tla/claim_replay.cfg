SPECIFICATION Spec
CONSTANTS
  Callers = {c1}
  Nonces = {n1}
  PolicyHashes = {p1}
  GateHashes = {g1}
  None = None
  BootModes = {"LIVE"}
  RingCapacity = 2
  Window = 1
  RequireOperator = {}
  Sources = {"MODE"}
  Targets = {"SAFE", "PAPER", "CANARY", "LIVE", "AUTO"}
  HarnessLock = FALSE
  GatesWired = FALSE
  ReadinessWired = FALSE
  LedgerMayFail = FALSE
  MayRestart = TRUE
  MaxTime = 1
  MaxRows = 6
  MaxUsed = 3
  MaxSideRows = 0
SYMMETRY Interchangeable
CONSTRAINTS
  FewSideRows
  FewUses
CHECK_DEADLOCK FALSE
INVARIANTS
  NonceUsedOncePerWindow
