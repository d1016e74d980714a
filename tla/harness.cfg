SPECIFICATION Spec
CONSTANTS
  Callers = {c1, c2}
  Nonces = {n1, n2}
  PolicyHashes = {p1}
  GateHashes = {g1}
  None = None
  BootModes = {"LIVE"}
  RingCapacity = 1
  Window = 0
  RequireOperator = {}
  Sources = {"MODE", "KILL", "UNLOCK", "HAZARD", "DRIFT"}
  Targets = {"SAFE", "PAPER", "CANARY", "LIVE", "AUTO"}
  HarnessLock = TRUE
  GatesWired = FALSE
  ReadinessWired = FALSE
  LedgerMayFail = TRUE
  MayRestart = FALSE
  MaxTime = 2
  MaxRows = 5
  MaxUsed = 3
  MaxSideRows = 1
SYMMETRY Interchangeable
CONSTRAINTS
  FewSideRows
  FewUses
CHECK_DEADLOCK FALSE
INVARIANTS
  OnlyOperatorsRaise
PROPERTIES
  UnlockUndoesTheLockItSaw
  ImplementsModeAuthority
