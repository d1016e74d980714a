SPECIFICATION Spec
CONSTANTS
  Callers = {c1}
  Nonces = {n1}
  PolicyHashes = {p1}
  GateHashes = {g1}
  None = None
  BootModes = {"SAFE"}
  RingCapacity = 2
  Window = 1
  RequireOperator = {}
  Sources = {"MODE"}
  Targets = {"SAFE", "PAPER", "CANARY", "LIVE", "AUTO"}
  HarnessLock = FALSE
  GatesWired = FALSE
  ReadinessWired = TRUE
  LedgerMayFail = FALSE
  MayRestart = FALSE
  MaxTime = 1
  MaxRows = 6
  MaxUsed = 3
  MaxSideRows = 0
SYMMETRY Interchangeable
CONSTRAINTS
  FewSideRows
  FewUses
CHECK_DEADLOCK FALSE
PROPERTIES
  EntryAtRequiredReadiness
