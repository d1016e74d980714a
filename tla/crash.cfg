SPECIFICATION Spec
CONSTANTS
  Callers = {c1}
  Nonces = {n1}
  PolicyHashes = {p1, p2}
  GateHashes = {g1, g2}
  None = None
  BootModes = {"SAFE", "CANARY"}
  RingCapacity = 2
  Window = 1
  RequireOperator = {}
  Sources = {"MODE", "DRIFT"}
  Targets = {"PAPER", "CANARY", "LIVE"}
  HarnessLock = FALSE
  GatesWired = TRUE
  ReadinessWired = TRUE
  LedgerMayFail = TRUE
  MayRestart = TRUE
  MaxTime = 1
  MaxRows = 5
  MaxUsed = 3
  MaxSideRows = 1
SYMMETRY Interchangeable
CONSTRAINTS
  FewSideRows
  FewUses
CHECK_DEADLOCK FALSE
INVARIANTS
  LedgerExplainsMode
  ConsentUnderInstalledPolicy
PROPERTIES
  GatedEntryUnderAnchoredDocument
