SPECIFICATION FairSpec
CONSTANTS
  Callers = {c1, c2}
  Nonces = {n1}
  PolicyHashes = {p1}
  GateHashes = {g1}
  None = None
  BootModes = {"SAFE", "LIVE"}
  RingCapacity = 2
  Window = 1
  RequireOperator = {"PAPER"}
  Sources = {"MODE", "KILL", "UNLOCK", "HAZARD", "DRIFT"}
  Targets = {"SAFE", "PAPER", "AUTO"}
  HarnessLock = FALSE
  GatesWired = TRUE
  ReadinessWired = FALSE
  LedgerMayFail = FALSE
  MayRestart = FALSE
  MaxTime = 1
  MaxRows = 3
  MaxUsed = 3
  MaxSideRows = 1
CHECK_DEADLOCK FALSE
INVARIANTS
  TypeOK
  LegalHistory
  ConsentCoversTransition
PROPERTIES
  EveryRequestAnswered
  KillLocks
