SPECIFICATION Spec
CONSTANTS
  Windows <- ShortWindows
  NoHazard = NoHazard
  Capacity = 2
  PassModes = {TRUE, FALSE}
  Targets = {"LOCKED", "SAFE"}
  BootMode = "LIVE"
  BootTrading = TRUE
  LedgerMayFail = TRUE
  MaxTime = 2
  MaxObserved = 3
  MaxDispatches = 1
  MaxRows = 3
CHECK_DEADLOCK FALSE
INVARIANTS
  HazardHaltsDispatch
  LedgerExplainsGate
