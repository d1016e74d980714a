SPECIFICATION Spec
CONSTANTS
  Windows <- ShortWindows
  NoHazard = NoHazard
  Capacity = 2
  PassModes = {FALSE}
  Targets = {"LOCKED", "SAFE"}
  BootMode = "LIVE"
  BootTrading = TRUE
  LedgerMayFail = FALSE
  MaxTime = 2
  MaxObserved = 0
  MaxDispatches = 1
  MaxRows = 3
CHECK_DEADLOCK FALSE
PROPERTIES
  DispatchOnlyInExecutingModes
