SPECIFICATION Spec
CONSTANTS
  Callers = {c1}
  Events = {e1, e2, e3}
  ShutdownComplete = done
  None = None
  Capacity = 2
  FailThreshold = 2
  AppendMayRaise = FALSE
  MaxBoots = 1
CHECK_DEADLOCK FALSE
PROPERTIES
  ShutdownFlushes
