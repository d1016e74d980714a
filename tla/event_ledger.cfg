SPECIFICATION FairSpec
CONSTANTS
  Callers = {c1, c2}
  Events = {e1, e2, e3, e4}
  ShutdownComplete = done
  None = None
  Capacity = 2
  FailThreshold = 2
  AppendMayRaise = TRUE
  MaxBoots = 2
CHECK_DEADLOCK FALSE
INVARIANTS
  ChainIntact
  RecordedOnce
  NoSilentGap
  OutageKills
PROPERTIES
  OnlyAnOutageKills
  QueueDrains
