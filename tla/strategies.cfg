SPECIFICATION Spec
CONSTANTS
  Strategies = {s1}
  Values = {1, 2}
  Bounded = {2}
  MaxRows = 8
  MaxRejected = 1
  MaxBoots = 2
CHECK_DEADLOCK FALSE
INVARIANTS
  MemoryIsReplay
  ChainContinues
  EveryChangeWasRatified
