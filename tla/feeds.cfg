SPECIFICATION Spec
CONSTANTS
  Callers = {c1, c2}
  MaxPumps = 3
  None = None
INVARIANTS
  NoOrphan
PROPERTIES
  StopsAreAddressed
  ToldPumpsEnd
  StopsReturn
CHECK_DEADLOCK FALSE
