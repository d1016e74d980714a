SPECIFICATION Spec
CONSTANTS
  Approvals = {a1}
  Threads = {t1, t2}
  None = None
  AutoApprove = FALSE
  MaxBoots = 2
CHECK_DEADLOCK FALSE
INVARIANTS
  DecidedOnce
