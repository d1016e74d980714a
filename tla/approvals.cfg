SPECIFICATION Spec
CONSTANTS
  Approvals = {a1, a2}
  Threads = {t1, t2, t3}
  None = None
  AutoApprove = TRUE
  MaxBoots = 3
SYMMETRY Symmetry
CHECK_DEADLOCK FALSE
INVARIANTS
  EmissionsAreRecorded
  RestartForgetsNoDecision
  OneDecisionAfterPending
PROPERTIES
  DecisionsStand
  RejectionIsFinal
