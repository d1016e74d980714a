SPECIFICATION Spec
CONSTANTS
  o1 = o1
  o2 = o2
  Orders <- TwoOrders
  FillEvents <- VenueFills
  NoFill <- None
  Targets = {1, 2}
  CallerMoves = {"CANCELLED", "ERROR", "CLOSED"}
  MaxRestarts = 2
CHECK_DEADLOCK FALSE
INVARIANTS
  HistoryReplays
  BookIsSumOfDistinctFills
  FilledIsEarned
  NoFillTwiceAcrossRestarts
