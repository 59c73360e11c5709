SPECIFICATION Spec
CONSTANTS
  Call = {c1, c2, c3, c4}
  Expired = Expired
  MaxPages = 2
  SlowClose = FALSE
  MaxBrowsers = 3
  MaxQueue = 4
SYMMETRY Symmetry
CHECK_DEADLOCK FALSE
INVARIANTS TimedOutLeavesQueue
