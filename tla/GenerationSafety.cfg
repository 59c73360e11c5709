CONSTANTS
  Project = {p1}
  Run = {r1, r2}
  Undo = {u1}
  None = None
  Yielding = TRUE
  Limit = 1
  Keep = 1
  MaxRegenerations = 1
  MaxDay = 2
  MaxVersion = 2
SPECIFICATION Spec
SYMMETRY Symmetry
INVARIANTS AcknowledgedSurvives StatusHasCode NoStaleVerdict ProgressHasOwner QuotaHolds FailuresAreFree
