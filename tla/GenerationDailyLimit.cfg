CONSTANTS
  Project = {p1, p2}
  Run = {r1, r2}
  Undo = {}
  None = None
  Yielding = FALSE
  Limit = 1
  Keep = 1
  MaxRegenerations = 1
  MaxDay = 2
  MaxVersion = 1
SPECIFICATION Spec
INVARIANTS DailyLimit
