CONSTANTS
  Project = {p1}
  Run = {r1, r2}
  Undo = {u1, u2}
  None = None
  Yielding = FALSE
  Limit = 0
  Keep = 2
  MaxRegenerations = 2
  MaxDay = 1
  MaxVersion = 3
SPECIFICATION FairSpec
PROPERTIES ImplementsHistory RequestEnds
