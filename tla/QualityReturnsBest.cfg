CONSTANTS
  Version <- Codes
  Rendering <- Renderings
  QualityAtLeast = 60
  MobileAtLeast = 60
  Erasable = {}
  Strict = TRUE
  Rounds = 2
SPECIFICATION QualitySpec
INVARIANTS ReturnsBest
CHECK_DEADLOCK FALSE
