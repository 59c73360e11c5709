SPECIFICATION Spec
CONSTANTS
  Score = {0, 1}
  QualityMin = 1
  MobileMin = 1
  PolishedStructure = 1
  PolishedMobile = 1
  QcScore = {0, 1}
  FastPass = 1
  QcEnabled = TRUE
  StrictAdoption = TRUE
  MaxIterations = 2
  Budget = 2
  AbortMargin = 2
  IterationTimeout = 1
  QcTimeout = 1
  AbortLag = 0
  Stage1Limit = 0
INVARIANTS ValidationIsOfSavedCode
