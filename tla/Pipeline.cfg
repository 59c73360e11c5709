SPECIFICATION LiveSpec
CONSTANTS
  Score = {0, 1}
  QualityMin = 1
  MobileMin = 1
  PolishedStructure = 1
  PolishedMobile = 1
  QcScore = {0, 1}
  FastPass = 1
  QcEnabled = TRUE
  StrictAdoption = TRUE
  MaxIterations = 2
  Budget = 4
  AbortMargin = 1
  IterationTimeout = 2
  QcTimeout = 1
  AbortLag = 2
  Stage1Limit = 5
INVARIANTS SavedIsSafe ReportIsOfCode ReadyInTime
PROPERTIES EndsEventually
