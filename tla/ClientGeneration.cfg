SPECIFICATION FairSpec
CONSTANTS
  Run = {r1, r2}
  None = None
  MaxAttempts = 3
  ServerTime = 1
INVARIANTS VerdictIsOwn SuccessIsReal PatienceOutlastsServer
PROPERTIES GenerationEnds
