SPECIFICATION FairSpec
CONSTANTS
  Project = {p1}
  Run = {r1, r2, r3}
  None = None
  Heartbeat = 2
  RawStale = 6
  Lateness = 1
  MaxMisses = 1
INVARIANTS MutualExclusion
PROPERTIES OnlyHolderTouchesRow ImplementsSingleFlight LockComesFree
