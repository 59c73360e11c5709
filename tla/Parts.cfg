SPECIFICATION PartsSpec
CHECK_DEADLOCK FALSE
CONSTANTS
  c1 = c1
  c2 = c2
  c3 = c3
  r1 = r1
  r2 = r2
  u1 = u1
  u2 = u2
  p1 = p1
  p2 = p2
  a1 = a1
  a2 = a2
  \* BrowserPool
  Call = {c1, c2, c3}
  Expired = Expired
  MaxPages = 2
  SlowClose = FALSE
  MaxBrowsers = 2
  MaxQueue = 3
  \* Proxy
  Request = {r1, r2}
  Visitor = {v1, v2}
  User = {u1}
  Site = {p1}
  SiteOwner <- TheOwner
  Nobody = Nobody
  Platform = TRUE
  IpLimit = 2
  ProjectLimit = 1
  UserLimit = 1
  MaxBuckets = 1
  Window = 2
  Ttl = 1
  MaxEntries = 1
  MaxKey = 1
  MaxNow = 2
  \* AuthLimits
  Ip = {v1, v2}
  Account = {a1, a2}
  IpFails = 2
  AccountFails = 1
  CallLimit = 1
  IpWindow = 2
  AccountWindow = 1
  MaxAuth = 2
  MaxAdmin = 1
  MaxClock = 3
  \* Publishing
  Project = {p1, p2}
  ApiCall = {k1}
  Base = {b1}
  Bad = Bad
  None = None
  MaxTry = 1
  MaxProjects = 2
  \* Accounts
  Holder = {u1, u2}
  Token = {t1, t2, t3}
  NoOne = NoOne
  \* Catalog
  Api = {a1, a2}
  Keyed = {a1}
  NoAuth = {a2}
  Prefixed = {a1}
  Corrected = {a2}
  Patched = {a1}
  SeedActive = {a1}
  GetEndpoints <- TwoAndOne
  Response <- Answers
  Activation = {x1}
  Verification = {w1}
  Samples = 2
  Concurrency = 1
  NoApi = NoApi
  \* KillSwitch
  Flag = {f1, f2}
  Process = {i1, i2}
  FlagTtl = 2
  MaxTime = 3
  \* AuditLog
  Person = {u1, u2}
  Creation = {p1}
  OwnedBy <- TheOwner
  NoId = NoId
  Keep = 1
  MaxDay = 2
  \* Backups
  Retention = 2
  Dumps = 1
  MaxBackup = 5
  \* Quality
  Version <- Codes
  Rendering <- Renderings
  QualityAtLeast = 60
  MobileAtLeast = 60
  Erasable = {"fetch"}
  Strict = TRUE
  Rounds = 2
  \* DeepQc
  DeepPage <- DeepPages
  FixedChecks = {"footerVisible", "accessibility"}
  CheckLimit = 1
  ContentLimit = 1
  DeepLimit = 3
  ClickWait = 1
  TabWait = 0
  SkeletonWait = 2
  \* Builder
  Context = {x1}
  Brief = {x2}
  TooShort = TooShort
  BuilderApi = {b1}
  MaxApis = 1
  MaxVisit = 2
  MaxCalls = 3
  MaxGenerated = 2
  MaxVersions = 2
  MaxDeeds = 3
  NoSet = NoSet
  \* Regeneration
  Service = {p1}
  MaxRegen = 2
  MaxNumber = 3
  NoService = NoService
  \* Suggestions
  Caller = {c1, c2}
  SuggestionLimit = 2
  MaxDate = 2
INVARIANTS PartsTypeOK PermitsAccounted OneBrowser AddressesHold VerdictIsOfValue StatusHasEvidence OffStaysOff AnswersAreCurrent SiteLimitHolds LatestLinkOnly GuessesBounded WholeBackupRemains DeletedUsersAreForgotten SwitchedOffStops NothingOfAnEarlierVisit SpinnersTellTheTruth PreviewExists ReadAtItsWidth PanelTellsTheTruth SuggestionsArePaid
