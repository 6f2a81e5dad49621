SPECIFICATION SideSpec
CONSTANTS
  a1 = a1
  a2 = a2
  w = w
  u1 = u1
  l1 = l1
  l2 = l2
  l3 = l3
  Worker <- MCLoop
  LockId <- MCLockId
  LockIdOf <- MCLockIdOf
  NoWorker = NoWorker
  MaxJobs = 2
  MaxAttempts = 2
  StaleAfter = 1
  RetryDelay = 1
  ClaimLimit = 2
  MaxEnqueue = 2
  Corrupt = {}
  Api <- MCApi
  StoreWorker <- MCStoreWorker
  User <- MCUser
  Nobody = Nobody
  Payload <- MCPayload
  Legacy <- MCLegacy
  NoRow = NoRow
  Garbled = Garbled
  NoId = NoId
  NoKey = NoKey
  NoSymbol = NoSymbol
  NoUrl = NoUrl
  Placeholder = Placeholder
  MaxAlerts = 2
  Handler = {h1, h2}
  Email = {"e"}
  Password = {"x", "y"}
  MaxAccount = 1
  MaxToken = 2
  MaxVersion = 2
  MaxMail = 1
  VerifyFirst = TRUE
  LimitRule = {"a", "b"}
  RuleLimit <- MCRuleLimit
  RuleWindow <- MCRuleWindow
  Matching <- MCMatching
  MaxRequest = 3
  LastSecond = 5
  Fetcher = {f1, f2}
  NoFetcher = NoFetcher
  CallsPerWindow = 3
  Budget = 2
  WindowLength = 3
  Rate = 1
  MaxTries = 2
  FetchUntil = 5
  MaxLife <- MCMaxLife
  Interval = 1
  StaleSeconds = 0
  HealthUntil = 2
  Checker = {c1, c2}
  Setting <- MCSetting
  Cooldown = 2
  RawAttempts = 2
  LastMinute = 2
  FileThread = {"t1", "t2"}
  ProcessOf <- OneProcess
  NoTurn = NoTurn
  MaxRows = 2
  MaxUpdates = 3
  Symbol = {"s"}
  Tracker = {k1, k2}
  HoursPerDay = 2
  LastHour = 2
  SnapshotLimit = 2
  LegacyFiles <- MCLegacyFiles
  MaxTracks = 2
  MaxImports = 1
  Instance = {"old", "new1", "new2"}
  ReleaseOf <- MCReleaseOf
  LastRelease = 3
  Repeatable = {1, 2}
  MaxDeaths = 2
  Ticker = {"A", "B"}
  Rule <- MCRule
  Quote = {1, 2, 3}
  History <- MCHistory
  MinBars = 3
  MaxDates = 4
  IndexNames <- MCIndexNames
  PackageList <- MCPackageList
  FallbackList <- MCFallbackList
  SaneSize <- MCSaneSize
  Volume <- MCVolume
  Watched = {"b", "w"}
  IndexCap = 2
  ScreenAbove = 1
  FilterTop = 1
  TopChoices = {0, 1}
  CacheDays = 2
  MaxCollections = 2
  LastDay = 3
  Sessions <- MCSessions
  Unknown = Unknown
  FirstInstant = 4
  LastInstant = 10
  Horizon = 1
  MaxBars = 1
  MaxProjections = 1
INVARIANTS
  QueueTypeOK
  LeaseMatchesClaim
  ComponentsTypeOK
  NoOrphanToken
  LimitPerWindow
  WindowWithinBudget
  OkMeansServed
  MarkerMeansDelivered
  HostedKeepsApart
  SchemaIsWhole
  HostedAgreesWithFile
  RsiFollowsPrices
  WatchedAreFetched
  VerifiedSamplesAreFair
  ResetOnce
  LatestIsNewest
PROPERTIES
  ImportKeepsSnapshots
  LateReportSparesOthers
  SettledIsFinal
  OnlyOwnerEndsLease
  WebhookKept
  ImplementsIndex
  PasswordEndsSessions
  ImplementsUpdates
CHECK_DEADLOCK FALSE
