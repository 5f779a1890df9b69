SPECIFICATION MarketSpec
CONSTANTS
  Contracts <- MCContracts
  NewListings <- MCNewListings
  Windows <- MCWindows
  Delisting = FALSE
  DayLength = 2
  TtlTicks = 2
  MemTicks = 1
  KeepTicks = 3
  PAD_DAYS = 1
  PAD_STRIKE_MIN = 1
  PAD_STRIKE_MAX = 2
  MaxFlight = 1
  MaxTicks = 3
  MaxOut = 2
  Listings <- MCListings
  FutureExps <- MCFutureExps
  StrikeLo = 0
  StrikeHi = 6
  MAX_ROWS = 8
  NEAREST = 4
  Ladders <- MCLadders
  MIN_DTE_TOL = 1
  MIN_STRIKE_TOL = 1
  DeltaTol = 8
  DEFAULT_BUCKETS <- MCBuckets
  BandedBuckets = {2}
  Shapes <- MCShapes
  DTE_BANDS <- MCDteBands
  DELTA_BANDS <- MCDeltaBands
  OTM_BANDS <- MCOtmBands
  SUSPECT_JUMP = 40
  DTE_ANCHORS = {1, 2, 3}
  DELTA_ANCHORS <- MCDeltaAnchors
  OTM_ANCHORS <- MCOtmAnchors
  SCAN_DTE <- MCScanDte
  THIN_N = 1
  SOLID_N = 2
  ChainOf <- MCChainOf
  CloseOf <- MCCloseOf
  FormingOf <- MCFormingOf
  Backfills = FALSE
  LastDay = 5
  Reaches = {4}
  Cutoffs = {0, 4}
  Stretches <- MCStretches
  MaxArticles = 2
  MaxRevision = 2
  MaxFetched = 2
  SymbolsOf <- MCSymbolsOf
  NewsSymbols = {"A"}
  PAGE = 1
  LIVE = 1
  PAGE_LIMIT = 1
  SUPPLEMENT = {"/ES"}
  AssetLists <- MCAssetLists
  SyncThreads = {"refresh", "post"}
  Queries <- MCQueries
  RRF_K = 60
  Scale = 15249024
  LIMIT = 4
  QUOTA = 2
  PER_PAGE = 2
  MaxPage = 2
  HINT_SLACK = 0
  LastBarDay = 5
  BrokerFrom = 2
  CardLimit = 2
  Candles = {3, 5}
  KeepDays = 2
  Keeping = {TRUE, FALSE}
  Callers = {1, 2}
  Workers = 2
  CALL_TIMEOUT = 1
  BREAKER_THRESHOLD = 2
  BREAKER_COOLDOWN = 2
  MaxRounds = 2
  Grants = {"g1", "g2"}
  Kinds = {"data"}
  MaxAccount = 1
  QuoteRequests = {1}
  Keys <- MCKeys
  Users = {"u"}
  Enrolments = {1, 2}
INVARIANTS
  AnswerIsWhole
  TrialsAreSound
  ReadyIsCurrent
  ChartIsSound
  BacklogIsBounded
  QuoteIsHonest
  StoredKeyWasProven
PROPERTIES
  LikeWithLike
  PageIsFair
  NewsStaysReadable
  UniverseIsWhole
  NamesLead
CHECK_DEADLOCK FALSE
