SPECIFICATION EngineSpec
CONSTANTS
  Parts = {"prices"}
  TradingDays <- MCDays
  Strategies <- MCStrategies
  Marks = {0, 3}
  Intrinsics = {0, 2}
  Capital = 100
  MULT = 1
  OpenFee = 2
  SellFee = 1
  ClearFee = 1
  AssignFee = 5
  Slip = 1
  Strike = 50
  Sizes = {1, 2}
  MaxActive = 2
  MaxNew = 2
  LimitPct = 25
  Underlyings = {"SPY", "TSLA"}
  StoreDays = {1, 2, 3}
  CsvDays = {3}
  CacheSize = 1
  Resync = FALSE
  MaxRuns = 3
  Listed <- MCListed
  Spot = 6
  LegLists <- MCLegLists
  Sizings <- MCSizings
  NetLiqs = {20}
  Closes = {1, 2, 4}
  Days = 5
  Periods = {1, 2, 3}
  LeastSeen = 2
  Rules <- MCRules
  Params <- MCParams
  LegTenors <- MCTenors
  Put = Put
  NoValue = NoValue
  Texts = {Put}
  BaseFile <- MCBase
  NameAt <- MCNameAt
  Sweeps <- MCAxes
  Uncompilable <- MCUncompilable
  Failing <- MCFailing
  Jobs = 3
  GridLimit = 8
  RangeCap = 9
INVARIANTS
  PricesAreOwn
CHECK_DEADLOCK FALSE
