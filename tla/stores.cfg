SPECIFICATION StoresSpec
CONSTANTS
  Syms = {"SPX", "BTC"}
  LastSession = 3
  Floor = 2
  MaxDeaths = 1
  LastDate = 3
  Weekend <- MCWeekend
  Contracts = {"c1", "c2"}
  Chains <- MCChains
  Files <- MCFiles
  Own = "SPY"
  Other = "QQQ"
  ReachDays = 2
  MaxSnapshots = 2
  MaxJobs = 2
  Wants = {"chain", "futures"}
  Interval = 1
  MaxJobId = 2
  FirstJobs <- MCFirstJobs
  MaxJobEdits = 2
  MaxCuts = 1
  NestedChains <- MCNested
  FuturePrices <- MCPrices
  FUTURE_CHAIN_MAX_DTE = 2
  FUTURE_CHAIN_NEAR_DTE = 1
  BandPercent = 15
  FUTURE_QUOTE_BATCH = 1
  Pulls <- MCPulls
  VaultFiles <- MCVault
  Saturdays = {2}
  CutOff = 3
  EngineFrom = 3
  EngineSyms = {"SPY"}
  LoadBatch = 3
  MinBand = 2
  Snapshots <- MCSnaps
  MaxLoads = 2
INVARIANTS
  HistoryUnbroken
  StoreIsTrue
PROPERTIES
  TakenUpIsLetGo
  EveryJobHasItsTurn
CHECK_DEADLOCK FALSE
