CONSTANTS
  NOTHING = NOTHING
  \* TriggerMonitor
  Watched   = {w1, w2}
  TickerOf <- TickerOfOrder
  Cooldown  = 1
  Faults    = 1
  \* SignalEngine
  Assets = {a1}
  Loops  = {l1, l2}
  Quotes = {10, 11}
  BarClose     = 1
  MaterialMove = 1
  ForceRefresh = 1
  DailyCap     = 1
  LastTime     = 1
  LastMandate  = 1
  \* GrillDrafts
  Pages    = {g1, g2}
  Ideas    = {i1}
  astro    = astro
  chart    = chart
  Analysts = {astro, chart}
  DefaultTeam <- OneAnalyst
  MaxTeam  = 2
  DraftLife     = 1
  LastDraftTime = 1
  MaxAnalyses   = 2
  FAILED  = FAILED
  CREATED = CREATED
  \* WithdrawPage
  Accounts     = {c1, c2}
  Destinations = {d1}
  MaxAmount = 1
  Fee       = 1
  Rent      = 1
  MaxSends  = 1
  \* WalletSales
  Holdings = {twin1}
  Size    <- SizeOf
  Dust     = 1
  Closers  = {s1, s2}
  MaxSales = 2
  ALL      = ALL
  \* GrillCalendars
  Anchors <- AnchorDates
  LastDays = 800
  \* GrillBacktests
  Prices  = {1, 2}
  MaxBars = 5
  ShortWindow = 2
  MidWindow   = 2
  LongWindow  = 3
  RsiPeriod   = 2
  FastSpan    = 1
  SlowSpan    = 3
  SignalSpan  = 3
  Lookback    = 3
  TestWindow  = 3
  TurnDays    = 1
  MonthBars   = 2
  YearMonths  = 3
  WinterMonths = {1, 3}
  BestMonths  = 1
  VolFloor    = 1
  Step        = 2
  \* AgentPages
  MaxJobs     = 2
  MaxRestarts = 1
  \* PositionPage
  Tabs       = {t1, t2}
  LegPrices <- PricesOfLeg
  \* NotificationTab
  TabOrders = {o1, o2}
  MaxWire   = 1
  \* PriceHistory
  BarReaders = {r1, r2}
  BarAssets  = {a, b}
  WindowSpan = 3
  CacheTtl   = 1
  StaleTtl   = 2
  RateLimitCooldown = 2
  RequestSpacing    = 1
  MaxAttempts   = 2
  MaxRetryAfter = 1
  LastBarTick   = 3
  \* ProposalTerms
  CashAmounts  = {0, 4996, 60000}
  AssetAmounts = {0, 20000}
  MarketAnalyses <- SomeAnalyses
  Drawdowns      <- SomeDrawdowns
  TradeLimits  = {0, 10000}
  BalanceTtl      = 2
  LastBalanceTick = 2
  \* TriggerQuotes
  SyntheticOrders <- SomeOrders
  Marks         = {994, 995, 1000, 1005, 1006}
  WalletAmounts = {0, 7, 20, 5000}
  Token  = 10
  Spread = 5
  \* PortfolioWeights
  SizedNames = 3
  Vols    = {0, 1, 8}
  Scores  = {1, 4}
  CapUnit = 20
  WideCap   = 9
  NarrowCap = 7
  \* DevTools
  Operators   = {p1, p2}
  MaxMade     = 2
  DevLife     = 1
  LastDevTime = 2
  \* SessionGate
  Visitors    = {v1}
  FORMER      = FORMER
  MaxFailures = 2
  MaxAsks     = 2
  \* Thesis
  Levels       = {1, 2, 3}
  Rsis         = {29, 30, 50, 70, 71}
  BarCounts    = {19, 20, 49, 50}
  FullWindow   = 50
  ThinWindow   = 20
  \* DevSwap
  TestOrders = {x1}
  Tests      = {u1, u2}
SPECIFICATION ComponentsSpec
CHECK_DEADLOCK FALSE
INVARIANT ComponentsTypeOK
INVARIANT ClaimIsAccountedFor
INVARIANT EditExpiresOldProposals
INVARIANT AnalysisBuysOnce
INVARIANT LandsAsReviewed
INVARIANT SaleIsScoped
 
INVARIANT OneJobAtATime
INVARIANT ExitsStayArmed
INVARIANT ToastsTellTheOrder
INVARIANT HistoryIsPacedAndCurrent
INVARIANT ExitsBracketTheTrigger
INVARIANT BandCoversExecutableQuotes
INVARIANT CapIsKept
INVARIANT SecondProposalOverlapped
INVARIANT NoRedirectLoop
INVARIANT SellHasCause
INVARIANT TestTellsTheClaim
PROPERTY CyclesAdvance
