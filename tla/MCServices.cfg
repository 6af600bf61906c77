SPECIFICATION Spec
CONSTANTS
  q1 = q1
  q2 = q2
  t1 = t1
  t2 = t2
  Papers = {q1, q2}
  RangeEnd = 4
  Lookahead = 3
  MaxMisses = 1
  Assignments = 2
  LiveBars = 3
  Depth = 2
  CatchUp = 1
  MaxFaults = 2
  Lanes = 2
  BudgetRanges = {q1, q2}
  RequestLimit = 2
  Guarantee <- HalfEach
  QuotaWindow = 2
  DemandWindow = 1
  MaxTicks = 5
  MaxPauses = 1
  MessageEvents = 3
  QueueSize = 2
  MaxAttempts = 2
  MaxSetbacks = 4
  Desks = {q1, q2}
  Family <- SameForAll
  InitialBalance = 16
  PortfolioPct = 50
  MaxQty = 2
  Fee = 0
  Slip = 2
  Margin = 5
  MaxDeviation = 100
  MinRiskPct = 10
  MinRiskCost = 0
  TargetR = 3
  AllowedSides = {"BUY", "SELL"}
  Quotes = {5, 6}
  Distances = {2}
  MaxSignals = 1
  SessionWindows <- TwoDays
  AllowedSessions = {"morning", "main"}
  KnownDays = {0, 1}
  DayLength = 10
  MergeGap = 1
  NoEntryBefore = 2
  FlattenBefore = 1
  LookbackDays = 14
  KeepIfEven = TRUE
  LastMinute = 16
  Tick = 2
  ProfileNames = {"atr_trend", "levels_rr", "ma_cloud", "pattern_targets"}
  Ratios <- TwoTargets
  Shares <- HalfOrQuarter
  SignalPrice = 100
  Structures = {3, 9}
  Formations = {13, 20}
  Atrs = {3, 5}
  Ranges = {4, 20}
  MinStopAtr = 1
  MinStopTicks = 2
  BeyondBar = 1
  MaxStopAtr = 3
  BufferTicks = 1
  StopAtr = 2
  TrailAtr = 2
  AdvanceR = 50
  MinEvenR = 150
  AddPercent = 50
  MaxAdds = 1
  EntryFee = 1
  ExitFee = 1
  Lots = {1, 2, 4}
  Candles <- SomeCandles
  MaxCandles = 4
  TickMarkets <- FiveMarkets
  Grids <- ThreeGrids
  TickStart = 4
  TickEnd = 14
  Tolerance = 2
  TickLookahead = 7
  MaxTrouble = 2
  PatternPairs = {t1}
  Shapes <- FiveShapes
  WarmBars = 2
  PatternQueue = 2
  MaxPatternFaults = 2
  Parts = {"loop", "live", "budget", "telegram", "admission", "session", "profile", "ticks", "patterns"}
SYMMETRY Symmetry
INVARIANT ServiceTypes
INVARIANT OnceAndAll
INVARIANT LimitsKept
INVARIANT BudgetKept
PROPERTY PromisesHold
CHECK_DEADLOCK FALSE
