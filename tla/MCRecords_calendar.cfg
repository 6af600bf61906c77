SPECIFICATION RecordsSpec
CONSTANTS
  r1 = r1
  r2 = r2
  Runs = {r1, r2}
  MaxRuns = 1
  MaxStarts = 2
  q1 = q1
  q2 = q2
  CalPapers = {q1, q2}
  Plans <- ThreeDates
  DayHours = 6
  DateShift = 1
  Frames = {1, 2, 4}
  Publication = 1
  Horizon = 1
  RefreshAfter = 4
  RetryAfter = 1
  MaxAge = 4
  Snapshot <- SomeDates
  AllowRebuilt = TRUE
  Chunk = 2
  Known = {0, 8}
  CloseBefore = 1
  LastHour = 10
  MaxRevisions = 1
  MaxLost = 1
  Lives <- ThreeLives
  MaxRepeats = 1
  MaxSnags = 2
  Markets <- ThreeMarkets
  Batch = 2
  MaxLag = 1
  PreWindow = 1
  RangeWindow = 3
  StaleAfter = 1
  ClimaxWindow = 2
  InitiativeWindow = 3
  PreVeto = 2
  InitiativeMax = 1
  ExtremePct = 80
  EnforceLevel = "veto"
  LastTick = 3
  MaxBreaks = 2
  Catalogs <- EightCatalogs
  RollStart = 2
  RollEnd = 14
  LeadUnits = 2
  DateUnits = 8
  WarmUnits = 3
  MaxFaults = 1
  Requests <- SomeRequests
  LookAround = 6
  WarmBars = 1
  MaxLosses = 1
  Parts = {"calendar"}
INVARIANT ContourFollows
CHECK_DEADLOCK FALSE
