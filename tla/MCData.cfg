SPECIFICATION Spec
CONSTANTS
  pair1 = pair1
  pair2 = pair2
  value1 = value1
  value2 = value2
  source1 = source1
  source2 = source2
  Pairs = {pair1, pair2}
  Traded = {pair1}
  Nothing = Nothing
  FeedPage = 1
  MaxFeed = 3
  MaxTroubles = 1
  Values = {value1, value2}
  CandleSources = {source1, source2}
  Nobody = Nobody
  LastMinute = 2
  RecentBars = 1
  MaxSeen = 3
  MaxCrashes = 1
  LastOpen = 2
  Rechecks = 1
  ClosedOpens = {2}
  MaxLaneStarts = 2
  StreamPairs = {pair1, pair2}
  Capacity = 1
  BufferMax = 1
  NoWork = NoWork
  MaxBars = 2
  MaxEpochs = 2
  MaxUpsets = 1
  Parts = {"feed", "candle", "gap", "stream"}
INVARIANT DataTypes
INVARIANT OneVersionPlayed
INVARIANT ResolvedIsProved
INVARIANT ReadyIsComplete
PROPERTY FeedIsCopied
PROPERTY FreshAnswerWins
CHECK_DEADLOCK FALSE
