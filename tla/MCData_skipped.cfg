SPECIFICATION Spec
CONSTANTS
  pair1 = pair1
  pair2 = pair2
  value1 = value1
  value2 = value2
  source1 = source1
  source2 = source2
  Pairs = {pair1, pair2}
  Traded = {pair1}
  Nothing = Nothing
  FeedPage = 1
  MaxFeed = 1
  MaxTroubles = 0
  Values = {value1, value2}
  CandleSources = {source1}
  Nobody = Nobody
  LastMinute = 1
  RecentBars = 1
  MaxSeen = 1
  MaxCrashes = 0
  LastOpen = 3
  Rechecks = 1
  ClosedOpens = {2}
  MaxLaneStarts = 1
  StreamPairs = {pair1, pair2}
  Capacity = 1
  BufferMax = 1
  NoWork = NoWork
  MaxBars = 2
  MaxEpochs = 2
  MaxUpsets = 1
  Parts = {"gap"}
PROPERTY NoMinuteIsSkipped
CHECK_DEADLOCK FALSE
