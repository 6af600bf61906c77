SPECIFICATION SideSpec
CONSTANTS
  v1 = v1
  Keys = {k1, k2}
  MaxGeneration = 3
  Faults = {"contour", "core", "tick read"}
  OrphanLaunch = FALSE
  LiveGuard = FALSE
  Setups <- FourSetups
  LateBy = 2
  FirstMinute = 3
  ClockEnd = 7
  EvidenceSpan = 2
  EvidenceRetry <- OneThenTwo
  RecheckAfter <- OneThenTwo
  RescanAfter = 2
  FailurePause = 1
  PublicationDelay = 0
  WarmupSpans <- TwoThenFour
  GridSlack = 1
  ChunkMinutes = 2
  BackfillSpan = 2
  RoundAttempts = 2
  RoundSpan = 3
  RecoveryPause = 2
  DutyBars = {2}
  MaxMishaps = 1
  MaxTurns = 1
  Calls = {c1, c2}
  MaxProcs = 2
  MaxLives = 2
  MaxAttempts = 1
  Versions = {v1, v2}
  Starters = {s1, s2, s3, s4}
  MaxTries = 3
  Parts = {"contour", "coverage", "launch", "lock"}
SYMMETRY Symmetry
INVARIANT SideTypes
INVARIANT StoppedIsFlat
INVARIANT HeldInCycle
INVARIANT OneStopOrder
INVARIANT PairComesComplete
INVARIANT OneLaunch
INVARIANT AppliedAsExpected
PROPERTY EntryNeedsGoal
PROPERTY HolderKeeps
