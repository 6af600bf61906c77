SPECIFICATION LaunchSpec
CONSTANTS
  c1 = c1
  v1 = v1
  Calls = {c1}
  MaxProcs = 1
  MaxLives = 2
  MaxAttempts = 1
  Versions = {v1}
INVARIANT WaitsWithoutPid
CHECK_DEADLOCK FALSE
