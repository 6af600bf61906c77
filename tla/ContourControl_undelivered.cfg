SPECIFICATION FairSpec
CONSTANTS
  k1 = k1
  Keys = {k1}
  MaxGeneration = 2
  Faults = {}
  OrphanLaunch = FALSE
  LiveGuard = TRUE
PROPERTY CloseAllCloses
CHECK_DEADLOCK FALSE
