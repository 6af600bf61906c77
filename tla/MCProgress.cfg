SPECIFICATION Spec
CONSTANTS
  DemandPairs = {p1}
  Contours = {c1}
  Unread = Unread
  MaxRestarts = 2
  Runs = {r1}
  MaxRuns = 1
  MaxStarts = 2
  Keys = {k1, k2}
  MaxGeneration = 3
  Faults = {"start read", "tick read"}
  OrphanLaunch = FALSE
  LiveGuard = TRUE
PROPERTY DutyIsServed
PROPERTY AskedIsBound
PROPERTY EndingsFinish
CHECK_DEADLOCK FALSE
