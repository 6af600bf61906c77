SPECIFICATION Spec
CONSTANTS
  MaxCommands = 3
  MaxBars = 3
  MaxFaults = 0
  Bars <- MainBars
  Delays = {0, 1}
  EntrySize = 2
  AddSize = 1
  EntryLimit = 5
  AddLimit = 6
  EntryStop = 2
  AddStop = 3
  StopLevels = {4}
  TargetPrice = 8
  Ttl = 1
INVARIANT ExecutionsApply
