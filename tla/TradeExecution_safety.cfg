SPECIFICATION Spec
CONSTANTS
  MaxCommands = 3
  MaxBars = 3
  MaxFaults = 1
  Bars <- MainBars
  Delays = {0, 1}
  EntrySize = 2
  AddSize = 1
  EntryLimit = 5
  AddLimit = 6
  EntryStop = 2
  AddStop = 3
  StopLevels = {4, 7}
  TargetPrice = 8
  Ttl = 1
INVARIANT TypeOK
INVARIANT BookAgrees
INVARIANT ProtectionActs
INVARIANT AcceptedWaits
INVARIANT ReservedIsOpen
INVARIANT IncreaseIsCovered
INVARIANT OneOpenIncrease
INVARIANT NeverOversold
PROPERTY OutcomesAreFinal
PROPERTY AddsStopAtReduction
