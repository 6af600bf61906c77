SPECIFICATION LoopSpec
CONSTANTS
  Papers = {q1, q2}
  RangeEnd = 3
  Lookahead = 2
  MaxMisses = 3
INVARIANT CoveredIsExecuted
CHECK_DEADLOCK FALSE
