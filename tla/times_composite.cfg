CONSTANTS
  TICK = 1
  FACTOR = 1000
  MaxLost = 0
  Timers <- MCTimers
  Steps <- MCDocumentedSteps
  ClockMax = 5000000
  MFACTOR = 2
  Targets = {1}
  Sizes = {0, 1}
  MaxTokens = 1
  UNIT_DIVIDER = 2
  Cycles = {1}
  MaxUses = 1
SPECIFICATION Spec
INVARIANT ComponentsAreDocumented
CHECK_DEADLOCK FALSE
