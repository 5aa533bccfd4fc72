CONSTANTS
  TICK = 6
  FACTOR = 4
  MaxLost = 1
  Timers <- MCTimers
  Steps <- MCSteps
  ClockMax = 1800
  MFACTOR = 2
  Targets = {1, 8}
  Sizes = {0, 1, 2, 3, 4, 15, 16, 33}
  MaxTokens = 2
  UNIT_DIVIDER = 2
  Cycles = {1, 4}
  MaxUses = 2
SPECIFICATION Spec
INVARIANTS
  TypeOK
  ShownTimesAddUp
  StartSurvivesTimeIt
  ViewsStayAlive
  FailureIsSaid
  TotalIsSaidLast
  EveryTokenIsLogged
  SizeIsShownInItsUnit
PROPERTIES
  AverageIsOverAllCalls
  ProgramEnds
CHECK_DEADLOCK FALSE
