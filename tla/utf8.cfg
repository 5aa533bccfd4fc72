CONSTANTS
  MaxBytes = 4
  Buffers <- MCBuffers
SPECIFICATION Spec
INVARIANTS
  TypeOK
  DecodesExactlyTheWellFormed
  SwallowsOnlyContinuations
  FlagIsValidity
  ClassesAreTheirTables
  ClassesNest
  BytesSurviveTheCasts
PROPERTY ReachesTheEnd
CHECK_DEADLOCK FALSE
