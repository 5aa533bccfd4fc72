CONSTANTS
  t1 = t1
  t2 = t2
  i1 = i1
  i2 = i2
  a = a
  b = b
  Threads <- MCThreads
  Inodes <- MCInodes
  Blocks <- MCBlocks
  MaxBlocks = 2
  MaxCalls = 1
  MaxChanges = 2
SPECIFICATION Spec
INVARIANTS
  TypeOK
  QuietCallsAreExact
  NeverHalfFilled
PROPERTIES
  CallsEnd
CHECK_DEADLOCK FALSE
