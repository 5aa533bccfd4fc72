CONSTANTS
  MaxPieces = 4
  MaxCalls = 1
  Alphabets <- MCTextsAndNumbers
  Sources <- MCSources
  IdStart <- MCIdStart
  IdContinue <- MCIdContinue
  Whitespace <- MCWhitespace
  Keywords <- MCKeywords
SPECIFICATION Spec
INVARIANTS
  TypeOK
  LocationsAgree
  SpansFollowTokens
  ColumnsCountFromLineBreaks
  GapsAreTrivia
  StringEndsAtFirstStop
  LiteralErrorIsMalformed
  NumericIsLongest
PROPERTIES
  TokenStreamSpec
  CallsReturn
CHECK_DEADLOCK FALSE
