CONSTANTS
  MaxPieces = 2
  MaxCalls = 2
  Alphabets <- MCTexts
  Sources <- MCSources
  IdStart <- MCIdStart
  IdContinue <- MCIdContinue
  Whitespace <- MCWhitespace
  Keywords <- MCKeywords
SPECIFICATION ReuseSpec
INVARIANT GapsAreTrivia
CHECK_DEADLOCK FALSE
