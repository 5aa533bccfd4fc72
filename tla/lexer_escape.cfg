CONSTANTS
  MaxPieces = 3
  MaxCalls = 0
  Alphabets <- MCTexts
  Sources <- MCSources
  IdStart <- MCIdStart
  IdContinue <- MCIdContinue
  Whitespace <- MCWhitespace
  Keywords <- MCKeywords
SPECIFICATION Spec
INVARIANT EveryLiteralErrorIsMalformed
CHECK_DEADLOCK FALSE
