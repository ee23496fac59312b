CONSTANTS
  Names <- SomeNames
  Numbers = {"7"}
  Texts = {"s"}
  Writers <- MCWriters
  Expressions <- MCExpressions
  Heads <- MCHeads
  Strays <- MCStrays
  MaxWritten <- MCMaxWritten
  MaxMistakes <- MCMaxMistakes
  Sources <- MCSources
  Letters <- MCLetters
  Lower <- MCLower
  Digits <- MCDigits
  Keywords <- MCKeywords
  Follow <- MCFollow
  GreatestInt = 99
  GreatestExponent = 9

SPECIFICATION ReadSpec

INVARIANT LexesWhatIsWritten
INVARIANT ReadsWhatIsWritten
INVARIANT RefusesWhereItStops
INVARIANT NothingIsLost

CHECK_DEADLOCK FALSE
