SPECIFICATION InputSpec
CONSTANTS
  Letters <- MCLetters
  Bytes <- MCBytes
  MaxShort = 3
  MaxLong = 25
  Tokens <- MCTokens
  LastTokens <- MCLastTokens
  MaxTokens = 5
  Afters <- MCAfters
INVARIANTS
  TextKeepsTheBytes
  ScriptsPayByTheirTokens
PROPERTY
  TypingOnKeepsTheCommand
CHECK_DEADLOCK FALSE
