SPECIFICATION Spec
CONSTANTS
  Chars <- MCChars
  Keywords <- MCKeywords
  Letters <- MCLetters
  Digits <- MCDigits
  DigitValue <- MCDigitValue
  Newline <- MCNewline
  Slash <- MCSlash
  Blanks <- MCBlanks
  MaxDigits = 2
  MaxUint = 10
  MaxIdent = 2
  BlockSize = 4
  TokenBlock = 1
  MaxFile = 6
  Files <- MCFiles
INVARIANTS TypeOK CommentsEnd
PROPERTIES ImplementsTextScan ShortRunsEnd
CHECK_DEADLOCK FALSE
