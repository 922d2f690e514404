SPECIFICATION Spec
CONSTANTS
  Chars <- MCChars
  Keywords <- MCKeywords
  Letters <- MCLetters
  Digits <- MCDigits
  DigitValue <- MCDigitValue
  Newline <- MCNewline
  Slash <- MCSlash
  Blanks <- MCBlanks
  MaxDigits = 2
  MaxUint = 10
  MaxIdent = 2
  BlockSize = 4
  TokenBlock = 1
  MaxFile = 4
  Files <- MCFiles
INVARIANT CommentStaysOnLine
CHECK_DEADLOCK FALSE
