CONSTANTS
  WordMod = 64
  StackBlock = 2
  Fresh = 7
  HeapSize = 2
  StatSize = 1
  TempSize = 1
  MaxSp = 60
  BitAnd <- MCBitAnd
  BitOr <- MCBitOr
  InputNums = {}
  InputChars = {}
  InputLines = {}
  Idents <- MCIdents
  Programs <- MCPrograms
SPECIFICATION MCSpec
PROPERTIES CallTakesOwnArguments
CHECK_DEADLOCK FALSE
