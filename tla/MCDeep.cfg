CONSTANTS
  WordMod = 32
  StackBlock = 2
  Fresh = 7
  HeapSize = 2
  StatSize = 1
  TempSize = 1
  MaxSp = 120
  BitAnd <- MCBitAnd
  BitOr <- MCBitOr
  InputNums = {}
  InputChars = {}
  InputLines = {}
  Idents <- MCIdents
  Programs <- MCPrograms
SPECIFICATION MCSpec
PROPERTIES ReturnReadsFrameAtLcl
CHECK_DEADLOCK FALSE
