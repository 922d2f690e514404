CONSTANTS
  WordMod = 64
  StackBlock = 2
  Fresh = 7
  HeapSize = 2
  StatSize = 1
  TempSize = 1
  MaxSp = 56
  BitAnd <- MCBitAnd
  BitOr <- MCBitOr
  InputNums <- MCInputNums
  InputChars <- MCInputChars
  InputLines <- MCInputLines
  Idents <- MCIdents
  Programs <- MCPrograms
SPECIFICATION MCSpec
INVARIANTS TypeOK StackBacked FramesIntact CallerUntouched StartupBelow NoWildReturn BalancedHalt
PROPERTIES ReturnRestoresCaller FailedStepKeepsStack PointersStayAddresses ImplementsFrames
CHECK_DEADLOCK FALSE
