CONSTANTS
  WordMod = 512
  StackBlock = 2
  Fresh = 7
  HeapSize = 4
  StatSize = 1
  TempSize = 1
  MaxSp = 48
  UintMod = 1000
  BitAnd <- MCBitAnd
  BitOr <- MCBitOr
  InputNums <- MCNums
  InputChars <- MCChars
  InputLines <- MCLines
  Inputs <- MCInputs
  Idents <- MCIdents
  Programs <- MCPrograms
SPECIFICATION MCCSpec
INVARIANTS OutputInOrder EndsOnNewLine EchoesInput
PROPERTIES InvalidLineReported CallsReturn ImplementsExec
CHECK_DEADLOCK FALSE
