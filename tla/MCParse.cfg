SPECIFICATION Spec
CONSTANTS
  WordMod = 3
  Idents <- MCIdents
  InstBlock = 1
  MaxTokens = 5
  Texts <- MCTexts
INVARIANTS TypeOK ParsedFaithfully ErrorAtFault
PROPERTIES ValidTextParsed
CHECK_DEADLOCK FALSE
