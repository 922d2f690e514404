SPECIFICATION Spec
CONSTANTS
  WordMod = 3
  Idents <- MCIdents
  InstBlock = 1
  MaxTokens = 3
  Texts <- MCTexts
INVARIANT OkMeansValid
CHECK_DEADLOCK FALSE
