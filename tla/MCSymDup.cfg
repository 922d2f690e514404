SPECIFICATION MCSpec
CONSTANTS
  Keys = {k1, k2, k3, k4, k5, k6}
  Vals = {a, b}
  Block = 4
  HashBits = 2
  Hashes <- MCHashes
  MaxLen = 13
  MaxUsed = 6
INVARIANT OneCellPerKey
SYMMETRY MCSymmetry
CHECK_DEADLOCK FALSE
