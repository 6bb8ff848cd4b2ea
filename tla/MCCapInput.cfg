CONSTANTS
  SwizzleSwitchY = 4
  Bits <- MCBits
  Junk = 99
  NumLines = 4
  StoreSize = 2
  ZeroCode = {0, 1}
  Programs <- MCFewPrograms
  Inputs <- MCFewInputs
SPECIFICATION Spec
INVARIANT InputInOrder
