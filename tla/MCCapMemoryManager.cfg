CONSTANTS
  SwizzleSwitchY = 4
  Bits <- MCBits
  Junk = 99
  NumLines = 4
  StoreSize = 2
  ZeroCode = {0, 1}
  Programs <- MCPrograms
  Inputs <- MCInputs
SPECIFICATION Spec
INVARIANTS
  ProgramInPlace
  ShortInputInOrder
  NoCharacterTwice
  MaskIsReachable
PROPERTIES
  MatchesAreReal
  ProgrammedFirst
