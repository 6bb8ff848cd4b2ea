SPECIFICATION Spec
CONSTANTS
  Associativity = 4
  Tags = {t1,t2,t3,t4,t5}
  NoTag = NoTag
  MaxPending = 3
INVARIANTS
  AgesDiffer
  VictimIsReplaceable
PROPERTIES
  ImplementsLRU
