SPECIFICATION Spec
CONSTANTS
  h = h
  n1 = n1
  n2 = n2
  n3 = n3
  c1 = c1
  c2 = c2
  c3 = c3
  a1 = a1
  a2 = a2
  a3 = a3
  NoAddr = NoAddr
  NoNode = NoNode
  Uninit = Uninit
  Variant = "mesi"
  Nodes = {h,n1,n2}
  Cores = {c1,c2}
  LLC <- Private2
  Addrs = {a1,a2,a3}
  Home <- ThreeBlocks
  Ways = 1
  DirAssoc = 2
  MaxHwSharers = 2
  MaxOps = 2
  NumVersions = 1
INVARIANTS
  TypeOK
  AnswersAreExpected
  RepliesAreExpected
  ReplacedEntryIsNullified
  SharersAccountedFor
SYMMETRY Symmetry
