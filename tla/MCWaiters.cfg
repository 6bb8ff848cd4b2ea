SPECIFICATION FairSpec
CONSTANTS
  h = h
  n1 = n1
  n2 = n2
  n3 = n3
  c1 = c1
  c2 = c2
  c3 = c3
  a1 = a1
  a2 = a2
  a3 = a3
  NoAddr = NoAddr
  NoNode = NoNode
  Uninit = Uninit
  Variant = "mesi"
  Nodes = {n1,n2}
  Cores = {c1,c2,c3}
  LLC <- Shared3
  Addrs = {a1}
  Home <- OneBlockAtCache
  Ways = 1
  DirAssoc = 1
  MaxHwSharers = 2
  MaxOps = 2
  NumVersions = 3
INVARIANTS
  WokenCoreHits
  OneRequestPerBlock
  ReadsSeeLastWrite
PROPERTIES
  AccessesComplete
