SPECIFICATION Spec
CONSTANTS
  h = h
  n1 = n1
  n2 = n2
  n3 = n3
  c1 = c1
  c2 = c2
  c3 = c3
  a1 = a1
  a2 = a2
  a3 = a3
  NoAddr = NoAddr
  NoNode = NoNode
  Uninit = Uninit
  Variant = "mesi"
  Nodes = {h,n1,n2,n3}
  Cores = {c1,c2,c3}
  LLC <- Private3
  Addrs = {a1}
  Home <- OneBlock
  Ways = 1
  DirAssoc = 1
  MaxHwSharers = 3
  MaxOps = 2
  NumVersions = 1
INVARIANTS
  RepliesCarryData
