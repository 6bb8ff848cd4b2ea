SPECIFICATION Spec
CONSTANTS
  L1a = L1a
  L1b = L1b
  L2a = L2a
  L2b = L2b
  L3 = L3
  Caches = {L1a, L1b, L2a, L2b, L3}
  Memory = Memory
  NextLevel <- Private
  Stack <- PrivateStack
  Ways <- OneWay
  Prefetchers = {L2a}
  Addrs = {x, y}
  NoAddr = NoAddr
  NoCache = NoCache
INVARIANT OnlyWritableCopy
