SPECIFICATION FairSpec
CONSTANTS
  N = 3
  Network = Network
  Nobody = Nobody
  MaxOps = 1
INVARIANTS
  MutualExclusion
  MutexesAccountedFor
PROPERTIES
  ImplementsReaderWriterLock
  WaitingCoreIsWoken
