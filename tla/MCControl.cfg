SPECIFICATION FairSpec
CONSTANTS
  t1 = t1
  t2 = t2
  t3 = t3
  Threads = {t1, t2, t3}
  NoThread = NoThread
  Created = {t1, t2}
  Programs <- MCPrograms
  JoinsEarly = FALSE
  RescheduleCost = 0
  Mutexes = {m}
  NoMutex = NoMutex
  Conds = {c}
  BarrierCount = 2
  Futexes = {f, g}
  Delays <- MCDelays
  BarrierInterval = 2
  Durations <- MCDurations
  LastLeaves = FALSE
INVARIANTS
  TypeOK
  MutualExclusion
  StalledThreadsWaitOnce
  NoLostWakeup
  
  TimeAdvances
PROPERTIES
  BarrierWaitsForAll
  SleeperWakes
  ImplementsMonitor
CHECK_DEADLOCK FALSE
