---------------------- MODULE BarrierSyncServerProofs ----------------------
(***************************************************************************)
(* Proofs about BarrierSyncServer for any number of threads and any        *)
(* barrier interval: no wake-up is lost and, if a reschedule costs         *)
(* nothing, no thread makes a call past the barrier.  If no thread is      *)
(* joined before it starts, only running threads execute, and the barrier  *)
(* never moves under them.  For these what the servers queue plays no      *)
(* part: each call comes down to threads that it resumes and signals, and  *)
(* to its own stall.  Then the queues, under the same condition: a stalled *)
(* thread is in exactly one of them; who owns a simulated mutex; the       *)
(* types; that somebody is there to make time pass; and that the           *)
(* synchronisation server implements Monitor.                              *)
(***************************************************************************)
EXTENDS BarrierSyncServer, SequenceTheorems, FiniteSetTheorems, TLAPS

HostTypeOK ==
  /\ status \in [Threads -> Statuses]
  /\ waiter \in [Threads -> Threads \cup {NoThread}]
  /\ m_thread_lock \in Holds \cup {Free}
  /\ host \in [Threads -> HostStates]
  /\ on \in [Threads -> {"thread", "core"}]
  /\ m_futx \in [CVs -> 0..1]
  /\ clock \in [Threads -> Nat]
  /\ sync_time \in [Threads -> Nat]
  /\ m_next_barrier_time \in Nat
  /\ m_local_clock_list \in [Threads -> Nat]
  /\ m_barrier_acquire_list \in [Threads -> BOOLEAN]
  /\ m_next_sync_time \in [Threads -> Nat]

(* The holder of the lock does nothing else; it is in the middle of a stall,
   or its core is in the barrier, as its call says.                        *)
HolderServes ==
  /\ m_thread_lock # Free => host[m_thread_lock.by] = "serving"
  /\ m_thread_lock.at = "advance" => m_thread_lock.call = "stall"
  /\ m_thread_lock.at = "signal" => m_thread_lock.call # "sync"
  /\ m_thread_lock.call = "stall" => status[m_thread_lock.by] \in {"STALLED", "RUNNING"}
  /\ m_thread_lock.call = "sync" => m_barrier_acquire_list[m_thread_lock.by]

(* A core in the barrier: its host thread sleeps, or is about to with the
   word cleared, or is the one that releases the barrier.                  *)
InBarrier ==
  \A t \in Threads : m_barrier_acquire_list[t] =>
    /\ m_local_clock_list[t] = clock[t]
    /\ m_next_sync_time[t] = NextSync(clock[t])
    /\ \/ on[t] = "core" /\ host[t] = "asleep"
       \/ on[t] = "core" /\ host[t] = "releasing" /\ m_futx[<<t, on[t]>>] = 0
       \/ m_thread_lock = Held(t, "sync", "release")

(* Any other core was behind the barrier when it last entered it, and will
   look at it in time.                                                     *)
BehindBarrier ==
  \A t \in Threads : ~ m_barrier_acquire_list[t] =>
    /\ m_local_clock_list[t] < m_next_barrier_time
    /\ m_next_sync_time[t] <= m_next_barrier_time

Grid == \E k \in Nat : m_next_barrier_time = k * BarrierInterval

(* A thread has a host thread once it has started. *)
Started == \A t \in Threads : host[t] # "none" => status[t] \in {"RUNNING", "STALLED", "IDLE"}

SkewInv ==
  /\ HostTypeOK /\ HolderServes /\ InBarrier /\ BehindBarrier /\ Grid /\ Started
  /\ NoLostWakeup

(* Nobody joins a thread that has not started. *)
JoinsLater ==
  /\ ~ JoinsEarly
  /\ \A t \in Threads : status[t] \in {"ABSENT", "INITIALIZING"} => waiter[t] = NoThread

(* Whoever is woken, will not sleep, or was in the barrier, runs. *)
AwakeRuns ==
  \A t \in Threads :
    \/ host[t] \in {"app", "waking"}
    \/ host[t] = "releasing" /\ m_futx[<<t, on[t]>>] = 1
    \/ host[t] \in {"releasing", "asleep"} /\ on[t] = "core"
    \/ m_thread_lock # Free /\ m_thread_lock.by = t /\ m_thread_lock.call = "sync"
    => status[t] = "RUNNING"

(* While the barrier is released nobody executes. *)
NobodyOvertakes == m_thread_lock.at = "release" => \A t \in Threads : host[t] # "app"

RunInv == SkewInv /\ JoinsLater /\ AwakeRuns /\ NobodyOvertakes

-----------------------------------------------------------------------------
(* What a call comes down to.  One that returns at once may move the clock of
   its core on, by the cost of a reschedule.                               *)
Calls(t) ==
  /\ t \in Threads /\ host[t] = "app" /\ m_thread_lock = Free
  /\ UNCHANGED barrierVars

Soon(t) == clock[t]..(clock[t] + RescheduleCost)

CallProceeds(t, ts) ==
  /\ Calls(t) /\ UNCHANGED waiter
  /\ \E time, now \in Soon(t) :
       Proceed(t, ts, time) /\ clock' = [clock EXCEPT ![t] = now]

WaiterAdded ==
  \E t, u \in Threads :
    /\ status[u] \in {"INITIALIZING", "RUNNING", "STALLED"}
    /\ status[u] = "INITIALIZING" => JoinsEarly
    /\ waiter' = [waiter EXCEPT ![u] = t]

CallStalls(t, reason, ts, call) ==
  /\ Calls(t) /\ call \in {"stall", "block"}
  /\ Stall(t, reason, ts, call)
  /\ UNCHANGED clock
  /\ UNCHANGED waiter \/ WaiterAdded

CallExits(t, ts) ==
  Calls(t) /\ \E woken : \E cost \in RescheduleCosts : Exit(t, ts, woken, cost)

LEMMA LockFacts ==
  ASSUME HostTypeOK
  PROVE  /\ Free.by = NoThread /\ Free.call = "none" /\ Free.at = "none"
         /\ m_thread_lock # Free =>
              /\ m_thread_lock.by \in Threads
              /\ m_thread_lock.call \in {"stall", "block", "exit", "sync"}
              /\ m_thread_lock.at \in {"signal", "release", "advance"}
BY DEF HostTypeOK, Holds, Free

LEMMA HeldFacts ==
  ASSUME NEW t \in Threads, NEW call \in {"stall", "block", "exit", "sync"},
         NEW at \in {"signal", "release", "advance"}
  PROVE  /\ Held(t, call, at) \in Holds
         /\ Held(t, call, at) # Free
         /\ Held(t, call, at).by = t
         /\ Held(t, call, at).call = call
         /\ Held(t, call, at).at = at
BY ThreadsAssumption DEF Held, Holds, Free

(* The condition variables of some threads and of some cores. *)
CVsOf(ts, cs) == OfThreads(ts) \cup (cs \X {"core"})

LEMMA CVsOfFacts ==
  ASSUME NEW ts, NEW cs, NEW t \in Threads, NEW w \in {"thread", "core"}
  PROVE  /\ <<t, w>> \in CVs
         /\ <<t, w>> \in CVsOf(ts, cs) <=> (w = "thread" /\ t \in ts) \/ (w = "core" /\ t \in cs)
         /\ <<t, w>> \in OfThreads(ts) <=> w = "thread" /\ t \in ts
BY DEF CVsOf, OfThreads, CVs

LEMMA OnFacts ==
  ASSUME HostTypeOK, NEW t \in Threads
  PROVE  on[t] \in {"thread", "core"} /\ <<t, on[t]>> \in CVs
BY DEF HostTypeOK, CVs

\* Signals wake who sleeps on a condition variable among them, and nobody else.
LEMMA SignalledFacts ==
  ASSUME HostTypeOK, NEW cvs
  PROVE  /\ Signalled(cvs) \in [Threads -> HostStates]
         /\ \A u \in Threads :
              Signalled(cvs)[u] = IF host[u] = "asleep" /\ <<u, on[u]>> \in cvs
                                  THEN "waking" ELSE host[u]
BY DEF HostTypeOK, Signalled, HostStates

LEMMA SignalFacts ==
  ASSUME HostTypeOK, NEW cvs, Signal(cvs)
  PROVE  /\ m_futx' \in [CVs -> 0..1]
         /\ \A c \in CVs : m_futx'[c] = IF c \in cvs THEN 1 ELSE m_futx[c]
BY DEF HostTypeOK, Signal

LEMMA ResumedFacts ==
  ASSUME HostTypeOK, NEW ts
  PROVE  /\ Resumed(ts) \in [Threads -> Statuses]
         /\ \A u \in Threads : Resumed(ts)[u] = IF u \in ts THEN "RUNNING" ELSE status[u]
BY DEF HostTypeOK, Resumed, Statuses

LEMMA SyncTimesFacts ==
  ASSUME HostTypeOK, NEW ts, NEW time \in Nat
  PROVE  SyncTimes(ts, time) \in [Threads -> Nat]
BY DEF HostTypeOK, SyncTimes

LEMMA SoonFacts ==
  ASSUME HostTypeOK, NEW t \in Threads, NEW now \in Soon(t)
  PROVE  now \in Nat /\ now >= clock[t] /\ now <= clock[t] + RescheduleCost
BY RescheduleAssumption DEF HostTypeOK, Soon

\* A core idles until a time.
LEMMA SyncInstructionFacts ==
  ASSUME HostTypeOK, NEW t \in Threads, NEW time \in Nat, SyncInstruction(t, time)
  PROVE  /\ clock' \in [Threads -> Nat]
         /\ clock' = [clock EXCEPT ![t] = Later(clock[t], time)]
         /\ \A u \in Threads \ {t} : clock'[u] = clock[u]
<1>1. clock \in [Threads -> Nat] /\ Later(clock[t], time) \in Nat
  BY DEF HostTypeOK, Later
<1> QED
  BY <1>1 DEF SyncInstruction

LEMMA EndTimeFacts ==
  ASSUME HostTypeOK, NEW t \in Threads
  PROVE  EndTime(t) \in Nat
BY RescheduleAssumption DEF HostTypeOK, EndTime

\* A thread that executes, is about to, or holds the lock for another call, is
\* not in the barrier.
LEMMA AppIsOut ==
  ASSUME SkewInv, NEW t \in Threads
  PROVE  /\ host[t] \in {"none", "app", "waking", "resuming"} => ~ m_barrier_acquire_list[t]
         /\ m_thread_lock # Free /\ m_thread_lock.by = t /\ m_thread_lock.call # "sync"
              => ~ m_barrier_acquire_list[t]
<1> SUFFICES ASSUME m_barrier_acquire_list[t]
             PROVE  /\ host[t] \notin {"none", "app", "waking", "resuming"}
                    /\ ~ (/\ m_thread_lock # Free /\ m_thread_lock.by = t
                          /\ m_thread_lock.call # "sync")
  OBVIOUS
<1>1. m_thread_lock # Free => host[m_thread_lock.by] = "serving"
  BY DEF SkewInv, HolderServes
<1>2. CASE host[t] \in {"asleep", "releasing"}
  BY <1>1, <1>2
<1>3. CASE m_thread_lock = Held(t, "sync", "release")
  <2>1. m_thread_lock # Free /\ m_thread_lock.by = t /\ m_thread_lock.call = "sync"
    BY <1>3, HeldFacts
  <2> QED
    BY <1>1, <2>1
<1> QED
  BY <1>2, <1>3 DEF SkewInv, InBarrier

-----------------------------------------------------------------------------
LEMMA ProceedsStep ==
  ASSUME SkewInv, NEW t \in Threads, NEW ts, CallProceeds(t, ts)
  PROVE  SkewInv' /\ (RunInv => RunInv')
<1> USE DEF Calls, Proceed, barrierVars
<1> DEFINE cvs == OfThreads(ts)
<1>p. PICK time, now \in Soon(t) :
        Calls(t) /\ UNCHANGED waiter /\ Proceed(t, ts, time)
          /\ clock' = [clock EXCEPT ![t] = now]
  BY DEF CallProceeds
<1>0. HostTypeOK /\ m_thread_lock = Free /\ m_thread_lock' = Free /\ time \in Nat /\ now \in Nat
  BY <1>p, SoonFacts DEF SkewInv
<1>e. /\ clock' \in [Threads -> Nat]
      /\ \A u \in Threads : m_barrier_acquire_list[u] => clock'[u] = clock[u]
  BY <1>0, <1>p, AppIsOut DEF HostTypeOK
<1>a. \A u \in Threads :
        /\ on'[u] = on[u] /\ on[u] \in {"thread", "core"}
        /\ <<u, on[u]>> \in CVs
        /\ <<u, on[u]>> \in cvs <=> on[u] = "thread" /\ u \in ts
  BY <1>0, <1>p, OnFacts, CVsOfFacts
<1>b. /\ m_futx' \in [CVs -> 0..1]
      /\ \A c \in CVs : m_futx'[c] = IF c \in cvs THEN 1 ELSE m_futx[c]
  BY <1>0, <1>p, SignalFacts
<1>c. /\ host' \in [Threads -> HostStates]
      /\ \A u \in Threads :
           host'[u] = IF host[u] = "asleep" /\ <<u, on[u]>> \in cvs
                      THEN "waking" ELSE host[u]
  BY <1>0, <1>p, SignalledFacts
<1>d. /\ status' \in [Threads -> Statuses]
      /\ \A u \in Threads : status'[u] = IF u \in ts THEN "RUNNING" ELSE status[u]
  BY <1>0, <1>p, ResumedFacts
<1>1. HostTypeOK'
  BY <1>0, <1>p, <1>b, <1>c, <1>d, <1>e, SyncTimesFacts DEF HostTypeOK
<1> HIDE DEF cvs
<1>2. HolderServes'
  BY <1>0, LockFacts DEF HolderServes
<1>3. InBarrier'
  BY <1>0, <1>p, <1>a, <1>b, <1>c, <1>e DEF SkewInv, InBarrier, NextSync
<1>4. BehindBarrier' /\ Grid'
  BY <1>p DEF SkewInv, BehindBarrier, Grid
<1>5. Started'
  BY <1>0, <1>c, <1>d DEF SkewInv, Started
<1>6. NoLostWakeup'
  BY <1>0, <1>p, <1>a, <1>b, <1>c, <1>d DEF SkewInv, NoLostWakeup
<1>7. ASSUME RunInv PROVE JoinsLater' /\ AwakeRuns' /\ NobodyOvertakes'
  <2>1. JoinsLater'
    BY <1>0, <1>p, <1>7, <1>d DEF RunInv, JoinsLater
  <2>2. AwakeRuns'
    BY <1>0, <1>p, <1>7, <1>a, <1>b, <1>c, <1>d DEF RunInv, AwakeRuns
  <2>3. NobodyOvertakes'
    BY <1>0, <1>p, <1>7, LockFacts DEF RunInv, NobodyOvertakes
  <2> QED
    BY <2>1, <2>2, <2>3
<1> QED
  BY <1>1, <1>2, <1>3, <1>4, <1>5, <1>6, <1>7 DEF SkewInv, RunInv

LEMMA StallsStep ==
  ASSUME SkewInv, NEW t \in Threads, NEW reason, NEW ts, NEW call,
         CallStalls(t, reason, ts, call)
  PROVE  SkewInv' /\ (RunInv => RunInv')
<1> USE DEF CallStalls, Calls, Stall, barrierVars
<1> DEFINE cvs == OfThreads(ts)
<1>0. /\ HostTypeOK /\ m_thread_lock = Free /\ call \in {"stall", "block", "exit", "sync"}
      /\ m_thread_lock' = Held(t, call, "signal") /\ call # "sync"
  BY DEF SkewInv
<1>a. \A u \in Threads :
        /\ on'[u] = on[u] /\ on[u] \in {"thread", "core"}
        /\ <<u, on[u]>> \in CVs
        /\ <<u, on[u]>> \in cvs <=> on[u] = "thread" /\ u \in ts
  BY <1>0, OnFacts, CVsOfFacts
<1>b. /\ m_futx' \in [CVs -> 0..1]
      /\ \A c \in CVs : m_futx'[c] = IF c \in cvs THEN 1 ELSE m_futx[c]
  BY <1>0, SignalFacts
<1>c. /\ host' \in [Threads -> HostStates]
      /\ \A u \in Threads :
           host'[u] = IF u = t THEN "serving"
                      ELSE IF host[u] = "asleep" /\ <<u, on[u]>> \in cvs
                      THEN "waking" ELSE host[u]
  BY <1>0, SignalledFacts DEF HostStates
<1>d. /\ status' \in [Threads -> Statuses]
      /\ \A u \in Threads :
           status'[u] = IF u = t THEN "STALLED" ELSE IF u \in ts THEN "RUNNING" ELSE status[u]
  BY <1>0, ResumedFacts DEF Statuses
<1>1. HostTypeOK'
  <2>1. waiter' \in [Threads -> Threads \cup {NoThread}]
    BY <1>0 DEF HostTypeOK, WaiterAdded
  <2> QED
    BY <1>0, <1>b, <1>c, <1>d, <2>1, HeldFacts, SyncTimesFacts DEF HostTypeOK
<1> HIDE DEF cvs
<1>2. HolderServes'
  BY <1>0, <1>c, <1>d, HeldFacts DEF HolderServes
<1>3. InBarrier'
  BY <1>0, <1>a, <1>b, <1>c, HeldFacts DEF SkewInv, InBarrier, NextSync
<1>4. BehindBarrier' /\ Grid'
  BY DEF SkewInv, BehindBarrier, Grid
<1>5. Started'
  BY <1>0, <1>c, <1>d DEF SkewInv, Started
<1>6. NoLostWakeup'
  BY <1>0, <1>a, <1>b, <1>c, <1>d DEF SkewInv, NoLostWakeup
<1>7. ASSUME RunInv PROVE JoinsLater' /\ AwakeRuns' /\ NobodyOvertakes'
  <2>1. JoinsLater'
    <3>1. \A u \in Threads : status'[u] \in {"ABSENT", "INITIALIZING"} =>
            status[u] \in {"ABSENT", "INITIALIZING"} /\ waiter[u] = NoThread
      BY <1>7, <1>d DEF RunInv, JoinsLater
    <3>2. CASE UNCHANGED waiter
      BY <1>7, <3>1, <3>2 DEF RunInv, JoinsLater
    <3>3. CASE WaiterAdded
      BY <1>0, <1>7, <3>1, <3>3 DEF RunInv, JoinsLater, WaiterAdded, HostTypeOK
    <3> QED
      BY <3>2, <3>3
  <2>2. AwakeRuns'
    BY <1>0, <1>7, <1>a, <1>b, <1>c, <1>d, HeldFacts DEF RunInv, AwakeRuns
  <2>3. NobodyOvertakes'
    BY <1>0, <1>7, HeldFacts DEF RunInv, NobodyOvertakes
  <2> QED
    BY <2>1, <2>2, <2>3
<1> QED
  BY <1>1, <1>2, <1>3, <1>4, <1>5, <1>6, <1>7 DEF SkewInv, RunInv

LEMMA ExitsStep ==
  ASSUME SkewInv, NEW t \in Threads, NEW ts, CallExits(t, ts)
  PROVE  SkewInv' /\ (RunInv => RunInv')
<1> USE DEF Calls, Exit, barrierVars
<1> DEFINE cvs == OfThreads(ts)
<1>p. PICK woken, cost : cost \in RescheduleCosts /\ Calls(t) /\ Exit(t, ts, woken, cost)
  BY DEF CallExits
<1>0. /\ HostTypeOK /\ m_thread_lock = Free
      /\ m_thread_lock' = Held(t, "exit", "signal")
  BY <1>p DEF SkewInv
<1>a. \A u \in Threads :
        /\ on'[u] = on[u] /\ on[u] \in {"thread", "core"}
        /\ <<u, on[u]>> \in CVs
        /\ <<u, on[u]>> \in cvs <=> on[u] = "thread" /\ u \in ts
  BY <1>0, <1>p, OnFacts, CVsOfFacts
<1>b. /\ m_futx' \in [CVs -> 0..1]
      /\ \A c \in CVs : m_futx'[c] = IF c \in cvs THEN 1 ELSE m_futx[c]
  BY <1>0, <1>p, SignalFacts
<1>c. /\ host' \in [Threads -> HostStates]
      /\ \A u \in Threads :
           host'[u] = IF u = t THEN "serving"
                      ELSE IF host[u] = "asleep" /\ <<u, on[u]>> \in cvs
                      THEN "waking" ELSE host[u]
  BY <1>0, <1>p, SignalledFacts DEF HostStates
<1>d. /\ status' \in [Threads -> Statuses]
      /\ \A u \in Threads :
           status'[u] = IF u = t THEN "IDLE" ELSE IF u \in ts THEN "RUNNING" ELSE status[u]
  BY <1>0, <1>p, ResumedFacts DEF Statuses
<1>1. HostTypeOK'
  <2>1. clock[t] \in Nat /\ cost \in Nat
    BY <1>0, <1>p, RescheduleAssumption DEF HostTypeOK, RescheduleCosts
  <2>2. sync_time' \in [Threads -> Nat]
    BY <1>0, <1>p, <2>1, SyncTimesFacts
  <2> QED
    BY <1>0, <1>p, <1>b, <1>c, <1>d, <2>2, HeldFacts DEF HostTypeOK
<1>q. /\ UNCHANGED <<on, clock, m_next_barrier_time, m_local_clock_list,
                     m_barrier_acquire_list, m_next_sync_time>>
      /\ waiter' = [waiter EXCEPT ![t] = NoThread] /\ host[t] = "app"
  BY <1>p
<1> HIDE DEF cvs, Calls, Exit, barrierVars
<1>2. HolderServes'
  <2>1. /\ m_thread_lock' # Free /\ m_thread_lock'.by = t
        /\ m_thread_lock'.call = "exit" /\ m_thread_lock'.at = "signal"
    BY <1>0, HeldFacts
  <2> QED
    BY <1>c, <2>1 DEF HolderServes
<1>3. InBarrier'
  BY <1>0, <1>q, <1>a, <1>b, <1>c, HeldFacts DEF SkewInv, InBarrier, NextSync
<1>4. BehindBarrier' /\ Grid'
  BY <1>q DEF SkewInv, BehindBarrier, Grid
<1>5. Started'
  BY <1>0, <1>q, <1>c, <1>d DEF SkewInv, Started
<1>6. NoLostWakeup'
  BY <1>0, <1>q, <1>a, <1>b, <1>c, <1>d DEF SkewInv, NoLostWakeup
<1>7. ASSUME RunInv PROVE JoinsLater' /\ AwakeRuns' /\ NobodyOvertakes'
  <2>1. JoinsLater'
    BY <1>0, <1>q, <1>7, <1>d DEF RunInv, JoinsLater, HostTypeOK
  <2>2. AwakeRuns'
    BY <1>0, <1>q, <1>7, <1>a, <1>b, <1>c, <1>d, HeldFacts DEF RunInv, AwakeRuns
  <2>3. NobodyOvertakes'
    BY <1>0, <1>q, <1>7, HeldFacts DEF RunInv, NobodyOvertakes
  <2> QED
    BY <2>1, <2>2, <2>3
<1> QED
  BY <1>1, <1>2, <1>3, <1>4, <1>5, <1>6, <1>7 DEF SkewInv, RunInv

LEMMA CreateStep ==
  ASSUME SkewInv, NEW t \in Threads, NEW u \in Threads,
         CreateThread(t, u), UNCHANGED barrierVars
  PROVE  SkewInv' /\ (RunInv => RunInv')
<1>0. /\ HostTypeOK /\ m_thread_lock = Free
      /\ status[u] = "ABSENT" /\ host[u] = "none"
  BY DEF SkewInv, CreateThread, Enter, Started
<1>1. /\ status' = [status EXCEPT ![u] = "INITIALIZING"]
      /\ sync_time' = [sync_time EXCEPT ![u] = clock[t]]
      /\ UNCHANGED <<waiter, m_thread_lock, host, on, m_futx, clock, m_next_barrier_time,
                     m_local_clock_list, m_barrier_acquire_list, m_next_sync_time>>
  BY DEF CreateThread, barrierVars
<1>2. /\ status' \in [Threads -> Statuses]
      /\ \A v \in Threads : status'[v] = IF v = u THEN "INITIALIZING" ELSE status[v]
  BY <1>0, <1>1 DEF HostTypeOK, Statuses
<1>3. HostTypeOK' /\ HolderServes'
  BY <1>0, <1>1, <1>2, LockFacts DEF SkewInv, HostTypeOK, HolderServes
<1>4. InBarrier' /\ BehindBarrier' /\ Grid'
  BY <1>1 DEF SkewInv, InBarrier, BehindBarrier, Grid, NextSync
<1>5. Started' /\ NoLostWakeup'
  BY <1>0, <1>1, <1>2 DEF SkewInv, Started, NoLostWakeup
<1>6. ASSUME RunInv PROVE JoinsLater' /\ AwakeRuns' /\ NobodyOvertakes'
  <2>1. JoinsLater'
    BY <1>0, <1>1, <1>2, <1>6 DEF RunInv, JoinsLater
  <2>2. AwakeRuns'
    BY <1>0, <1>1, <1>2, <1>6 DEF RunInv, AwakeRuns
  <2>3. NobodyOvertakes'
    BY <1>1, <1>6 DEF RunInv, NobodyOvertakes
  <2> QED
    BY <2>1, <2>2, <2>3
<1> QED
  BY <1>3, <1>4, <1>5, <1>6 DEF SkewInv, RunInv

\* A thread starts: whoever joins it is woken, but not resumed.
LEMMA StartStep ==
  ASSUME SkewInv, NEW t \in Threads, ThreadStart(t), UNCHANGED barrierVars
  PROVE  SkewInv' /\ (RunInv => RunInv')
<1> DEFINE cvs == OfThreads({waiter[t]})
<1>0. /\ HostTypeOK /\ m_thread_lock = Free /\ m_thread_lock' = Free
      /\ status[t] = "INITIALIZING" /\ host[t] = "none"
  BY DEF SkewInv, ThreadStart, Started
<1>1. /\ UNCHANGED <<on, m_next_barrier_time, m_local_clock_list,
                     m_barrier_acquire_list, m_next_sync_time>>
      /\ Signal(cvs) /\ host' = [Signalled(cvs) EXCEPT ![t] = "app"]
      /\ status' = [status EXCEPT ![t] = "RUNNING"]
      /\ waiter' = [waiter EXCEPT ![t] = NoThread]
      /\ sync_time' = SyncTimes({waiter[t]}, Later(clock[t], sync_time[t]))
      /\ SyncInstruction(t, sync_time[t])
  BY DEF ThreadStart, barrierVars
<1>a. \A u \in Threads :
        /\ on'[u] = on[u] /\ on[u] \in {"thread", "core"}
        /\ <<u, on[u]>> \in CVs
        /\ <<u, on[u]>> \in cvs <=> on[u] = "thread" /\ u = waiter[t]
  BY <1>0, <1>1, OnFacts, CVsOfFacts
<1>b. /\ m_futx' \in [CVs -> 0..1]
      /\ \A c \in CVs : m_futx'[c] = IF c \in cvs THEN 1 ELSE m_futx[c]
  BY <1>0, <1>1, SignalFacts
<1>c. /\ host' \in [Threads -> HostStates]
      /\ \A u \in Threads :
           host'[u] = IF u = t THEN "app"
                      ELSE IF host[u] = "asleep" /\ <<u, on[u]>> \in cvs
                      THEN "waking" ELSE host[u]
  BY <1>0, <1>1, SignalledFacts DEF HostStates
<1>d. /\ status' \in [Threads -> Statuses]
      /\ \A u \in Threads : status'[u] = IF u = t THEN "RUNNING" ELSE status[u]
  BY <1>0, <1>1 DEF HostTypeOK, Statuses
<1>e. /\ sync_time[t] \in Nat /\ Later(clock[t], sync_time[t]) \in Nat
      /\ clock' \in [Threads -> Nat]
      /\ \A u \in Threads : m_barrier_acquire_list[u] => clock'[u] = clock[u]
  <2>1. sync_time[t] \in Nat /\ Later(clock[t], sync_time[t]) \in Nat
    BY <1>0 DEF HostTypeOK, Later
  <2>2. ~ m_barrier_acquire_list[t]
    BY <1>0, AppIsOut
  <2> QED
    BY <1>0, <1>1, <2>1, <2>2, SyncInstructionFacts
<1>2. HostTypeOK'
  BY <1>0, <1>1, <1>b, <1>c, <1>d, <1>e, SyncTimesFacts DEF HostTypeOK
<1> HIDE DEF cvs
<1>3. HolderServes'
  BY <1>0, LockFacts DEF HolderServes
<1>4. InBarrier'
  <2>1. \A u \in Threads : m_thread_lock # Held(u, "sync", "release")
    BY <1>0, HeldFacts
  <2> QED
    BY <1>0, <1>1, <1>a, <1>b, <1>c, <1>e, <2>1 DEF SkewInv, InBarrier, NextSync
<1>5. BehindBarrier' /\ Grid'
  BY <1>1 DEF SkewInv, BehindBarrier, Grid
<1>6. Started'
  BY <1>0, <1>c, <1>d DEF SkewInv, Started
<1>7. NoLostWakeup'
  BY <1>0, <1>1, <1>a, <1>b, <1>c, <1>d DEF SkewInv, NoLostWakeup
<1>8. ASSUME RunInv PROVE JoinsLater' /\ AwakeRuns' /\ NobodyOvertakes'
  <2>1. JoinsLater' /\ waiter[t] = NoThread
    BY <1>0, <1>1, <1>8, <1>d DEF RunInv, JoinsLater, HostTypeOK
  <2>2. \A u \in Threads : <<u, on[u]>> \notin cvs
    BY <1>a, <2>1, ThreadsAssumption
  <2>3. AwakeRuns'
    BY <1>0, <1>1, <1>8, <1>a, <1>b, <1>c, <1>d, <2>2, LockFacts DEF RunInv, AwakeRuns
  <2>4. NobodyOvertakes'
    BY <1>0, <1>1, <1>8, LockFacts DEF RunInv, NobodyOvertakes
  <2> QED
    BY <2>1, <2>3, <2>4
<1> QED
  BY <1>2, <1>3, <1>4, <1>5, <1>6, <1>7, <1>8 DEF SkewInv, RunInv

\* A blocking system call returns, and its thread counts as running again.
LEMMA BlockingStep ==
  ASSUME SkewInv, NEW t \in Threads, UNCHANGED barrierVars,
         BlockingReturn(t, m_next_barrier_time) \/ BlockingResume(t)
  PROVE  SkewInv' /\ (RunInv => RunInv')
<1>0. HostTypeOK
  BY DEF SkewInv
<1>1. /\ host[t] \in {"blocked", "resuming"}
      /\ UNCHANGED <<waiter, m_thread_lock, on, m_futx, m_next_barrier_time,
                     m_local_clock_list, m_barrier_acquire_list, m_next_sync_time>>
  BY DEF BlockingReturn, BlockingResume, barrierVars
<1>2. /\ sync_time' \in [Threads -> Nat]
      /\ host' \in [Threads -> HostStates] /\ status' \in [Threads -> Statuses]
      /\ \A u \in Threads \ {t} : host'[u] = host[u] /\ status'[u] = status[u]
      /\ \/ host'[t] = "resuming" /\ status'[t] = status[t]
         \/ host'[t] = "app" /\ status'[t] = "RUNNING" /\ m_thread_lock = Free
  BY <1>0 DEF HostTypeOK, BlockingReturn, BlockingResume, HostStates, Statuses
<1>e. /\ clock' \in [Threads -> Nat]
      /\ \A u \in Threads : m_barrier_acquire_list[u] => clock'[u] = clock[u]
  <2>1. CASE BlockingReturn(t, m_next_barrier_time)
    BY <1>0, <2>1 DEF BlockingReturn, HostTypeOK
  <2>2. CASE BlockingResume(t)
    <3>1. sync_time[t] \in Nat /\ SyncInstruction(t, sync_time[t])
      BY <1>0, <2>2 DEF BlockingResume, HostTypeOK
    <3>2. ~ m_barrier_acquire_list[t]
      BY <2>2, AppIsOut DEF BlockingResume
    <3> QED
      BY <1>0, <3>1, <3>2, SyncInstructionFacts
  <2> QED
    BY <2>1, <2>2
<1>3. HostTypeOK'
  BY <1>0, <1>1, <1>2, <1>e DEF HostTypeOK
<1>4. HolderServes'
  BY <1>0, <1>1, <1>2, LockFacts DEF SkewInv, HolderServes
<1>5. InBarrier'
  BY <1>0, <1>1, <1>2, <1>e, HeldFacts DEF SkewInv, InBarrier, HolderServes, NextSync
<1>6. BehindBarrier' /\ Grid'
  BY <1>1 DEF SkewInv, BehindBarrier, Grid
<1>7. Started' /\ NoLostWakeup'
  BY <1>1, <1>2 DEF SkewInv, Started, NoLostWakeup
<1>8. ASSUME RunInv PROVE JoinsLater' /\ AwakeRuns' /\ NobodyOvertakes'
  <2>1. JoinsLater'
    BY <1>1, <1>2, <1>8 DEF RunInv, JoinsLater
  <2>2. AwakeRuns'
    BY <1>0, <1>1, <1>2, <1>8, LockFacts DEF RunInv, AwakeRuns
  <2>3. NobodyOvertakes'
    BY <1>0, <1>1, <1>2, <1>8, LockFacts DEF RunInv, NobodyOvertakes
  <2> QED
    BY <2>1, <2>2, <2>3
<1> QED
  BY <1>3, <1>4, <1>5, <1>6, <1>7, <1>8 DEF SkewInv, RunInv

\* A host thread goes to sleep, unless it was signalled, or is back from it.
LEMMA HostSteps ==
  ASSUME SkewInv, NEW t \in Threads, UNCHANGED barrierVars, FutexSleep(t) \/ Return(t)
  PROVE  SkewInv' /\ (RunInv => RunInv')
<1>0. HostTypeOK
  BY DEF SkewInv
<1>1. UNCHANGED <<status, waiter, m_thread_lock, on, m_futx, sync_time,
                  m_next_barrier_time, m_local_clock_list, m_barrier_acquire_list,
                  m_next_sync_time>>
  BY DEF FutexSleep, Return, barrierVars
<1>2. /\ host' \in [Threads -> HostStates]
      /\ \A u \in Threads \ {t} : host'[u] = host[u]
      /\ \/ /\ host[t] = "releasing" /\ m_futx[<<t, on[t]>>] = 0 /\ host'[t] = "asleep"
         \/ /\ host[t] = "releasing" /\ m_futx[<<t, on[t]>>] = 1 /\ host'[t] = "waking"
         \/ host[t] = "waking" /\ host'[t] = "app" /\ m_thread_lock = Free
  <2>1. m_futx[<<t, on[t]>>] \in 0..1
    BY <1>0, OnFacts DEF HostTypeOK
  <2> QED
    BY <1>0, <2>1 DEF HostTypeOK, FutexSleep, Return, HostStates
<1>e. /\ clock' \in [Threads -> Nat]
      /\ \A u \in Threads : m_barrier_acquire_list[u] => clock'[u] = clock[u]
  <2>1. CASE UNCHANGED clock
    BY <1>0, <2>1 DEF HostTypeOK
  <2>2. CASE ~ UNCHANGED clock
    <3>1. host[t] = "waking" /\ SyncInstruction(t, EndTime(t))
      BY <2>2 DEF FutexSleep, Return
    <3>2. ~ m_barrier_acquire_list[t]
      BY <3>1, AppIsOut
    <3> QED
      BY <1>0, <3>1, <3>2, EndTimeFacts, SyncInstructionFacts
  <2> QED
    BY <2>1, <2>2
<1>3. HostTypeOK'
  BY <1>0, <1>1, <1>2, <1>e DEF HostTypeOK
<1>4. HolderServes'
  BY <1>0, <1>1, <1>2, LockFacts DEF SkewInv, HolderServes
<1>5. InBarrier'
  BY <1>0, <1>1, <1>2, <1>e, HeldFacts DEF SkewInv, InBarrier, HolderServes, NextSync
<1>6. BehindBarrier' /\ Grid'
  BY <1>1 DEF SkewInv, BehindBarrier, Grid
<1>7. Started' /\ NoLostWakeup'
  BY <1>0, <1>1, <1>2 DEF SkewInv, Started, NoLostWakeup
<1>8. ASSUME RunInv PROVE JoinsLater' /\ AwakeRuns' /\ NobodyOvertakes'
  <2>1. JoinsLater'
    BY <1>1, <1>8 DEF RunInv, JoinsLater
  <2>2. AwakeRuns'
    BY <1>0, <1>1, <1>2, <1>8, LockFacts DEF RunInv, AwakeRuns
  <2>3. NobodyOvertakes'
    BY <1>0, <1>1, <1>2, <1>8, LockFacts DEF RunInv, NobodyOvertakes
  <2> QED
    BY <2>1, <2>2, <2>3
<1> QED
  BY <1>3, <1>4, <1>5, <1>6, <1>7, <1>8 DEF SkewInv, RunInv

-----------------------------------------------------------------------------
\* The next synchronisation after n is on the grid of the barriers.
LEMMA NextSyncFacts ==
  ASSUME NEW n \in Nat
  PROVE  /\ NextSync(n) \in Nat
         /\ \A k \in Nat : n < k * BarrierInterval => NextSync(n) <= k * BarrierInterval
<1> DEFINE q == n \div BarrierInterval
<1>1. BarrierInterval \in Nat /\ BarrierInterval > 0
  BY IntervalAssumption
<1>2. q \in Nat /\ q * BarrierInterval <= n
  BY <1>1
<1>3. NextSync(n) = (q * BarrierInterval) + BarrierInterval
  BY DEF NextSync
<1> HIDE DEF q
<1>4. q * BarrierInterval \in Nat
  BY <1>1, <1>2
<1>5. ASSUME NEW k \in Nat, n < k * BarrierInterval
      PROVE  NextSync(n) <= k * BarrierInterval
  <2>1. k * BarrierInterval \in Nat
    BY <1>1
  <2>2. q * BarrierInterval < k * BarrierInterval
    BY <1>2, <1>4, <1>5, <2>1
  <2>3. q + 1 <= k
    <3>1. CASE k <= q
      <4>1. PICK d \in Nat : q = k + d
        BY <1>2, <3>1
      <4>2. q * BarrierInterval = (k * BarrierInterval) + (d * BarrierInterval)
        BY <1>1, <4>1
      <4>3. d * BarrierInterval \in Nat
        BY <1>1
      <4> QED
        BY <2>1, <2>2, <4>2, <4>3
    <3> QED
      BY <1>2, <3>1
  <2>4. PICK d \in Nat : k = (q + 1) + d
    <3>1. k - (q + 1) \in Nat /\ k = (q + 1) + (k - (q + 1))
      BY <1>2, <2>3
    <3> QED
      BY <3>1
  <2>5. k * BarrierInterval = ((q * BarrierInterval) + BarrierInterval) + (d * BarrierInterval)
    BY <1>1, <1>2, <2>4
  <2>6. d * BarrierInterval \in Nat
    BY <1>1
  <2> QED
    BY <1>1, <1>3, <1>4, <2>1, <2>5, <2>6
<1> QED
  BY <1>1, <1>3, <1>4, <1>5

\* A thread executes, and does not have to enter the barrier.
LEMMA ExecuteStep ==
  ASSUME SkewInv, NEW t \in Threads, NEW d \in Nat, Execute(t, d)
  PROVE  SkewInv' /\ (RunInv => RunInv')
<1> DEFINE now == clock[t] + d
<1>0. HostTypeOK /\ ~ m_barrier_acquire_list[t]
  BY AppIsOut DEF SkewInv, Execute
<1>1. now \in Nat
  BY <1>0 DEF HostTypeOK
<1>2. /\ UNCHANGED <<status, waiter, m_thread_lock, host, on, m_futx, sync_time,
                     m_next_barrier_time,
                     m_local_clock_list, m_barrier_acquire_list>>
      /\ clock' = [clock EXCEPT ![t] = now]
      /\ \/ now < m_next_sync_time[t] /\ UNCHANGED m_next_sync_time
         \/ /\ now < m_next_barrier_time
            /\ m_next_sync_time' = [m_next_sync_time EXCEPT ![t] = NextSync(now)]
  BY DEF Execute
<1> HIDE DEF now
<1>3. /\ clock' \in [Threads -> Nat]
      /\ m_next_sync_time' \in [Threads -> Nat]
      /\ \A u \in Threads \ {t} : clock'[u] = clock[u]
                                  /\ m_next_sync_time'[u] = m_next_sync_time[u]
      /\ clock'[t] = now
  BY <1>0, <1>1, <1>2, NextSyncFacts DEF HostTypeOK
<1>4. HostTypeOK'
  BY <1>0, <1>2, <1>3 DEF HostTypeOK
<1>5. HolderServes' /\ Grid' /\ Started' /\ NoLostWakeup'
  BY <1>2 DEF SkewInv, HolderServes, Grid, Started, NoLostWakeup
<1>6. InBarrier'
  BY <1>0, <1>2, <1>3 DEF SkewInv, InBarrier, NextSync
<1>7. BehindBarrier'
  <2>1. m_next_sync_time'[t] <= m_next_barrier_time
    <3>1. CASE now < m_next_sync_time[t] /\ UNCHANGED m_next_sync_time
      BY <1>0, <1>1, <3>1 DEF SkewInv, BehindBarrier, HostTypeOK
    <3>2. CASE /\ now < m_next_barrier_time
               /\ m_next_sync_time' = [m_next_sync_time EXCEPT ![t] = NextSync(now)]
      <4>1. NextSync(now) <= m_next_barrier_time
        BY <1>1, <3>2, NextSyncFacts DEF SkewInv, Grid
      <4> QED
        BY <1>0, <3>2, <4>1 DEF HostTypeOK
    <3> QED
      BY <1>2, <3>1, <3>2
  <2> QED
    BY <1>2, <1>3, <2>1 DEF SkewInv, BehindBarrier
<1>8. ASSUME RunInv PROVE JoinsLater' /\ AwakeRuns' /\ NobodyOvertakes'
  BY <1>2, <1>8 DEF RunInv, JoinsLater, AwakeRuns, NobodyOvertakes
<1> QED
  BY <1>4, <1>5, <1>6, <1>7, <1>8 DEF SkewInv, RunInv

\* A thread gives the lock up to wait, with its word cleared.
LEMMA WaitOnFacts ==
  ASSUME HostTypeOK, NEW t \in Threads, NEW which \in {"thread", "core"}, NEW cvs,
         WaitOn(t, which, cvs)
  PROVE  /\ m_thread_lock' = Free
         /\ host' \in [Threads -> HostStates] /\ host'[t] = "releasing"
         /\ on' \in [Threads -> {"thread", "core"}] /\ on'[t] = which
         /\ m_futx' \in [CVs -> 0..1] /\ m_futx'[<<t, on'[t]>>] = 0
         /\ \A u \in Threads \ {t} :
              /\ on'[u] = on[u]
              /\ host'[u] = IF host[u] = "asleep" /\ <<u, on[u]>> \in cvs
                            THEN "waking" ELSE host[u]
              /\ m_futx'[<<u, on[u]>>] = IF <<u, on[u]>> \in cvs THEN 1
                                         ELSE m_futx[<<u, on[u]>>]
<1>1. /\ m_thread_lock' = Free
      /\ on' = [on EXCEPT ![t] = which]
      /\ host' = [Signalled(cvs) EXCEPT ![t] = "releasing"]
      /\ m_futx' = [c \in CVs |-> IF c = <<t, which>> THEN 0
                                  ELSE IF c \in cvs THEN 1 ELSE m_futx[c]]
  BY DEF WaitOn
<1>2. /\ host' \in [Threads -> HostStates] /\ host'[t] = "releasing"
      /\ \A u \in Threads \ {t} :
           host'[u] = IF host[u] = "asleep" /\ <<u, on[u]>> \in cvs
                      THEN "waking" ELSE host[u]
  BY <1>1, SignalledFacts DEF HostStates
<1>3. /\ on' \in [Threads -> {"thread", "core"}] /\ on'[t] = which
      /\ \A u \in Threads \ {t} : on'[u] = on[u]
  BY <1>1 DEF HostTypeOK
<1>4. m_futx' \in [CVs -> 0..1]
  BY <1>1 DEF HostTypeOK
<1>5. \A c \in CVs : m_futx'[c] = IF c = <<t, which>> THEN 0
                                  ELSE IF c \in cvs THEN 1 ELSE m_futx[c]
  BY <1>1
<1>6. m_futx'[<<t, on'[t]>>] = 0
  <2>1. <<t, which>> \in CVs
    BY DEF CVs
  <2>2. m_futx'[<<t, which>>] = 0
    BY <1>5, <2>1
  <2> QED
    BY <1>3, <2>2
<1>7. \A u \in Threads \ {t} :
        m_futx'[<<u, on[u]>>] = IF <<u, on[u]>> \in cvs THEN 1 ELSE m_futx[<<u, on[u]>>]
  BY <1>5, OnFacts
<1> QED
  BY <1>1, <1>2, <1>3, <1>4, <1>6, <1>7

\* The core of a thread enters the barrier, and releases it if it is the last.
LEMMA EnterStep ==
  ASSUME SkewInv, NEW t \in Threads, NEW d \in Nat, EnterBarrier(t, d)
  PROVE  SkewInv' /\ (RunInv => RunInv')
<1> DEFINE now == clock[t] + d
           clocks == [m_local_clock_list EXCEPT ![t] = now]
<1>0. /\ HostTypeOK /\ host[t] = "app" /\ m_thread_lock = Free
      /\ ~ m_barrier_acquire_list[t]
  BY AppIsOut DEF SkewInv, EnterBarrier
<1>1. now \in Nat
  BY <1>0 DEF HostTypeOK
<1>2. /\ UNCHANGED <<status, waiter, sync_time, m_next_barrier_time>>
      /\ clock' = [clock EXCEPT ![t] = now]
      /\ m_next_sync_time' = [m_next_sync_time EXCEPT ![t] = NextSync(now)]
      /\ m_local_clock_list' = clocks
      /\ m_barrier_acquire_list' = [m_barrier_acquire_list EXCEPT ![t] = TRUE]
  BY DEF EnterBarrier
<1>3. \/ /\ IsBarrierReached(clocks)
         /\ m_thread_lock' = Held(t, "sync", "release")
         /\ host' = [host EXCEPT ![t] = "serving"]
         /\ UNCHANGED <<on, m_futx>>
      \/ WaitOn(t, "core", {})
  BY DEF EnterBarrier
<1> HIDE DEF now
<1>4. /\ clock' \in [Threads -> Nat]
      /\ m_next_sync_time' \in [Threads -> Nat]
      /\ m_local_clock_list' \in [Threads -> Nat]
      /\ m_barrier_acquire_list' \in [Threads -> BOOLEAN]
      /\ \A u \in Threads \ {t} :
           /\ clock'[u] = clock[u] /\ m_next_sync_time'[u] = m_next_sync_time[u]
           /\ m_local_clock_list'[u] = m_local_clock_list[u]
           /\ m_barrier_acquire_list'[u] = m_barrier_acquire_list[u]
      /\ clock'[t] = now /\ m_local_clock_list'[t] = now /\ m_barrier_acquire_list'[t]
      /\ m_next_sync_time'[t] = NextSync(now)
  BY <1>0, <1>1, <1>2, NextSyncFacts DEF HostTypeOK
<1>5. /\ host' \in [Threads -> HostStates] /\ on' \in [Threads -> {"thread", "core"}]
      /\ m_futx' \in [CVs -> 0..1]
      /\ \A u \in Threads \ {t} :
           host'[u] = host[u] /\ on'[u] = on[u]
             /\ m_futx'[<<u, on[u]>>] = m_futx[<<u, on[u]>>]
      /\ \/ /\ m_thread_lock' = Held(t, "sync", "release")
            /\ host'[t] = "serving"
         \/ /\ m_thread_lock' = Free /\ host'[t] = "releasing"
            /\ on'[t] = "core" /\ m_futx'[<<t, on'[t]>>] = 0
  <2>1. CASE WaitOn(t, "core", {})
    BY <1>0, <2>1, WaitOnFacts
  <2>2. CASE ~ WaitOn(t, "core", {})
    BY <1>0, <1>3, <2>2 DEF HostTypeOK, HostStates
  <2> QED
    BY <2>1, <2>2
<1>6. HostTypeOK'
  BY <1>0, <1>2, <1>4, <1>5, HeldFacts DEF HostTypeOK
<1>7. HolderServes'
  BY <1>0, <1>4, <1>5, HeldFacts, LockFacts DEF HolderServes
<1>8. InBarrier'
  <2> SUFFICES ASSUME NEW u \in Threads PROVE InBarrier!(u)'
    BY DEF InBarrier
  <2>1. CASE u = t
    BY <1>4, <1>5, <2>1 DEF NextSync
  <2>2. CASE u # t
    <3>1. m_thread_lock # Held(u, "sync", "release")
      BY <1>0, HeldFacts
    <3> QED
      BY ZenonT(60), <1>4, <1>5, <2>2, <3>1 DEF SkewInv, InBarrier, NextSync
  <2> QED
    BY <2>1, <2>2
<1>9. BehindBarrier' /\ Grid'
  BY <1>2, <1>4 DEF SkewInv, BehindBarrier, Grid
<1>10. Started' /\ NoLostWakeup'
  <2>1. Started'
    BY <1>0, <1>2, <1>5 DEF SkewInv, Started
  <2>2. ASSUME NEW u \in Threads, u # t PROVE NoLostWakeup!(u)'
    <3>1. /\ on'[u] = on[u] /\ host'[u] = host[u] /\ status'[u] = status[u]
          /\ m_futx'[<<u, on'[u]>>] = m_futx[<<u, on[u]>>]
          /\ m_barrier_acquire_list'[u] = m_barrier_acquire_list[u]
      BY <1>2, <1>4, <1>5, <2>2
    <3> QED
      BY <3>1 DEF SkewInv, NoLostWakeup
  <2>3. NoLostWakeup!(t)'
    BY <1>4, <1>5
  <2> QED
    BY <2>1, <2>2, <2>3 DEF NoLostWakeup
<1>11. ASSUME RunInv PROVE JoinsLater' /\ AwakeRuns' /\ NobodyOvertakes'
  <2>1. JoinsLater'
    BY <1>2, <1>11 DEF RunInv, JoinsLater
  <2>2. AwakeRuns'
    <3>1. status'[t] = "RUNNING"
      BY <1>0, <1>2, <1>11 DEF RunInv, AwakeRuns
    <3>2. ASSUME NEW u \in Threads, u # t PROVE AwakeRuns!(u)'
      <4>1. ~ (m_thread_lock' # Free /\ (m_thread_lock.by)' = u)
        BY <1>5, <3>2, HeldFacts
      <4> QED
        BY ZenonT(60), <1>2, <1>5, <1>11, <3>2, <4>1 DEF RunInv, AwakeRuns
    <3> QED
      BY <3>1, <3>2 DEF AwakeRuns
  <2>3. ASSUME m_thread_lock'.at = "release", NEW u \in Threads, host'[u] = "app"
        PROVE  FALSE
    <3>1. u # t /\ host[u] = "app" /\ IsBarrierReached(clocks)
      <4>1. m_thread_lock' # Free
        BY <1>0, <2>3, LockFacts
      <4>2. ~ WaitOn(t, "core", {})
        BY <4>1 DEF WaitOn
      <4> QED
        BY <1>3, <1>5, <2>3, <4>1, <4>2
    <3>2. status[u] = "RUNNING" /\ clocks[u] = m_local_clock_list[u]
      BY <1>0, <1>11, <3>1 DEF RunInv, AwakeRuns, HostTypeOK
    <3>3. m_local_clock_list[u] >= m_next_barrier_time
      BY <3>1, <3>2 DEF IsBarrierReached, Running
    <3>4. m_local_clock_list[u] < m_next_barrier_time
      BY <3>1, AppIsOut DEF SkewInv, BehindBarrier
    <3> QED
      BY <1>0, <3>3, <3>4 DEF HostTypeOK
  <2> QED
    BY <2>1, <2>2, <2>3 DEF NobodyOvertakes
<1> QED
  BY <1>6, <1>7, <1>8, <1>9, <1>10, <1>11 DEF SkewInv, RunInv

(* What the holder of the lock may do: resume some threads, free some cores
   from the barrier, and go on with its call or end it.                    *)
Signals(ts, cs, u) == (on[u] = "thread" /\ u \in ts) \/ (on[u] = "core" /\ u \in cs)

HolderMoves(t, ts, freed) ==
  /\ m_thread_lock # Free /\ m_thread_lock.by = t
  /\ UNCHANGED <<waiter, clock, m_local_clock_list, m_next_sync_time>>
  /\ \A u \in Threads : status'[u] = IF u \in ts THEN "RUNNING" ELSE status[u]
  /\ \A u \in Threads \ {t} :
       /\ on'[u] = on[u]
       /\ host'[u] = IF host[u] = "asleep" /\ Signals(ts, freed, u)
                     THEN "waking" ELSE host[u]
       /\ m_futx'[<<u, on[u]>>] = IF Signals(ts, freed, u) THEN 1 ELSE m_futx[<<u, on[u]>>]
  /\ \A u \in Threads :
       /\ m_barrier_acquire_list'[u] <=> m_barrier_acquire_list[u] /\ u \notin freed
       /\ u \in freed => m_barrier_acquire_list[u]
                          /\ m_local_clock_list[u] < m_next_barrier_time'
  /\ m_next_barrier_time' >= m_next_barrier_time
  /\ \/ /\ host'[t] = "serving"
        /\ \/ m_thread_lock' = Held(t, m_thread_lock.call, "release")
           \/ m_thread_lock.call = "stall" /\ m_thread_lock' = Held(t, "stall", "advance")
        /\ m_thread_lock.call = "sync" => t \notin freed
     \/ /\ host'[t] = "releasing" /\ m_thread_lock' = Free
        /\ on'[t] = "core" /\ m_futx'[<<t, on'[t]>>] = 0
        /\ m_thread_lock.call = "sync" /\ t \notin freed
     \/ /\ host'[t] = "app" /\ m_thread_lock' = Free
        /\ m_thread_lock.call = "sync" /\ t \in freed
     \/ /\ host'[t] \in {"blocked", "exited"} /\ m_thread_lock' = Free
        /\ m_thread_lock.call \in {"block", "exit"}

LEMMA HolderStep ==
  ASSUME SkewInv, NEW t \in Threads, NEW ts, NEW freed,
         HolderMoves(t, ts, freed), HostTypeOK', Grid'
  PROVE  /\ SkewInv'
         /\ RunInv /\ (m_thread_lock'.at = "release" => \A u \in Threads : host[u] # "app")
              => RunInv'
<1> USE DEF HolderMoves
<1>0. /\ HostTypeOK /\ host[t] = "serving"
      /\ m_thread_lock.call \in {"stall", "block", "exit", "sync"}
      /\ m_thread_lock.call = "sync" => m_barrier_acquire_list[t]
      /\ m_thread_lock.call # "sync" => ~ m_barrier_acquire_list[t]
      /\ m_thread_lock.call = "stall" => status[t] \in {"STALLED", "RUNNING"}
  BY LockFacts, AppIsOut DEF SkewInv, HolderServes
<1>a. /\ Held(t, m_thread_lock.call, "release") # Free
      /\ Held(t, m_thread_lock.call, "release").by = t
      /\ Held(t, m_thread_lock.call, "release").call = m_thread_lock.call
      /\ Held(t, m_thread_lock.call, "release").at = "release"
      /\ Held(t, "stall", "advance") # Free
      /\ Held(t, "stall", "advance").by = t
      /\ Held(t, "stall", "advance").call = "stall"
      /\ Held(t, "stall", "advance").at = "advance"
      /\ Free.by = NoThread /\ Free.call = "none" /\ Free.at = "none"
  BY <1>0, HeldFacts, LockFacts
<1>1. HolderServes'
  <2>1. CASE m_thread_lock' = Free
    BY <1>a, <2>1 DEF HolderServes
  <2>2. CASE m_thread_lock' = Held(t, m_thread_lock.call, "release") /\ host'[t] = "serving"
    <3>1. m_thread_lock.call = "stall" => status'[t] \in {"STALLED", "RUNNING"}
      BY <1>0
    <3>2. m_thread_lock.call = "sync" => m_barrier_acquire_list'[t]
      BY <1>0, <1>a, <2>2
    <3> QED
      BY <1>a, <2>2, <3>1, <3>2 DEF HolderServes
  <2>3. CASE /\ m_thread_lock.call = "stall" /\ m_thread_lock' = Held(t, "stall", "advance")
             /\ host'[t] = "serving"
    <3>1. status'[t] \in {"STALLED", "RUNNING"}
      BY <1>0, <2>3
    <3> QED
      BY <1>a, <2>3, <3>1 DEF HolderServes
  <2> QED
    BY <2>1, <2>2, <2>3
<1>2. InBarrier'
  <2> SUFFICES ASSUME NEW u \in Threads, m_barrier_acquire_list'[u]
               PROVE  InBarrier!(u)!2'
    BY DEF InBarrier
  <2>1. m_barrier_acquire_list[u] /\ u \notin freed
    OBVIOUS
  <2>2. /\ m_local_clock_list'[u] = clock'[u]
        /\ m_next_sync_time'[u] = NextSync(clock'[u])
    BY <2>1 DEF SkewInv, InBarrier
  <2>3. CASE u = t
    <3>1. m_thread_lock.call = "sync"
      BY <1>0, <2>1, <2>3
    <3> QED
      BY <1>0, <2>1, <2>2, <2>3, <3>1 DEF NextSync
  <2>4. CASE u # t
    <3>1. m_thread_lock # Held(u, "sync", "release")
      BY <2>4, HeldFacts
    <3>2. \/ on[u] = "core" /\ host[u] = "asleep"
          \/ on[u] = "core" /\ host[u] = "releasing" /\ m_futx[<<u, on[u]>>] = 0
      BY <2>1, <3>1 DEF SkewInv, InBarrier
    <3>3. ~ Signals(ts, freed, u)
      BY <2>1, <3>2 DEF Signals
    <3> QED
      BY <2>2, <2>4, <3>2, <3>3 DEF NextSync
  <2> QED
    BY <2>3, <2>4
<1>3. BehindBarrier'
  <2> SUFFICES ASSUME NEW u \in Threads, ~ m_barrier_acquire_list'[u]
               PROVE  BehindBarrier!(u)!2'
    BY DEF BehindBarrier
  <2>0. /\ m_local_clock_list[u] \in Nat /\ m_next_sync_time[u] \in Nat
        /\ m_next_barrier_time \in Nat /\ m_next_barrier_time' \in Nat
    BY <1>0 DEF HostTypeOK
  <2>1. CASE u \in freed
    <3>1. /\ m_local_clock_list[u] < m_next_barrier_time'
          /\ m_next_sync_time[u] = NextSync(m_local_clock_list[u])
      BY <2>1 DEF SkewInv, InBarrier
    <3>2. NextSync(m_local_clock_list[u]) <= m_next_barrier_time'
      BY <2>0, <3>1, NextSyncFacts DEF Grid
    <3> QED
      BY <3>1, <3>2
  <2>2. CASE u \notin freed
    <3>1. /\ m_local_clock_list[u] < m_next_barrier_time
          /\ m_next_sync_time[u] <= m_next_barrier_time
      BY <2>2 DEF SkewInv, BehindBarrier
    <3> QED
      BY <2>0, <3>1
  <2> QED
    BY <2>1, <2>2
<1>4. Started'
  BY <1>0 DEF SkewInv, Started
<1>5. NoLostWakeup'
  <2>1. ASSUME NEW u \in Threads, u # t PROVE NoLostWakeup!(u)'
    <3>1. on[u] \in {"thread", "core"} /\ on'[u] = on[u]
      BY <1>0, <2>1, OnFacts
    <3>2. SUFFICES ASSUME \/ host'[u] = "asleep"
                          \/ host'[u] = "releasing" /\ m_futx'[<<u, on[u]>>] = 0
                   PROVE  IF on[u] = "thread" THEN status'[u] = "STALLED"
                          ELSE m_barrier_acquire_list'[u]
      BY <3>1
    <3>3. ~ Signals(ts, freed, u)
      BY <2>1, <3>2
    <3>4. IF on[u] = "thread" THEN status[u] = "STALLED" ELSE m_barrier_acquire_list[u]
      BY <2>1, <3>2, <3>3 DEF SkewInv, NoLostWakeup
    <3>5. CASE on[u] = "thread"
      BY <3>3, <3>4, <3>5 DEF Signals
    <3>6. CASE on[u] = "core"
      BY <3>3, <3>4, <3>6 DEF Signals
    <3> QED
      BY <3>1, <3>5, <3>6
  <2>2. NoLostWakeup!(t)'
    BY <1>0
  <2> QED
    BY <2>1, <2>2 DEF NoLostWakeup
<1>6. ASSUME RunInv, m_thread_lock'.at = "release" => \A u \in Threads : host[u] # "app"
      PROVE  JoinsLater' /\ AwakeRuns' /\ NobodyOvertakes'
  <2>1. JoinsLater'
    BY <1>6 DEF RunInv, JoinsLater
  <2>2. AwakeRuns'
    <3>1. ASSUME NEW u \in Threads, u # t PROVE AwakeRuns!(u)'
      <4>1. ~ (m_thread_lock' # Free /\ (m_thread_lock.by)' = u)
        BY <1>a, <3>1
      <4>2. on[u] \in {"thread", "core"} /\ on'[u] = on[u]
        BY <1>0, <3>1, OnFacts
      <4> QED
        BY <1>6, <3>1, <4>1, <4>2 DEF RunInv, AwakeRuns, Signals
    <3>2. AwakeRuns!(t)'
      <4>1. m_thread_lock.call = "sync" => status'[t] = "RUNNING"
        BY <1>6 DEF RunInv, AwakeRuns
      <4> QED
        BY <1>0, <1>a, <4>1
    <3> QED
      BY <3>1, <3>2 DEF AwakeRuns
  <2>3. NobodyOvertakes'
    <3>1. ASSUME m_thread_lock'.at = "release", NEW u \in Threads, host'[u] = "app"
          PROVE  FALSE
      <4>1. m_thread_lock' # Free
        BY <1>a, <3>1
      <4>2. u # t /\ host[u] # "app"
        BY <1>6, <3>1, <4>1
      <4> QED
        BY <3>1, <4>2
    <3> QED
      BY <1>6, <3>1 DEF RunInv, NobodyOvertakes
  <2> QED
    BY <2>1, <2>2, <2>3
<1> QED
  BY <1>1, <1>2, <1>3, <1>4, <1>5, <1>6 DEF SkewInv, RunInv

LEMMA MovesFacts ==
  ASSUME HostTypeOK, NEW t, NEW ts, NEW cs, NEW u \in Threads \ {t}
  PROVE  <<u, on[u]>> \in CVsOf(ts, cs \ {t}) <=> Signals(ts, cs, u)
<1>1. on[u] \in {"thread", "core"}
  BY OnFacts
<1> DEFINE others == cs \ {t}
<1>2. u \in others <=> u \in cs
  OBVIOUS
<1> HIDE DEF others
<1>3. <<u, on[u]>> \in CVsOf(ts, others)
        <=> (on[u] = "thread" /\ u \in ts) \/ (on[u] = "core" /\ u \in others)
  BY <1>1, CVsOfFacts
<1>4. <<u, on[u]>> \in CVsOf(ts, others) <=> Signals(ts, cs, u)
  BY <1>2, <1>3, Zenon DEF Signals
<1> QED
  BY <1>4 DEF others

CallKinds == {"stall", "block", "exit", "sync"}

(* The others hear the signals of t, and its own call goes on or ends. *)
Hear(t, cvs) ==
  \A u \in Threads \ {t} :
    /\ on'[u] = on[u]
    /\ host'[u] = IF host[u] = "asleep" /\ <<u, on[u]>> \in cvs THEN "waking" ELSE host[u]
    /\ m_futx'[<<u, on[u]>>] = IF <<u, on[u]>> \in cvs THEN 1 ELSE m_futx[<<u, on[u]>>]

Ends(t, call, freed) ==
  \/ /\ host'[t] = "serving" /\ m_thread_lock' = Held(t, "stall", "advance")
     /\ call = "stall"
  \/ /\ host'[t] = "releasing" /\ m_thread_lock' = Free
     /\ on'[t] = "core" /\ m_futx'[<<t, on'[t]>>] = 0
     /\ call = "sync" /\ t \notin freed
  \/ /\ host'[t] = "app" /\ m_thread_lock' = Free
     /\ call = "sync" /\ t \in freed
  \/ /\ host'[t] \in {"blocked", "exited"} /\ m_thread_lock' = Free
     /\ call \in {"block", "exit"}

LEMMA CompleteFacts ==
  ASSUME HostTypeOK, NEW t \in Threads, host[t] = "serving",
         NEW call \in CallKinds, NEW freed, NEW cvs,
         Complete(t, call, freed, cvs)
  PROVE  /\ m_thread_lock' \in Holds \cup {Free}
         /\ host' \in [Threads -> HostStates]
         /\ on' \in [Threads -> {"thread", "core"}]
         /\ m_futx' \in [CVs -> 0..1]
         /\ Hear(t, cvs) /\ Ends(t, call, freed)
<1> USE DEF Hear, Ends
<1>1. CASE call = "stall"
  <2>1. /\ m_thread_lock' = Held(t, "stall", "advance")
        /\ host' = Signalled(cvs) /\ Signal(cvs) /\ on' = on
    BY <1>1 DEF Complete
  <2> QED
    <3>1. /\ host' \in [Threads -> HostStates] /\ host'[t] = "serving"
          /\ \A u \in Threads : host'[u] = IF host[u] = "asleep" /\ <<u, on[u]>> \in cvs
                                          THEN "waking" ELSE host[u]
      BY <2>1, SignalledFacts
    <3>2. /\ m_futx' \in [CVs -> 0..1]
          /\ \A u \in Threads : m_futx'[<<u, on[u]>>] = IF <<u, on[u]>> \in cvs THEN 1
                                                        ELSE m_futx[<<u, on[u]>>]
      BY <2>1, SignalFacts, OnFacts
    <3>3. on' \in [Threads -> {"thread", "core"}]
      BY <2>1 DEF HostTypeOK
    <3>4. m_thread_lock' \in Holds \cup {Free}
      BY <2>1, HeldFacts
    <3> QED
      BY <1>1, <2>1, <3>1, <3>2, <3>3, <3>4
<1>2. CASE call = "sync" /\ t \notin freed
  <2>1. WaitOn(t, "core", cvs)
    BY <1>2 DEF Complete
  <2> QED
    BY <1>2, <2>1, WaitOnFacts
<1>3. CASE call = "sync" /\ t \in freed
  <2>1. /\ m_thread_lock' = Free
        /\ host' = [Signalled(cvs) EXCEPT ![t] = "app"] /\ Signal(cvs) /\ on' = on
    BY <1>3 DEF Complete
  <2> QED
    BY <1>3, <2>1, SignalledFacts, SignalFacts, OnFacts DEF HostTypeOK, HostStates
<1>4. CASE call \in {"block", "exit"}
  <2>1. PICK h \in {"blocked", "exited"} :
          /\ m_thread_lock' = Free
          /\ host' = [Signalled(cvs) EXCEPT ![t] = h] /\ Signal(cvs) /\ on' = on
    BY <1>4 DEF Complete
  <2> QED
    BY <1>4, <2>1, SignalledFacts, SignalFacts, OnFacts DEF HostTypeOK, HostStates
<1> QED
  BY <1>1, <1>2, <1>3, <1>4 DEF CallKinds

\* Who executes runs, and has not reached the barrier.
LEMMA ReachedFacts ==
  ASSUME RunInv, IsBarrierReached(m_local_clock_list), NEW u \in Threads
  PROVE  host[u] # "app"
<1> SUFFICES ASSUME host[u] = "app" PROVE FALSE
  OBVIOUS
<1>1. m_local_clock_list[u] >= m_next_barrier_time
  BY DEF RunInv, AwakeRuns, IsBarrierReached, Running
<1>2. m_local_clock_list[u] < m_next_barrier_time
  BY AppIsOut DEF RunInv, SkewInv, BehindBarrier
<1> QED
  BY <1>1, <1>2 DEF RunInv, SkewInv, HostTypeOK

LEMMA BarrierSignalStep ==
  ASSUME SkewInv, BarrierSignal
  PROVE  SkewInv' /\ (RunInv => RunInv')
<1>0. PICK t \in Threads, call \in {"stall", "block", "exit"} :
        /\ m_thread_lock # Free /\ m_thread_lock.by = t /\ m_thread_lock.call = call
        /\ HostTypeOK /\ host[t] = "serving"
        /\ call \in CallKinds /\ call # "sync"
  <2>1. HostTypeOK /\ m_thread_lock.at = "signal" /\ m_thread_lock # Free
    BY LockFacts DEF SkewInv, BarrierSignal
  <2> QED
    BY <2>1, LockFacts DEF SkewInv, HolderServes, CallKinds
<1>1. UNCHANGED <<status, waiter, clock, sync_time, m_next_barrier_time, m_local_clock_list,
                  m_barrier_acquire_list, m_next_sync_time>>
  BY DEF BarrierSignal, barrierVars
<1>a. \A u \in Threads : /\ u \notin {} /\ ~ Signals({}, {}, u) /\ <<u, on[u]>> \notin {}
                         /\ m_barrier_acquire_list[u] \in BOOLEAN
  BY <1>0 DEF Signals, HostTypeOK
<1>2. CASE /\ IsBarrierReached(m_local_clock_list)
           /\ m_thread_lock' = Held(t, call, "release")
           /\ UNCHANGED <<host, on, m_futx>>
  <2>1. HostTypeOK' /\ Grid'
    BY <1>0, <1>1, <1>2, HeldFacts DEF SkewInv, HostTypeOK, Grid, CallKinds
  <2>2. HolderMoves(t, {}, {})
    BY <1>0, <1>1, <1>2, <1>a DEF HolderMoves, HostTypeOK
  <2>3. SkewInv' /\ (RunInv /\ (\A u \in Threads : host[u] # "app") => RunInv')
    BY <2>1, <2>2, HolderStep
  <2> QED
    BY <1>2, <2>3, ReachedFacts
<1>3. CASE Complete(t, call, {}, {})
  <2>1. HostTypeOK' /\ Grid'
    BY <1>0, <1>1, <1>3, CompleteFacts DEF SkewInv, HostTypeOK, Grid
  <2>2. Hear(t, {}) /\ Ends(t, call, {})
    BY <1>0, <1>3, CompleteFacts
  <2>3. \A u \in Threads \ {t} :
           /\ on'[u] = on[u] /\ host'[u] = host[u]
           /\ m_futx'[<<u, on[u]>>] = m_futx[<<u, on[u]>>]
    BY <1>a, <2>2 DEF Hear
  <2>4. HolderMoves(t, {}, {})
    BY <1>0, <1>1, <1>a, <2>2, <2>3 DEF HolderMoves, Ends, HostTypeOK
  <2>5. m_thread_lock'.at # "release"
    BY <1>0, <2>2, HeldFacts, LockFacts DEF Ends
  <2> QED
    BY <2>1, <2>4, <2>5, HolderStep
<1> QED
  BY <1>0, <1>2, <1>3 DEF BarrierSignal

\* What a round of the barrier does to statuses and clocks.
LEMMA PeriodicFacts ==
  ASSUME HostTypeOK, NEW ts, ts = WokenAt(m_next_barrier_time),
         FutexPeriodic(m_next_barrier_time)
  PROVE  /\ status' \in [Threads -> Statuses] /\ sync_time' \in [Threads -> Nat]
         /\ \A u \in Threads : status'[u] = IF u \in ts THEN "RUNNING" ELSE status[u]
<1>1. status' = Resumed(ts) /\ sync_time' = SyncTimes(ts, m_next_barrier_time)
  BY DEF FutexPeriodic
<1>2. m_next_barrier_time \in Nat
  BY DEF HostTypeOK
<1> QED
  BY <1>1, <1>2, ResumedFacts, SyncTimesFacts

LEMMA NextBarrierFacts ==
  ASSUME SkewInv
  PROVE  LET next == m_next_barrier_time + BarrierInterval
         IN  /\ next \in Nat /\ next >= m_next_barrier_time
             /\ \E k \in Nat : next = k * BarrierInterval
             /\ \A u \in Due(next) : /\ u \in Threads /\ m_barrier_acquire_list[u]
                                     /\ m_local_clock_list[u] < next
<1>1. m_next_barrier_time \in Nat /\ BarrierInterval \in Nat
  BY IntervalAssumption DEF SkewInv, HostTypeOK
<1>2. PICK k \in Nat : m_next_barrier_time = k * BarrierInterval
  BY DEF SkewInv, Grid
<1>3. k + 1 \in Nat /\ m_next_barrier_time + BarrierInterval = (k + 1) * BarrierInterval
  BY <1>1, <1>2
<1>4. m_next_barrier_time + BarrierInterval \in Nat
      /\ m_next_barrier_time + BarrierInterval >= m_next_barrier_time
  BY <1>1
<1>5. \E j \in Nat : m_next_barrier_time + BarrierInterval = j * BarrierInterval
  BY <1>3
<1>6. \A u \in Due(m_next_barrier_time + BarrierInterval) :
        /\ u \in Threads /\ m_barrier_acquire_list[u]
        /\ m_local_clock_list[u] < m_next_barrier_time + BarrierInterval
  BY DEF Due
<1> QED
  BY <1>4, <1>5, <1>6

LEMMA ReleaseStep ==
  ASSUME SkewInv, BarrierRelease
  PROVE  SkewInv' /\ (RunInv => RunInv')
<1>0. PICK t \in Threads, call \in CallKinds :
        /\ m_thread_lock # Free /\ m_thread_lock.by = t /\ m_thread_lock.call = call
        /\ HostTypeOK /\ host[t] = "serving"
  <2>1. HostTypeOK /\ m_thread_lock # Free
    BY LockFacts DEF SkewInv, BarrierRelease
  <2> QED
    BY <2>1, LockFacts DEF SkewInv, HolderServes, CallKinds
<1>1. PICK ts, freed, cvs :
        /\ ts = WokenAt(m_next_barrier_time)
        /\ freed = Due(m_next_barrier_time + BarrierInterval)
        /\ cvs = CVsOf(ts, freed \ {t})
  OBVIOUS
<1>2. /\ m_thread_lock.at = "release"
      /\ FutexPeriodic(m_next_barrier_time)
      /\ m_next_barrier_time' = m_next_barrier_time + BarrierInterval
      /\ m_barrier_acquire_list' =
           [u \in Threads |-> m_barrier_acquire_list[u] /\ u \notin freed]
      /\ UNCHANGED <<waiter, clock, m_local_clock_list, m_next_sync_time>>
  BY <1>0, <1>1 DEF BarrierRelease
<1>3. \/ /\ freed = {}
         /\ host' = Signalled(cvs) /\ Signal(cvs)
         /\ UNCHANGED <<m_thread_lock, on>>
      \/ Complete(t, call, freed, cvs)
  BY <1>0, <1>1 DEF BarrierRelease, CVsOf
<1>4. /\ status' \in [Threads -> Statuses] /\ sync_time' \in [Threads -> Nat]
      /\ \A u \in Threads : status'[u] = IF u \in ts THEN "RUNNING" ELSE status[u]
  BY <1>0, <1>1, <1>2, PeriodicFacts
<1>5. /\ m_next_barrier_time' \in Nat /\ m_next_barrier_time' >= m_next_barrier_time
      /\ Grid'
      /\ \A u \in freed : /\ u \in Threads /\ m_barrier_acquire_list[u]
                          /\ m_local_clock_list[u] < m_next_barrier_time'
  BY <1>1, <1>2, NextBarrierFacts DEF Grid
<1>6. /\ m_barrier_acquire_list' \in [Threads -> BOOLEAN]
      /\ \A u \in Threads :
           m_barrier_acquire_list'[u] <=> m_barrier_acquire_list[u] /\ u \notin freed
  BY <1>0, <1>2 DEF HostTypeOK
<1>7. \A u \in Threads \ {t} : <<u, on[u]>> \in cvs <=> Signals(ts, freed, u)
  BY <1>0, <1>1, MovesFacts
<1>8. ASSUME RunInv PROVE \A u \in Threads : host[u] # "app"
  BY <1>2, <1>8 DEF RunInv, NobodyOvertakes
<1>9. /\ m_thread_lock' \in Holds \cup {Free}
      /\ host' \in [Threads -> HostStates]
      /\ on' \in [Threads -> {"thread", "core"}]
      /\ m_futx' \in [CVs -> 0..1]
      /\ Hear(t, cvs)
      /\ \/ Ends(t, call, freed)
         \/ /\ host'[t] = "serving" /\ m_thread_lock' = Held(t, call, "release")
            /\ t \notin freed
  <2>1. CASE Complete(t, call, freed, cvs)
    BY <1>0, <2>1, CompleteFacts
  <2>2. CASE /\ freed = {}
             /\ host' = Signalled(cvs) /\ Signal(cvs)
             /\ UNCHANGED <<m_thread_lock, on>>
    <3>1. m_thread_lock = Held(t, call, "release")
      BY <1>0, <1>2 DEF Held, Holds, HostTypeOK
    <3>2. Hear(t, cvs)
      BY <1>0, <2>2, SignalledFacts, SignalFacts, OnFacts DEF Hear
    <3>3. host' \in [Threads -> HostStates] /\ host'[t] = "serving" /\ t \notin freed
      BY <1>0, <2>2, SignalledFacts
    <3>4. on' \in [Threads -> {"thread", "core"}] /\ m_futx' \in [CVs -> 0..1]
            /\ m_thread_lock' \in Holds \cup {Free}
      BY <1>0, <2>2, SignalFacts DEF HostTypeOK
    <3> QED
      BY <2>2, <3>1, <3>2, <3>3, <3>4
  <2> QED
    BY <1>3, <2>1, <2>2
<1>10. HostTypeOK'
  BY <1>0, <1>2, <1>4, <1>5, <1>6, <1>9 DEF HostTypeOK
<1>11. HolderMoves(t, ts, freed)
  BY <1>0, <1>2, <1>4, <1>5, <1>6, <1>7, <1>9 DEF HolderMoves, Hear, Ends
<1> QED
  BY <1>5, <1>8, <1>10, <1>11, HolderStep

\* Nobody runs, and the holder of the lock makes time pass.
LEMMA AdvanceStep ==
  ASSUME SkewInv, Advance
  PROVE  SkewInv' /\ (RunInv => RunInv')
<1>0. PICK t \in Threads :
        /\ m_thread_lock # Free /\ m_thread_lock.by = t /\ m_thread_lock.call = "stall"
        /\ HostTypeOK /\ host[t] = "serving"
        /\ m_thread_lock = Held(t, "stall", "advance") /\ ~ m_barrier_acquire_list[t]
  <2>1. HostTypeOK /\ m_thread_lock # Free
    BY LockFacts DEF SkewInv, Advance
  <2>2. PICK t \in Threads :
          /\ m_thread_lock.by = t /\ m_thread_lock.call = "stall" /\ m_thread_lock.at = "advance"
          /\ host[t] = "serving"
    BY <2>1, LockFacts DEF SkewInv, HolderServes, Advance
  <2>3. m_thread_lock = Held(t, "stall", "advance")
    BY <2>1, <2>2 DEF Held, Holds, HostTypeOK
  <2> QED
    BY <2>1, <2>2, <2>3, AppIsOut
<1>1. PICK ts : ts = WokenAt(m_next_barrier_time)
  OBVIOUS
<1>2. /\ FutexPeriodic(m_next_barrier_time)
      /\ UNCHANGED <<waiter, m_thread_lock, on, clock, m_local_clock_list, m_next_sync_time>>
  BY DEF Advance
<1>3. /\ status' \in [Threads -> Statuses] /\ sync_time' \in [Threads -> Nat]
      /\ \A u \in Threads : status'[u] = IF u \in ts THEN "RUNNING" ELSE status[u]
  BY <1>0, <1>1, <1>2, PeriodicFacts
<1>4. PICK freed, cvs :
        /\ cvs = CVsOf(ts, freed \ {t})
        /\ host' = Signalled(cvs) /\ Signal(cvs)
        /\ m_barrier_acquire_list' =
             [u \in Threads |-> m_barrier_acquire_list[u] /\ u \notin freed]
        /\ \/ freed = {} /\ UNCHANGED m_next_barrier_time
           \/ /\ freed = Due(m_next_barrier_time + BarrierInterval)
              /\ m_next_barrier_time' = m_next_barrier_time + BarrierInterval
  <2>0. m_barrier_acquire_list = [u \in Threads |-> m_barrier_acquire_list[u] /\ u \notin {}]
    BY <1>0 DEF HostTypeOK
  <2>1. CASE ts # {}
    <3>1. OfThreads(ts) = CVsOf(ts, {} \ {t})
      BY DEF CVsOf
    <3> QED
      BY <1>1, <2>0, <2>1, <3>1 DEF Advance
  <2>2. CASE ts = {} /\ ~ TimeoutPending
    <3>1. /\ UNCHANGED <<host, m_futx, m_next_barrier_time, m_barrier_acquire_list>>
      BY <1>1, <2>2 DEF Advance
    <3>2. CVsOf(ts, {} \ {t}) = {}
      BY <2>2 DEF CVsOf, OfThreads
    <3>3. host = Signalled({}) /\ (m_futx' = m_futx => Signal({}))
      BY <1>0 DEF Signalled, Signal, HostTypeOK
    <3> QED
      BY <2>0, <3>1, <3>2, <3>3
  <2>3. CASE ts = {} /\ TimeoutPending
    <3> DEFINE freed == Due(m_next_barrier_time + BarrierInterval)
    <3>1. /\ host' = Signalled(freed \X {"core"}) /\ Signal(freed \X {"core"})
          /\ m_barrier_acquire_list' =
               [u \in Threads |-> m_barrier_acquire_list[u] /\ u \notin freed]
          /\ m_next_barrier_time' = m_next_barrier_time + BarrierInterval
      BY <1>1, <2>3 DEF Advance
    <3>2. freed \ {t} = freed
      BY <1>0 DEF Due
    <3>3. CVsOf(ts, freed \ {t}) = freed \X {"core"}
      <4>1. OfThreads(ts) = {}
        BY <2>3 DEF OfThreads
      <4> QED
        BY <3>2, <4>1 DEF CVsOf
    <3> QED
      BY <3>1, <3>3
  <2> QED
    BY <2>1, <2>2, <2>3
<1>5. /\ m_next_barrier_time' \in Nat /\ m_next_barrier_time' >= m_next_barrier_time
      /\ Grid'
      /\ \A u \in freed : /\ u \in Threads /\ m_barrier_acquire_list[u]
                          /\ m_local_clock_list[u] < m_next_barrier_time'
  <2>1. CASE freed = {} /\ UNCHANGED m_next_barrier_time
    BY <1>0, <2>1 DEF SkewInv, Grid, HostTypeOK
  <2>2. CASE /\ freed = Due(m_next_barrier_time + BarrierInterval)
             /\ m_next_barrier_time' = m_next_barrier_time + BarrierInterval
    BY <2>2, NextBarrierFacts DEF Grid
  <2> QED
    BY <1>4, <2>1, <2>2
<1>6. /\ m_barrier_acquire_list' \in [Threads -> BOOLEAN]
      /\ \A u \in Threads :
           m_barrier_acquire_list'[u] <=> m_barrier_acquire_list[u] /\ u \notin freed
  BY <1>0, <1>4 DEF HostTypeOK
<1>7. \A u \in Threads \ {t} : <<u, on[u]>> \in cvs <=> Signals(ts, freed, u)
  BY <1>0, <1>4, MovesFacts
<1>8. /\ Hear(t, cvs) /\ host'[t] = "serving"
      /\ host' \in [Threads -> HostStates] /\ m_futx' \in [CVs -> 0..1]
  <2>1. Hear(t, cvs)
    BY <1>0, <1>2, <1>4, SignalledFacts, SignalFacts, OnFacts DEF Hear
  <2>2. host' \in [Threads -> HostStates] /\ host'[t] = "serving"
    BY ZenonT(60), <1>0, <1>4, SignalledFacts
  <2>3. m_futx' \in [CVs -> 0..1]
    BY <1>0, <1>4, SignalFacts
  <2> QED
    BY <2>1, <2>2, <2>3
<1>9. HostTypeOK'
  BY <1>0, <1>2, <1>3, <1>5, <1>6, <1>8 DEF HostTypeOK
<1>10. HolderMoves(t, ts, freed)
  BY <1>0, <1>2, <1>3, <1>5, <1>6, <1>7, <1>8 DEF HolderMoves, Hear
<1>11. m_thread_lock'.at # "release"
  BY <1>0, <1>2, HeldFacts
<1> QED
  BY <1>5, <1>9, <1>10, <1>11, HolderStep

\* A stalled thread goes to sleep, or on if it was resumed in its own call.
LEMMA StallDecidedStep ==
  ASSUME SkewInv, StallDecided, UNCHANGED barrierVars
  PROVE  SkewInv' /\ (RunInv => RunInv')
<1>0. PICK t \in Threads :
        /\ HostTypeOK /\ m_thread_lock # Free /\ m_thread_lock.by = t
        /\ host[t] = "serving" /\ status[t] \in {"STALLED", "RUNNING"}
        /\ ~ m_barrier_acquire_list[t]
  <2>1. HostTypeOK /\ m_thread_lock # Free
    BY LockFacts DEF SkewInv, StallDecided
  <2>2. PICK t \in Threads :
          /\ m_thread_lock.by = t /\ m_thread_lock.call = "stall"
          /\ host[t] = "serving" /\ status[t] \in {"STALLED", "RUNNING"}
    BY <2>1, LockFacts DEF SkewInv, HolderServes, StallDecided
  <2> QED
    BY <2>1, <2>2, AppIsOut
<1>1. UNCHANGED <<status, waiter, sync_time, m_next_barrier_time,
                  m_local_clock_list, m_barrier_acquire_list, m_next_sync_time>>
  BY DEF StallDecided, barrierVars
<1>2. \A u \in Threads : m_thread_lock # Held(u, "sync", "release")
  BY HeldFacts DEF StallDecided
<1>3. /\ m_thread_lock' = Free
      /\ host' \in [Threads -> HostStates] /\ on' \in [Threads -> {"thread", "core"}]
      /\ m_futx' \in [CVs -> 0..1]
      /\ \A u \in Threads \ {t} :
           /\ host'[u] = host[u] /\ on'[u] = on[u]
           /\ m_futx'[<<u, on[u]>>] = m_futx[<<u, on[u]>>]
      /\ \/ status[t] = "RUNNING" /\ host'[t] = "app"
         \/ /\ status[t] = "STALLED" /\ host'[t] = "releasing"
            /\ on'[t] = "thread" /\ m_futx'[<<t, on'[t]>>] = 0
  <2>1. CASE status[t] = "RUNNING"
    <3>1. /\ host' = [host EXCEPT ![t] = "app"] /\ m_thread_lock' = Free
          /\ UNCHANGED <<on, m_futx>>
      BY <1>0, <2>1 DEF StallDecided
    <3> QED
      BY <1>0, <2>1, <3>1 DEF HostTypeOK, HostStates
  <2>2. CASE status[t] # "RUNNING"
    <3>1. WaitOn(t, "thread", {})
      BY <1>0, <2>2 DEF StallDecided
    <3>2. \A u \in Threads : <<u, on[u]>> \notin {}
      OBVIOUS
    <3> QED
      BY <1>0, <2>2, <3>1, <3>2, WaitOnFacts
  <2> QED
    BY <2>1, <2>2
<1>e. /\ clock' \in [Threads -> Nat]
      /\ \A u \in Threads : m_barrier_acquire_list[u] => clock'[u] = clock[u]
  <2>1. CASE UNCHANGED clock
    BY <1>0, <2>1 DEF HostTypeOK
  <2>2. CASE ~ UNCHANGED clock
    <3>1. SyncInstruction(t, EndTime(t))
      BY <1>0, <2>2 DEF StallDecided
    <3> QED
      BY <1>0, <3>1, EndTimeFacts, SyncInstructionFacts
  <2> QED
    BY <2>1, <2>2
<1>4. HostTypeOK'
  BY <1>0, <1>1, <1>3, <1>e DEF HostTypeOK
<1>5. HolderServes'
  BY <1>3, <1>0, LockFacts DEF HolderServes
<1>6. InBarrier'
  <2> SUFFICES ASSUME NEW u \in Threads, m_barrier_acquire_list'[u]
               PROVE  InBarrier!(u)!2'
    BY DEF InBarrier
  <2>1. u # t /\ m_barrier_acquire_list[u]
    BY <1>0, <1>1
  <2>2. /\ m_local_clock_list[u] = clock[u] /\ m_next_sync_time[u] = NextSync(clock[u])
        /\ \/ on[u] = "core" /\ host[u] = "asleep"
           \/ on[u] = "core" /\ host[u] = "releasing" /\ m_futx[<<u, on[u]>>] = 0
    BY <1>2, <2>1 DEF SkewInv, InBarrier
  <2> QED
    BY <1>1, <1>3, <1>e, <2>1, <2>2 DEF NextSync
<1>7. BehindBarrier' /\ Grid'
  BY <1>1 DEF SkewInv, BehindBarrier, Grid
<1>8. Started'
  BY <1>0, <1>1, <1>3 DEF SkewInv, Started
<1>9. NoLostWakeup'
  <2>1. ASSUME NEW u \in Threads, u # t PROVE NoLostWakeup!(u)'
    BY <1>1, <1>3, <2>1 DEF SkewInv, NoLostWakeup
  <2>2. NoLostWakeup!(t)'
    BY <1>1, <1>3
  <2> QED
    BY <2>1, <2>2 DEF NoLostWakeup
<1>10. ASSUME RunInv PROVE JoinsLater' /\ AwakeRuns' /\ NobodyOvertakes'
  <2>1. JoinsLater'
    BY <1>1, <1>10 DEF RunInv, JoinsLater
  <2>2. AwakeRuns'
    <3>1. ASSUME NEW u \in Threads, u # t PROVE AwakeRuns!(u)'
      BY ZenonT(60), <1>1, <1>3, <1>10, <3>1 DEF RunInv, AwakeRuns
    <3>2. AwakeRuns!(t)'
      BY <1>1, <1>3
    <3> QED
      BY <3>1, <3>2 DEF AwakeRuns
  <2>3. NobodyOvertakes'
    BY <1>0, <1>1, <1>3, <1>10, LockFacts DEF RunInv, NobodyOvertakes
  <2> QED
    BY <2>1, <2>2, <2>3
<1> QED
  BY <1>4, <1>5, <1>6, <1>7, <1>8, <1>9, <1>10 DEF SkewInv, RunInv

-----------------------------------------------------------------------------
\* Calls that return at once: at no cost, at the cost of the caller, or at a
\* cost for whoever is woken and then for the caller too.
LEMMA ProceedsNow ==
  ASSUME HostTypeOK, NEW t, Calls(t), NEW ts, Proceed(t, ts, clock[t]),
         UNCHANGED <<clock, waiter>>
  PROVE  CallProceeds(t, ts)
<1>1. t \in Threads /\ clock[t] \in Soon(t) /\ clock' = [clock EXCEPT ![t] = clock[t]]
  BY RescheduleAssumption DEF HostTypeOK, Calls, Soon
<1> QED
  BY <1>1 DEF CallProceeds

LEMMA PaysSoon ==
  ASSUME HostTypeOK, NEW t, Calls(t), NEW ts, NEW time \in Soon(t), Proceed(t, ts, time),
         NEW cost \in 0..RescheduleCost, SyncInstruction(t, clock[t] + cost), UNCHANGED waiter
  PROVE  CallProceeds(t, ts)
<1>1. t \in Threads /\ clock[t] \in Nat
  BY DEF HostTypeOK, Calls
<1>2. /\ clock[t] + cost \in Soon(t)
      /\ Later(clock[t], clock[t] + cost) = clock[t] + cost
  BY <1>1, RescheduleAssumption DEF Soon, Later
<1>3. clock' = [clock EXCEPT ![t] = clock[t] + cost]
  BY <1>2 DEF SyncInstruction
<1> QED
  BY <1>2, <1>3 DEF CallProceeds

LEMMA WakesSoon ==
  ASSUME HostTypeOK, NEW t, Calls(t), NEW ts, NEW cost \in 0..RescheduleCost,
         Wake(t, ts, cost), UNCHANGED waiter
  PROVE  CallProceeds(t, ts)
<1> DEFINE own == IF ts = {} THEN 0 ELSE cost
<1>1. clock[t] + cost \in Soon(t) /\ own \in 0..RescheduleCost
  BY RescheduleAssumption DEF HostTypeOK, Calls, Soon
<1>2. Proceed(t, ts, clock[t] + cost) /\ SyncInstruction(t, clock[t] + own)
  BY DEF Wake
<1> HIDE DEF own
<1> QED
  BY <1>1, <1>2, PaysSoon

LEMMA MutexLockCall ==
  ASSUME HostTypeOK, NEW t \in Threads, NEW m \in Mutexes, NEW tryLock \in BOOLEAN,
         MutexLock(t, m, tryLock), UNCHANGED barrierVars
  PROVE  \/ /\ m_owner[m] = NoThread
            /\ m_owner' = [m_owner EXCEPT ![m] = t]
            /\ inside' = [inside EXCEPT ![m] = @ \cup {t}]
            /\ CallProceeds(t, {}) /\ UNCHANGED <<m_mutexes, want>>
         \/ /\ m_owner[m] # NoThread
            /\ m_mutexes' = [m_mutexes EXCEPT ![m] = Append(@, t)]
            /\ want' = [want EXCEPT ![t] = m]
            /\ CallStalls(t, "MUTEX", {}, "stall") /\ UNCHANGED <<m_owner, inside>>
<1>1. Calls(t) /\ UNCHANGED waiter
  BY DEF MutexLock, Enter, Calls
<1>2. CASE m_owner[m] = NoThread
  <2>1. /\ Proceed(t, {}, clock[t]) /\ SyncInstruction(t, clock[t] + RescheduleCost)
        /\ m_owner' = [m_owner EXCEPT ![m] = t]
        /\ inside' = [inside EXCEPT ![m] = @ \cup {t}]
        /\ UNCHANGED <<m_mutexes, want>>
    BY <1>2 DEF MutexLock
  <2>2. clock[t] \in Soon(t) /\ RescheduleCost \in 0..RescheduleCost
    BY RescheduleAssumption DEF HostTypeOK, Soon
  <2> QED
    BY <1>1, <1>2, <2>1, <2>2, PaysSoon
<1>3. CASE m_owner[m] # NoThread
  BY <1>1, <1>3 DEF MutexLock, CallStalls, StallThread
<1> QED
  BY <1>2, <1>3

LEMMA MutexUnlockCall ==
  ASSUME HostTypeOK, NEW t \in Threads, NEW m \in Mutexes, MutexUnlock(t, m),
         UNCHANGED barrierVars
  PROVE  CallProceeds(t, Granted(m))
<1>1. Calls(t) /\ Wake(t, Granted(m), RescheduleCost) /\ UNCHANGED waiter
  BY DEF MutexUnlock, Enter, Calls
<1> QED
  BY <1>1, WakesSoon, RescheduleAssumption

LEMMA BarrierWaitCall ==
  ASSUME HostTypeOK, NEW t \in Threads, BarrierWait(t), UNCHANGED barrierVars
  PROVE  \/ m_barrier' = <<>> /\ CallProceeds(t, Elements(m_barrier))
         \/ m_barrier' = Append(m_barrier, t) /\ CallStalls(t, "BARRIER", {}, "stall")
<1>1. Calls(t) /\ UNCHANGED <<clock, waiter>>
  BY DEF BarrierWait, Enter, Calls
<1>2. CASE m_barrier' = <<>> /\ Proceed(t, Elements(m_barrier), clock[t])
  BY <1>1, <1>2, ProceedsNow
<1>3. CASE m_barrier' = Append(m_barrier, t) /\ StallThread(t, "BARRIER", {})
  BY <1>1, <1>3 DEF CallStalls, StallThread
<1> QED
  BY <1>2, <1>3 DEF BarrierWait

LEMMA FutexCalls ==
  ASSUME HostTypeOK, NEW t \in Threads, NEW f, NEW n, NEW g, UNCHANGED barrierVars
  PROVE  /\ FutexWake(t, f, n) => CallProceeds(t, First(m_futexes[f], n))
         /\ FutexWakeOp(t, f, n, g, 1) =>
              CallProceeds(t, First(m_futexes[f], n) \cup First(m_futexes[g], 1))
         /\ FutexCmpRequeue(t, f, n, g) => CallProceeds(t, First(m_futexes[f], n))
<1> USE DEF Enter, Calls
<1>0. RescheduleCosts \subseteq 0..RescheduleCost
  BY RescheduleAssumption DEF RescheduleCosts
<1>1. ASSUME FutexWake(t, f, n) PROVE CallProceeds(t, First(m_futexes[f], n))
  BY <1>0, <1>1, WakesSoon DEF FutexWake
<1>2. ASSUME FutexWakeOp(t, f, n, g, 1)
      PROVE  CallProceeds(t, First(m_futexes[f], n) \cup First(m_futexes[g], 1))
  BY <1>0, <1>2, WakesSoon DEF FutexWakeOp
<1>3. ASSUME FutexCmpRequeue(t, f, n, g) PROVE CallProceeds(t, First(m_futexes[f], n))
  BY <1>3, ProceedsNow DEF FutexCmpRequeue
<1> QED
  BY <1>1, <1>2, <1>3

LEMMA ThreadExitCall ==
  ASSUME NEW t \in Threads, NEW f, ThreadExit(t, f), UNCHANGED barrierVars,
         NEW woken, woken = IF f \in Futexes THEN First(m_futexes[f], 1) ELSE {}
  PROVE  CallExits(t, Joiners(t) \cup woken)
<1>1. Calls(t)
  BY DEF ThreadExit, Enter, Calls
<1>2. \E cost \in RescheduleCosts : Exit(t, Joiners(t) \cup woken, woken, cost)
  BY DEF ThreadExit
<1> QED
  BY <1>1, <1>2 DEF CallExits

\* Every call of the synchronisation server is one of the two kinds.
LEMMA SyncCalls ==
  ASSUME HostTypeOK, NEW t \in Threads, SyncStep(t), UNCHANGED barrierVars
  PROVE  \/ \E ts : CallProceeds(t, ts)
         \/ \E reason, ts : CallStalls(t, reason, ts, "stall")
<1>1. ASSUME NEW c \in Conds, NEW m \in Mutexes, CondWait(t, c, m)
      PROVE  CallStalls(t, "COND", Granted(m), "stall")
  BY <1>1 DEF CondWait, CallStalls, Calls, StallThread, Enter
<1>2. ASSUME NEW c \in Conds, CondSignal(t, c) \/ CondBroadcast(t, c)
      PROVE  \E ts : CallProceeds(t, ts)
  <2>1. PICK woken : LockAsync(t, woken)
    BY <1>2 DEF CondSignal, CondBroadcast
  <2>2. PICK ts : Proceed(t, ts, clock[t])
    BY <2>1 DEF LockAsync
  <2>3. Calls(t) /\ UNCHANGED <<clock, waiter>>
    BY <1>2 DEF CondSignal, CondBroadcast, Enter, Calls
  <2> QED
    BY <2>2, <2>3, ProceedsNow
<1> QED
  BY <1>1, <1>2, MutexLockCall, MutexUnlockCall, BarrierWaitCall DEF SyncStep

LEMMA SyscallCalls ==
  ASSUME HostTypeOK, NEW t \in Threads, SyscallStep(t), UNCHANGED barrierVars
  PROVE  \/ \E ts : CallProceeds(t, ts)
         \/ \E reason, ts : CallStalls(t, reason, ts, "stall")
         \/ \E reason, ts : CallStalls(t, reason, ts, "block")
         \/ BlockingReturn(t, m_next_barrier_time) \/ BlockingResume(t)
<1> USE DEF CallStalls, Calls, StallThread, Enter
<1>1. ASSUME NEW time, Sleep(t, time)
      PROVE  CallStalls(t, "SLEEP", {}, "stall")
  BY <1>1 DEF Sleep
<1>2. ASSUME NEW f \in Futexes, NEW time, FutexWait(t, f, time)
      PROVE  CallStalls(t, "FUTEX", {}, "stall")
  BY <1>2 DEF FutexWait
<1>3. ASSUME BlockingCall(t)
      PROVE  CallStalls(t, "SYSCALL", {}, "block")
  BY <1>3 DEF BlockingCall
<1> HIDE DEF CallStalls
<1> QED
  BY <1>1, <1>2, <1>3, FutexCalls DEF SyscallStep

LEMMA JoinThreadCall ==
  ASSUME NEW t \in Threads, NEW u \in Threads, JoinThread(t, u), UNCHANGED barrierVars
  PROVE  CallStalls(t, "JOIN", {}, "stall")
<1>1. WaiterAdded
  BY DEF JoinThread, WaiterAdded
<1> QED
  BY <1>1 DEF JoinThread, CallStalls, Calls, StallThread, Enter

LEMMA ThreadStepInv ==
  ASSUME SkewInv, NEW t \in Threads, ThreadStep(t), UNCHANGED barrierVars
  PROVE  SkewInv' /\ (RunInv => RunInv')
BY JoinThreadCall, StallsStep, CreateStep, StartStep DEF ThreadStep

LEMMA NextInv ==
  ASSUME SkewInv, [Next]_vars
  PROVE  SkewInv' /\ (RunInv => RunInv')
<1>1. ASSUME UNCHANGED vars PROVE SkewInv' /\ (RunInv => RunInv')
  <2>1. UNCHANGED <<status, waiter, m_thread_lock, host, on, m_futx, clock, sync_time,
                    m_next_barrier_time, m_local_clock_list, m_barrier_acquire_list,
                    m_next_sync_time>>
    BY <1>1 DEF vars, threadVars, barrierVars
  <2>2. /\ HostTypeOK' /\ HolderServes' /\ InBarrier' /\ BehindBarrier' /\ Grid'
        /\ Started' /\ NoLostWakeup'
    BY <2>1 DEF SkewInv, HostTypeOK, HolderServes, InBarrier, NextSync, BehindBarrier, Grid,
                Started, NoLostWakeup
  <2>3. RunInv => JoinsLater' /\ AwakeRuns' /\ NobodyOvertakes'
    BY <2>1 DEF RunInv, JoinsLater, AwakeRuns, NobodyOvertakes
  <2> QED
    BY <2>2, <2>3 DEF SkewInv, RunInv
<1>2. ASSUME NEW t \in Threads, ThreadStep(t), UNCHANGED barrierVars
      PROVE  SkewInv' /\ (RunInv => RunInv')
  BY <1>2, ThreadStepInv
<1>3. ASSUME NEW t \in Threads, SyncStep(t), UNCHANGED barrierVars
      PROVE  SkewInv' /\ (RunInv => RunInv')
  BY <1>3, SyncCalls, ProceedsStep, StallsStep DEF SkewInv
<1>4. ASSUME NEW t \in Threads, SyscallStep(t), UNCHANGED barrierVars
      PROVE  SkewInv' /\ (RunInv => RunInv')
  BY <1>4, SyscallCalls, ProceedsStep, StallsStep, BlockingStep DEF SkewInv
<1>5. ASSUME NEW t \in Threads, NEW f, ThreadExit(t, f), UNCHANGED barrierVars
      PROVE  SkewInv' /\ (RunInv => RunInv')
  <2>1. PICK ts : CallExits(t, ts)
    BY <1>5, ThreadExitCall
  <2> QED
    BY <2>1, ExitsStep
<1>6. ASSUME NEW t \in Threads, HostStep(t)
      PROVE  SkewInv' /\ (RunInv => RunInv')
  BY <1>6, HostSteps DEF HostStep
<1>7. ASSUME NEW t \in Threads, Executes(t)
      PROVE  SkewInv' /\ (RunInv => RunInv')
  <2>1. PICK d \in Nat : Execute(t, d) \/ EnterBarrier(t, d)
    BY <1>7, DurationsAssumption DEF Executes
  <2> QED
    BY <2>1, ExecuteStep, EnterStep
<1>8. ASSUME ServerStep PROVE SkewInv' /\ (RunInv => RunInv')
  BY <1>8, BarrierSignalStep, ReleaseStep, AdvanceStep, StallDecidedStep DEF ServerStep
<1> QED
  BY <1>1, <1>2, <1>3, <1>4, <1>5, <1>6, <1>7, <1>8 DEF Next

LEMMA InitInv ==
  ASSUME Init
  PROVE  SkewInv /\ (~ JoinsEarly => RunInv)
<1> USE DEF Init, ThreadInit
<1>0. BarrierInterval \in Nat /\ BarrierInterval > 0
  BY IntervalAssumption
<1>1. HostTypeOK
  BY <1>0, CreatedAssumption DEF HostTypeOK, Statuses, HostStates
<1>2. HolderServes
  BY <1>1, LockFacts DEF HolderServes
<1>3. InBarrier /\ Started /\ NoLostWakeup
  BY DEF InBarrier, Started, NoLostWakeup
<1>4. BehindBarrier
  BY <1>0 DEF BehindBarrier
<1>5. Grid
  <2>1. BarrierInterval = 1 * BarrierInterval
    BY <1>0
  <2> QED
    BY <2>1 DEF Grid
<1>6. ASSUME ~ JoinsEarly PROVE JoinsLater /\ AwakeRuns /\ NobodyOvertakes
  <2>1. Free.at = "none"
    BY DEF Free
  <2> QED
    BY <1>6, <2>1 DEF JoinsLater, AwakeRuns, NobodyOvertakes
<1> QED
  BY <1>1, <1>2, <1>3, <1>4, <1>5, <1>6 DEF SkewInv, RunInv

\* Only a release and an advance move the barrier.
LEMMA BarrierMoves ==
  ASSUME RunInv, [Next]_vars, m_next_barrier_time' # m_next_barrier_time,
         NEW t \in Threads
  PROVE  host[t] # "app"
<1>1. BarrierRelease \/ Advance
  BY ZenonT(60) DEF Next, vars, barrierVars, HostStep, Executes, Execute, EnterBarrier, ServerStep,
         BarrierSignal
<1>2. CASE BarrierRelease
  BY <1>2 DEF RunInv, NobodyOvertakes, BarrierRelease
<1>3. CASE Advance
  BY <1>3 DEF RunInv, AwakeRuns, Advance, AnyThreadRunning
<1> QED
  BY <1>1, <1>2, <1>3

-----------------------------------------------------------------------------
(* Where no reschedule costs anything: a core that is not in the barrier is at
   most at the next barrier time, and nobody is to go on later than that.  A
   core is woken at the time of another one that is behind the barrier, or at
   the barrier; whatever it executes then takes it into the barrier, at the
   latest when it gets there.                                              *)
TimesBehind ==
  \A t \in Threads :
    /\ ~ m_barrier_acquire_list[t] => clock[t] <= m_next_barrier_time
    /\ sync_time[t] <= m_next_barrier_time

SyncTimesBehind ==
  \A u \in Threads : sync_time'[u] = sync_time[u] \/ sync_time'[u] <= m_next_barrier_time

LEMMA TimesKept ==
  ASSUME HostTypeOK, HostTypeOK', TimesBehind, SyncTimesBehind,
         m_next_barrier_time' >= m_next_barrier_time,
         \A u \in Threads : ~ m_barrier_acquire_list'[u] =>
           \/ ~ m_barrier_acquire_list[u] /\ clock'[u] = clock[u]
           \/ clock'[u] <= m_next_barrier_time'
  PROVE  TimesBehind'
BY DEF TimesBehind, SyncTimesBehind, HostTypeOK

LEMMA SyncInstructionTimes ==
  ASSUME HostTypeOK, HostTypeOK', TimesBehind, SyncTimesBehind, UNCHANGED barrierVars,
         NEW t \in Threads, ~ m_barrier_acquire_list[t],
         NEW time \in Nat, time <= m_next_barrier_time, SyncInstruction(t, time)
  PROVE  TimesBehind'
<1>1. UNCHANGED <<m_next_barrier_time, m_barrier_acquire_list>>
  BY DEF barrierVars
<1>2. clock'[t] = Later(clock[t], time) /\ \A u \in Threads \ {t} : clock'[u] = clock[u]
  BY SyncInstructionFacts DEF HostTypeOK
<1>3. clock'[t] <= m_next_barrier_time
  BY <1>2 DEF Later, TimesBehind
<1>4. m_next_barrier_time' >= m_next_barrier_time
  BY <1>1 DEF HostTypeOK
<1> QED
  BY <1>1, <1>2, <1>3, <1>4, TimesKept

\* A call passes on the time of its own core, which executes.
LEMMA CallTimes ==
  ASSUME SkewInv, SkewInv', RescheduleCost = 0, TimesBehind, NEW t \in Threads, NEW ts,
         \/ CallProceeds(t, ts) \/ CallExits(t, ts)
         \/ \E reason, call : CallStalls(t, reason, ts, call)
  PROVE  TimesBehind'
<1>0. HostTypeOK /\ HostTypeOK' /\ Calls(t)
  BY DEF SkewInv, CallProceeds, CallExits, CallStalls
<1>1. UNCHANGED <<m_next_barrier_time, m_barrier_acquire_list>>
  BY <1>0 DEF Calls, barrierVars
<1>2. clock[t] \in Nat /\ clock[t] <= m_next_barrier_time
  BY <1>0, AppIsOut DEF Calls, TimesBehind, HostTypeOK
<1>3. UNCHANGED clock /\ \A u \in Threads : sync_time'[u] \in {sync_time[u], clock[t]}
  <2>1. CASE CallProceeds(t, ts)
    <3>1. PICK time, now \in Soon(t) :
            Proceed(t, ts, time) /\ clock' = [clock EXCEPT ![t] = now]
      BY <2>1 DEF CallProceeds
    <3>2. time = clock[t] /\ now = clock[t]
      BY <1>0, <1>2, SoonFacts
    <3>3. sync_time' = SyncTimes(ts, clock[t])
      BY <3>1, <3>2 DEF Proceed
    <3> QED
      BY <1>0, <3>1, <3>2, <3>3 DEF HostTypeOK, SyncTimes
  <2>2. CASE CallExits(t, ts)
    <3>1. PICK woken, cost : cost \in RescheduleCosts /\ Exit(t, ts, woken, cost)
      BY <2>2 DEF CallExits
    <3>2. clock[t] + cost = clock[t]
      BY <1>2, <3>1 DEF RescheduleCosts
    <3> QED
      BY <3>1, <3>2 DEF Exit, SyncTimes
  <2>3. ASSUME NEW reason, NEW call, CallStalls(t, reason, ts, call)
        PROVE  UNCHANGED clock /\ \A u \in Threads : sync_time'[u] \in {sync_time[u], clock[t]}
    BY <2>3 DEF CallStalls, Stall, SyncTimes
  <2> QED
    BY <2>1, <2>2, <2>3
<1>4. SyncTimesBehind
  BY <1>2, <1>3 DEF SyncTimesBehind
<1> QED
  BY <1>0, <1>1, <1>3, <1>4, TimesKept DEF HostTypeOK

LEMMA ThreadTimes ==
  ASSUME SkewInv, SkewInv', RescheduleCost = 0, TimesBehind, NEW t \in Threads,
         ThreadStep(t), UNCHANGED barrierVars
  PROVE  TimesBehind'
<1>0. HostTypeOK /\ HostTypeOK' /\ UNCHANGED <<m_next_barrier_time, m_barrier_acquire_list>>
  BY DEF SkewInv, barrierVars
<1>1. ASSUME NEW u \in Threads, CreateThread(t, u) PROVE TimesBehind'
  <2>1. host[t] = "app" /\ UNCHANGED clock /\ sync_time' = [sync_time EXCEPT ![u] = clock[t]]
    BY <1>1 DEF CreateThread, Enter
  <2>2. clock[t] <= m_next_barrier_time
    BY <2>1, AppIsOut DEF TimesBehind
  <2>3. SyncTimesBehind
    BY <1>0, <2>1, <2>2 DEF SyncTimesBehind, HostTypeOK
  <2> QED
    BY <1>0, <2>1, <2>3, TimesKept DEF HostTypeOK
<1>2. ASSUME NEW u \in Threads, JoinThread(t, u) PROVE TimesBehind'
  BY <1>2, JoinThreadCall, CallTimes
<1>3. CASE ThreadStart(t)
  <2>1. /\ host[t] = "none" /\ SyncInstruction(t, sync_time[t])
        /\ sync_time' = SyncTimes({waiter[t]}, Later(clock[t], sync_time[t]))
    BY <1>3 DEF ThreadStart, SkewInv, Started
  <2>2. /\ ~ m_barrier_acquire_list[t] /\ sync_time[t] \in Nat
        /\ clock[t] <= m_next_barrier_time /\ sync_time[t] <= m_next_barrier_time
    BY <1>0, <2>1, AppIsOut DEF TimesBehind, HostTypeOK
  <2>3. Later(clock[t], sync_time[t]) <= m_next_barrier_time
    BY <2>2 DEF Later
  <2>4. SyncTimesBehind
    BY <2>1, <2>3 DEF SyncTimesBehind, SyncTimes
  <2> QED
    BY <1>0, <2>1, <2>2, <2>4, SyncInstructionTimes
<1> QED
  BY <1>1, <1>2, <1>3 DEF ThreadStep

\* A thread comes back from a stall, or from a system call of the host.
LEMMA ResumeTimes ==
  ASSUME SkewInv, SkewInv', RescheduleCost = 0, TimesBehind, NEW t \in Threads,
         UNCHANGED barrierVars,
         \/ BlockingReturn(t, m_next_barrier_time) \/ BlockingResume(t)
         \/ FutexSleep(t) \/ Return(t)
         \/ StallDecided /\ t = m_thread_lock.by
  PROVE  TimesBehind'
<1>0. HostTypeOK /\ HostTypeOK' /\ UNCHANGED <<m_next_barrier_time, m_barrier_acquire_list>>
  BY DEF SkewInv, barrierVars
<1>1. SyncTimesBehind
  BY <1>0 DEF SyncTimesBehind, BlockingReturn, BlockingResume, FutexSleep, Return, StallDecided,
              HostTypeOK
<1>2. CASE UNCHANGED clock
  BY <1>0, <1>1, <1>2, TimesKept DEF HostTypeOK
<1>3. CASE ~ UNCHANGED clock
  <2>1. /\ SyncInstruction(t, sync_time[t]) \/ SyncInstruction(t, EndTime(t))
        /\ \/ host[t] \in {"resuming", "waking"}
           \/ m_thread_lock.by = t /\ m_thread_lock.call = "stall"
    BY <1>3 DEF BlockingReturn, BlockingResume, FutexSleep, Return, StallDecided
  <2>2. sync_time[t] \in Nat /\ sync_time[t] <= m_next_barrier_time
    BY <1>0 DEF HostTypeOK, TimesBehind
  <2>3. EndTime(t) = sync_time[t]
    BY <2>2 DEF EndTime
  <2>4. ~ m_barrier_acquire_list[t]
    BY <1>0, <2>1, AppIsOut, LockFacts
  <2> QED
    BY <1>0, <1>1, <2>1, <2>2, <2>3, <2>4, SyncInstructionTimes
<1> QED
  BY <1>2, <1>3

LEMMA ExecuteTimes ==
  ASSUME SkewInv, SkewInv', TimesBehind, NEW t \in Threads, NEW d \in Nat,
         Execute(t, d) \/ EnterBarrier(t, d)
  PROVE  TimesBehind'
<1>0. /\ HostTypeOK /\ HostTypeOK' /\ ~ m_barrier_acquire_list[t]
      /\ UNCHANGED <<sync_time, m_next_barrier_time>>
      /\ clock' = [clock EXCEPT ![t] = clock[t] + d]
  BY AppIsOut DEF SkewInv, Execute, EnterBarrier
<1>1. \A u \in Threads \ {t} :
        clock'[u] = clock[u] /\ m_barrier_acquire_list'[u] = m_barrier_acquire_list[u]
  BY <1>0 DEF Execute, EnterBarrier, HostTypeOK
<1>2. clock'[t] <= m_next_barrier_time \/ m_barrier_acquire_list'[t]
  <2>1. CASE Execute(t, d)
    <3>1. clock[t] + d < m_next_sync_time[t] \/ clock[t] + d < m_next_barrier_time
      BY <2>1 DEF Execute
    <3>2. m_next_sync_time[t] <= m_next_barrier_time
      BY <1>0 DEF SkewInv, BehindBarrier
    <3> QED
      BY <1>0, <3>1, <3>2 DEF HostTypeOK
  <2>2. CASE EnterBarrier(t, d)
    BY <1>0, <2>2 DEF EnterBarrier, HostTypeOK
  <2> QED
    BY <2>1, <2>2
<1>3. SyncTimesBehind
  BY <1>0 DEF SyncTimesBehind
<1> QED
  BY <1>0, <1>1, <1>2, <1>3, TimesKept DEF HostTypeOK

\* A core leaves the barrier behind the next one; a timeout passes at the barrier.
LEMMA ServerTimes ==
  ASSUME SkewInv, SkewInv', TimesBehind, BarrierSignal \/ BarrierRelease \/ Advance
  PROVE  TimesBehind'
<1>0. HostTypeOK /\ HostTypeOK' /\ UNCHANGED clock
  BY DEF SkewInv, BarrierSignal, BarrierRelease, Advance
<1>1. SyncTimesBehind
  <2>1. CASE UNCHANGED sync_time
    BY <2>1 DEF SyncTimesBehind
  <2>2. CASE ~ UNCHANGED sync_time
    <3>1. FutexPeriodic(m_next_barrier_time)
      BY <2>2 DEF BarrierSignal, BarrierRelease, Advance
    <3>2. sync_time' = SyncTimes(WokenAt(m_next_barrier_time), m_next_barrier_time)
      BY <3>1 DEF FutexPeriodic
    <3> QED
      BY <1>0, <3>2 DEF SyncTimesBehind, SyncTimes, HostTypeOK
  <2> QED
    BY <2>1, <2>2
<1>2. CASE UNCHANGED <<m_next_barrier_time, m_barrier_acquire_list>>
  BY <1>0, <1>1, <1>2, TimesKept DEF HostTypeOK
<1>3. CASE ~ UNCHANGED <<m_next_barrier_time, m_barrier_acquire_list>>
  <2> DEFINE next == m_next_barrier_time + BarrierInterval
  <2>1. /\ m_next_barrier_time' = next
        /\ m_barrier_acquire_list' =
             [u \in Threads |-> m_barrier_acquire_list[u] /\ u \notin Due(next)]
    BY <1>3 DEF BarrierSignal, BarrierRelease, Advance, barrierVars
  <2>2. /\ next \in Nat /\ next >= m_next_barrier_time
        /\ \A u \in Due(next) : m_barrier_acquire_list[u] /\ m_local_clock_list[u] < next
    BY NextBarrierFacts
  <2>3. \A u \in Due(next) \cap Threads : clock[u] < next
    BY <2>2 DEF SkewInv, InBarrier
  <2> HIDE DEF next
  <2>4. \A u \in Threads : ~ m_barrier_acquire_list'[u] =>
          \/ ~ m_barrier_acquire_list[u]
          \/ u \in Due(next)
    BY <2>1
  <2>5. \A u \in Threads : clock[u] \in Nat /\ clock'[u] = clock[u]
    BY <1>0 DEF HostTypeOK
  <2> QED
    BY <1>0, <1>1, <2>1, <2>2, <2>3, <2>4, <2>5, TimesKept
<1> QED
  BY <1>2, <1>3

LEMMA NextTimes ==
  ASSUME SkewInv, SkewInv', RescheduleCost = 0, TimesBehind, [Next]_vars
  PROVE  TimesBehind'
<1>0. HostTypeOK
  BY DEF SkewInv
<1>1. CASE UNCHANGED vars
  BY <1>1 DEF vars, threadVars, barrierVars, TimesBehind
<1>2. ASSUME NEW t \in Threads, ThreadStep(t), UNCHANGED barrierVars PROVE TimesBehind'
  BY <1>2, ThreadTimes
<1>3. ASSUME NEW t \in Threads, SyncStep(t), UNCHANGED barrierVars PROVE TimesBehind'
  BY <1>0, <1>3, SyncCalls, CallTimes
<1>4. ASSUME NEW t \in Threads, SyscallStep(t), UNCHANGED barrierVars PROVE TimesBehind'
  BY <1>0, <1>4, SyscallCalls, CallTimes, ResumeTimes
<1>5. ASSUME NEW t \in Threads, NEW f, ThreadExit(t, f), UNCHANGED barrierVars
      PROVE  TimesBehind'
  BY <1>5, ThreadExitCall, CallTimes
<1>6. ASSUME NEW t \in Threads, HostStep(t) PROVE TimesBehind'
  BY <1>6, ResumeTimes DEF HostStep
<1>7. ASSUME NEW t \in Threads, Executes(t) PROVE TimesBehind'
  <2>1. PICK d \in Nat : Execute(t, d) \/ EnterBarrier(t, d)
    BY <1>7, DurationsAssumption DEF Executes
  <2> QED
    BY <2>1, ExecuteTimes
<1>8. CASE StallDecided /\ UNCHANGED barrierVars
  <2>1. m_thread_lock.by \in Threads
    BY <1>0, <1>8, LockFacts DEF StallDecided
  <2> QED
    BY <1>8, <2>1, ResumeTimes
<1> QED
  BY <1>1, <1>2, <1>3, <1>4, <1>5, <1>6, <1>7, <1>8, ServerTimes DEF Next, ServerStep

-----------------------------------------------------------------------------
(* The host's futex word closes the window between the release of the lock
   and the sleep (misc/cond.cc:25-60): nobody sleeps through a wake-up.    *)
THEOREM WakeupsNeverLost == Spec => []NoLostWakeup
<1>1. Init => SkewInv
  BY InitInv
<1>2. SkewInv /\ [Next]_vars => SkewInv'
  BY NextInv
<1>3. SkewInv => NoLostWakeup
  BY DEF SkewInv
<1> QED
  BY <1>1, <1>2, <1>3, PTL DEF Spec

(* If a reschedule costs nothing, which is the default (config/base.cfg:240),
   no thread makes a call past the next barrier time, whatever the cores execute
   between two synchronisations (barrier_sync_server.cc:61-110) and however a
   thread is created, woken, timed out or brought back from the host.      *)
THEOREM SkewBounded == RescheduleCost = 0 => (Spec => []BoundedSkew)
<1> SUFFICES ASSUME RescheduleCost = 0 PROVE Spec => []BoundedSkew
  OBVIOUS
<1> DEFINE Inv == SkewInv /\ TimesBehind
<1>1. Init => Inv
  <2>1. Init => SkewInv
    BY InitInv
  <2>2. Init => TimesBehind
    BY IntervalAssumption DEF Init, ThreadInit, TimesBehind
  <2> QED
    BY <2>1, <2>2
<1>2. Inv /\ [Next]_vars => Inv'
  BY NextInv, NextTimes
<1>3. Inv => BoundedSkew
  BY AppIsOut DEF TimesBehind, BoundedSkew
<1> QED
  BY <1>1, <1>2, <1>3, PTL DEF Spec

(* If nobody joins a thread before it starts, a call returns only to a thread
   that was resumed (thread_manager.cc:128-250).                           *)
THEOREM RunningThreadsExecute == ~ JoinsEarly /\ Spec => []ReturnedThreadsRun
<1>1. ~ JoinsEarly /\ Init => RunInv
  BY InitInv
<1>2. RunInv /\ [Next]_vars => RunInv'
  BY NextInv DEF RunInv
<1>3. RunInv => ReturnedThreadsRun
  BY DEF RunInv, AwakeRuns, ReturnedThreadsRun
<1> QED
  BY <1>1, <1>2, <1>3, PTL DEF Spec

(* Under the same condition the barrier never moves under a thread that
   executes: it is released by the last core to reach it, by the stall or
   exit of the thread it waited for, or when nobody runs.                  *)
THEOREM BarrierWaits == ~ JoinsEarly /\ Spec => BarrierWaitsForAll
<1>1. ~ JoinsEarly /\ Init => RunInv
  BY InitInv
<1>2. RunInv /\ [Next]_vars => RunInv'
  BY NextInv DEF RunInv
<1>3. RunInv /\ [Next]_vars =>
        [m_next_barrier_time' # m_next_barrier_time => \A t \in Threads : host[t] # "app"]_vars
  BY BarrierMoves
<1> QED
  BY <1>1, <1>2, <1>3, PTL DEF Spec, BarrierWaitsForAll

-----------------------------------------------------------------------------
(* A thread that was stalled, and why. *)
Stuck(t, reasons) == status[t] = "STALLED" /\ stalled_reason[t] \in reasons

Who(queue) == {queue[i].thread : i \in 1..Len(queue)}

(* No thread has two places in a family of queues. *)
Apart(queues, keys) ==
  \A k, l \in keys : \A i \in 1..Len(queues[k]), j \in 1..Len(queues[l]) :
    queues[k][i].thread = queues[l][j].thread => k = l /\ i = j

Queued(queues, keys) == UNION {Who(queues[k]) : k \in keys}

Once(queue) == \A i, j \in 1..Len(queue) : queue[i] = queue[j] => i = j

JoinQueue ==
  /\ \A u, v \in Threads : waiter[u] = waiter[v] /\ waiter[u] # NoThread => u = v
  /\ \A t \in Threads : (\E u \in Threads : waiter[u] = t) <=> Stuck(t, {"JOIN"})

BarrierQueue ==
  /\ m_barrier \in Seq(Threads) /\ Once(m_barrier)
  /\ \A t \in Threads : t \in Elements(m_barrier) <=> Stuck(t, {"BARRIER"})

Sleepers == [k \in {"sleep"} |-> m_sleeping]
SleepQueue ==
  /\ m_sleeping \in Seq(Waiters) /\ Apart(Sleepers, {"sleep"})
  /\ \A t \in Threads : t \in Queued(Sleepers, {"sleep"}) <=> Stuck(t, {"SLEEP"})

FutexQueues ==
  /\ m_futexes \in [Futexes -> Seq(Waiters)] /\ Apart(m_futexes, Futexes)
  /\ \A t \in Threads : t \in Queued(m_futexes, Futexes) <=> Stuck(t, {"FUTEX"})

(* The threads in the queue of some mutex. *)
Lined(mutexes) == UNION {Elements(mutexes[m]) : m \in Mutexes}

MonitorQueues ==
  /\ m_mutexes \in [Mutexes -> Seq(Threads)]
  /\ m_conds \in [Conds -> Seq(CondWaiters)]
  /\ want \in [Threads -> Mutexes \cup {NoMutex}]
  /\ \A m \in Mutexes : Once(m_mutexes[m])
  /\ Apart(m_conds, Conds)
  /\ \A m \in Mutexes : \A t \in Elements(m_mutexes[m]) :
        want[t] = m /\ t \notin Queued(m_conds, Conds)
  /\ \A c \in Conds : \A i \in 1..Len(m_conds[c]) : want[m_conds[c][i].thread] = m_conds[c][i].mutex
  /\ \A t \in Threads :
       t \in Lined(m_mutexes) \cup Queued(m_conds, Conds) <=> Stuck(t, {"MUTEX", "COND"})

(* A thread that waits for the host is in no queue. *)
HostCalls ==
  /\ stalled_reason \in [Threads -> Reasons]
  /\ \A t \in Threads : host[t] \in {"blocked", "resuming"} => stalled_reason[t] = "SYSCALL"
  /\ m_thread_lock.call = "block" => stalled_reason[m_thread_lock.by] = "SYSCALL"

StallReasons == \A t \in Threads : ~ Stuck(t, {"NONE"})

QueueInv == StallReasons /\ JoinQueue /\ BarrierQueue /\ SleepQueue /\ FutexQueues /\ MonitorQueues /\ HostCalls

-----------------------------------------------------------------------------
(* The threads that stall and resume: those in R are resumed, and s stalls
   for a reason (NoThread for nobody).                                     *)
Waits == {"JOIN", "MUTEX", "COND", "BARRIER", "FUTEX", "SLEEP"}
Restalls(R, s, reason) ==
  /\ \A reasons \in SUBSET Waits : \A t \in Threads :
       (Stuck(t, reasons))' <=> \/ Stuck(t, reasons) /\ t \notin R
                                \/ t = s /\ reason \in reasons
  /\ \A t \in Threads : (Stuck(t, {"NONE"}))' => Stuck(t, {"NONE"})

LEMMA ProceedRestalls ==
  ASSUME RunInv, NEW t \in Threads, NEW ts, CallProceeds(t, ts)
  PROVE  Restalls(ts, NoThread, "NONE")
<1>1. \A u \in Threads : status'[u] = IF u \in ts THEN "RUNNING" ELSE status[u]
  BY ResumedFacts DEF RunInv, SkewInv, CallProceeds, Proceed
<1>2. UNCHANGED stalled_reason
  BY DEF CallProceeds, Proceed
<1> QED
  BY <1>1, <1>2, ThreadsAssumption DEF Restalls, Stuck, Waits

LEMMA CallerRuns ==
  ASSUME RunInv, NEW t \in Threads, Calls(t)
  PROVE  status[t] = "RUNNING" /\ \A reasons : ~ Stuck(t, reasons)
BY DEF RunInv, AwakeRuns, Calls, Stuck

LEMMA StallRestalls ==
  ASSUME RunInv, HostCalls, NEW t \in Threads, NEW reason, NEW ts, NEW call,
         CallStalls(t, reason, ts, call), reason # "NONE"
  PROVE  Restalls(ts, t, reason)
<1>1. \A u \in Threads :
        status'[u] = IF u = t THEN "STALLED" ELSE IF u \in ts THEN "RUNNING" ELSE status[u]
  BY ResumedFacts DEF RunInv, SkewInv, CallStalls, Stall
<1>2. \A u \in Threads : stalled_reason'[u] = IF u = t THEN reason ELSE stalled_reason[u]
  BY DEF CallStalls, Stall, HostCalls
<1>3. \A reasons : ~ Stuck(t, reasons)
  BY CallerRuns DEF CallStalls
<1> QED
  BY <1>1, <1>2, <1>3 DEF Restalls, Stuck

LEMMA ExitRestalls ==
  ASSUME RunInv, NEW t \in Threads, NEW ts, CallExits(t, ts)
  PROVE  Restalls(ts, NoThread, "NONE")
<1>1. \A u \in Threads :
        status'[u] = IF u = t THEN "IDLE" ELSE IF u \in ts THEN "RUNNING" ELSE status[u]
  BY ResumedFacts DEF RunInv, SkewInv, CallExits, Exit
<1>2. UNCHANGED stalled_reason
  BY DEF CallExits, Exit
<1>3. \A reasons : ~ Stuck(t, reasons)
  BY CallerRuns DEF CallExits
<1> QED
  BY <1>1, <1>2, <1>3, ThreadsAssumption DEF Restalls, Stuck, Waits

LEMMA PeriodicRestalls ==
  ASSUME RunInv, NEW time, FutexPeriodic(time), UNCHANGED stalled_reason
  PROVE  Restalls(WokenAt(time), NoThread, "NONE")
<1>1. \A u \in Threads : status'[u] = IF u \in WokenAt(time) THEN "RUNNING" ELSE status[u]
  BY ResumedFacts DEF RunInv, SkewInv, FutexPeriodic
<1> QED
  BY <1>1, ThreadsAssumption DEF Restalls, Stuck, Waits

\* Whoever changes between states other than STALLED, or from a system call.
LEMMA OthersRestall ==
  ASSUME HostTypeOK, UNCHANGED stalled_reason, NEW t \in Threads, NEW st,
         status' = [status EXCEPT ![t] = st], st # "STALLED",
         status[t] # "STALLED" \/ stalled_reason[t] = "SYSCALL"
  PROVE  Restalls({}, NoThread, "NONE")
BY ThreadsAssumption DEF Restalls, Stuck, Waits, HostTypeOK

LEMMA NobodyRestalls ==
  ASSUME UNCHANGED <<status, stalled_reason>>
  PROVE  Restalls({}, NoThread, "NONE")
BY ThreadsAssumption DEF Restalls, Stuck, Waits

-----------------------------------------------------------------------------
LEMMA RestallFacts ==
  ASSUME NEW R, NEW s, NEW reason, Restalls(R, s, reason),
         NEW reasons \in SUBSET Waits, NEW t \in Threads
  PROVE  (Stuck(t, reasons))' <=> \/ Stuck(t, reasons) /\ t \notin R
                                  \/ t = s /\ reason \in reasons
BY DEF Restalls

LEMMA OnlyResumes ==
  ASSUME NEW R, Restalls(R, NoThread, "NONE"), NEW reasons \in SUBSET Waits
  PROVE  \A t \in Threads : (Stuck(t, reasons))' <=> Stuck(t, reasons) /\ t \notin R
<1>1. \A t \in Threads : (Stuck(t, reasons))' <=>
        (Stuck(t, reasons) /\ t \notin R) \/ (t = NoThread /\ "NONE" \in reasons)
  BY DEF Restalls
<1> QED
  BY <1>1, ThreadsAssumption

(* A queue that an operation does not touch. *)
LEMMA Kept ==
  ASSUME NEW R, NEW s, NEW reason, Restalls(R, s, reason),
         NEW reasons \in SUBSET Waits, reason \notin reasons,
         \A t \in Threads \cap R : ~ Stuck(t, reasons)
  PROVE  \A t \in Threads : (Stuck(t, reasons))' <=> Stuck(t, reasons)
<1>1. \A t \in Threads :
        (Stuck(t, reasons))' <=> (Stuck(t, reasons) /\ t \notin R) \/ (t = s /\ reason \in reasons)
  BY DEF Restalls
<1> QED
  BY <1>1

LEMMA JoinKept ==
  ASSUME JoinQueue, UNCHANGED waiter,
         \A t \in Threads : (Stuck(t, {"JOIN"}))' <=> Stuck(t, {"JOIN"})
  PROVE  JoinQueue'
BY DEF JoinQueue

LEMMA BarrierKept ==
  ASSUME BarrierQueue, UNCHANGED m_barrier,
         \A t \in Threads : (Stuck(t, {"BARRIER"}))' <=> Stuck(t, {"BARRIER"})
  PROVE  BarrierQueue'
BY DEF BarrierQueue, Once, Elements

LEMMA SleepKept ==
  ASSUME SleepQueue, UNCHANGED m_sleeping,
         \A t \in Threads : (Stuck(t, {"SLEEP"}))' <=> Stuck(t, {"SLEEP"})
  PROVE  SleepQueue'
BY DEF SleepQueue, Sleepers

LEMMA FutexKept ==
  ASSUME FutexQueues, UNCHANGED m_futexes,
         \A t \in Threads : (Stuck(t, {"FUTEX"}))' <=> Stuck(t, {"FUTEX"})
  PROVE  FutexQueues'
BY DEF FutexQueues

LEMMA MonitorKept ==
  ASSUME MonitorQueues, UNCHANGED <<m_mutexes, m_conds, want>>,
         \A t \in Threads : (Stuck(t, {"MUTEX", "COND"}))' <=> Stuck(t, {"MUTEX", "COND"})
  PROVE  MonitorQueues'
BY DEF MonitorQueues

-----------------------------------------------------------------------------
(* Queues.  One queue is made of another: without the places in D. *)
Picks(new, old, D, o) ==
  /\ o \in [1..Len(new) -> 1..Len(old)]
  /\ \A i, j \in 1..Len(new) : o[i] = o[j] => i = j
  /\ \A j \in 1..Len(new) : new[j] = old[o[j]]
  /\ \A i \in 1..Len(old) : i \notin D <=> \E j \in 1..Len(new) : o[j] = i

LEMMA WithoutPicks ==
  ASSUME NEW T, NEW queue \in Seq(T), NEW n \in Nat
  PROVE  /\ Without(queue, n) \in Seq(T)
         /\ \E o : Picks(Without(queue, n), queue, 1..Least(n, Len(queue)), o)
<1> DEFINE new == Without(queue, n)
           number == Len(queue)
           o == [j \in 1..Len(new) |-> j + n]
<1>0. number \in Nat /\ \A i \in 1..number : queue[i] \in T
  OBVIOUS
<1>1. /\ new \in Seq(T)
      /\ Len(new) = IF n + 1 <= number THEN number - (n + 1) + 1 ELSE 0
      /\ \A i \in 1..(number - (n + 1) + 1) : new[i] = queue[n + 1 + i - 1]
  <2>1. \A i \in (n + 1)..number : queue[i] \in T
    BY <1>0
  <2> QED
    BY <1>0, <2>1, SubSeqProperties DEF Without
<1> HIDE DEF new, number
<1>2. Len(new) = IF n < number THEN number - n ELSE 0
  BY <1>0, <1>1
<1>3. \A j \in 1..Len(new) : j + n \in 1..number /\ new[j] = queue[j + n]
  <2> TAKE j \in 1..Len(new)
  <2>1. n < number /\ j \in 1..(number - (n + 1) + 1) /\ n + 1 + j - 1 = j + n
    BY <1>0, <1>2
  <2> QED
    BY <1>0, <1>1, <2>1
<1>4. ASSUME NEW i \in 1..number
      PROVE  i \notin 1..Least(n, number) <=> \E j \in 1..Len(new) : o[j] = i
  <2>1. CASE i <= n
    <3>1. i \in 1..Least(n, number)
      BY <1>0, <2>1 DEF Least
    <3>2. \A j \in 1..Len(new) : j + n # i
      BY <1>0, <1>2, <2>1
    <3> QED
      BY <3>1, <3>2
  <2>2. CASE i > n
    <3>1. i - n \in 1..Len(new) /\ (i - n) + n = i
      BY <1>0, <1>2, <2>2
    <3>2. i \notin 1..Least(n, number)
      BY <1>0, <2>2 DEF Least
    <3> QED
      BY <3>1, <3>2
  <2> QED
    BY <1>0, <2>1, <2>2
<1>5. Len(new) \in Nat
  BY <1>0, <1>2
<1>6. Picks(new, queue, 1..Least(n, number), o)
  BY <1>0, <1>3, <1>4, <1>5 DEF Picks, number
<1> QED
  BY <1>1, <1>6 DEF new, number

LEMMA TimedOutPicks ==
  ASSUME NEW T, NEW queue \in Seq(T), NEW time
  PROVE  /\ WithoutTimedOut(queue, time) \in Seq(T)
         /\ \E o : Picks(WithoutTimedOut(queue, time), queue, FirstExpired(queue, time), o)
<1> DEFINE number == Len(queue)
           D == FirstExpired(queue, time)
           new == WithoutTimedOut(queue, time)
<1>0. number \in Nat /\ \A i \in 1..number : queue[i] \in T
  OBVIOUS
<1>1. /\ D \subseteq 1..number
      /\ \A i, j \in D : i <= j /\ j <= i
  BY DEF FirstExpired, Expired
<1>a. new = [j \in 1..number - Cardinality(D) |->
               IF \E i \in D : i <= j THEN queue[j + 1] ELSE queue[j]]
  BY DEF WithoutTimedOut
<1> HIDE DEF new, D, number
<1>2. CASE D = {}
  <2>1. Cardinality(D) = 0
    BY <1>2, FS_EmptySet
  <2>2. new = [j \in 1..number |-> queue[j]]
    BY <1>a, <1>0, <1>2, <2>1
  <2>3. new \in Seq(T) /\ Len(new) = number /\ \A j \in 1..number : new[j] = queue[j]
    BY <1>0, <2>2
  <2> DEFINE o == [j \in 1..number |-> j]
  <2>4. Picks(new, queue, D, o)
    BY <1>0, <1>2, <2>3 DEF Picks, number
  <2> QED
    BY <2>3, <2>4 DEF new, D
<1>3. ASSUME NEW i \in D PROVE new \in Seq(T) /\ \E o : Picks(new, queue, D, o)
  <2>1. D = {i} /\ i \in 1..number
    <3>1. \A j \in D : j \in Int /\ i \in Int /\ i <= j /\ j <= i
      BY <1>0, <1>1
    <3>2. \A j \in D : j = i
      BY <3>1
    <3> QED
      BY <1>1, <3>2
  <2>2. Cardinality(D) = 1
    BY <2>1, FS_Singleton
  <2>3. new = [j \in 1..number - 1 |-> IF i <= j THEN queue[j + 1] ELSE queue[j]]
    BY <1>a, <2>1, <2>2
  <2> DEFINE o == [j \in 1..number - 1 |-> IF i <= j THEN j + 1 ELSE j]
  <2>4. \A j \in 1..number - 1 : o[j] \in 1..number /\ new[j] = queue[o[j]]
    BY <1>0, <2>1, <2>3
  <2>5. new \in Seq(T) /\ Len(new) = number - 1
    <3>1. number - 1 \in Nat
      BY <1>0, <2>1
    <3>2. \A j \in 1..number - 1 : (IF i <= j THEN queue[j + 1] ELSE queue[j]) \in T
      BY <1>0, <2>1
    <3> QED
      BY <2>3, <3>1, <3>2
  <2>6. \A k, j \in 1..number - 1 : o[k] = o[j] => k = j
    BY <1>0, <2>1
  <2>7. ASSUME NEW k \in 1..number
        PROVE  k \notin D <=> \E j \in 1..number - 1 : o[j] = k
    <3>1. CASE k < i
      <4>1. k \in 1..number - 1 /\ o[k] = k
        BY <1>0, <2>1, <3>1
      <4> QED
        BY <4>1, <2>1, <3>1
    <3>2. CASE k = i
      BY <1>0, <2>1, <3>2
    <3>3. CASE k > i
      <4>1. k - 1 \in 1..number - 1 /\ o[k - 1] = k
        BY <1>0, <2>1, <3>3
      <4> QED
        BY <1>0, <4>1, <2>1, <3>3
    <3> QED
      BY <1>0, <2>1, <3>1, <3>2, <3>3
  <2> HIDE DEF o
  <2>9. o \in [1..number - 1 -> 1..number]
    <3>1. \A j \in 1..number - 1 : (IF i <= j THEN j + 1 ELSE j) \in 1..number
      BY <1>0, <2>1
    <3> QED
      BY <3>1 DEF o
  <2>8. Picks(new, queue, D, o)
    BY <2>4, <2>5, <2>6, <2>7, <2>9 DEF Picks, number
  <2> QED
    BY <2>5, <2>8
<1> QED
  BY <1>2, <1>3 DEF new, D

LEMMA AllPick ==
  ASSUME NEW T, NEW queue \in Seq(T), NEW D, D \cap 1..Len(queue) = {}
  PROVE  \E o : Picks(queue, queue, D, o)
<1> DEFINE o == [j \in 1..Len(queue) |-> j]
<1>1. Picks(queue, queue, D, o)
  BY DEF Picks
<1> QED
  BY <1>1

(* The threads at the places in D[k] of the queues k. *)
At(queues, keys, D) ==
  UNION {{queues[k][i].thread : i \in D[k] \cap (1..Len(queues[k]))} : k \in keys}

LEMMA FamilyPicks ==
  ASSUME NEW keys, NEW old, NEW new, Apart(old, keys), NEW D,
         \A k \in keys : \E o : Picks(new[k], old[k], D[k], o)
  PROVE  /\ Apart(new, keys)
         /\ \A t : t \in Queued(new, keys) <=>
                     t \in Queued(old, keys) /\ t \notin At(old, keys, D)
<1>1. Apart(new, keys)
  <2> SUFFICES ASSUME NEW k \in keys, NEW l \in keys,
                      NEW i \in 1..Len(new[k]), NEW j \in 1..Len(new[l]),
                      new[k][i].thread = new[l][j].thread
               PROVE  k = l /\ i = j
    BY DEF Apart
  <2>1. PICK o : Picks(new[k], old[k], D[k], o)
    OBVIOUS
  <2>2. PICK p : Picks(new[l], old[l], D[l], p)
    OBVIOUS
  <2>3. /\ o[i] \in 1..Len(old[k]) /\ new[k][i] = old[k][o[i]]
        /\ p[j] \in 1..Len(old[l]) /\ new[l][j] = old[l][p[j]]
    BY <2>1, <2>2 DEF Picks
  <2>4. k = l
    BY <2>3 DEF Apart
  <2>5. /\ o[j] \in 1..Len(old[k]) /\ new[k][j] = old[k][o[j]]
        /\ j \in 1..Len(new[k])
    BY <2>1, <2>4 DEF Picks
  <2>6. o[i] = o[j]
    BY <2>3, <2>4, <2>5 DEF Apart
  <2> QED
    BY <2>1, <2>4, <2>5, <2>6 DEF Picks
<1>2. ASSUME NEW t, t \in Queued(new, keys)
      PROVE  t \in Queued(old, keys) /\ t \notin At(old, keys, D)
  <2>1. PICK k \in keys : \E j \in 1..Len(new[k]) : new[k][j].thread = t
    BY <1>2 DEF Queued, Who
  <2>a. PICK j \in 1..Len(new[k]) : new[k][j].thread = t
    BY <2>1
  <2>2. PICK o : Picks(new[k], old[k], D[k], o)
    OBVIOUS
  <2>3. o[j] \in 1..Len(old[k]) /\ old[k][o[j]].thread = t /\ o[j] \notin D[k]
    BY <2>a, <2>2 DEF Picks
  <2>4. t \in Queued(old, keys)
    BY <2>3 DEF Queued, Who
  <2>5. ASSUME t \in At(old, keys, D) PROVE FALSE
    <3>1. PICK l \in keys : \E i \in D[l] \cap (1..Len(old[l])) : old[l][i].thread = t
      BY <2>5 DEF At
    <3>a. PICK i \in D[l] \cap (1..Len(old[l])) : old[l][i].thread = t
      BY <3>1
    <3>2. l = k /\ i = o[j]
      BY <2>3, <3>a DEF Apart
    <3> QED
      BY <2>3, <3>a, <3>2
  <2> QED
    BY <2>4, <2>5
<1>3. ASSUME NEW t, t \in Queued(old, keys), t \notin At(old, keys, D)
      PROVE  t \in Queued(new, keys)
  <2>1. PICK k \in keys : \E i \in 1..Len(old[k]) : old[k][i].thread = t
    BY <1>3 DEF Queued, Who
  <2>a. PICK i \in 1..Len(old[k]) : old[k][i].thread = t
    BY <2>1
  <2>2. i \notin D[k]
    BY <1>3, <2>a DEF At
  <2>3. PICK o : Picks(new[k], old[k], D[k], o)
    OBVIOUS
  <2>4. PICK j \in 1..Len(new[k]) : o[j] = i
    BY <2>2, <2>3 DEF Picks
  <2>5. new[k][j].thread = t
    BY <2>a, <2>3, <2>4 DEF Picks
  <2> QED
    BY <2>5 DEF Queued, Who
<1> QED
  BY <1>1, <1>2, <1>3

LEMMA AppendFacts ==
  ASSUME NEW T, NEW queue \in Seq(T), NEW w \in T
  PROVE  /\ Append(queue, w) \in Seq(T)
         /\ Len(queue) \in Nat /\ Len(Append(queue, w)) = Len(queue) + 1
         /\ Append(queue, w)[Len(queue) + 1] = w
         /\ \A i \in 1..Len(queue) : Append(queue, w)[i] = queue[i]
OBVIOUS

Appended(new, old, keys, key, w, n) ==
  /\ key \in keys /\ n \in Nat /\ Len(old[key]) = n /\ Len(new[key]) = n + 1
  /\ new[key][n + 1] = w /\ \A i \in 1..n : new[key][i] = old[key][i]
  /\ \A k \in keys \ {key} : new[k] = old[k]

\* A thread that is in none of the queues comes to the end of one.
LEMMA FamilyAppend ==
  ASSUME NEW keys, NEW old, NEW new, NEW key, NEW w, NEW n,
         Apart(old, keys), Appended(new, old, keys, key, w, n),
         w.thread \notin Queued(old, keys)
  PROVE  /\ Apart(new, keys)
         /\ \A u : u \in Queued(new, keys) <=> u \in Queued(old, keys) \/ u = w.thread
<1> DEFINE t == w.thread
<1> HIDE DEF t
<1>0. /\ key \in keys /\ n \in Nat /\ Len(old[key]) = n /\ Len(new[key]) = n + 1
      /\ new[key][n + 1] = w /\ \A i \in 1..n : new[key][i] = old[key][i]
      /\ \A k \in keys \ {key} : new[k] = old[k]
      /\ w.thread = t /\ t \notin Queued(old, keys)
  BY DEF Appended, t
<1>1. \A k \in keys : k # key => new[k] = old[k]
  BY <1>0
<1>4. \A k \in keys : \A i \in 1..Len(new[k]) :
        \/ i \in 1..Len(old[k]) /\ new[k][i] = old[k][i]
        \/ k = key /\ i = n + 1 /\ new[k][i] = w
  BY <1>0, <1>1
<1>5. \A k \in keys : \A i \in 1..Len(old[k]) : old[k][i].thread # t
  BY <1>0 DEF Queued, Who
<1>6. Apart(new, keys)
  <2> SUFFICES ASSUME NEW k \in keys, NEW l \in keys,
                      NEW i \in 1..Len(new[k]), NEW j \in 1..Len(new[l]),
                      new[k][i].thread = new[l][j].thread
               PROVE  k = l /\ i = j
    BY DEF Apart
  <2>1. CASE i \in 1..Len(old[k]) /\ new[k][i] = old[k][i]
    <3>1. j \in 1..Len(old[l]) /\ new[l][j] = old[l][j]
      BY <1>0, <1>4, <1>5, <2>1
    <3> QED
      BY <2>1, <3>1 DEF Apart
  <2>2. CASE k = key /\ i = n + 1 /\ new[k][i] = w
    <3>1. l = key /\ j = n + 1
      BY <1>0, <1>4, <1>5, <2>2
    <3> QED
      BY <2>2, <3>1
  <2> QED
    BY <1>4, <2>1, <2>2
<1>7. \A u : u \in Queued(new, keys) => u \in Queued(old, keys) \/ u = t
  BY <1>0, <1>4 DEF Queued, Who
<1>8. \A u : u \in Queued(old, keys) => u \in Queued(new, keys)
  <2>1. \A k \in keys : \A i \in 1..Len(old[k]) :
          i \in 1..Len(new[k]) /\ new[k][i] = old[k][i]
    BY <1>0, <1>1
  <2> QED
    BY <2>1 DEF Queued, Who
<1>9. t \in Queued(new, keys)
  <2>1. n + 1 \in 1..Len(new[key])
    BY <1>0
  <2> QED
    BY <1>0, <2>1 DEF Queued, Who
<1> QED
  BY <1>0, <1>6, <1>7, <1>8, <1>9

-----------------------------------------------------------------------------
(* Each kind of queue, for the operations that change it. *)
LEMMA JoinAdded ==
  ASSUME JoinQueue, HostTypeOK, NEW t \in Threads, NEW u \in Threads, waiter[u] = NoThread,
         waiter' = [waiter EXCEPT ![u] = t],
         ~ Stuck(t, {"JOIN"}), Restalls({}, t, "JOIN")
  PROVE  JoinQueue'
<1>1. \A v \in Threads : waiter'[v] = IF v = u THEN t ELSE waiter[v]
  BY DEF HostTypeOK
<1>2. \A v \in Threads : waiter[v] # t
  BY DEF JoinQueue
<1>3. \A v \in Threads : (Stuck(v, {"JOIN"}))' <=> Stuck(v, {"JOIN"}) \/ v = t
  BY DEF Restalls, Waits
<1>4. \A v, w \in Threads : waiter'[v] = waiter'[w] /\ waiter'[v] # NoThread => v = w
  BY <1>1, <1>2 DEF JoinQueue
<1>5. \A v \in Threads : (\E w \in Threads : waiter'[w] = v) <=> Stuck(v, {"JOIN"}) \/ v = t
  BY <1>1, ThreadsAssumption DEF JoinQueue
<1> QED
  BY <1>3, <1>4, <1>5 DEF JoinQueue

LEMMA JoinLeft ==
  ASSUME JoinQueue, HostTypeOK, NEW t \in Threads, NEW R,
         waiter' = [waiter EXCEPT ![t] = NoThread],
         Restalls(R, NoThread, "NONE"),
         \A u \in Threads : Stuck(u, {"JOIN"}) => (u \in R <=> u = waiter[t])
  PROVE  JoinQueue'
<1>1. \A v \in Threads : waiter'[v] = IF v = t THEN NoThread ELSE waiter[v]
  BY DEF HostTypeOK
<1>3. \A v \in Threads : (Stuck(v, {"JOIN"}))' <=> Stuck(v, {"JOIN"}) /\ v \notin R
  BY DEF Restalls, Waits
<1>4. \A v, w \in Threads : waiter'[v] = waiter'[w] /\ waiter'[v] # NoThread => v = w
  BY <1>1 DEF JoinQueue
<1>5. \A v \in Threads : (\E w \in Threads : waiter'[w] = v) <=> Stuck(v, {"JOIN"}) /\ v # waiter[t]
  BY <1>1, ThreadsAssumption DEF JoinQueue
<1> QED
  BY <1>3, <1>4, <1>5 DEF JoinQueue

LEMMA BarrierAppended ==
  ASSUME BarrierQueue, NEW t \in Threads, m_barrier' = Append(m_barrier, t),
         ~ Stuck(t, {"BARRIER"}), Restalls({}, t, "BARRIER")
  PROVE  BarrierQueue'
<1>1. /\ Len(m_barrier) \in Nat /\ Len(m_barrier') = Len(m_barrier) + 1
      /\ \A i \in 1..Len(m_barrier) : m_barrier'[i] = m_barrier[i]
      /\ m_barrier'[Len(m_barrier) + 1] = t
      /\ m_barrier' \in Seq(Threads)
  BY DEF BarrierQueue
<1>2. \A i \in 1..Len(m_barrier') :
        \/ i \in 1..Len(m_barrier) /\ m_barrier'[i] = m_barrier[i]
        \/ i = Len(m_barrier) + 1 /\ m_barrier'[i] = t
  BY <1>1
<1>3. \A i \in 1..Len(m_barrier) : m_barrier[i] # t
  BY DEF BarrierQueue, Elements
<1>4. Once(m_barrier')
  BY <1>2, <1>3 DEF BarrierQueue, Once
<1>5. \A u : u \in Elements(m_barrier') <=> u \in Elements(m_barrier) \/ u = t
  <2>1. \A i \in 1..Len(m_barrier) : i \in 1..Len(m_barrier')
    BY <1>1
  <2>2. Len(m_barrier) + 1 \in 1..Len(m_barrier')
    BY <1>1
  <2> QED
    BY <1>1, <1>2, <2>1, <2>2 DEF Elements
<1>6. \A v \in Threads : (Stuck(v, {"BARRIER"}))' <=> Stuck(v, {"BARRIER"}) \/ v = t
  BY DEF Restalls, Waits
<1>7. \A v \in Threads : v \in Elements(m_barrier) <=> Stuck(v, {"BARRIER"})
  BY DEF BarrierQueue
<1>8. (Once(m_barrier))' /\ \A u : u \in (Elements(m_barrier))' <=> u \in Elements(m_barrier')
  BY <1>4 DEF Once, Elements
<1> QED
  BY <1>1, <1>5, <1>6, <1>7, <1>8 DEF BarrierQueue

LEMMA BarrierCleared ==
  ASSUME BarrierQueue, m_barrier' = <<>>, NEW R, R = Elements(m_barrier),
         Restalls(R, NoThread, "NONE")
  PROVE  BarrierQueue'
<1>0. {"BARRIER"} \in SUBSET Waits
  BY DEF Waits
<1>1. \A v \in Threads : (Stuck(v, {"BARRIER"}))' <=>
         Stuck(v, {"BARRIER"}) /\ v \notin Elements(m_barrier)
  BY <1>0, OnlyResumes
<1>2. \A v \in Threads : ~ (Stuck(v, {"BARRIER"}))'
  BY <1>1 DEF BarrierQueue
<1>3. (Once(m_barrier))' /\ (Elements(m_barrier))' = {}
  BY DEF Once, Elements
<1> QED
  BY <1>2, <1>3 DEF BarrierQueue

LEMMA WaitersHaveThreads ==
  /\ \A w \in Waiters : w.thread \in Threads
  /\ \A w \in CondWaiters : w.thread \in Threads /\ w.mutex \in Mutexes
BY DEF Waiters, CondWaiters

LEMMA SleepAppended ==
  ASSUME SleepQueue, NEW t \in Threads, NEW time \in Nat \cup {Never},
         m_sleeping' = Append(m_sleeping, Waiter(t, time)),
         ~ Stuck(t, {"SLEEP"}), Restalls({}, t, "SLEEP")
  PROVE  SleepQueue'
<1> DEFINE w == Waiter(t, time)
<1>1. w \in Waiters /\ w.thread = t
  BY DEF Waiter, Waiters
<1>2. /\ Sleepers \in [{"sleep"} -> Seq(Waiters)] /\ Apart(Sleepers, {"sleep"})
      /\ t \notin Queued(Sleepers, {"sleep"})
  BY DEF SleepQueue, Sleepers
<1>3. PICK new : new = Sleepers'
  OBVIOUS
<1>a. new["sleep"] = Append(Sleepers["sleep"], w) /\ Sleepers["sleep"] \in Seq(Waiters)
  BY <1>3 DEF Sleepers, SleepQueue, w
<1>4. m_sleeping' \in Seq(Waiters)
  BY <1>1 DEF SleepQueue
<1> HIDE DEF w
<1>5. /\ Apart(Sleepers', {"sleep"})
      /\ \A u : u \in Queued(Sleepers', {"sleep"}) <=> u \in Queued(Sleepers, {"sleep"}) \/ u = t
  <2>1. "sleep" \in {"sleep"}
    OBVIOUS
  <2>2. /\ Apart(new, {"sleep"})
        /\ \A u : u \in Queued(new, {"sleep"}) <=> u \in Queued(Sleepers, {"sleep"}) \/ u = t
    <3> DEFINE n == Len(Sleepers["sleep"])
    <3>1. /\ n \in Nat /\ Len(new["sleep"]) = n + 1 /\ new["sleep"][n + 1] = w
          /\ \A i \in 1..n : new["sleep"][i] = Sleepers["sleep"][i]
      BY <1>1, <1>a, AppendFacts
    <3>2. Appended(new, Sleepers, {"sleep"}, "sleep", w, n)
      BY <3>1 DEF Appended
    <3> HIDE DEF n
    <3> QED
      BY <1>1, <1>2, <3>2, FamilyAppend
  <2> QED
    BY <1>3, <2>2
<1>6. \A v \in Threads : (Stuck(v, {"SLEEP"}))' <=> Stuck(v, {"SLEEP"}) \/ v = t
  BY DEF Restalls, Waits
<1>7. \A v \in Threads : v \in Queued(Sleepers', {"sleep"}) <=> (Stuck(v, {"SLEEP"}))'
  BY <1>5, <1>6 DEF SleepQueue
<1> QED
  BY <1>4, <1>5, <1>7 DEF SleepQueue

\* The waiters at some places leave a family of queues, and are resumed.
LEMMA FutexLeft ==
  ASSUME FutexQueues, NEW D, NEW R, m_futexes' \in [Futexes -> Seq(Waiters)],
         \A f \in Futexes : \E o : Picks(m_futexes'[f], m_futexes[f], D[f], o),
         \A u \in Threads : Stuck(u, {"FUTEX"}) => (u \in R <=> u \in At(m_futexes, Futexes, D)),
         Restalls(R, NoThread, "NONE")
  PROVE  FutexQueues'
<1>1. /\ Apart(m_futexes', Futexes)
      /\ \A u : u \in Queued(m_futexes', Futexes) <=>
                  u \in Queued(m_futexes, Futexes) /\ u \notin At(m_futexes, Futexes, D)
  BY FamilyPicks DEF FutexQueues
<1>0. {"FUTEX"} \in SUBSET Waits
  BY DEF Waits
<1>2. \A v \in Threads : (Stuck(v, {"FUTEX"}))' <=> Stuck(v, {"FUTEX"}) /\ v \notin R
  BY <1>0, OnlyResumes
<1>3. \A v \in Threads : v \in Queued(m_futexes', Futexes) <=> (Stuck(v, {"FUTEX"}))'
  BY <1>1, <1>2 DEF FutexQueues
<1> QED
  BY <1>1, <1>3 DEF FutexQueues

LEMMA SleepLeft ==
  ASSUME SleepQueue, NEW time, NEW R,
         m_sleeping' = WithoutTimedOut(m_sleeping, time),
         \A u \in Threads : Stuck(u, {"SLEEP"}) => (u \in R <=> u \in TimedOut(m_sleeping, time)),
         Restalls(R, NoThread, "NONE")
  PROVE  SleepQueue'
<1> DEFINE D == [k \in {"sleep"} |-> FirstExpired(m_sleeping, time)]
<1>1. \A k \in {"sleep"} : \E o : Picks(Sleepers'[k], Sleepers[k], D[k], o)
  BY TimedOutPicks DEF SleepQueue, Sleepers
<1>2. At(Sleepers, {"sleep"}, D) = TimedOut(m_sleeping, time)
  BY DEF At, Sleepers, TimedOut, FirstExpired, Expired
<1>3. m_sleeping' \in Seq(Waiters)
  BY TimedOutPicks DEF SleepQueue
<1> HIDE DEF D
<1>4. /\ Apart(Sleepers', {"sleep"})
      /\ \A u : u \in Queued(Sleepers', {"sleep"}) <=>
                  u \in Queued(Sleepers, {"sleep"}) /\ u \notin TimedOut(m_sleeping, time)
  <2>1. PICK new : new = Sleepers'
    OBVIOUS
  <2>2. \A k \in {"sleep"} : \E o : Picks(new[k], Sleepers[k], D[k], o)
    BY <1>1, <2>1
  <2>3. Apart(Sleepers, {"sleep"})
    BY DEF SleepQueue
  <2>4. /\ Apart(new, {"sleep"})
        /\ \A u : u \in Queued(new, {"sleep"}) <=>
                    u \in Queued(Sleepers, {"sleep"}) /\ u \notin At(Sleepers, {"sleep"}, D)
    BY <2>2, <2>3, FamilyPicks, ZenonT(30)
  <2> QED
    BY <1>2, <2>1, <2>4
<1>a. {"SLEEP"} \in SUBSET Waits
  BY DEF Waits
<1>5. \A v \in Threads : (Stuck(v, {"SLEEP"}))' <=> Stuck(v, {"SLEEP"}) /\ v \notin R
  BY <1>a, OnlyResumes
<1>7. \A v \in Threads : v \in Queued(Sleepers', {"sleep"}) <=> (Stuck(v, {"SLEEP"}))'
  BY <1>4, <1>5 DEF SleepQueue
<1> QED
  BY <1>3, <1>4, <1>7 DEF SleepQueue

LEMMA FutexAppended ==
  ASSUME FutexQueues, NEW t \in Threads, NEW f \in Futexes, NEW time \in Nat \cup {Never},
         m_futexes' = [m_futexes EXCEPT ![f] = Append(@, Waiter(t, time))],
         ~ Stuck(t, {"FUTEX"}), Restalls({}, t, "FUTEX")
  PROVE  FutexQueues'
<1> DEFINE w == Waiter(t, time)
<1>1. w \in Waiters /\ w.thread = t
  BY DEF Waiter, Waiters
<1>2. t \notin Queued(m_futexes, Futexes)
  BY DEF FutexQueues
<1> HIDE DEF w
<1>3. m_futexes' = [m_futexes EXCEPT ![f] = Append(m_futexes[f], w)]
  BY DEF w
<1>a. /\ m_futexes' \in [Futexes -> Seq(Waiters)]
      /\ m_futexes'[f] = Append(m_futexes[f], w)
      /\ \A k \in Futexes \ {f} : m_futexes'[k] = m_futexes[k]
  BY <1>1, <1>3 DEF FutexQueues
<1>5. /\ Apart(m_futexes', Futexes)
      /\ \A u : u \in Queued(m_futexes', Futexes) <=> u \in Queued(m_futexes, Futexes) \/ u = t
  <2>1. m_futexes[f] \in Seq(Waiters) /\ Apart(m_futexes, Futexes)
    BY DEF FutexQueues
  <2> QED
    <3> DEFINE n == Len(m_futexes[f])
               new == m_futexes'
    <3>1. /\ n \in Nat /\ Len(new[f]) = n + 1 /\ new[f][n + 1] = w
          /\ \A i \in 1..n : new[f][i] = m_futexes[f][i]
      BY <1>1, <1>a, <2>1, AppendFacts
    <3>2. \A k \in Futexes \ {f} : new[k] = m_futexes[k]
      BY <1>a
    <3>3. Appended(new, m_futexes, Futexes, f, w, n)
      BY <3>1, <3>2 DEF Appended
    <3> HIDE DEF n, new
    <3>4. /\ Apart(new, Futexes)
          /\ \A u : u \in Queued(new, Futexes) <=> u \in Queued(m_futexes, Futexes) \/ u = t
      BY <1>1, <1>2, <2>1, <3>3, FamilyAppend
    <3> QED
      BY <3>4 DEF new
<1>6. \A v \in Threads : (Stuck(v, {"FUTEX"}))' <=> Stuck(v, {"FUTEX"}) \/ v = t
  BY DEF Restalls, Waits
<1>7. \A v \in Threads : v \in Queued(m_futexes', Futexes) <=> (Stuck(v, {"FUTEX"}))'
  BY <1>5, <1>6 DEF FutexQueues
<1> QED
  BY <1>5, <1>a, <1>7 DEF FutexQueues

\* Each futex loses its first counts[f] waiters.
LEMMA FutexWoken ==
  ASSUME FutexQueues, NEW counts \in [Futexes -> Nat], NEW R,
         m_futexes' \in [Futexes -> Seq(Waiters)],
         \A f \in Futexes : m_futexes'[f] = Without(m_futexes[f], counts[f]),
         \A u \in Threads : Stuck(u, {"FUTEX"}) =>
           (u \in R <=> \E f \in Futexes : u \in First(m_futexes[f], counts[f])),
         Restalls(R, NoThread, "NONE")
  PROVE  FutexQueues'
<1> DEFINE D == [f \in Futexes |-> 1..Least(counts[f], Len(m_futexes[f]))]
<1>1. \A f \in Futexes : m_futexes[f] \in Seq(Waiters) /\ Len(m_futexes[f]) \in Nat
  BY DEF FutexQueues
<1>2. \A f \in Futexes : \E o : Picks(m_futexes'[f], m_futexes[f], D[f], o)
  BY <1>1, WithoutPicks
<1>3. ASSUME NEW f \in Futexes PROVE D[f] \cap (1..Len(m_futexes[f])) = D[f]
  BY <1>1, <1>3 DEF Least
<1>4. \A u : u \in At(m_futexes, Futexes, D) <=>
               \E f \in Futexes : u \in First(m_futexes[f], counts[f])
  <2>1. \A f \in Futexes : D[f] = 1..Least(counts[f], Len(m_futexes[f]))
    OBVIOUS
  <2> HIDE DEF D
  <2>2. \A f \in Futexes : \A u :
          u \in First(m_futexes[f], counts[f]) <=>
            \E i \in D[f] \cap (1..Len(m_futexes[f])) : m_futexes[f][i].thread = u
    <3> TAKE f \in Futexes
    <3>1. D[f] \cap (1..Len(m_futexes[f])) = 1..Least(counts[f], Len(m_futexes[f]))
      BY <2>1, <1>3
    <3> QED
      BY <3>1 DEF First
  <2>3. \A u : u \in At(m_futexes, Futexes, D) <=>
          \E f \in Futexes : \E i \in D[f] \cap (1..Len(m_futexes[f])) : m_futexes[f][i].thread = u
    BY DEF At
  <2> QED
    BY <2>2, <2>3
<1> HIDE DEF D
<1>5. \A u \in Threads : Stuck(u, {"FUTEX"}) => (u \in R <=> u \in At(m_futexes, Futexes, D))
  BY <1>4
<1> QED
  BY <1>2, <1>5, FutexLeft

LEMMA WithoutNone ==
  ASSUME NEW T, NEW queue \in Seq(T)
  PROVE  Without(queue, 0) = queue /\ First(queue, 0) = {}
<1>1. Without(queue, 0) = queue
  BY SubSeqFull DEF Without
<1>2. First(queue, 0) = {}
  <2>1. Least(0, Len(queue)) = 0
    BY DEF Least
  <2> QED
    BY <2>1 DEF First
<1> QED
  BY <1>1, <1>2

\* Some of f are woken, and the others come to the end of the queue of g.
LEMMA FutexRequeued ==
  ASSUME FutexQueues, NEW f \in Futexes, NEW g \in Futexes, f # g, NEW n \in Nat,
         m_futexes' = [m_futexes EXCEPT ![f] = <<>>, ![g] = @ \o Without(m_futexes[f], n)],
         NEW R, R = First(m_futexes[f], n), Restalls(R, NoThread, "NONE")
  PROVE  FutexQueues'
<1> DEFINE rest == Without(m_futexes[f], n)
           a == Len(m_futexes[g])
           b == Len(rest)
           D == 1..Least(n, Len(m_futexes[f]))
           new == m_futexes'
<1>1. m_futexes[f] \in Seq(Waiters) /\ m_futexes[g] \in Seq(Waiters)
  BY DEF FutexQueues
<1>2. PICK o : Picks(rest, m_futexes[f], D, o)
  BY <1>1, WithoutPicks
<1>3. rest \in Seq(Waiters) /\ a \in Nat /\ b \in Nat
  <2>1. rest \in Seq(Waiters)
    BY <1>1, WithoutPicks
  <2> HIDE DEF rest
  <2> QED
    BY <1>1, <2>1
<1>4. /\ m_futexes[g] \o rest \in Seq(Waiters) /\ Len(m_futexes[g] \o rest) = a + b
      /\ \A i \in 1..a + b : (m_futexes[g] \o rest)[i] =
            IF i <= a THEN m_futexes[g][i] ELSE rest[i - a]
  BY <1>1, <1>3, ConcatProperties
<1>a. <<>> \in Seq(Waiters)
  OBVIOUS
<1>5. /\ new \in [Futexes -> Seq(Waiters)] /\ new[f] = <<>> /\ new[g] = m_futexes[g] \o rest
      /\ \A h \in Futexes \ {f, g} : new[h] = m_futexes[h]
  BY <1>4, <1>a DEF FutexQueues
<1>6. /\ o \in [1..b -> 1..Len(m_futexes[f])]
      /\ \A i, j \in 1..b : o[i] = o[j] => i = j
      /\ \A j \in 1..b : rest[j] = m_futexes[f][o[j]]
      /\ \A i \in 1..Len(m_futexes[f]) : i \notin D <=> \E j \in 1..b : o[j] = i
  BY <1>2 DEF Picks
<1>7. /\ Len(new[f]) = 0 /\ Len(new[g]) = a + b
      /\ \A i \in 1..a + b : new[g][i] = IF i <= a THEN m_futexes[g][i] ELSE rest[i - a]
  BY <1>4, <1>5
<1>8. Apart(m_futexes, Futexes)
  BY DEF FutexQueues
<1> HIDE DEF rest, a, b, D, new
\* Where an entry comes from.
<1> DEFINE Key(k, i) == IF k = g /\ i > a THEN f ELSE k
           Place(k, i) == IF k = g /\ i > a THEN o[i - a] ELSE i
<1>9. ASSUME NEW k \in Futexes, NEW i \in 1..Len(new[k])
      PROVE  /\ k # f /\ Key(k, i) \in Futexes /\ Place(k, i) \in 1..Len(m_futexes[Key(k, i)])
             /\ new[k][i] = m_futexes[Key(k, i)][Place(k, i)]
  <2>1. k # f
    BY <1>7, <1>9
  <2>2. CASE k = g /\ i > a
    <3>1. i \in 1..a + b /\ i - a \in 1..b
      BY <1>3, <1>7, <1>9, <2>2
    <3>2. new[k][i] = rest[i - a] /\ rest[i - a] = m_futexes[f][o[i - a]]
      BY <1>3, <1>6, <1>7, <2>2, <3>1
    <3>3. o[i - a] \in 1..Len(m_futexes[f])
      BY <1>6, <3>1
    <3> QED
      BY <2>1, <2>2, <3>2, <3>3
  <2>3. CASE k = g /\ ~ (i > a)
    BY <1>3, <1>7, <1>9, <2>1, <2>3 DEF a
  <2>4. CASE k # g
    BY <1>5, <1>9, <2>1, <2>4
  <2> QED
    BY <2>2, <2>3, <2>4
<1>10. ASSUME NEW k \in Futexes, NEW i \in 1..Len(new[k]),
              NEW l \in Futexes, NEW j \in 1..Len(new[l]),
              Key(k, i) = Key(l, j), Place(k, i) = Place(l, j)
       PROVE  k = l /\ i = j
  <2>1. k # f /\ l # f
    BY <1>9
  <2>2. CASE k = g /\ i > a
    <3>1. l = g /\ j > a
      BY <1>10, <2>1, <2>2
    <3>2. i - a \in 1..b /\ j - a \in 1..b
      BY <1>3, <1>7, <1>10, <2>2, <3>1
    <3>3. i - a = j - a
      BY <1>6, <1>10, <2>2, <3>1, <3>2
    <3>4. i \in Int /\ j \in Int
      BY <1>3, <1>7, <1>10, <2>2, <3>1
    <3> QED
      BY <1>3, <2>2, <3>1, <3>3, <3>4
  <2>3. CASE ~ (k = g /\ i > a)
    BY <1>10, <2>1, <2>3
  <2> QED
    BY <2>2, <2>3
<1>11. Apart(new, Futexes)
  <2> SUFFICES ASSUME NEW k \in Futexes, NEW l \in Futexes,
                      NEW i \in 1..Len(new[k]), NEW j \in 1..Len(new[l]),
                      new[k][i].thread = new[l][j].thread
               PROVE  k = l /\ i = j
    BY DEF Apart
  <2> HIDE DEF Key, Place
  <2>1. /\ Key(k, i) \in Futexes /\ Place(k, i) \in 1..Len(m_futexes[Key(k, i)])
        /\ new[k][i] = m_futexes[Key(k, i)][Place(k, i)]
    BY <1>9
  <2>2. /\ Key(l, j) \in Futexes /\ Place(l, j) \in 1..Len(m_futexes[Key(l, j)])
        /\ new[l][j] = m_futexes[Key(l, j)][Place(l, j)]
    BY <1>9
  <2>3. Key(k, i) = Key(l, j) /\ Place(k, i) = Place(l, j)
    BY <1>8, <2>1, <2>2 DEF Apart
  <2> QED
    BY <1>10, <2>3
<1>12. \A u : u \in First(m_futexes[f], n) <=> \E i \in D : m_futexes[f][i].thread = u
  BY DEF First, D
<1>13. ASSUME NEW u, u \in Queued(new, Futexes)
       PROVE  u \in Queued(m_futexes, Futexes) /\ u \notin First(m_futexes[f], n)
  <2>1. PICK k \in Futexes : \E i \in 1..Len(new[k]) : new[k][i].thread = u
    BY <1>13 DEF Queued, Who
  <2>2. PICK i \in 1..Len(new[k]) : new[k][i].thread = u
    BY <2>1
  <2>a. /\ Key(k, i) \in Futexes /\ Place(k, i) \in 1..Len(m_futexes[Key(k, i)])
        /\ new[k][i] = m_futexes[Key(k, i)][Place(k, i)]
    BY <1>9, <2>2
  <2>3. u \in Queued(m_futexes, Futexes)
    <3> HIDE DEF Key, Place
    <3> QED
      BY <2>a, <2>2 DEF Queued, Who
  <2>4. ASSUME NEW d \in D, m_futexes[f][d].thread = u PROVE FALSE
    <3>1. d \in 1..Len(m_futexes[f])
      BY <1>1, <2>4 DEF D, Least
    <3>2. f = Key(k, i) /\ d = Place(k, i)
      <4> HIDE DEF Key, Place
      <4> QED
        BY <1>8, <2>a, <2>2, <2>4, <3>1 DEF Apart
    <3>3. k = g /\ i > a /\ d = o[i - a]
      BY <1>9, <3>2
    <3>4. i - a \in 1..b
      BY <1>3, <1>7, <3>3
    <3> QED
      BY <1>6, <2>4, <3>1, <3>3, <3>4
  <2> QED
    BY <1>12, <2>3, <2>4
<1>14. ASSUME NEW u, u \in Queued(m_futexes, Futexes), u \notin First(m_futexes[f], n)
       PROVE  u \in Queued(new, Futexes)
  <2>1. PICK k \in Futexes : \E i \in 1..Len(m_futexes[k]) : m_futexes[k][i].thread = u
    BY <1>14 DEF Queued, Who
  <2>2. PICK i \in 1..Len(m_futexes[k]) : m_futexes[k][i].thread = u
    BY <2>1
  <2>3. CASE k = f
    <3>1. i \notin D
      BY <1>12, <1>14, <2>2, <2>3
    <3>2. PICK j \in 1..b : o[j] = i
      BY <1>6, <2>2, <2>3, <3>1
    <3>3. a + j \in 1..Len(new[g]) /\ a + j \in 1..a + b /\ ~ (a + j <= a) /\ (a + j) - a = j
      BY <1>3, <1>7
    <3>4. new[g][a + j] = rest[j]
      BY <1>7, <3>3
    <3>5. new[g][a + j].thread = u
      BY <1>6, <2>2, <2>3, <3>2, <3>4
    <3> QED
      BY <3>3, <3>5 DEF Queued, Who
  <2>4. CASE k = g
    <3>1. i \in 1..a + b /\ i <= a /\ i \in 1..Len(new[g])
      BY <1>3, <1>7, <2>2, <2>4 DEF a
    <3>2. new[g][i].thread = u
      BY <1>7, <2>2, <2>4, <3>1
    <3> QED
      BY <3>1, <3>2 DEF Queued, Who
  <2>5. CASE k \notin {f, g}
    BY <1>5, <2>2, <2>5 DEF Queued, Who
  <2> QED
    BY <2>3, <2>4, <2>5
<1>a5. {"FUTEX"} \in SUBSET Waits
  BY DEF Waits
<1>15. \A v \in Threads : (Stuck(v, {"FUTEX"}))' <=>
         Stuck(v, {"FUTEX"}) /\ v \notin First(m_futexes[f], n)
  BY <1>a5, OnlyResumes
<1>16. \A v \in Threads : v \in Queued(new, Futexes) <=> (Stuck(v, {"FUTEX"}))'
  BY <1>13, <1>14, <1>15 DEF FutexQueues
<1> QED
  BY <1>5, <1>11, <1>16 DEF FutexQueues, new

\* futexPeriodic: whoever times out of a queue, of futexes or of sleepers.
LEMMA FutexTimesOut ==
  ASSUME FutexQueues, NEW time, NEW R,
         m_futexes' = [f \in Futexes |-> WithoutTimedOut(m_futexes[f], time)],
         \A u \in Threads : Stuck(u, {"FUTEX"}) =>
           (u \in R <=> \E f \in Futexes : u \in TimedOut(m_futexes[f], time)),
         Restalls(R, NoThread, "NONE")
  PROVE  FutexQueues'
<1> DEFINE D == [f \in Futexes |-> FirstExpired(m_futexes[f], time)]
<1>1. \A f \in Futexes :
        /\ m_futexes[f] \in Seq(Waiters)
        /\ D[f] \subseteq 1..Len(m_futexes[f])
  BY DEF FutexQueues, FirstExpired, Expired
<1>2. \A f \in Futexes :
        /\ WithoutTimedOut(m_futexes[f], time) \in Seq(Waiters)
        /\ \E o : Picks(WithoutTimedOut(m_futexes[f], time), m_futexes[f], D[f], o)
  BY <1>1, TimedOutPicks
<1>3. /\ m_futexes' \in [Futexes -> Seq(Waiters)]
      /\ \A f \in Futexes : \E o : Picks(m_futexes'[f], m_futexes[f], D[f], o)
  BY <1>2
<1>4. \A u : u \in At(m_futexes, Futexes, D) <=>
               \E f \in Futexes : u \in TimedOut(m_futexes[f], time)
  <2>1. \A f \in Futexes : D[f] = FirstExpired(m_futexes[f], time)
    OBVIOUS
  <2> HIDE DEF D
  <2>2. \A f \in Futexes : \A u :
          u \in TimedOut(m_futexes[f], time) <=>
            \E i \in D[f] \cap (1..Len(m_futexes[f])) : m_futexes[f][i].thread = u
    <3> TAKE f \in Futexes
    <3>1. D[f] \cap (1..Len(m_futexes[f])) = FirstExpired(m_futexes[f], time)
      BY <1>1, <2>1
    <3> QED
      BY <3>1 DEF TimedOut
  <2>3. \A u : u \in At(m_futexes, Futexes, D) <=>
          \E f \in Futexes : \E i \in D[f] \cap (1..Len(m_futexes[f])) : m_futexes[f][i].thread = u
    BY DEF At
  <2> QED
    BY <2>2, <2>3
<1> HIDE DEF D
<1>5. \A u \in Threads : Stuck(u, {"FUTEX"}) => (u \in R <=> u \in At(m_futexes, Futexes, D))
  BY <1>4
<1> QED
  BY <1>3, <1>5, FutexLeft

-----------------------------------------------------------------------------
(* Queues of threads. *)
LEMMA AppendOnce ==
  ASSUME NEW T, NEW queue \in Seq(T), Once(queue), NEW t \in T, t \notin Elements(queue)
  PROVE  /\ Append(queue, t) \in Seq(T) /\ Once(Append(queue, t))
         /\ \A u : u \in Elements(Append(queue, t)) <=> u \in Elements(queue) \/ u = t
<1> DEFINE n == Len(queue)
           new == Append(queue, t)
<1>1. /\ new \in Seq(T) /\ n \in Nat /\ Len(new) = n + 1 /\ new[n + 1] = t
      /\ \A i \in 1..n : new[i] = queue[i]
  BY AppendFacts
<1> HIDE DEF new
<1>2. \A i \in 1..Len(new) : (i \in 1..n /\ new[i] = queue[i]) \/ (i = n + 1 /\ new[i] = t)
  BY <1>1
<1>3. \A i \in 1..n : queue[i] # t
  BY DEF Elements
<1>4. n + 1 \in 1..Len(new) /\ \A i \in 1..n : i \in 1..Len(new)
  BY <1>1
<1> HIDE DEF n
<1>5. Once(new)
  BY <1>2, <1>3 DEF Once, n
<1>6. \A u : u \in Elements(new) <=> u \in Elements(queue) \/ u = t
  BY <1>1, <1>2, <1>4 DEF Elements, n
<1> QED
  BY <1>1, <1>5, <1>6 DEF new

LEMMA TailOnce ==
  ASSUME NEW T, NEW queue \in Seq(T), queue # <<>>, Once(queue)
  PROVE  /\ Tail(queue) \in Seq(T) /\ Once(Tail(queue))
         /\ Head(queue) \in T /\ Head(queue) \in Elements(queue)
         /\ \A u : u \in Elements(Tail(queue)) <=> u \in Elements(queue) /\ u # Head(queue)
<1> DEFINE n == Len(queue)
           new == Tail(queue)
<1>1. /\ new \in Seq(T) /\ n \in Nat /\ n > 0 /\ Len(new) = n - 1 /\ Head(queue) = queue[1]
      /\ \A i \in 1..n - 1 : new[i] = queue[i + 1]
      /\ Head(queue) \in T
  BY HeadTailProperties
<1> HIDE DEF n, new
<1>2. \A i, j \in 1..n : queue[i] = queue[j] => i = j
  BY DEF Once, n
<1>3. \A i \in 1..Len(new) : i + 1 \in 1..n /\ i + 1 # 1 /\ new[i] = queue[i + 1]
  BY <1>1
<1>4. Once(new)
  <2> SUFFICES ASSUME NEW i \in 1..Len(new), NEW j \in 1..Len(new), new[i] = new[j]
               PROVE  i = j
    BY DEF Once
  <2>1. i + 1 = j + 1
    BY <1>2, <1>3
  <2> QED
    BY <1>1, <2>1
<1>5. \A i \in 1..n : i = 1 \/ (i - 1 \in 1..Len(new) /\ new[i - 1] = queue[i])
  <2> TAKE i \in 1..n
  <2>1. i = 1 \/ (i - 1 \in 1..n - 1 /\ (i - 1) + 1 = i)
    BY <1>1
  <2> QED
    BY <1>1, <2>1
<1>6. 1 \in 1..n
  BY <1>1
<1>7. ASSUME NEW u PROVE u \in Elements(new) <=> u \in Elements(queue) /\ u # Head(queue)
  <2>1. ASSUME u \in Elements(new) PROVE u \in Elements(queue) /\ u # Head(queue)
    <3>1. PICK i \in 1..Len(new) : new[i] = u
      BY <2>1 DEF Elements
    <3>2. i + 1 \in 1..n /\ i + 1 # 1 /\ queue[i + 1] = u
      BY <1>3, <3>1
    <3>3. u # queue[1]
      BY <1>2, <1>6, <3>2
    <3> QED
      BY <1>1, <3>2, <3>3 DEF Elements, n
  <2>2. ASSUME u \in Elements(queue), u # Head(queue) PROVE u \in Elements(new)
    <3>1. PICK i \in 1..n : queue[i] = u
      BY <2>2 DEF Elements, n
    <3>2. i # 1
      BY <1>1, <2>2, <3>1
    <3> QED
      BY <1>5, <3>1, <3>2 DEF Elements
  <2> QED
    BY <2>1, <2>2
<1>8. Head(queue) \in Elements(queue)
  BY <1>1, <1>6 DEF Elements, n
<1> QED
  BY <1>1, <1>4, <1>7, <1>8 DEF new

LEMMA ConcatOnce ==
  ASSUME NEW T, NEW front \in Seq(T), NEW back \in Seq(T), Once(front), Once(back),
         \A u \in Elements(front) : u \notin Elements(back)
  PROVE  /\ front \o back \in Seq(T) /\ Once(front \o back)
         /\ \A u : u \in Elements(front \o back) <=> u \in Elements(front) \/ u \in Elements(back)
<1> DEFINE a == Len(front)
           b == Len(back)
           new == front \o back
<1>1. /\ new \in Seq(T) /\ a \in Nat /\ b \in Nat /\ Len(new) = a + b
      /\ \A i \in 1..a + b : new[i] = IF i <= a THEN front[i] ELSE back[i - a]
  BY ConcatProperties
<1> HIDE DEF new
<1>2. \A i \in 1..Len(new) : \/ i \in 1..a /\ i <= a /\ new[i] = front[i]
                             \/ i > a /\ i - a \in 1..b /\ new[i] = back[i - a]
  BY <1>1
<1>3. /\ \A i \in 1..a : i \in 1..Len(new) /\ new[i] = front[i]
      /\ \A i \in 1..b : a + i \in 1..Len(new) /\ new[a + i] = back[i]
  <2>1. \A i \in 1..a : i \in 1..a + b /\ i <= a
    BY <1>1
  <2>2. \A i \in 1..b : a + i \in 1..a + b /\ ~ (a + i <= a) /\ (a + i) - a = i
    BY <1>1
  <2> QED
    BY <1>1, <2>1, <2>2
<1>4. /\ \A i \in 1..a : front[i] \in Elements(front)
      /\ \A i \in 1..b : back[i] \in Elements(back)
  BY DEF Elements
<1>5. /\ \A i, j \in 1..a : front[i] = front[j] => i = j
      /\ \A i, j \in 1..b : back[i] = back[j] => i = j
  BY DEF Once
<1> HIDE DEF a, b
<1>6. Once(new)
  <2> SUFFICES ASSUME NEW i \in 1..Len(new), NEW j \in 1..Len(new), new[i] = new[j]
               PROVE  i = j
    BY DEF Once
  <2>1. CASE i \in 1..a /\ i <= a /\ new[i] = front[i]
    BY <1>1, <1>2, <1>4, <1>5, <2>1
  <2>2. CASE i > a /\ i - a \in 1..b /\ new[i] = back[i - a]
    <3>1. j > a /\ j - a \in 1..b /\ new[j] = back[j - a]
      BY <1>1, <1>2, <1>4, <2>2
    <3>2. i - a = j - a
      BY <1>5, <2>2, <3>1
    <3> QED
      BY <1>1, <3>2
  <2> QED
    BY <1>2, <2>1, <2>2
<1>7. \A u : u \in Elements(new) <=> u \in Elements(front) \/ u \in Elements(back)
  <2>1. \A u : u \in Elements(new) => u \in Elements(front) \/ u \in Elements(back)
    <3>1. \A u : u \in Elements(new) => \E i \in 1..Len(new) : new[i] = u
      BY DEF Elements
    <3> QED
      BY <1>2, <1>4, <3>1
  <2>2. \A u : u \in Elements(front) \/ u \in Elements(back) => u \in Elements(new)
    <3>1. \A u : u \in Elements(front) => \E i \in 1..a : front[i] = u
      BY DEF Elements, a
    <3>2. \A u : u \in Elements(back) => \E i \in 1..b : back[i] = u
      BY DEF Elements, b
    <3>3. \A i \in 1..Len(new) : new[i] \in Elements(new)
      BY DEF Elements
    <3> QED
      BY <1>3, <3>1, <3>2, <3>3
  <2> QED
    BY <2>1, <2>2
<1> QED
  BY <1>1, <1>6, <1>7 DEF new

\* Of lists the threads of the waiters with a mutex, each of them once.
LEMMA OfFacts ==
  ASSUME NEW woken \in Seq(CondWaiters), NEW m,
         \A i, j \in 1..Len(woken) : woken[i].thread = woken[j].thread => i = j
  PROVE  /\ Of(woken, m) \in Seq(Threads) /\ Once(Of(woken, m))
         /\ \A u : u \in Elements(Of(woken, m)) <=>
                     \E i \in 1..Len(woken) : woken[i].thread = u /\ woken[i].mutex = m
<1> DEFINE number == Len(woken)
           mine == {i \in 1..number : woken[i].mutex = m}
           Below(i) == {j \in mine : j <= i}
           place == [i \in mine |-> Cardinality(Below(i))]
           size == Cardinality(mine)
           nth(n) == CHOOSE i \in mine : Cardinality(Below(i)) = n
           new == [n \in 1..size |-> woken[nth(n)].thread]
<1>0. Of(woken, m) = new
  BY DEF Of
<1>1. /\ number \in Nat /\ mine \subseteq 1..number
      /\ IsFiniteSet(1..number)
  BY FS_Interval
<1>2. IsFiniteSet(mine) /\ size \in Nat
  BY <1>1, FS_Subset, FS_CardinalityType
<1>3. \A i \in mine : i \in Int /\ woken[i].thread \in Threads
  BY WaitersHaveThreads
<1> HIDE DEF mine, number, new
<1>4. \A i \in mine : IsFiniteSet(Below(i)) /\ Below(i) \subseteq mine /\ i \in Below(i)
  BY <1>2, <1>3, FS_Subset
<1>5. ASSUME NEW i \in mine PROVE place[i] \in 1..size
  <2>1. /\ IsFiniteSet(Below(i)) /\ Below(i) # {} /\ Cardinality(Below(i)) \in Nat
        /\ Cardinality(Below(i)) <= size
    BY <1>2, <1>4, FS_Subset, FS_CardinalityType
  <2>2. Cardinality(Below(i)) # 0
    BY <2>1, FS_EmptySet
  <2> QED
    BY <1>2, <2>1, <2>2
<1>6. ASSUME NEW i \in mine, NEW j \in mine, i < j PROVE place[i] < place[j]
  <2>1. Below(i) \subseteq Below(j) /\ j \in Below(j) /\ j \notin Below(i)
    BY <1>3, <1>6
  <2>2. IsFiniteSet(Below(i)) /\ IsFiniteSet(Below(j)) /\ Below(i) # Below(j)
    BY <1>4, <2>1
  <2> HIDE DEF Below
  <2>3. Cardinality(Below(i)) < Cardinality(Below(j))
    <3>1. /\ Cardinality(Below(i)) <= Cardinality(Below(j))
          /\ Cardinality(Below(i)) = Cardinality(Below(j)) => Below(i) = Below(j)
      BY <2>1, <2>2, FS_Subset
    <3>2. Cardinality(Below(i)) \in Nat /\ Cardinality(Below(j)) \in Nat
      BY <2>2, FS_CardinalityType
    <3> QED
      BY <2>2, <3>1, <3>2
  <2> QED
    BY <2>3
<1>7. \A i, j \in mine : place[i] = place[j] => i = j
  <2>1. \A i \in mine : place[i] \in Int /\ i \in Int
    BY <1>3, <1>5
  <2> HIDE DEF place
  <2> QED
    BY <1>6, <2>1
<1>8. ASSUME NEW n \in 1..size PROVE \E i \in mine : place[i] = n
  <2> SUFFICES ASSUME \A i \in mine : place[i] # n PROVE FALSE
    OBVIOUS
  <2> HIDE DEF Below
  <2>1. place \in [mine -> (1..size) \ {n}]
    BY <1>5
  <2>2. place \in Injection(mine, (1..size) \ {n})
    BY <1>7, <2>1, Zenon DEF Injection, IsInjective
  <2>3. IsFiniteSet(1..size) /\ Cardinality(1..size) = size
    BY <1>2, FS_Interval
  <2>4. IsFiniteSet((1..size) \ {n}) /\ Cardinality((1..size) \ {n}) = size - 1
    BY <2>3, FS_RemoveElement
  <2>5. Cardinality(mine) <= Cardinality((1..size) \ {n})
    BY <2>2, <2>4, FS_Injection
  <2> QED
    BY <1>2, <2>4, <2>5
<1>9. ASSUME NEW n \in 1..size PROVE nth(n) \in mine /\ place[nth(n)] = n
  <2>1. \E i \in mine : Cardinality(Below(i)) = n
    BY <1>8
  <2> QED
    BY <2>1
<1>10. ASSUME NEW i \in mine PROVE nth(place[i]) = i
  BY <1>5, <1>7, <1>9
<1> HIDE DEF nth, place
<1>11. \A n \in 1..size : new[n] = woken[nth(n)].thread
  BY DEF new
<1>12. new \in Seq(Threads) /\ Len(new) = size
  <2>1. \A n \in 1..size : woken[nth(n)].thread \in Threads
    BY <1>3, <1>9
  <2> HIDE DEF size
  <2> QED
    BY <1>2, <2>1 DEF new
<1>13. Once(new)
  <2> SUFFICES ASSUME NEW i \in 1..size, NEW j \in 1..size, new[i] = new[j]
               PROVE  i = j
    BY <1>12 DEF Once
  <2>1. nth(i) \in 1..number /\ nth(j) \in 1..number
    BY <1>1, <1>9
  <2>2. nth(i) = nth(j)
    BY <1>11, <2>1 DEF number
  <2> QED
    BY <1>9, <2>2
<1>14. ASSUME NEW u
       PROVE  u \in Elements(new) <=>
                \E i \in 1..Len(woken) : woken[i].thread = u /\ woken[i].mutex = m
  <2>1. ASSUME u \in Elements(new)
        PROVE  \E i \in 1..Len(woken) : woken[i].thread = u /\ woken[i].mutex = m
    <3>1. PICK n \in 1..size : new[n] = u
      BY <1>12, <2>1 DEF Elements
    <3>2. nth(n) \in mine /\ woken[nth(n)].thread = u
      BY <1>9, <1>11, <3>1
    <3> QED
      BY <3>2 DEF mine, number
  <2>2. ASSUME NEW i \in 1..Len(woken), woken[i].thread = u, woken[i].mutex = m
        PROVE  u \in Elements(new)
    <3>1. i \in mine
      BY <2>2 DEF mine, number
    <3>2. place[i] \in 1..size /\ new[place[i]] = u
      BY <1>5, <1>10, <1>11, <2>2, <3>1
    <3> QED
      BY <1>12, <3>2 DEF Elements
  <2> QED
    BY <2>1, <2>2
<1> QED
  BY <1>0, <1>12, <1>13, <1>14

-----------------------------------------------------------------------------
(* The queues of the monitor. *)
LEMMA CondFacts ==
  ASSUME MonitorQueues, NEW c \in Conds, NEW i \in 1..Len(m_conds[c])
  PROVE  /\ m_conds[c][i].thread \in Queued(m_conds, Conds)
         /\ want[m_conds[c][i].thread] = m_conds[c][i].mutex
         /\ m_conds[c][i].thread \in Threads /\ m_conds[c][i].mutex \in Mutexes
<1>1. m_conds[c][i].thread \in Queued(m_conds, Conds)
  BY DEF Queued, Who
<1>2. want[m_conds[c][i].thread] = m_conds[c][i].mutex
  BY DEF MonitorQueues
<1>3. m_conds[c] \in Seq(CondWaiters)
  BY DEF MonitorQueues
<1> QED
  BY <1>1, <1>2, <1>3, WaitersHaveThreads

LEMMA MonitorFacts ==
  ASSUME MonitorQueues
  PROVE  /\ \A m \in Mutexes : m_mutexes[m] \in Seq(Threads) /\ Once(m_mutexes[m])
         /\ \A m \in Mutexes : \A u \in Elements(m_mutexes[m]) :
              u \in Threads /\ want[u] = m /\ u \notin Queued(m_conds, Conds)
         /\ \A u : u \in Queued(m_conds, Conds) => u \in Threads
         /\ \A u : u \in Lined(m_mutexes) <=> \E m \in Mutexes : u \in Elements(m_mutexes[m])
<1>1. \A m \in Mutexes : m_mutexes[m] \in Seq(Threads) /\ Once(m_mutexes[m])
  BY DEF MonitorQueues
<1>2. \A m \in Mutexes : \A u \in Elements(m_mutexes[m]) : u \in Threads
  BY <1>1 DEF Elements
<1>3. \A u : u \in Queued(m_conds, Conds) => u \in Threads
  <2>1. \A c \in Conds : m_conds[c] \in Seq(CondWaiters)
    BY DEF MonitorQueues
  <2>2. \A c \in Conds : \A i \in 1..Len(m_conds[c]) : m_conds[c][i].thread \in Threads
    BY <2>1, WaitersHaveThreads
  <2> QED
    BY <2>2 DEF Queued, Who
<1> QED
  BY <1>1, <1>2, <1>3 DEF MonitorQueues, Lined

LEMMA LockQueued ==
  ASSUME MonitorQueues, NEW t \in Threads, NEW m \in Mutexes,
         m_mutexes' = [m_mutexes EXCEPT ![m] = Append(@, t)],
         want' = [want EXCEPT ![t] = m], m_conds' = m_conds,
         ~ Stuck(t, {"MUTEX", "COND"}), Restalls({}, t, "MUTEX")
  PROVE  MonitorQueues'
<1>1. t \notin Lined(m_mutexes) /\ t \notin Queued(m_conds, Conds)
  BY DEF MonitorQueues
<1>2. \A k \in Mutexes : \A u \in Elements(m_mutexes[k]) : u # t
  BY <1>1, MonitorFacts
<1>3. m_mutexes[m] \in Seq(Threads) /\ Once(m_mutexes[m])
  BY MonitorFacts
<1>4. /\ Append(m_mutexes[m], t) \in Seq(Threads) /\ Once(Append(m_mutexes[m], t))
      /\ \A u : u \in Elements(Append(m_mutexes[m], t)) <=> u \in Elements(m_mutexes[m]) \/ u = t
  BY <1>2, <1>3, AppendOnce
<1>5. \A k \in Mutexes : m_mutexes'[k] = IF k = m THEN Append(m_mutexes[m], t) ELSE m_mutexes[k]
  BY DEF MonitorQueues
<1>6. m_mutexes' \in [Mutexes -> Seq(Threads)] /\ \A k \in Mutexes : Once(m_mutexes'[k])
  BY <1>4, <1>5 DEF MonitorQueues
<1>7. \A k \in Mutexes : \A u : u \in Elements(m_mutexes'[k]) <=>
        u \in Elements(m_mutexes[k]) \/ (u = t /\ k = m)
  BY <1>4, <1>5
<1>8. \A u \in Threads : want'[u] = IF u = t THEN m ELSE want[u]
  BY DEF MonitorQueues
<1>9. \A u : u \in Lined(m_mutexes') <=> u \in Lined(m_mutexes) \/ u = t
  BY <1>7 DEF Lined
<1>10. \A k \in Mutexes : \A u \in Elements(m_mutexes'[k]) :
         want'[u] = k /\ u \notin Queued(m_conds', Conds)
  <2>1. \A k \in Mutexes : \A u \in Elements(m_mutexes[k]) :
          u # t /\ u \in Threads /\ want[u] = k /\ u \notin Queued(m_conds, Conds)
    BY <1>2, MonitorFacts
  <2>2. \A k \in Mutexes : \A u \in Elements(m_mutexes'[k]) :
         want'[u] = k /\ u \notin Queued(m_conds, Conds)
    BY <1>1, <1>7, <1>8, <2>1
  <2> QED
    BY <2>2
<1>11. \A c \in Conds : \A i \in 1..Len(m_conds'[c]) :
         want'[m_conds'[c][i].thread] = m_conds'[c][i].mutex
  <2>1. \A c \in Conds : \A i \in 1..Len(m_conds[c]) : m_conds[c][i].thread \in Queued(m_conds, Conds)
    BY DEF Queued, Who
  <2> QED
    <3>1. \A k \in Conds : \A i \in 1..Len(m_conds[k]) :
            want'[m_conds[k][i].thread] = m_conds[k][i].mutex
      BY <1>1, <1>8, CondFacts
    <3> QED
      BY <3>1
<1>12. \A u \in Threads : (Stuck(u, {"MUTEX", "COND"}))' <=> Stuck(u, {"MUTEX", "COND"}) \/ u = t
  BY RestallFacts DEF Waits
<1>13. want' \in [Threads -> Mutexes \cup {NoMutex}]
  BY DEF MonitorQueues
<1>14. \A u \in Threads : u \in Lined(m_mutexes') \cup Queued(m_conds', Conds) <=>
         (Stuck(u, {"MUTEX", "COND"}))'
  BY <1>9, <1>12 DEF MonitorQueues
<1>15. m_conds' \in [Conds -> Seq(CondWaiters)] /\ Apart(m_conds', Conds)
  BY DEF MonitorQueues
<1> QED
  BY <1>6, <1>10, <1>11, <1>13, <1>14, <1>15 DEF MonitorQueues

\* Who is granted the mutex leaves its queue.
Unlocked(new, m) == new = [m_mutexes EXCEPT ![m] = IF @ = <<>> THEN @ ELSE Tail(@)]

LEMMA UnlockFacts ==
  ASSUME MonitorQueues, NEW m \in Mutexes, NEW new, Unlocked(new, m)
  PROVE  /\ new \in [Mutexes -> Seq(Threads)] /\ \A k \in Mutexes : Once(new[k])
         /\ \A k \in Mutexes : \A u :
              u \in Elements(new[k]) <=> u \in Elements(m_mutexes[k]) /\ u \notin Granted(m)
         /\ \A u : u \in Lined(new) <=> u \in Lined(m_mutexes) /\ u \notin Granted(m)
         /\ \A u \in Granted(m) : u \in Elements(m_mutexes[m]) /\ u \in Threads /\ u = Successor(m)
         /\ m_mutexes[m] # <<>> => Successor(m) \in Granted(m)
<1>1. m_mutexes[m] \in Seq(Threads) /\ Once(m_mutexes[m])
  BY MonitorFacts
<1>2. \A k \in Mutexes : new[k] = IF k = m
                         THEN IF m_mutexes[m] = <<>> THEN m_mutexes[m] ELSE Tail(m_mutexes[m])
                         ELSE m_mutexes[k]
  BY DEF MonitorQueues, Unlocked
<1>3. CASE m_mutexes[m] = <<>>
  <2>1. Granted(m) = {}
    BY <1>3 DEF Granted, Successor
  <2>2. new = m_mutexes
    BY <1>3 DEF MonitorQueues, Unlocked
  <2> QED
    BY <1>3, <2>1, <2>2 DEF MonitorQueues
<1>4. CASE m_mutexes[m] # <<>>
  <2> DEFINE head == Head(m_mutexes[m])
  <2>1. /\ Tail(m_mutexes[m]) \in Seq(Threads) /\ Once(Tail(m_mutexes[m]))
        /\ head \in Threads /\ head \in Elements(m_mutexes[m])
        /\ \A u : u \in Elements(Tail(m_mutexes[m])) <=> u \in Elements(m_mutexes[m]) /\ u # head
    BY <1>1, <1>4, TailOnce
  <2> HIDE DEF head
  <2>2. Granted(m) = {head} /\ Successor(m) = head
    BY <1>4, <2>1, ThreadsAssumption DEF Granted, Successor, head
  <2>3. \A k \in Mutexes : k # m => head \notin Elements(m_mutexes[k])
    BY <2>1, MonitorFacts
  <2>4. new \in [Mutexes -> Seq(Threads)] /\ \A k \in Mutexes : Once(new[k])
    <3>1. \A k \in Mutexes : new[k] \in Seq(Threads) /\ Once(new[k])
      BY <1>2, <1>4, <2>1, MonitorFacts
    <3>2. new = [k \in Mutexes |-> new[k]]
      BY DEF Unlocked, MonitorQueues
    <3> QED
      BY <3>1, <3>2
  <2>5. \A k \in Mutexes : \A u :
          u \in Elements(new[k]) <=> u \in Elements(m_mutexes[k]) /\ u \notin Granted(m)
    BY <1>2, <1>4, <2>1, <2>2, <2>3
  <2>6. \A u : u \in Lined(new) <=> u \in Lined(m_mutexes) /\ u \notin Granted(m)
    BY <2>5 DEF Lined
  <2> QED
    BY <2>1, <2>2, <2>4, <2>5, <2>6
<1> QED
  BY <1>3, <1>4

LEMMA MonitorUnlocked ==
  ASSUME MonitorQueues, NEW m \in Mutexes,
         m_mutexes' = [m_mutexes EXCEPT ![m] = IF @ = <<>> THEN @ ELSE Tail(@)],
         m_conds' = m_conds, want' = want, NEW R, R = Granted(m), Restalls(R, NoThread, "NONE")
  PROVE  MonitorQueues'
<1>1. /\ m_mutexes' \in [Mutexes -> Seq(Threads)] /\ \A k \in Mutexes : Once(m_mutexes'[k])
      /\ \A k \in Mutexes : \A u :
           u \in Elements(m_mutexes'[k]) <=> u \in Elements(m_mutexes[k]) /\ u \notin Granted(m)
      /\ \A u : u \in Lined(m_mutexes') <=> u \in Lined(m_mutexes) /\ u \notin Granted(m)
      /\ \A u \in Granted(m) : u \in Elements(m_mutexes[m])
  <2> DEFINE new == m_mutexes'
  <2>1. Unlocked(new, m)
    BY DEF Unlocked
  <2> HIDE DEF new
  <2>2. /\ new \in [Mutexes -> Seq(Threads)] /\ \A k \in Mutexes : Once(new[k])
        /\ \A k \in Mutexes : \A u :
             u \in Elements(new[k]) <=> u \in Elements(m_mutexes[k]) /\ u \notin Granted(m)
        /\ \A u : u \in Lined(new) <=> u \in Lined(m_mutexes) /\ u \notin Granted(m)
        /\ \A u \in Granted(m) : u \in Elements(m_mutexes[m])
    BY <2>1, UnlockFacts
  <2> QED
    BY <2>2 DEF new
<1>2. \A k \in Mutexes : \A u \in Elements(m_mutexes'[k]) :
         want'[u] = k /\ u \notin Queued(m_conds', Conds)
  BY <1>1, MonitorFacts
<1>3. \A u \in Threads : (Stuck(u, {"MUTEX", "COND"}))' <=>
        Stuck(u, {"MUTEX", "COND"}) /\ u \notin Granted(m)
  BY RestallFacts DEF Waits
<1>4. \A u \in Granted(m) : u \notin Queued(m_conds, Conds)
  BY <1>1, MonitorFacts
<1>5. \A u \in Threads : u \in Lined(m_mutexes') \cup Queued(m_conds', Conds) <=>
         (Stuck(u, {"MUTEX", "COND"}))'
  BY <1>1, <1>3, <1>4 DEF MonitorQueues
<1>6. /\ m_conds' \in [Conds -> Seq(CondWaiters)] /\ Apart(m_conds', Conds)
      /\ want' \in [Threads -> Mutexes \cup {NoMutex}]
      /\ \A k \in Conds : \A i \in 1..Len(m_conds'[k]) :
            want'[m_conds'[k][i].thread] = m_conds'[k][i].mutex
  BY DEF MonitorQueues
<1> QED
  BY <1>1, <1>2, <1>5, <1>6 DEF MonitorQueues

LEMMA MonitorWaited ==
  ASSUME MonitorQueues, NEW t \in Threads, NEW m \in Mutexes, NEW c \in Conds,
         m_mutexes' = [m_mutexes EXCEPT ![m] = IF @ = <<>> THEN @ ELSE Tail(@)],
         m_conds' = [m_conds EXCEPT ![c] = Append(@, CondWaiter(t, m))],
         want' = [want EXCEPT ![t] = m],
         ~ Stuck(t, {"MUTEX", "COND"}), NEW R, R = Granted(m), Restalls(R, t, "COND")
  PROVE  MonitorQueues'
<1>0. t \notin Lined(m_mutexes) /\ t \notin Queued(m_conds, Conds)
  BY DEF MonitorQueues
<1>1. /\ m_mutexes' \in [Mutexes -> Seq(Threads)] /\ \A k \in Mutexes : Once(m_mutexes'[k])
      /\ \A k \in Mutexes : \A u :
           u \in Elements(m_mutexes'[k]) <=> u \in Elements(m_mutexes[k]) /\ u \notin Granted(m)
      /\ \A u : u \in Lined(m_mutexes') <=> u \in Lined(m_mutexes) /\ u \notin Granted(m)
      /\ \A u \in Granted(m) : u \in Elements(m_mutexes[m])
  <2> DEFINE new == m_mutexes'
  <2>1. Unlocked(new, m)
    BY DEF Unlocked
  <2> HIDE DEF new
  <2>2. /\ new \in [Mutexes -> Seq(Threads)] /\ \A k \in Mutexes : Once(new[k])
        /\ \A k \in Mutexes : \A u :
             u \in Elements(new[k]) <=> u \in Elements(m_mutexes[k]) /\ u \notin Granted(m)
        /\ \A u : u \in Lined(new) <=> u \in Lined(m_mutexes) /\ u \notin Granted(m)
        /\ \A u \in Granted(m) : u \in Elements(m_mutexes[m])
    BY <2>1, UnlockFacts
  <2> QED
    BY <2>2 DEF new
<1> DEFINE w == CondWaiter(t, m)
           n == Len(m_conds[c])
           new == m_conds'
<1>2. w \in CondWaiters /\ w.thread = t /\ w.mutex = m
  BY DEF CondWaiter, CondWaiters
<1>3. /\ m_conds[c] \in Seq(CondWaiters) /\ new[c] = Append(m_conds[c], w)
      /\ \A k \in Conds \ {c} : new[k] = m_conds[k]
      /\ new \in [Conds -> Seq(CondWaiters)]
  BY <1>2 DEF MonitorQueues
<1> HIDE DEF w
<1>4. Appended(new, m_conds, Conds, c, w, n)
  BY <1>2, <1>3, AppendFacts DEF Appended
<1> HIDE DEF n, new
<1>5. Apart(m_conds, Conds) /\ w.thread \notin Queued(m_conds, Conds)
  BY <1>0, <1>2 DEF MonitorQueues
<1>6. /\ Apart(new, Conds)
      /\ \A u : u \in Queued(new, Conds) <=> u \in Queued(m_conds, Conds) \/ u = w.thread
  BY <1>4, <1>5, FamilyAppend
<1>7. \A u \in Threads : want'[u] = IF u = t THEN m ELSE want[u]
  BY DEF MonitorQueues
<1>8. \A k \in Mutexes : \A u \in Elements(m_mutexes'[k]) : want'[u] = k /\ u \notin Queued(new, Conds)
  <2>1. \A k \in Mutexes : \A u \in Elements(m_mutexes'[k]) :
           u # t /\ u \in Elements(m_mutexes[k]) /\ u \in Threads
    BY <1>0, <1>1, MonitorFacts
  <2> QED
    BY <1>2, <1>6, <1>7, <2>1, MonitorFacts
<1>9. \A k \in Conds : \A i \in 1..Len(new[k]) : want'[new[k][i].thread] = new[k][i].mutex
  <2>1. \A k \in Conds : \A i \in 1..Len(m_conds[k]) :
          /\ m_conds[k][i].thread \in Queued(m_conds, Conds)
          /\ want[m_conds[k][i].thread] = m_conds[k][i].mutex
    BY CondFacts
  <2>2. \A k \in Conds : \A i \in 1..Len(m_conds[k]) :
          want'[m_conds[k][i].thread] = m_conds[k][i].mutex
    BY <1>0, <1>7, <2>1, MonitorFacts
  <2>3. \A k \in Conds : \A i \in 1..Len(new[k]) :
          (i \in 1..Len(m_conds[k]) /\ new[k][i] = m_conds[k][i]) \/ new[k][i] = w
    BY <1>4 DEF Appended
  <2> QED
    BY <1>2, <1>7, <2>2, <2>3
<1>10. \A u \in Threads : (Stuck(u, {"MUTEX", "COND"}))' <=>
        (Stuck(u, {"MUTEX", "COND"}) /\ u \notin Granted(m)) \/ u = t
  <2>1. {"MUTEX", "COND"} \in SUBSET Waits /\ "COND" \in {"MUTEX", "COND"}
    BY DEF Waits
  <2>2. \A u \in Threads : (Stuck(u, {"MUTEX", "COND"}))' <=>
          \/ Stuck(u, {"MUTEX", "COND"}) /\ u \notin R
          \/ u = t /\ "COND" \in {"MUTEX", "COND"}
    BY <2>1 DEF Restalls
  <2> QED
    BY <2>1, <2>2
<1>11. \A u \in Granted(m) : u \notin Queued(m_conds, Conds)
  BY <1>1, MonitorFacts
<1>12. \A u \in Threads : u \in Lined(m_mutexes') \cup Queued(new, Conds) <=>
         (Stuck(u, {"MUTEX", "COND"}))'
  BY <1>1, <1>2, <1>6, <1>10, <1>11 DEF MonitorQueues
<1>13. want' \in [Threads -> Mutexes \cup {NoMutex}]
  BY DEF MonitorQueues
<1> QED
  BY <1>1, <1>3, <1>6, <1>8, <1>9, <1>12, <1>13 DEF MonitorQueues, new

\* t goes on: it is in no queue.
LEMMA MonitorGoesOn ==
  ASSUME MonitorQueues, NEW t \in Threads, want' = [want EXCEPT ![t] = NoMutex],
         UNCHANGED <<m_mutexes, m_conds, status, stalled_reason>>,
         ~ Stuck(t, {"MUTEX", "COND"})
  PROVE  MonitorQueues'
<1>0. t \notin Lined(m_mutexes) /\ t \notin Queued(m_conds, Conds)
  BY DEF MonitorQueues
<1>1. \A u \in Threads : want'[u] = IF u = t THEN NoMutex ELSE want[u]
  BY DEF MonitorQueues
<1>2. \A k \in Mutexes : \A u \in Elements(m_mutexes[k]) :
         want'[u] = k /\ u \notin Queued(m_conds, Conds)
  BY <1>0, <1>1, MonitorFacts
<1>3. \A k \in Conds : \A i \in 1..Len(m_conds[k]) :
        want'[m_conds[k][i].thread] = m_conds[k][i].mutex
  <2>1. \A k \in Conds : \A i \in 1..Len(m_conds[k]) :
          /\ m_conds[k][i].thread \in Queued(m_conds, Conds)
          /\ want[m_conds[k][i].thread] = m_conds[k][i].mutex
    BY CondFacts
  <2> QED
    BY <1>0, <1>1, <2>1, MonitorFacts
<1>4. want' \in [Threads -> Mutexes \cup {NoMutex}]
  BY DEF MonitorQueues
<1>5. \A u \in Threads : (Stuck(u, {"MUTEX", "COND"}))' <=> Stuck(u, {"MUTEX", "COND"})
  BY DEF Stuck
<1> QED
  BY <1>2, <1>3, <1>4, <1>5 DEF MonitorQueues

\* The first n waiters of c are signalled.
Woken(woken, c, n) ==
  /\ woken \in Seq(CondWaiters)
  /\ Len(woken) = Least(n, Len(m_conds[c]))
  /\ \A i \in 1..Len(woken) : woken[i] = m_conds[c][i]

Takers(woken) == {Head(Of(woken, m)) : m \in {k \in Mutexes : Takes(woken, k)}}

LEMMA WokenFacts ==
  ASSUME MonitorQueues, NEW c \in Conds, NEW n \in Nat, NEW woken, Woken(woken, c, n)
  PROVE  /\ \A m \in Mutexes :
              /\ Of(woken, m) \in Seq(Threads) /\ Once(Of(woken, m))
              /\ \A u \in Elements(Of(woken, m)) :
                   u \in Threads /\ want[u] = m /\ u \in Queued(m_conds, Conds)
         /\ \A u : u \in First(m_conds[c], n) <=>
                     \E m \in Mutexes : u \in Elements(Of(woken, m))
<1>1. woken \in Seq(CondWaiters) /\ Len(m_conds[c]) \in Nat
  BY DEF Woken, MonitorQueues
<1>2. Len(woken) = Least(n, Len(m_conds[c])) /\ \A i \in 1..Len(woken) : i \in 1..Len(m_conds[c])
  BY <1>1 DEF Woken, Least
<1>3. \A i \in 1..Len(woken) :
        /\ woken[i] = m_conds[c][i] /\ want[woken[i].thread] = woken[i].mutex
        /\ woken[i].thread \in Queued(m_conds, Conds)
        /\ woken[i].thread \in Threads /\ woken[i].mutex \in Mutexes
  BY <1>2, CondFacts DEF Woken
<1>4. \A i, j \in 1..Len(woken) : woken[i].thread = woken[j].thread => i = j
  BY <1>2, <1>3 DEF MonitorQueues, Apart
<1>5. ASSUME NEW m \in Mutexes
      PROVE  /\ Of(woken, m) \in Seq(Threads) /\ Once(Of(woken, m))
             /\ \A u : u \in Elements(Of(woken, m)) <=>
                         \E i \in 1..Len(woken) : woken[i].thread = u /\ woken[i].mutex = m
  BY <1>1, <1>4, OfFacts
<1>6. ASSUME NEW m \in Mutexes, NEW u \in Elements(Of(woken, m))
      PROVE  u \in Threads /\ want[u] = m /\ u \in Queued(m_conds, Conds)
  BY <1>3, <1>5
<1>7. \A u : u \in First(m_conds[c], n) <=> \E i \in 1..Len(woken) : woken[i].thread = u
  BY <1>2, <1>3 DEF First
<1>8. \A u : u \in First(m_conds[c], n) <=> \E m \in Mutexes : u \in Elements(Of(woken, m))
  BY <1>3, <1>5, <1>7
<1> QED
  BY <1>5, <1>6, <1>8

\* Who takes a mutex is the first of those who were signalled and want it.
LEMMA TakersAreSignalled ==
  ASSUME MonitorQueues, NEW c \in Conds, NEW n \in Nat, NEW woken, Woken(woken, c, n),
         NEW u \in Takers(woken)
  PROVE  \E k \in Mutexes :
           u \in Elements(Of(woken, k)) /\ Takes(woken, k) /\ u = Head(Of(woken, k))
<1>1. PICK k \in Mutexes : Takes(woken, k) /\ u = Head(Of(woken, k))
  BY DEF Takers
<1>2. Of(woken, k) \in Seq(Threads) /\ Once(Of(woken, k)) /\ Of(woken, k) # <<>>
  BY <1>1, WokenFacts DEF Takes
<1>3. Head(Of(woken, k)) \in Elements(Of(woken, k))
  BY <1>2, TailOnce
<1> QED
  BY <1>1, <1>3

LEMMA TakersFacts ==
  ASSUME MonitorQueues, NEW c \in Conds, NEW n \in Nat, NEW woken, Woken(woken, c, n),
         NEW m \in Mutexes
  PROVE  /\ Takes(woken, m) => /\ Head(Of(woken, m)) \in Elements(Of(woken, m))
                               /\ Head(Of(woken, m)) \in Takers(woken)
         /\ \A u \in Elements(Of(woken, m)) :
              u \in Takers(woken) <=> Takes(woken, m) /\ u = Head(Of(woken, m))
<1>1. \A k \in Mutexes : /\ Of(woken, k) \in Seq(Threads) /\ Once(Of(woken, k))
                         /\ \A u \in Elements(Of(woken, k)) : want[u] = k
  BY WokenFacts
<1>2. \A k \in Mutexes : Takes(woken, k) => Head(Of(woken, k)) \in Elements(Of(woken, k))
  BY <1>1, TailOnce DEF Takes
<1>3. \A u : u \in Takers(woken) <=> \E k \in Mutexes : Takes(woken, k) /\ u = Head(Of(woken, k))
  BY DEF Takers
<1> QED
  BY <1>1, <1>2, <1>3

(* The first n waiters of c leave its queue. *)
Dismissed(c, n) == m_conds' = [m_conds EXCEPT ![c] = Without(@, n)]

Pairs(queue) == {<<queue[i].thread, queue[i].mutex>> : i \in 1..Len(queue)}
FirstPairs(queue, n) == {<<queue[i].thread, queue[i].mutex>> : i \in 1..Least(n, Len(queue))}

LEMMA DismissedFacts ==
  ASSUME MonitorQueues, NEW c \in Conds, NEW n \in Nat, Dismissed(c, n)
  PROVE  /\ m_conds' \in [Conds -> Seq(CondWaiters)] /\ Apart(m_conds', Conds)
         /\ \A u : u \in Queued(m_conds', Conds) <=>
                     u \in Queued(m_conds, Conds) /\ u \notin First(m_conds[c], n)
         /\ \A k \in Conds : \A i \in 1..Len(m_conds'[k]) :
              \E j \in 1..Len(m_conds[k]) : m_conds'[k][i] = m_conds[k][j]
         /\ \A k \in Conds : k # c => m_conds'[k] = m_conds[k]
         /\ Pairs(m_conds'[c]) = Pairs(m_conds[c]) \ FirstPairs(m_conds[c], n)
<1> DEFINE new == m_conds'
           D == [k \in Conds |-> IF k = c THEN 1..Least(n, Len(m_conds[c])) ELSE {}]
<1>1. \A k \in Conds : m_conds[k] \in Seq(CondWaiters) /\ Len(m_conds[k]) \in Nat
  BY DEF MonitorQueues
<1>2. \A k \in Conds : new[k] = IF k = c THEN Without(m_conds[c], n) ELSE m_conds[k]
  BY DEF MonitorQueues, Dismissed
<1>3. \A k \in Conds : new[k] \in Seq(CondWaiters) /\ \E o : Picks(new[k], m_conds[k], D[k], o)
  <2>1. ASSUME NEW k \in Conds, k # c
        PROVE  new[k] \in Seq(CondWaiters) /\ \E o : Picks(new[k], m_conds[k], D[k], o)
    BY <1>1, <1>2, <2>1, AllPick
  <2>2. new[c] \in Seq(CondWaiters) /\ \E o : Picks(new[c], m_conds[c], D[c], o)
    BY <1>1, <1>2, WithoutPicks
  <2> QED
    BY <2>1, <2>2
<1>4. new \in [Conds -> Seq(CondWaiters)]
  BY <1>3 DEF MonitorQueues, Dismissed
<1>5. \A u : u \in At(m_conds, Conds, D) <=> u \in First(m_conds[c], n)
  <2>1. \A k \in Conds : D[k] = IF k = c THEN 1..Least(n, Len(m_conds[c])) ELSE {}
    OBVIOUS
  <2>2. D[c] \cap (1..Len(m_conds[c])) = 1..Least(n, Len(m_conds[c]))
    BY <1>1, <2>1 DEF Least
  <2> HIDE DEF D
  <2>3. \A u : u \in At(m_conds, Conds, D) <=>
          \E k \in Conds : \E i \in D[k] \cap (1..Len(m_conds[k])) : m_conds[k][i].thread = u
    BY DEF At
  <2>4. \A u : u \in First(m_conds[c], n) <=>
          \E i \in D[c] \cap (1..Len(m_conds[c])) : m_conds[c][i].thread = u
    BY <2>2 DEF First
  <2> QED
    BY <2>1, <2>3, <2>4
<1> HIDE DEF D
<1>6. /\ Apart(new, Conds)
       /\ \A u : u \in Queued(new, Conds) <=>
                   u \in Queued(m_conds, Conds) /\ u \notin First(m_conds[c], n)
  <2>1. Apart(m_conds, Conds)
    BY DEF MonitorQueues
  <2> HIDE DEF new
  <2>2. /\ Apart(new, Conds)
        /\ \A u : u \in Queued(new, Conds) <=>
                    u \in Queued(m_conds, Conds) /\ u \notin At(m_conds, Conds, D)
    BY <1>3, <2>1, FamilyPicks
  <2> QED
    BY <1>5, <2>2
<1>7. \A k \in Conds : \A i \in 1..Len(new[k]) :
        \E j \in 1..Len(m_conds[k]) : new[k][i] = m_conds[k][j]
  <2> SUFFICES ASSUME NEW k \in Conds, NEW i \in 1..Len(new[k])
               PROVE  \E j \in 1..Len(m_conds[k]) : new[k][i] = m_conds[k][j]
    OBVIOUS
  <2>1. PICK o : Picks(new[k], m_conds[k], D[k], o)
    BY <1>3
  <2>2. o[i] \in 1..Len(m_conds[k]) /\ new[k][i] = m_conds[k][o[i]]
    BY <2>1 DEF Picks
  <2> QED
    BY <2>2
<1>8. Pairs(new[c]) = Pairs(m_conds[c]) \ FirstPairs(m_conds[c], n)
  <2> DEFINE queue == m_conds[c] left == Without(queue, n) N == 1..Least(n, Len(queue))
  <2>1. queue \in Seq(CondWaiters) /\ new[c] = left /\ N \subseteq 1..Len(queue)
    BY <1>1, <1>2 DEF Least
  <2>2. \A i, j \in 1..Len(queue) : queue[i].thread = queue[j].thread => i = j
    BY DEF MonitorQueues, Apart
  <2> HIDE DEF queue, left, N
  <2>3. PICK o : Picks(left, queue, N, o)
    BY <2>1, WithoutPicks DEF left, N
  <2>4. \A p : p \in Pairs(left) <=>
               \E i \in 1..Len(queue) : i \notin N /\ p = <<queue[i].thread, queue[i].mutex>>
    <3>1. \A j \in 1..Len(left) : o[j] \in 1..Len(queue) /\ o[j] \notin N /\ left[j] = queue[o[j]]
      BY <2>3 DEF Picks
    <3>2. \A i \in 1..Len(queue) : i \notin N => \E j \in 1..Len(left) : o[j] = i
      BY <2>3 DEF Picks
    <3>3. \A p : p \in Pairs(left) <=>
            \E j \in 1..Len(left) : p = <<left[j].thread, left[j].mutex>>
      BY DEF Pairs
    <3>4. ASSUME NEW p, p \in Pairs(left)
          PROVE  \E i \in 1..Len(queue) : i \notin N /\ p = <<queue[i].thread, queue[i].mutex>>
      <4>1. PICK j \in 1..Len(left) : p = <<left[j].thread, left[j].mutex>>
        BY <3>3, <3>4
      <4> QED
        BY <3>1, <4>1
    <3>5. ASSUME NEW i \in 1..Len(queue), i \notin N
          PROVE  <<queue[i].thread, queue[i].mutex>> \in Pairs(left)
      <4>1. PICK j \in 1..Len(left) : o[j] = i
        BY <3>2, <3>5
      <4>2. left[j] = queue[i]
        BY <3>1, <4>1
      <4> QED
        BY <3>3, <4>2
    <3> QED
      BY <3>4, <3>5
  <2>5. \A p : p \in FirstPairs(queue, n) <=> \E i \in N : p = <<queue[i].thread, queue[i].mutex>>
    BY DEF FirstPairs, N
  <2>6. \A p : p \in Pairs(left) <=> p \in Pairs(queue) /\ p \notin FirstPairs(queue, n)
    <3>1. \A i, j \in 1..Len(queue) :
            <<queue[i].thread, queue[i].mutex>> = <<queue[j].thread, queue[j].mutex>> => i = j
      BY <2>2
    <3>2. \A p : p \in Pairs(queue) <=>
            \E i \in 1..Len(queue) : p = <<queue[i].thread, queue[i].mutex>>
      BY DEF Pairs
    <3>3. \A i : i \in N => i \in 1..Len(queue)
      BY <2>1
    <3> QED
      BY <2>4, <2>5, <3>1, <3>2, <3>3
  <2> QED
    BY <2>1, <2>6 DEF queue
<1> HIDE DEF new
<1>9. \A k \in Conds : k # c => new[k] = m_conds[k]
  BY <1>2
<1> QED
  BY <1>4, <1>6, <1>7, <1>8, <1>9 DEF new

LEMMA MonitorSignalled ==
  ASSUME MonitorQueues, NEW c \in Conds, NEW n \in Nat, NEW woken, Woken(woken, c, n),
         m_mutexes' = [m \in Mutexes |->
           m_mutexes[m] \o (IF Takes(woken, m) THEN Tail(Of(woken, m)) ELSE Of(woken, m))],
         Dismissed(c, n), want' = want,
         NEW R, R = Takers(woken), Restalls(R, NoThread, "NONE")
  PROVE  MonitorQueues'
<1> DEFINE X(m) == IF Takes(woken, m) THEN Tail(Of(woken, m)) ELSE Of(woken, m)
<1>1. \A m \in Mutexes : /\ Of(woken, m) \in Seq(Threads) /\ Once(Of(woken, m))
                         /\ \A u \in Elements(Of(woken, m)) :
                              u \in Threads /\ want[u] = m /\ u \in Queued(m_conds, Conds)
  BY WokenFacts
<1>2. ASSUME NEW m \in Mutexes
      PROVE  /\ X(m) \in Seq(Threads) /\ Once(X(m))
             /\ \A u : u \in Elements(X(m)) <=> u \in Elements(Of(woken, m)) /\ u \notin R
  <2>1. CASE Takes(woken, m)
    <3>1. Of(woken, m) # <<>>
      BY <2>1 DEF Takes
    <3>2. /\ Tail(Of(woken, m)) \in Seq(Threads) /\ Once(Tail(Of(woken, m)))
          /\ \A u : u \in Elements(Tail(Of(woken, m))) <=>
                      u \in Elements(Of(woken, m)) /\ u # Head(Of(woken, m))
      BY <1>1, <3>1, TailOnce
    <3>3. X(m) = Tail(Of(woken, m))
      BY <2>1
    <3> HIDE DEF X
    <3> QED
      BY <2>1, <3>2, <3>3, TakersFacts
  <2>2. CASE ~ Takes(woken, m)
    <3>1. X(m) = Of(woken, m)
      BY <2>2
    <3>2. \A u \in Elements(Of(woken, m)) : u \notin R
      BY <2>2, TakersFacts
    <3> HIDE DEF X
    <3> QED
      BY <1>1, <3>1, <3>2
  <2> QED
    BY <2>1, <2>2
<1>3. m_mutexes' = [m \in Mutexes |-> m_mutexes[m] \o X(m)]
  OBVIOUS
<1> HIDE DEF X
<1>4. ASSUME NEW m \in Mutexes
      PROVE  /\ m_mutexes'[m] \in Seq(Threads) /\ Once(m_mutexes'[m])
             /\ \A u : u \in Elements(m_mutexes'[m]) <=>
                  u \in Elements(m_mutexes[m]) \/ (u \in Elements(Of(woken, m)) /\ u \notin R)
  <2>1. m_mutexes[m] \in Seq(Threads) /\ Once(m_mutexes[m])
    BY MonitorFacts
  <2>2. \A u \in Elements(m_mutexes[m]) : u \notin Elements(X(m))
    BY <1>1, <1>2, MonitorFacts
  <2>3. m_mutexes'[m] = m_mutexes[m] \o X(m)
    BY <1>3
  <2>4. /\ m_mutexes[m] \o X(m) \in Seq(Threads) /\ Once(m_mutexes[m] \o X(m))
        /\ \A u : u \in Elements(m_mutexes[m] \o X(m)) <=>
                    u \in Elements(m_mutexes[m]) \/ u \in Elements(X(m))
    BY <1>2, <2>1, <2>2, ConcatOnce
  <2> QED
    BY <1>2, <2>3, <2>4
<1>5. m_mutexes' \in [Mutexes -> Seq(Threads)]
  BY <1>3, <1>4
<1>9. m_conds' \in [Conds -> Seq(CondWaiters)]
  BY DismissedFacts
<1>11. /\ Apart(m_conds', Conds)
       /\ \A u : u \in Queued(m_conds', Conds) <=>
                   u \in Queued(m_conds, Conds) /\ u \notin First(m_conds[c], n)
  BY DismissedFacts
<1>12. \A u : u \in First(m_conds[c], n) <=> \E m \in Mutexes : u \in Elements(Of(woken, m))
  BY WokenFacts
<1>13. \A m \in Mutexes : \A u \in Elements(m_mutexes'[m]) : want'[u] = m /\ u \notin Queued(m_conds', Conds)
  <2>1. ASSUME NEW m \in Mutexes, NEW u \in Elements(m_mutexes[m])
        PROVE  want[u] = m /\ u \notin Queued(m_conds', Conds)
    BY <1>11, MonitorFacts
  <2>2. ASSUME NEW m \in Mutexes, NEW u \in Elements(Of(woken, m))
        PROVE  want[u] = m /\ u \notin Queued(m_conds', Conds)
    BY <1>1, <1>11, <1>12
  <2> QED
    BY <1>4, <2>1, <2>2
<1>14. \A k \in Conds : \A i \in 1..Len(m_conds'[k]) : want'[m_conds'[k][i].thread] = m_conds'[k][i].mutex
  <2> SUFFICES ASSUME NEW k \in Conds, NEW i \in 1..Len(m_conds'[k])
               PROVE  want[m_conds'[k][i].thread] = m_conds'[k][i].mutex
    OBVIOUS
  <2>1. PICK j \in 1..Len(m_conds[k]) : m_conds'[k][i] = m_conds[k][j]
    BY DismissedFacts
  <2> QED
    BY <2>1, CondFacts
<1>15. \A u : u \in Lined(m_mutexes') <=>
         u \in Lined(m_mutexes) \/ (u \in First(m_conds[c], n) /\ u \notin R)
  <2>1. \A u : u \in Lined(m_mutexes') <=> \E m \in Mutexes : u \in Elements(m_mutexes'[m])
    BY DEF Lined
  <2>2. \A u : u \in Lined(m_mutexes) <=> \E m \in Mutexes : u \in Elements(m_mutexes[m])
    BY DEF Lined
  <2> QED
    BY <1>4, <1>12, <2>1, <2>2
<1>16. \A u \in Threads : (Stuck(u, {"MUTEX", "COND"}))' <=> Stuck(u, {"MUTEX", "COND"}) /\ u \notin R
  <2>1. {"MUTEX", "COND"} \in SUBSET Waits /\ "NONE" \notin {"MUTEX", "COND"}
    BY DEF Waits
  <2>2. \A u \in Threads : (Stuck(u, {"MUTEX", "COND"}))' <=>
          \/ Stuck(u, {"MUTEX", "COND"}) /\ u \notin R
          \/ u = NoThread /\ "NONE" \in {"MUTEX", "COND"}
    BY <2>1 DEF Restalls
  <2> QED
    BY <2>1, <2>2
<1>17. \A u \in R : u \in First(m_conds[c], n) /\ u \in Queued(m_conds, Conds) /\ u \notin Lined(m_mutexes)
  <2>1. \A u \in R : \E k \in Mutexes : u \in Elements(Of(woken, k))
    BY TakersAreSignalled
  <2>2. \A u \in R : u \in First(m_conds[c], n) /\ u \in Queued(m_conds, Conds)
    BY <1>1, <1>12, <2>1
  <2> QED
    BY <2>2, MonitorFacts
<1>18. \A u : u \in First(m_conds[c], n) => u \in Queued(m_conds, Conds)
  BY <1>1, <1>12
<1>19. \A u \in Threads : u \in Lined(m_mutexes') \cup Queued(m_conds', Conds) <=>
         (Stuck(u, {"MUTEX", "COND"}))'
  BY <1>11, <1>15, <1>16, <1>17, <1>18 DEF MonitorQueues
<1>20. want' \in [Threads -> Mutexes \cup {NoMutex}]
  BY DEF MonitorQueues
<1> QED
  BY <1>4, <1>5, <1>9, <1>11, <1>13, <1>14, <1>19, <1>20 DEF MonitorQueues

-----------------------------------------------------------------------------
(* What an operation does not touch: a queue whose threads it neither resumes
   nor adds to.                                                            *)
LEMMA Untouched ==
  ASSUME QueueInv, NEW own \in SUBSET Waits, NEW R, NEW s, NEW reason, Restalls(R, s, reason),
         reason \in own \cup {"NONE", "SYSCALL"}, \A u \in Threads \cap R : Stuck(u, own)
  PROVE  /\ "JOIN" \notin own /\ UNCHANGED waiter => JoinQueue'
         /\ "BARRIER" \notin own /\ UNCHANGED m_barrier => BarrierQueue'
         /\ "SLEEP" \notin own /\ UNCHANGED m_sleeping => SleepQueue'
         /\ "FUTEX" \notin own /\ UNCHANGED m_futexes => FutexQueues'
         /\ /\ "MUTEX" \notin own /\ "COND" \notin own
            /\ UNCHANGED <<m_mutexes, m_conds, want>>
            => MonitorQueues'
         /\ StallReasons'
<1>1. ASSUME NEW other \in SUBSET Waits, other \cap own = {}
      PROVE  \A u \in Threads : (Stuck(u, other))' <=> Stuck(u, other)
  <2>1. reason \notin other
    BY <1>1 DEF Waits
  <2>2. \A u \in Threads \cap R : ~ Stuck(u, other)
    BY <1>1 DEF Stuck
  <2> QED
    BY <2>1, <2>2, Kept
<1>2. /\ {"JOIN"} \in SUBSET Waits /\ {"BARRIER"} \in SUBSET Waits /\ {"SLEEP"} \in SUBSET Waits
      /\ {"FUTEX"} \in SUBSET Waits /\ {"MUTEX", "COND"} \in SUBSET Waits
  BY DEF Waits
<1>3. ASSUME "JOIN" \notin own, UNCHANGED waiter PROVE JoinQueue'
  <2>1. {"JOIN"} \cap own = {}
    BY <1>3
  <2> QED
    BY <1>1, <1>2, <1>3, <2>1, JoinKept DEF QueueInv
<1>4. ASSUME "BARRIER" \notin own, UNCHANGED m_barrier PROVE BarrierQueue'
  <2>1. {"BARRIER"} \cap own = {}
    BY <1>4
  <2> QED
    BY <1>1, <1>2, <1>4, <2>1, BarrierKept DEF QueueInv
<1>5. ASSUME "SLEEP" \notin own, UNCHANGED m_sleeping PROVE SleepQueue'
  <2>1. {"SLEEP"} \cap own = {}
    BY <1>5
  <2> QED
    BY <1>1, <1>2, <1>5, <2>1, SleepKept DEF QueueInv
<1>6. ASSUME "FUTEX" \notin own, UNCHANGED m_futexes PROVE FutexQueues'
  <2>1. {"FUTEX"} \cap own = {}
    BY <1>6
  <2> QED
    BY <1>1, <1>2, <1>6, <2>1, FutexKept DEF QueueInv
<1>7. ASSUME "MUTEX" \notin own, "COND" \notin own, UNCHANGED <<m_mutexes, m_conds, want>>
      PROVE  MonitorQueues'
  <2>1. {"MUTEX", "COND"} \cap own = {}
    BY <1>7
  <2> QED
    BY <1>1, <1>2, <1>7, <2>1, MonitorKept DEF QueueInv
<1>8. StallReasons'
  BY DEF QueueInv, StallReasons, Restalls
<1> QED
  BY <1>3, <1>4, <1>5, <1>6, <1>7, <1>8

\* The queues of whoever is to be resumed.
LEMMA FirstWaits ==
  ASSUME NEW T, NEW queue \in Seq(T), NEW n \in Nat, NEW u \in First(queue, n)
  PROVE  u \in Who(queue)
<1>1. PICK i \in 1..Least(n, Len(queue)) : queue[i].thread = u
  BY DEF First
<1>2. i \in 1..Len(queue)
  BY <1>1 DEF Least
<1> QED
  BY <1>1, <1>2 DEF Who

LEMMA TimedOutWaits ==
  ASSUME NEW queue, NEW time, NEW u \in TimedOut(queue, time)
  PROVE  u \in Who(queue)
BY DEF TimedOut, FirstExpired, Expired, Who

LEMMA WaitersAreStuck ==
  ASSUME QueueInv
  PROVE  /\ \A m \in Mutexes : \A u \in Granted(m) : u \in Threads /\ Stuck(u, {"MUTEX", "COND"})
         /\ \A u \in Elements(m_barrier) : u \in Threads /\ Stuck(u, {"BARRIER"})
         /\ \A f \in Futexes : \A u \in Who(m_futexes[f]) : u \in Threads /\ Stuck(u, {"FUTEX"})
         /\ \A u \in Who(m_sleeping) : u \in Threads /\ Stuck(u, {"SLEEP"})
<1>1. ASSUME NEW m \in Mutexes, NEW u \in Granted(m)
      PROVE  u \in Threads /\ Stuck(u, {"MUTEX", "COND"})
  <2>1. PICK new : Unlocked(new, m)
    BY DEF Unlocked
  <2>2. u \in Elements(m_mutexes[m]) /\ u \in Threads
    BY <2>1, UnlockFacts DEF QueueInv
  <2> QED
    BY <2>2 DEF QueueInv, MonitorQueues, Lined
<1>2. \A u \in Elements(m_barrier) : u \in Threads /\ Stuck(u, {"BARRIER"})
  <2>1. \A u \in Elements(m_barrier) : u \in Threads
    BY DEF QueueInv, BarrierQueue, Elements
  <2> QED
    BY <2>1 DEF QueueInv, BarrierQueue
<1>3. ASSUME NEW f \in Futexes, NEW u \in Who(m_futexes[f])
      PROVE  u \in Threads /\ Stuck(u, {"FUTEX"})
  <2>1. m_futexes[f] \in Seq(Waiters)
    BY DEF QueueInv, FutexQueues
  <2>2. u \in Threads
    BY <2>1, WaitersHaveThreads DEF Who
  <2>3. u \in Queued(m_futexes, Futexes)
    BY DEF Queued
  <2> QED
    BY <2>2, <2>3 DEF QueueInv, FutexQueues
<1>4. ASSUME NEW u \in Who(m_sleeping) PROVE u \in Threads /\ Stuck(u, {"SLEEP"})
  <2>1. m_sleeping \in Seq(Waiters)
    BY DEF QueueInv, SleepQueue
  <2>2. u \in Threads
    BY <2>1, WaitersHaveThreads DEF Who
  <2>3. u \in Queued(Sleepers, {"sleep"})
    BY DEF Queued, Sleepers
  <2> QED
    BY <2>2, <2>3 DEF QueueInv, SleepQueue
<1> QED
  BY <1>1, <1>2, <1>3, <1>4

-----------------------------------------------------------------------------
\* The threads that wait for the host, through the calls of others.
LEMMA HostCallsKept ==
  ASSUME RunInv, HostCalls, UNCHANGED stalled_reason,
         \A u \in Threads : host'[u] \in {"blocked", "resuming"} =>
           host[u] \in {"blocked", "resuming"},
         m_thread_lock'.call = "block" =>
           m_thread_lock.call = "block" /\ m_thread_lock'.by = m_thread_lock.by
  PROVE  HostCalls'
BY DEF HostCalls

LEMMA ProceedHost ==
  ASSUME RunInv, HostCalls, NEW t \in Threads, NEW ts, CallProceeds(t, ts)
  PROVE  HostCalls'
<1>1. UNCHANGED <<stalled_reason, m_thread_lock>> /\ host' = Signalled(OfThreads(ts))
  BY DEF CallProceeds, Proceed
<1>2. \A u \in Threads : host'[u] \in {"blocked", "resuming"} => host[u] \in {"blocked", "resuming"}
  BY <1>1, SignalledFacts DEF RunInv, SkewInv
<1> QED
  BY <1>1, <1>2, HostCallsKept

LEMMA StallHost ==
  ASSUME RunInv, HostCalls, NEW t \in Threads, NEW reason \in Reasons, NEW ts, NEW call,
         CallStalls(t, reason, ts, call), call = "block" => reason = "SYSCALL"
  PROVE  HostCalls'
<1>1. /\ stalled_reason' = [stalled_reason EXCEPT ![t] = reason]
      /\ host' = [Signalled(OfThreads(ts)) EXCEPT ![t] = "serving"]
      /\ m_thread_lock' = Held(t, call, "signal") /\ call \in {"stall", "block"}
  BY DEF CallStalls, Stall
<1>2. \A u \in Threads : host'[u] \in {"blocked", "resuming"} =>
        host[u] \in {"blocked", "resuming"} /\ u # t
  BY <1>1, SignalledFacts DEF RunInv, SkewInv
<1>3. m_thread_lock'.call = call /\ m_thread_lock'.by = t
  BY <1>1, HeldFacts
<1>4. \A u \in Threads : stalled_reason'[u] = IF u = t THEN reason ELSE stalled_reason[u]
  BY <1>1 DEF HostCalls
<1>5. stalled_reason' \in [Threads -> Reasons]
  BY <1>1 DEF HostCalls
<1>6. \A u \in Threads : host'[u] \in {"blocked", "resuming"} => stalled_reason'[u] = "SYSCALL"
  BY <1>2, <1>4 DEF HostCalls
<1>7. m_thread_lock'.call = "block" => stalled_reason'[m_thread_lock'.by] = "SYSCALL"
  BY <1>3, <1>4
<1> QED
  BY <1>5, <1>6, <1>7 DEF HostCalls

LEMMA ExitHost ==
  ASSUME RunInv, HostCalls, NEW t \in Threads, NEW ts, CallExits(t, ts)
  PROVE  HostCalls'
<1>1. /\ UNCHANGED stalled_reason
      /\ host' = [Signalled(OfThreads(ts)) EXCEPT ![t] = "serving"]
      /\ m_thread_lock' = Held(t, "exit", "signal")
  BY DEF CallExits, Exit
<1>2. \A u \in Threads : host'[u] \in {"blocked", "resuming"} => host[u] \in {"blocked", "resuming"}
  BY <1>1, SignalledFacts DEF RunInv, SkewInv
<1>3. m_thread_lock'.call = "exit"
  BY <1>1, HeldFacts
<1> QED
  BY <1>1, <1>2, <1>3, HostCallsKept

-----------------------------------------------------------------------------
(* The calls of the synchronisation server. *)
LEMMA MutexLockQueues ==
  ASSUME RunInv, QueueInv, NEW t \in Threads, NEW m \in Mutexes, NEW tryLock \in BOOLEAN,
         MutexLock(t, m, tryLock), UNCHANGED <<syscallVars, barrierVars>>
  PROVE  QueueInv'
<1> USE DEF syscallVars
<1>0. UNCHANGED <<m_conds, m_barrier, waiter, m_sleeping, m_futexes, barrierVars>>
  BY DEF MutexLock
<1>a. Calls(t)
  BY DEF MutexLock, Enter, Calls
<1>b. HostTypeOK
  BY DEF RunInv, SkewInv
<1>1. CASE CallProceeds(t, {}) /\ UNCHANGED <<m_mutexes, want>>
  <2>1. CallProceeds(t, {})
    BY <1>1
  <2>2. Restalls({}, NoThread, "NONE")
    BY <2>1, ProceedRestalls
  <2>3. HostCalls'
    BY <2>1, ProceedHost DEF QueueInv
  <2>4. {} \in SUBSET Waits /\ \A u \in Threads \cap {} : Stuck(u, {})
    OBVIOUS
  <2>5. JoinQueue' /\ BarrierQueue' /\ SleepQueue' /\ FutexQueues' /\ MonitorQueues' /\ StallReasons'
    BY <1>0, <1>1, <2>2, <2>4, Untouched
  <2> QED
    BY <2>3, <2>5 DEF QueueInv
<1>2. CASE /\ m_mutexes' = [m_mutexes EXCEPT ![m] = Append(@, t)]
           /\ want' = [want EXCEPT ![t] = m]
           /\ CallStalls(t, "MUTEX", {}, "stall")
  <2>1. CallStalls(t, "MUTEX", {}, "stall")
    BY <1>2
  <2>2. Restalls({}, t, "MUTEX")
    BY <2>1, StallRestalls DEF QueueInv
  <2>3. HostCalls'
    BY <2>1, StallHost DEF QueueInv, Reasons
  <2>4. {"MUTEX"} \in SUBSET Waits /\ \A u \in Threads \cap {} : Stuck(u, {"MUTEX"})
    BY DEF Waits
  <2>5. JoinQueue' /\ BarrierQueue' /\ SleepQueue' /\ FutexQueues' /\ StallReasons'
    BY <1>0, <2>2, <2>4, Untouched
  <2>6. MonitorQueues'
    BY <1>0, <1>2, <1>a, <2>2, CallerRuns, LockQueued DEF QueueInv
  <2> QED
    BY <2>3, <2>5, <2>6 DEF QueueInv
<1> QED
  BY <1>1, <1>2, <1>b, MutexLockCall

LEMMA MutexUnlockQueues ==
  ASSUME RunInv, QueueInv, NEW t \in Threads, NEW m \in Mutexes,
         MutexUnlock(t, m), UNCHANGED <<syscallVars, barrierVars>>
  PROVE  QueueInv'
<1> USE DEF syscallVars
<1>0. UNCHANGED <<m_conds, m_barrier, want, waiter, m_sleeping, m_futexes, barrierVars>>
  BY DEF MutexUnlock
<1>b. PICK R : R = Granted(m)
  OBVIOUS
<1>1. CallProceeds(t, R)
  BY <1>b, MutexUnlockCall DEF RunInv, SkewInv
<1>2. Restalls(R, NoThread, "NONE")
  BY <1>1, ProceedRestalls
<1>3. HostCalls'
  BY <1>1, ProceedHost DEF QueueInv
<1>4. /\ {"MUTEX", "COND"} \in SUBSET Waits
      /\ \A u \in Threads \cap R : Stuck(u, {"MUTEX", "COND"})
  BY <1>b, WaitersAreStuck DEF Waits
<1>5. JoinQueue' /\ BarrierQueue' /\ SleepQueue' /\ FutexQueues' /\ StallReasons'
  BY <1>0, <1>2, <1>4, Untouched
<1>6. MonitorQueues'
  BY <1>0, <1>b, <1>2, MonitorUnlocked DEF QueueInv, MutexUnlock, Unlock
<1> QED
  BY <1>3, <1>5, <1>6 DEF QueueInv

LEMMA CondWaitQueues ==
  ASSUME RunInv, QueueInv, NEW t \in Threads, NEW c \in Conds, NEW m \in Mutexes,
         CondWait(t, c, m), UNCHANGED <<syscallVars, barrierVars>>
  PROVE  QueueInv'
<1> USE DEF syscallVars
<1>0. UNCHANGED <<m_barrier, waiter, clock, m_sleeping, m_futexes, barrierVars>>
  BY DEF CondWait
<1>a. Calls(t)
  BY <1>0 DEF CondWait, Enter, Calls
<1>b. PICK R : R = Granted(m)
  OBVIOUS
<1>1. CallStalls(t, "COND", R, "stall")
  BY <1>0, <1>a, <1>b DEF CondWait, CallStalls, StallThread
<1>2. Restalls(R, t, "COND")
  BY <1>1, StallRestalls DEF QueueInv
<1>3. HostCalls'
  BY <1>1, StallHost DEF QueueInv, Reasons
<1>4. /\ {"MUTEX", "COND"} \in SUBSET Waits
      /\ \A u \in Threads \cap R : Stuck(u, {"MUTEX", "COND"})
  BY <1>b, WaitersAreStuck DEF Waits
<1>5. JoinQueue' /\ BarrierQueue' /\ SleepQueue' /\ FutexQueues' /\ StallReasons'
  BY <1>0, <1>2, <1>4, Untouched
<1>6. MonitorQueues'
  <2>1. /\ m_mutexes' = [m_mutexes EXCEPT ![m] = IF @ = <<>> THEN @ ELSE Tail(@)]
        /\ m_conds' = [m_conds EXCEPT ![c] = Append(@, CondWaiter(t, m))]
        /\ want' = [want EXCEPT ![t] = m]
    BY DEF CondWait, Unlock
  <2>2. ~ Stuck(t, {"MUTEX", "COND"}) /\ MonitorQueues
    BY <1>a, CallerRuns DEF QueueInv
  <2> QED
    BY <1>b, <1>2, <2>1, <2>2, MonitorWaited
<1> QED
  BY <1>3, <1>5, <1>6 DEF QueueInv

\* A signal wakes the first waiter, a broadcast all of them.
LEMMA SignalledOfQueue ==
  ASSUME MonitorQueues, NEW c \in Conds, m_conds[c] # <<>>
  PROVE  /\ Woken(<<Head(m_conds[c])>>, c, 1) /\ Without(m_conds[c], 1) = Tail(m_conds[c])
         /\ Len(m_conds[c]) \in Nat /\ Woken(m_conds[c], c, Len(m_conds[c]))
         /\ Without(m_conds[c], Len(m_conds[c])) = <<>>
<1> DEFINE queue == m_conds[c]
           n == Len(queue)
<1>1. queue \in Seq(CondWaiters) /\ queue # <<>>
  BY DEF MonitorQueues
<1> HIDE DEF queue
<1>2. n \in Nat /\ n >= 1 /\ Head(queue) \in CondWaiters /\ Head(queue) = queue[1]
  BY <1>1
<1>3. Least(1, n) = 1 /\ Least(n, n) = n
  <2> HIDE DEF n
  <2> QED
    BY <1>2 DEF Least
<1>4. Woken(<<Head(queue)>>, c, 1)
  BY <1>2, <1>3 DEF Woken, queue
<1>5. Woken(queue, c, n)
  BY <1>1, <1>3 DEF Woken, queue
<1>6. Without(queue, 1) = Tail(queue)
  BY <1>1, <1>2, SubSeqProperties DEF Without
<1>7. Without(queue, n) = <<>>
  BY <1>1, <1>2, SubSeqProperties DEF Without
<1> QED
  BY <1>2, <1>4, <1>5, <1>6, <1>7 DEF queue

LEMMA SignalQueues ==
  ASSUME RunInv, QueueInv, NEW t \in Threads, NEW c \in Conds, NEW n \in Nat, NEW woken,
         Woken(woken, c, n), Calls(t), LockAsync(t, woken),
         Dismissed(c, n),
         UNCHANGED <<clock, m_barrier, want, waiter, syscallVars, barrierVars>>
  PROVE  QueueInv'
<1> USE DEF syscallVars
<1>b. PICK R : R = Takers(woken)
  OBVIOUS
<1>1. CallProceeds(t, R)
  BY <1>b, ProceedsNow DEF LockAsync, Takers, RunInv, SkewInv
<1>2. Restalls(R, NoThread, "NONE")
  BY <1>1, ProceedRestalls
<1>3. HostCalls'
  BY <1>1, ProceedHost DEF QueueInv
<1>4. /\ {"MUTEX", "COND"} \in SUBSET Waits
      /\ \A u \in Threads \cap R : Stuck(u, {"MUTEX", "COND"})
  <2>1. \A u \in R : \E k \in Mutexes : u \in Elements(Of(woken, k))
    BY <1>b, TakersAreSignalled DEF QueueInv
  <2>2. \A u \in R : u \in Queued(m_conds, Conds)
    BY <2>1, WokenFacts DEF QueueInv
  <2> QED
    BY <2>2 DEF Waits, QueueInv, MonitorQueues
<1>5. JoinQueue' /\ BarrierQueue' /\ SleepQueue' /\ FutexQueues' /\ StallReasons'
  BY <1>2, <1>4, Untouched
<1>6. MonitorQueues'
  <2>1. m_mutexes' = [m \in Mutexes |->
           m_mutexes[m] \o (IF Takes(woken, m) THEN Tail(Of(woken, m)) ELSE Of(woken, m))]
    BY DEF LockAsync
  <2>2. MonitorQueues
    BY DEF QueueInv
  <2> QED
    BY <1>b, <1>2, <2>1, <2>2, MonitorSignalled
<1> QED
  BY <1>3, <1>5, <1>6 DEF QueueInv

LEMMA CondSignalQueues ==
  ASSUME RunInv, QueueInv, NEW t \in Threads, NEW c \in Conds,
         CondSignal(t, c) \/ CondBroadcast(t, c), UNCHANGED <<syscallVars, barrierVars>>
  PROVE  QueueInv'
<1>a. /\ Calls(t) /\ m_conds[c] # <<>> /\ MonitorQueues
      /\ UNCHANGED <<clock, m_barrier, want, waiter, syscallVars, barrierVars>>
  BY DEF CondSignal, CondBroadcast, Enter, Calls, QueueInv
<1>1. CASE CondSignal(t, c)
  <2>1. Woken(<<Head(m_conds[c])>>, c, 1) /\ Without(m_conds[c], 1) = Tail(m_conds[c])
    BY <1>a, SignalledOfQueue
  <2>2. Dismissed(c, 1)
    BY <1>1, <2>1 DEF CondSignal, Dismissed
  <2>3. LockAsync(t, <<Head(m_conds[c])>>)
    BY <1>1 DEF CondSignal
  <2> QED
    BY <1>a, <2>1, <2>2, <2>3, SignalQueues
<1>2. CASE CondBroadcast(t, c)
  <2>1. /\ Len(m_conds[c]) \in Nat /\ Woken(m_conds[c], c, Len(m_conds[c]))
        /\ Without(m_conds[c], Len(m_conds[c])) = <<>>
    BY <1>a, SignalledOfQueue
  <2>2. Dismissed(c, Len(m_conds[c]))
    BY <1>2, <2>1 DEF CondBroadcast, Dismissed
  <2>3. LockAsync(t, m_conds[c])
    BY <1>2 DEF CondBroadcast
  <2> QED
    BY <1>a, <2>1, <2>2, <2>3, SignalQueues
<1> QED
  BY <1>1, <1>2

LEMMA BarrierWaitQueues ==
  ASSUME RunInv, QueueInv, NEW t \in Threads, BarrierWait(t),
         UNCHANGED <<syscallVars, barrierVars>>
  PROVE  QueueInv'
<1> USE DEF syscallVars
<1>0. UNCHANGED <<m_mutexes, m_conds, want, waiter, clock, m_sleeping, m_futexes, barrierVars>>
  BY DEF BarrierWait
<1>a. Calls(t)
  BY <1>0 DEF BarrierWait, Enter, Calls
<1>1. CASE m_barrier' = <<>> /\ CallProceeds(t, Elements(m_barrier))
  <2>b. PICK R : R = Elements(m_barrier)
    OBVIOUS
  <2>1. CallProceeds(t, R)
    BY <1>1, <2>b
  <2>2. Restalls(R, NoThread, "NONE")
    BY <2>1, ProceedRestalls
  <2>3. HostCalls'
    BY <2>1, ProceedHost DEF QueueInv
  <2>4. {"BARRIER"} \in SUBSET Waits /\ \A u \in Threads \cap R : Stuck(u, {"BARRIER"})
    BY <2>b, WaitersAreStuck DEF Waits
  <2>5. JoinQueue' /\ SleepQueue' /\ FutexQueues' /\ MonitorQueues' /\ StallReasons'
    BY <1>0, <2>2, <2>4, Untouched
  <2>6. BarrierQueue'
    BY <1>1, <2>b, <2>2, BarrierCleared DEF QueueInv
  <2> QED
    BY <2>3, <2>5, <2>6 DEF QueueInv
<1>2. CASE m_barrier' = Append(m_barrier, t) /\ CallStalls(t, "BARRIER", {}, "stall")
  <2>1. CallStalls(t, "BARRIER", {}, "stall")
    BY <1>2
  <2>2. Restalls({}, t, "BARRIER")
    BY <2>1, StallRestalls DEF QueueInv
  <2>3. HostCalls'
    BY <2>1, StallHost DEF QueueInv, Reasons
  <2>4. {"BARRIER"} \in SUBSET Waits /\ \A u \in Threads \cap {} : Stuck(u, {"BARRIER"})
    BY DEF Waits
  <2>5. JoinQueue' /\ SleepQueue' /\ FutexQueues' /\ MonitorQueues' /\ StallReasons'
    BY <1>0, <2>2, <2>4, Untouched
  <2>6. BarrierQueue'
    BY <1>2, <1>a, <2>2, CallerRuns, BarrierAppended DEF QueueInv
  <2> QED
    BY <2>3, <2>5, <2>6 DEF QueueInv
<1> QED
  BY <1>1, <1>2, BarrierWaitCall DEF RunInv, SkewInv

LEMMA SyncQueues ==
  ASSUME RunInv, QueueInv, NEW t \in Threads, SyncStep(t), UNCHANGED <<syscallVars, barrierVars>>
  PROVE  QueueInv'
BY MutexLockQueues, MutexUnlockQueues, CondWaitQueues, CondSignalQueues, BarrierWaitQueues
   DEF SyncStep

-----------------------------------------------------------------------------
(* The calls of the system call server. *)
LEMMA TimeoutsFacts ==
  ASSUME HostTypeOK, NEW t \in Threads, NEW time \in Timeouts(t)
  PROVE  time \in Nat
<1>1. PICK d \in Delays : time = clock[t] + d
  BY DEF Timeouts
<1>2. clock[t] \in Nat /\ d \in Nat
  BY DelaysAssumption DEF HostTypeOK
<1> QED
  BY <1>1, <1>2

LEMMA SleepQueues ==
  ASSUME RunInv, QueueInv, NEW t \in Threads, NEW time \in Timeouts(t), Sleep(t, time),
         UNCHANGED <<syncVars, barrierVars>>
  PROVE  QueueInv'
<1> USE DEF syncVars
<1>0. UNCHANGED <<m_mutexes, m_conds, m_barrier, want, waiter, clock, m_futexes, barrierVars>>
  BY DEF Sleep
<1>1. CallStalls(t, "SLEEP", {}, "stall") /\ Calls(t)
  BY <1>0 DEF Sleep, CallStalls, StallThread, Enter, Calls
<1>2. Restalls({}, t, "SLEEP")
  BY <1>1, StallRestalls DEF QueueInv
<1>3. HostCalls'
  BY <1>1, StallHost DEF QueueInv, Reasons
<1>4. {"SLEEP"} \in SUBSET Waits /\ \A u \in Threads \cap {} : Stuck(u, {"SLEEP"})
  BY DEF Waits
<1>5. JoinQueue' /\ BarrierQueue' /\ FutexQueues' /\ MonitorQueues' /\ StallReasons'
  BY <1>0, <1>2, <1>4, Untouched
<1>6. time \in Nat
  BY TimeoutsFacts DEF RunInv, SkewInv
<1>7. SleepQueue'
  BY <1>1, <1>2, <1>6, CallerRuns, SleepAppended DEF QueueInv, Sleep
<1> QED
  BY <1>3, <1>5, <1>7 DEF QueueInv

LEMMA FutexWaitQueues ==
  ASSUME RunInv, QueueInv, NEW t \in Threads, NEW f \in Futexes,
         NEW time \in Timeouts(t) \cup {Never}, FutexWait(t, f, time),
         UNCHANGED <<syncVars, barrierVars>>
  PROVE  QueueInv'
<1> USE DEF syncVars
<1>0. UNCHANGED <<m_mutexes, m_conds, m_barrier, want, waiter, clock, m_sleeping, barrierVars>>
  BY DEF FutexWait
<1>1. CallStalls(t, "FUTEX", {}, "stall") /\ Calls(t)
  BY <1>0 DEF FutexWait, CallStalls, StallThread, Enter, Calls
<1>2. Restalls({}, t, "FUTEX")
  BY <1>1, StallRestalls DEF QueueInv
<1>3. HostCalls'
  BY <1>1, StallHost DEF QueueInv, Reasons
<1>4. {"FUTEX"} \in SUBSET Waits /\ \A u \in Threads \cap {} : Stuck(u, {"FUTEX"})
  BY DEF Waits
<1>5. JoinQueue' /\ BarrierQueue' /\ SleepQueue' /\ MonitorQueues' /\ StallReasons'
  BY <1>0, <1>2, <1>4, Untouched
<1>6. time \in Nat \cup {Never}
  BY TimeoutsFacts DEF RunInv, SkewInv
<1>7. FutexQueues'
  BY <1>1, <1>2, <1>6, CallerRuns, FutexAppended DEF QueueInv, FutexWait
<1> QED
  BY <1>3, <1>5, <1>7 DEF QueueInv

\* A call that wakes some waiters of each futex.
LEMMA WakeQueues ==
  ASSUME RunInv, QueueInv, NEW t \in Threads, NEW R, CallProceeds(t, R),
         NEW counts \in [Futexes -> Nat],
         m_futexes' = [f \in Futexes |-> Without(m_futexes[f], counts[f])],
         \A u : u \in R <=> \E f \in Futexes : u \in First(m_futexes[f], counts[f]),
         UNCHANGED <<syncVars, m_sleeping>>
  PROVE  QueueInv'
<1> USE DEF syncVars
<1>0. UNCHANGED <<m_mutexes, m_conds, m_barrier, want, m_sleeping, waiter>>
  BY DEF CallProceeds
<1>2. Restalls(R, NoThread, "NONE")
  BY ProceedRestalls
<1>3. HostCalls'
  BY ProceedHost DEF QueueInv
<1>a. \A f \in Futexes : m_futexes[f] \in Seq(Waiters) /\ counts[f] \in Nat
  BY DEF QueueInv, FutexQueues
<1>4. {"FUTEX"} \in SUBSET Waits /\ \A u \in Threads \cap R : Stuck(u, {"FUTEX"})
  <2>1. \A u \in R : \E f \in Futexes : u \in Who(m_futexes[f])
    BY <1>a, FirstWaits
  <2> QED
    BY <2>1, WaitersAreStuck DEF Waits
<1>5. JoinQueue' /\ BarrierQueue' /\ SleepQueue' /\ MonitorQueues' /\ StallReasons'
  BY <1>0, <1>2, <1>4, Untouched
<1>6. FutexQueues'
  <2>1. \A f \in Futexes : Without(m_futexes[f], counts[f]) \in Seq(Waiters)
    BY <1>a, WithoutPicks
  <2>2. m_futexes' \in [Futexes -> Seq(Waiters)]
    BY <2>1
  <2>3. \A f \in Futexes : m_futexes'[f] = Without(m_futexes[f], counts[f])
    OBVIOUS
  <2> QED
    BY <1>2, <2>2, <2>3, FutexWoken DEF QueueInv
<1> QED
  BY <1>3, <1>5, <1>6 DEF QueueInv

LEMMA FutexWakeQueues ==
  ASSUME RunInv, QueueInv, NEW t \in Threads, NEW f \in Futexes, NEW n \in Nat,
         FutexWake(t, f, n), UNCHANGED <<syncVars, barrierVars>>
  PROVE  QueueInv'
<1>0. UNCHANGED <<waiter, m_sleeping>>
  BY DEF FutexWake
<1>b. PICK R : R = First(m_futexes[f], n)
  OBVIOUS
<1>1. CallProceeds(t, R)
  BY <1>b, FutexCalls DEF RunInv, SkewInv
<1> DEFINE counts == [g \in Futexes |-> IF g = f THEN n ELSE 0]
<1>2. counts \in [Futexes -> Nat] /\ \A g \in Futexes : counts[g] = IF g = f THEN n ELSE 0
  OBVIOUS
<1> HIDE DEF counts
<1>3. \A g \in Futexes : Without(m_futexes[g], 0) = m_futexes[g] /\ First(m_futexes[g], 0) = {}
  BY WithoutNone DEF QueueInv, FutexQueues
<1>4. m_futexes' = [g \in Futexes |-> Without(m_futexes[g], counts[g])]
  BY <1>2, <1>3 DEF FutexWake, QueueInv, FutexQueues
<1>5. \A u : u \in R <=> \E g \in Futexes : u \in First(m_futexes[g], counts[g])
  BY <1>b, <1>2, <1>3
<1> QED
  BY <1>0, <1>1, <1>2, <1>4, <1>5, WakeQueues

LEMMA FutexWakeOpQueues ==
  ASSUME RunInv, QueueInv, NEW t \in Threads, NEW f \in Futexes, NEW n \in Nat,
         NEW g \in Futexes, FutexWakeOp(t, f, n, g, 1), UNCHANGED <<syncVars, barrierVars>>
  PROVE  QueueInv'
<1>0. UNCHANGED <<waiter, m_sleeping>> /\ f # g
  BY DEF FutexWakeOp
<1>b. PICK R : R = First(m_futexes[f], n) \cup First(m_futexes[g], 1)
  OBVIOUS
<1>1. CallProceeds(t, R)
  BY <1>b, FutexCalls DEF RunInv, SkewInv
<1> DEFINE counts == [h \in Futexes |-> IF h = f THEN n ELSE IF h = g THEN 1 ELSE 0]
<1>2. /\ counts \in [Futexes -> Nat] /\ counts[f] = n /\ counts[g] = 1
      /\ \A h \in Futexes \ {f, g} : counts[h] = 0
  BY <1>0
<1> HIDE DEF counts
<1>3. \A h \in Futexes : Without(m_futexes[h], 0) = m_futexes[h] /\ First(m_futexes[h], 0) = {}
  BY WithoutNone DEF QueueInv, FutexQueues
<1>4. m_futexes' = [h \in Futexes |-> Without(m_futexes[h], counts[h])]
  BY <1>0, <1>2, <1>3 DEF FutexWakeOp, QueueInv, FutexQueues
<1>5. \A u : u \in R <=> \E h \in Futexes : u \in First(m_futexes[h], counts[h])
  BY <1>b, <1>0, <1>2, <1>3
<1> QED
  BY <1>0, <1>1, <1>2, <1>4, <1>5, WakeQueues

LEMMA FutexRequeueQueues ==
  ASSUME RunInv, QueueInv, NEW t \in Threads, NEW f \in Futexes, NEW n \in Nat,
         NEW g \in Futexes, FutexCmpRequeue(t, f, n, g), UNCHANGED <<syncVars, barrierVars>>
  PROVE  QueueInv'
<1> USE DEF syncVars
<1>0. UNCHANGED <<m_mutexes, m_conds, m_barrier, want, waiter, m_sleeping, barrierVars>>
  BY DEF FutexCmpRequeue
<1>b. PICK R : R = First(m_futexes[f], n)
  OBVIOUS
<1>1. CallProceeds(t, R)
  BY <1>b, FutexCalls DEF RunInv, SkewInv
<1>2. Restalls(R, NoThread, "NONE")
  BY <1>1, ProceedRestalls
<1>3. HostCalls'
  BY <1>1, ProceedHost DEF QueueInv
<1>4. {"FUTEX"} \in SUBSET Waits /\ \A u \in Threads \cap R : Stuck(u, {"FUTEX"})
  <2>1. m_futexes[f] \in Seq(Waiters)
    BY DEF QueueInv, FutexQueues
  <2>2. \A u \in R : u \in Who(m_futexes[f])
    BY <1>b, <2>1, FirstWaits
  <2> QED
    BY <2>2, WaitersAreStuck DEF Waits
<1>5. JoinQueue' /\ BarrierQueue' /\ SleepQueue' /\ MonitorQueues' /\ StallReasons'
  BY <1>0, <1>2, <1>4, Untouched
<1>6. FutexQueues'
  BY <1>b, <1>2, FutexRequeued DEF QueueInv, FutexCmpRequeue
<1> QED
  BY <1>3, <1>5, <1>6 DEF QueueInv

\* A thread that goes to the host and comes back is in no queue.
LEMMA BlockingQueues ==
  ASSUME RunInv, QueueInv, NEW t \in Threads,
         BlockingCall(t) \/ BlockingReturn(t, m_next_barrier_time) \/ BlockingResume(t),
         UNCHANGED <<syncVars, barrierVars>>
  PROVE  QueueInv'
<1> USE DEF syncVars, syscallVars
<1>0. UNCHANGED <<m_mutexes, m_conds, m_barrier, want, waiter, m_sleeping, m_futexes>>
  BY DEF BlockingCall, BlockingReturn, BlockingResume
<1>a. HostTypeOK /\ HostCalls
  BY DEF RunInv, SkewInv, QueueInv
<1>b. {} \in SUBSET Waits /\ \A u \in Threads \cap {} : Stuck(u, {})
  OBVIOUS
<1>1. CASE BlockingCall(t)
  <2>1. CallStalls(t, "SYSCALL", {}, "block")
    BY <1>1 DEF BlockingCall, CallStalls, Enter, Calls
  <2>2. Restalls({}, t, "SYSCALL")
    BY <2>1, StallRestalls DEF QueueInv
  <2>3. HostCalls'
    BY <2>1, StallHost DEF QueueInv, Reasons
  <2> QED
    BY <1>0, <1>b, <2>2, <2>3, Untouched DEF QueueInv
<1>2. CASE BlockingReturn(t, m_next_barrier_time)
  <2>1. Restalls({}, NoThread, "NONE")
    BY <1>2, NobodyRestalls DEF BlockingReturn
  <2>2. HostCalls'
    <3>1. /\ \A u \in Threads : host'[u] \in {"blocked", "resuming"} =>
               host[u] \in {"blocked", "resuming"}
          /\ UNCHANGED <<stalled_reason, m_thread_lock>>
      BY <1>2, <1>a DEF BlockingReturn, HostTypeOK
    <3> QED
      BY <1>a, <3>1, HostCallsKept
  <2> QED
    BY <1>0, <1>b, <2>1, <2>2, Untouched DEF QueueInv
<1>3. CASE BlockingResume(t)
  <2>1. stalled_reason[t] = "SYSCALL"
    BY <1>3, <1>a DEF BlockingResume, HostCalls
  <2>2. Restalls({}, NoThread, "NONE")
    BY <1>3, <1>a, <2>1, OthersRestall DEF BlockingResume
  <2>3. HostCalls'
    <3>1. /\ \A u \in Threads : host'[u] \in {"blocked", "resuming"} =>
               host[u] \in {"blocked", "resuming"}
          /\ UNCHANGED <<stalled_reason, m_thread_lock>>
      BY <1>3, <1>a DEF BlockingResume, HostTypeOK
    <3> QED
      BY <1>a, <3>1, HostCallsKept
  <2> QED
    BY <1>0, <1>b, <2>2, <2>3, Untouched DEF QueueInv
<1> QED
  BY <1>1, <1>2, <1>3

LEMMA SyscallQueues ==
  ASSUME RunInv, QueueInv, NEW t \in Threads, SyscallStep(t), UNCHANGED <<syncVars, barrierVars>>
  PROVE  QueueInv'
<1>1. \A n \in 1..Cardinality(Threads) : n \in Nat
  OBVIOUS
<1> QED
  BY <1>1, SleepQueues, FutexWaitQueues, FutexWakeQueues, FutexWakeOpQueues,
     FutexRequeueQueues, BlockingQueues DEF SyscallStep

-----------------------------------------------------------------------------
(* The calls of the thread manager. *)
LEMMA CreateQueues ==
  ASSUME RunInv, QueueInv, NEW t \in Threads, NEW u \in Threads, CreateThread(t, u),
         UNCHANGED <<syncVars, syscallVars, barrierVars>>
  PROVE  QueueInv'
<1> USE DEF syncVars, syscallVars
<1>a. HostTypeOK /\ HostCalls
  BY DEF RunInv, SkewInv, QueueInv
<1>b. {} \in SUBSET Waits /\ \A v \in Threads \cap {} : Stuck(v, {})
  OBVIOUS
<1>1. UNCHANGED <<m_mutexes, m_conds, m_barrier, want, waiter, m_sleeping, m_futexes>>
  BY DEF CreateThread
<1>2. Restalls({}, NoThread, "NONE")
  BY <1>a, OthersRestall DEF CreateThread
<1>3. HostCalls'
  BY <1>a, HostCallsKept DEF CreateThread
<1> QED
  BY <1>1, <1>b, <1>2, <1>3, Untouched DEF QueueInv

LEMMA JoinQueues ==
  ASSUME RunInv, QueueInv, NEW t \in Threads, NEW u \in Threads, JoinThread(t, u),
         UNCHANGED <<syncVars, syscallVars, barrierVars>>
  PROVE  QueueInv'
<1> USE DEF syncVars, syscallVars
<1>0. UNCHANGED <<m_mutexes, m_conds, m_barrier, want, m_sleeping, m_futexes, clock, barrierVars>>
  BY DEF JoinThread
<1>a. WaiterAdded
  BY DEF JoinThread, WaiterAdded
<1>1. CallStalls(t, "JOIN", {}, "stall") /\ Calls(t)
  BY <1>0, <1>a DEF JoinThread, CallStalls, StallThread, Enter, Calls
<1>2. Restalls({}, t, "JOIN")
  BY <1>1, StallRestalls DEF QueueInv
<1>3. HostCalls'
  BY <1>1, StallHost DEF QueueInv, Reasons
<1>4. {"JOIN"} \in SUBSET Waits /\ \A v \in Threads \cap {} : Stuck(v, {"JOIN"})
  BY DEF Waits
<1>5. BarrierQueue' /\ SleepQueue' /\ FutexQueues' /\ MonitorQueues' /\ StallReasons'
  BY <1>0, <1>2, <1>4, Untouched
<1>6. JoinQueue'
  <2>1. /\ waiter[u] = NoThread /\ waiter' = [waiter EXCEPT ![u] = t]
        /\ JoinQueue /\ HostTypeOK /\ ~ Stuck(t, {"JOIN"})
    BY <1>1, CallerRuns DEF JoinThread, QueueInv, RunInv, SkewInv
  <2> QED
    BY <1>2, <2>1, JoinAdded
<1> QED
  BY <1>3, <1>5, <1>6 DEF QueueInv

\* Nobody joins a thread that starts.
LEMMA StartQueues ==
  ASSUME RunInv, QueueInv, NEW t \in Threads, ThreadStart(t),
         UNCHANGED <<syncVars, syscallVars, barrierVars>>
  PROVE  QueueInv'
<1> USE DEF syncVars, syscallVars
<1>a. HostTypeOK /\ HostCalls /\ waiter[t] = NoThread
  BY DEF RunInv, SkewInv, QueueInv, JoinsLater, ThreadStart
<1>b. {} \in SUBSET Waits /\ \A v \in Threads \cap {} : Stuck(v, {})
  OBVIOUS
<1>1. UNCHANGED <<m_mutexes, m_conds, m_barrier, want, waiter, m_sleeping, m_futexes>>
  BY <1>a DEF ThreadStart, HostTypeOK
<1>2. Restalls({}, NoThread, "NONE")
  BY <1>a, OthersRestall DEF ThreadStart
<1>3. HostCalls'
  <2>1. /\ host' = [Signalled(OfThreads({waiter[t]})) EXCEPT ![t] = "app"]
        /\ UNCHANGED <<stalled_reason, m_thread_lock>>
    BY DEF ThreadStart
  <2>2. \A u \in Threads : host'[u] \in {"blocked", "resuming"} => host[u] \in {"blocked", "resuming"}
    BY <1>a, <2>1, SignalledFacts
  <2> QED
    BY <1>a, <2>1, <2>2, HostCallsKept
<1> QED
  BY <1>1, <1>b, <1>2, <1>3, Untouched DEF QueueInv

LEMMA ThreadQueues ==
  ASSUME RunInv, QueueInv, NEW t \in Threads, ThreadStep(t),
         UNCHANGED <<syncVars, syscallVars, barrierVars>>
  PROVE  QueueInv'
BY CreateQueues, JoinQueues, StartQueues DEF ThreadStep

\* An exit resumes who joins the thread, and one waiter of its futex.
LEMMA ExitQueues ==
  ASSUME RunInv, QueueInv, NEW t \in Threads, NEW f, ThreadExit(t, f),
         UNCHANGED <<syncVars, barrierVars>>
  PROVE  QueueInv'
<1> USE DEF syncVars
<1> DEFINE counts == [g \in Futexes |-> IF g = f THEN 1 ELSE 0]
<1>0. UNCHANGED <<m_mutexes, m_conds, m_barrier, want, m_sleeping, barrierVars>>
  BY DEF ThreadExit
<1>a. HostTypeOK /\ JoinQueue /\ FutexQueues
  BY DEF RunInv, SkewInv, QueueInv
<1>b. PICK woken : woken = IF f \in Futexes THEN First(m_futexes[f], 1) ELSE {}
  OBVIOUS
<1>c. PICK R : R = Joiners(t) \cup woken
  OBVIOUS
<1>1. CallExits(t, R)
  BY <1>b, <1>c, ThreadExitCall
<1>2. Restalls(R, NoThread, "NONE")
  BY <1>1, ExitRestalls
<1>3. HostCalls'
  BY <1>1, ExitHost DEF QueueInv
<1>4. \A u \in Threads \cap Joiners(t) : Stuck(u, {"JOIN"})
  BY <1>a DEF Joiners, JoinQueue
<1>5. counts \in [Futexes -> Nat] /\ \A g \in Futexes : counts[g] = IF g = f THEN 1 ELSE 0
  OBVIOUS
<1> HIDE DEF counts
<1>6. \A g \in Futexes : /\ m_futexes[g] \in Seq(Waiters)
                         /\ Without(m_futexes[g], 0) = m_futexes[g]
                         /\ First(m_futexes[g], 0) = {}
  BY WithoutNone DEF QueueInv, FutexQueues
<1>7. \A u : u \in woken <=> \E g \in Futexes : u \in First(m_futexes[g], counts[g])
  BY <1>b, <1>5, <1>6
<1>8. \A u \in woken : u \in Threads /\ Stuck(u, {"FUTEX"})
  <2>1. \A u \in woken : \E g \in Futexes : u \in Who(m_futexes[g])
    BY <1>b, <1>6, FirstWaits
  <2> QED
    BY <2>1, WaitersAreStuck
<1>9. \A u \in Threads : ~ (Stuck(u, {"JOIN"}) /\ Stuck(u, {"FUTEX"}))
  BY DEF Stuck
<1>10. {"JOIN", "FUTEX"} \in SUBSET Waits /\ \A u \in Threads \cap R : Stuck(u, {"JOIN", "FUTEX"})
  BY <1>c, <1>4, <1>8 DEF Waits, Stuck
<1>11. BarrierQueue' /\ SleepQueue' /\ MonitorQueues' /\ StallReasons'
  BY <1>0, <1>2, <1>10, Untouched
<1>12. JoinQueue'
  <2>1. \A u \in Threads : Stuck(u, {"JOIN"}) => (u \in R <=> u = waiter[t])
    BY <1>c, <1>8, <1>9, ThreadsAssumption DEF Joiners
  <2>2. waiter' = [waiter EXCEPT ![t] = NoThread]
    BY <1>1 DEF CallExits, Exit
  <2> QED
    BY <1>a, <1>2, <2>1, <2>2, JoinLeft
<1>13. FutexQueues'
  <2>1. \A g \in Futexes : m_futexes'[g] = Without(m_futexes[g], counts[g])
    BY <1>5, <1>6 DEF ThreadExit
  <2>2. \A g \in Futexes : Without(m_futexes[g], counts[g]) \in Seq(Waiters)
    BY <1>5, <1>6, WithoutPicks
  <2>3. m_futexes' = [g \in Futexes |-> m_futexes'[g]]
    BY DEF ThreadExit
  <2>4. m_futexes' \in [Futexes -> Seq(Waiters)]
    BY <2>1, <2>2, <2>3
  <2>5. \A u \in Threads : Stuck(u, {"FUTEX"}) =>
          (u \in R <=> \E g \in Futexes : u \in First(m_futexes[g], counts[g]))
    BY <1>c, <1>4, <1>7, <1>9
  <2> QED
    BY <1>a, <1>2, <1>5, <2>1, <2>4, <2>5, FutexWoken
<1> QED
  BY <1>3, <1>11, <1>12, <1>13 DEF QueueInv

-----------------------------------------------------------------------------
(* What the host threads and the holder of the lock do. *)
LEMMA QueuesKept ==
  ASSUME RunInv, QueueInv, UNCHANGED <<status, stalled_reason, waiter, syscallVars>>,
         UNCHANGED <<m_mutexes, m_conds, m_barrier, want>>, HostCalls'
  PROVE  QueueInv'
<1>1. Restalls({}, NoThread, "NONE")
  BY NobodyRestalls
<1>2. {} \in SUBSET Waits /\ \A v \in Threads \cap {} : Stuck(v, {})
  OBVIOUS
<1>3. JoinQueue' /\ BarrierQueue' /\ SleepQueue' /\ FutexQueues' /\ MonitorQueues' /\ StallReasons'
  BY <1>1, <1>2, Untouched DEF syscallVars
<1> QED
  BY <1>3 DEF QueueInv

\* A thread that runs goes on after its lock or its wait.
LEMMA GoesOnQueues ==
  ASSUME RunInv, QueueInv, NEW t \in Threads, status[t] = "RUNNING", GoesOn(t),
         UNCHANGED <<status, stalled_reason, waiter, syscallVars>>, HostCalls'
  PROVE  QueueInv'
<1>1. /\ want' = [want EXCEPT ![t] = NoMutex]
      /\ UNCHANGED <<m_mutexes, m_conds, m_barrier, status, stalled_reason>>
  BY DEF GoesOn
<1>2. ~ Stuck(t, {"MUTEX", "COND"})
  BY DEF Stuck
<1>3. Restalls({}, NoThread, "NONE")
  BY NobodyRestalls
<1>4. {} \in SUBSET Waits /\ \A v \in Threads \cap {} : Stuck(v, {})
  OBVIOUS
<1>5. JoinQueue' /\ BarrierQueue' /\ SleepQueue' /\ FutexQueues' /\ StallReasons'
  BY <1>1, <1>3, <1>4, Untouched DEF syscallVars
<1>6. MonitorQueues'
  BY <1>1, <1>2, MonitorGoesOn DEF QueueInv
<1> QED
  BY <1>5, <1>6 DEF QueueInv

LEMMA HostQueues ==
  ASSUME RunInv, QueueInv, NEW t \in Threads, HostStep(t)
  PROVE  QueueInv'
<1>a. HostTypeOK /\ HostCalls
  BY DEF RunInv, SkewInv, QueueInv
<1>1. CASE FutexSleep(t) /\ UNCHANGED <<syncVars, syscallVars, barrierVars>>
  <2>1. HostCalls'
    <3>1. /\ UNCHANGED <<stalled_reason, m_thread_lock>>
          /\ \A u \in Threads : host'[u] \in {"blocked", "resuming"} =>
               host[u] \in {"blocked", "resuming"}
      BY <1>1, <1>a DEF FutexSleep, HostTypeOK
    <3> QED
      BY <1>a, <3>1, HostCallsKept
  <2> QED
    BY <1>1, <2>1, QueuesKept DEF FutexSleep, syncVars
<1>2. CASE Return(t) /\ GoesOn(t) /\ UNCHANGED <<syscallVars, barrierVars>>
  <2>1. HostCalls'
    <3>1. /\ UNCHANGED <<stalled_reason, m_thread_lock>>
          /\ \A u \in Threads : host'[u] \in {"blocked", "resuming"} =>
               host[u] \in {"blocked", "resuming"}
      BY <1>2, <1>a DEF Return, HostTypeOK
    <3> QED
      BY <1>a, <3>1, HostCallsKept
  <2>2. status[t] = "RUNNING"
    BY <1>2 DEF Return, RunInv, AwakeRuns
  <2> QED
    BY <1>2, <2>1, <2>2, GoesOnQueues DEF Return
<1> QED
  BY <1>1, <1>2 DEF HostStep

LEMMA WaitOnHosts ==
  ASSUME HostTypeOK, NEW t \in Threads, NEW which \in {"thread", "core"}, NEW cvs,
         WaitOn(t, which, cvs)
  PROVE  /\ m_thread_lock' = Free
         /\ \A u \in Threads : host'[u] \in {"blocked", "resuming"} =>
              host[u] \in {"blocked", "resuming"}
<1>1. m_thread_lock' = Free /\ host' = [Signalled(cvs) EXCEPT ![t] = "releasing"]
  BY DEF WaitOn
<1>2. \A u \in Threads : host'[u] \in {"waking", "releasing", host[u]}
  BY <1>1, SignalledFacts
<1> QED
  BY <1>1, <1>2

LEMMA ExecutesQueues ==
  ASSUME RunInv, QueueInv, NEW t \in Threads, Executes(t)
  PROVE  QueueInv'
<1>a. HostTypeOK /\ HostCalls
  BY DEF RunInv, SkewInv, QueueInv
<1>1. PICK d \in Nat : Execute(t, d) \/ EnterBarrier(t, d)
  BY DurationsAssumption DEF Executes
<1>2. CASE Execute(t, d)
  <2>1. /\ UNCHANGED <<status, stalled_reason, waiter, syscallVars, host, m_thread_lock>>
        /\ UNCHANGED <<m_mutexes, m_conds, m_barrier, want>>
    BY <1>2 DEF Execute, syncVars
  <2>2. HostCalls'
    BY <1>a, <2>1, HostCallsKept
  <2> QED
    BY <2>1, <2>2, QueuesKept
<1>3. CASE EnterBarrier(t, d)
  <2>1. /\ UNCHANGED <<status, stalled_reason, waiter, syscallVars>>
        /\ UNCHANGED <<m_mutexes, m_conds, m_barrier, want>>
    BY <1>3 DEF EnterBarrier, syncVars
  <2>2. /\ \A u \in Threads : host'[u] \in {"blocked", "resuming"} =>
             host[u] \in {"blocked", "resuming"}
        /\ m_thread_lock'.call # "block"
    <3>1. CASE m_thread_lock' = Held(t, "sync", "release") /\ host' = [host EXCEPT ![t] = "serving"]
      BY <1>a, <3>1, HeldFacts DEF HostTypeOK
    <3>2. CASE WaitOn(t, "core", {})
      BY <1>a, <3>2, WaitOnHosts, LockFacts
    <3> QED
      BY <1>3, <3>1, <3>2 DEF EnterBarrier
  <2>3. HostCalls'
    BY <1>a, <2>1, <2>2, HostCallsKept
  <2> QED
    BY <2>1, <2>3, QueuesKept
<1> QED
  BY <1>1, <1>2, <1>3

\* The end of an operation: only a call that blocks leaves its thread blocked.
LEMMA CompleteHost ==
  ASSUME RunInv, HostCalls, UNCHANGED stalled_reason, NEW t \in Threads,
         m_thread_lock # Free, m_thread_lock.by = t, NEW freed, NEW cvs,
         Complete(t, m_thread_lock.call, freed, cvs)
  PROVE  HostCalls'
<1>1. /\ HostTypeOK /\ host[t] = "serving" /\ m_thread_lock.call \in CallKinds
  BY LockFacts DEF RunInv, SkewInv, HolderServes, CallKinds
<1> DEFINE call == m_thread_lock.call
<1>2. Hear(t, cvs) /\ Ends(t, call, freed)
  BY <1>1, CompleteFacts
<1>3. \A u \in Threads \ {t} : host'[u] \in {"blocked", "resuming"} =>
        host[u] \in {"blocked", "resuming"}
  BY <1>2 DEF Hear
<1>4. host'[t] \in {"blocked", "resuming"} => host'[t] = "blocked" /\ call \in {"block", "exit"}
  BY <1>2 DEF Ends
<1>5. call = "exit" => host'[t] # "blocked"
  BY <1>1, SignalledFacts DEF Complete
<1>6. m_thread_lock'.call # "block"
  BY <1>1, <1>2, HeldFacts, LockFacts DEF Ends
<1>7. \A u \in Threads : host'[u] \in {"blocked", "resuming"} => stalled_reason[u] = "SYSCALL"
  BY <1>1, <1>3, <1>4, <1>5 DEF HostCalls
<1> QED
  BY <1>6, <1>7 DEF HostCalls

LEMMA HolderIsThread ==
  ASSUME RunInv, m_thread_lock.at # "none"
  PROVE  m_thread_lock # Free /\ m_thread_lock.by \in Threads /\ HostTypeOK
BY LockFacts DEF RunInv, SkewInv

LEMMA BarrierSignalQueues ==
  ASSUME RunInv, QueueInv, BarrierSignal
  PROVE  QueueInv'
<1>1. PICK t \in Threads : m_thread_lock # Free /\ m_thread_lock.by = t /\ HostTypeOK
  BY HolderIsThread DEF BarrierSignal
<1>2. /\ UNCHANGED <<status, stalled_reason, waiter, syscallVars>>
      /\ UNCHANGED <<m_mutexes, m_conds, m_barrier, want>>
  BY DEF BarrierSignal, syncVars
<1>3. HostCalls'
  <2>1. CASE m_thread_lock' = Held(t, m_thread_lock.call, "release") /\ UNCHANGED host
    <3>1. m_thread_lock'.call = m_thread_lock.call /\ m_thread_lock'.by = t
      BY <2>1 DEF Held
    <3> QED
      BY <1>1, <1>2, <2>1, <3>1, HostCallsKept DEF QueueInv
  <2>2. CASE Complete(t, m_thread_lock.call, {}, {})
    BY <1>1, <1>2, <2>2, CompleteHost DEF QueueInv
  <2> QED
    BY <1>1, <2>1, <2>2 DEF BarrierSignal
<1> QED
  BY <1>2, <1>3, QueuesKept

\* Whoever times out leaves its queue.
LEMMA PeriodicQueues ==
  ASSUME RunInv, QueueInv, NEW time, FutexPeriodic(time),
         UNCHANGED <<stalled_reason, waiter, m_mutexes, m_conds, m_barrier, want>>, HostCalls'
  PROVE  QueueInv'
<1>b. PICK R : R = WokenAt(time)
  OBVIOUS
<1>1. Restalls(R, NoThread, "NONE")
  BY <1>b, PeriodicRestalls
<1>2. \A u \in TimedOut(m_sleeping, time) : u \in Threads /\ Stuck(u, {"SLEEP"})
  BY TimedOutWaits, WaitersAreStuck
<1>3. \A f \in Futexes : \A u \in TimedOut(m_futexes[f], time) : u \in Threads /\ Stuck(u, {"FUTEX"})
  BY TimedOutWaits, WaitersAreStuck
<1>4. \A u : u \in R <=> \/ u \in TimedOut(m_sleeping, time)
                         \/ \E f \in Futexes : u \in TimedOut(m_futexes[f], time)
  BY <1>b DEF WokenAt
<1>5. \A u \in Threads : ~ (Stuck(u, {"SLEEP"}) /\ Stuck(u, {"FUTEX"}))
  BY DEF Stuck
<1>6. /\ {"SLEEP", "FUTEX"} \in SUBSET Waits
      /\ \A u \in Threads \cap R : Stuck(u, {"SLEEP", "FUTEX"})
  BY <1>2, <1>3, <1>4 DEF Waits, Stuck
<1>7. JoinQueue' /\ BarrierQueue' /\ MonitorQueues' /\ StallReasons'
  BY <1>1, <1>6, Untouched
<1>8. SleepQueue'
  <2>1. \A u \in Threads : Stuck(u, {"SLEEP"}) => (u \in R <=> u \in TimedOut(m_sleeping, time))
    BY <1>3, <1>4, <1>5
  <2> QED
    BY <1>1, <2>1, SleepLeft DEF QueueInv, FutexPeriodic
<1>9. FutexQueues'
  <2>1. \A u \in Threads : Stuck(u, {"FUTEX"}) =>
          (u \in R <=> \E f \in Futexes : u \in TimedOut(m_futexes[f], time))
    BY <1>2, <1>4, <1>5
  <2> QED
    BY <1>1, <2>1, FutexTimesOut DEF QueueInv, FutexPeriodic
<1> QED
  BY <1>7, <1>8, <1>9 DEF QueueInv

LEMMA ReleaseQueues ==
  ASSUME RunInv, QueueInv, BarrierRelease
  PROVE  QueueInv'
<1>1. PICK t \in Threads : m_thread_lock # Free /\ m_thread_lock.by = t /\ HostTypeOK
  BY HolderIsThread DEF BarrierRelease
<1>2. /\ FutexPeriodic(m_next_barrier_time)
      /\ UNCHANGED <<stalled_reason, waiter, m_mutexes, m_conds, m_barrier, want>>
  BY DEF BarrierRelease, syncVars
<1>3. PICK freed, cvs :
        \/ host' = Signalled(cvs) /\ UNCHANGED m_thread_lock
        \/ Complete(t, m_thread_lock.call, freed, cvs)
  BY <1>1 DEF BarrierRelease
<1>4. HostCalls'
  <2>1. CASE host' = Signalled(cvs) /\ UNCHANGED m_thread_lock
    <3>1. \A u \in Threads : host'[u] \in {"blocked", "resuming"} => host[u] \in {"blocked", "resuming"}
      BY <1>1, <2>1, SignalledFacts
    <3> QED
      BY <1>2, <2>1, <3>1, HostCallsKept DEF QueueInv
  <2>2. CASE Complete(t, m_thread_lock.call, freed, cvs)
    BY <1>1, <1>2, <2>2, CompleteHost DEF QueueInv
  <2> QED
    BY <1>3, <2>1, <2>2
<1> QED
  BY <1>2, <1>4, PeriodicQueues

LEMMA AdvanceQueues ==
  ASSUME RunInv, QueueInv, Advance
  PROVE  QueueInv'
<1>1. HostTypeOK
  BY DEF RunInv, SkewInv
<1>2. /\ FutexPeriodic(m_next_barrier_time) /\ UNCHANGED m_thread_lock
      /\ UNCHANGED <<stalled_reason, waiter, m_mutexes, m_conds, m_barrier, want>>
  BY DEF Advance, syncVars
<1>3. PICK cvs : host' = Signalled(cvs) \/ UNCHANGED host
  BY DEF Advance
<1>4. \A u \in Threads : host'[u] \in {"blocked", "resuming"} => host[u] \in {"blocked", "resuming"}
  <2>1. CASE UNCHANGED host
    BY <2>1
  <2>2. CASE host' = Signalled(cvs)
    BY <1>1, <2>2, SignalledFacts
  <2> QED
    BY <1>3, <2>1, <2>2
<1>5. HostCalls'
  BY <1>2, <1>4, HostCallsKept DEF QueueInv
<1> QED
  BY <1>2, <1>5, PeriodicQueues

LEMMA StallDecidedQueues ==
  ASSUME RunInv, QueueInv, StallDecided,
         IF status[m_thread_lock.by] = "RUNNING" THEN GoesOn(m_thread_lock.by)
         ELSE UNCHANGED syncVars,
         UNCHANGED <<syscallVars, barrierVars>>
  PROVE  QueueInv'
<1>1. PICK t \in Threads : m_thread_lock # Free /\ m_thread_lock.by = t /\ HostTypeOK
  BY HolderIsThread DEF StallDecided
<1>2. UNCHANGED <<status, stalled_reason, waiter, syscallVars>>
  BY DEF StallDecided
<1>3. HostCalls'
  <2>1. CASE host' = [host EXCEPT ![t] = "app"] /\ m_thread_lock' = Free
    <3>1. \A u \in Threads : host'[u] \in {"blocked", "resuming"} => host[u] \in {"blocked", "resuming"}
      BY <1>1, <2>1 DEF HostTypeOK
    <3> QED
      BY <1>1, <1>2, <2>1, <3>1, HostCallsKept, LockFacts DEF QueueInv
  <2>2. CASE WaitOn(t, "thread", {})
    <3>1. /\ m_thread_lock' = Free
          /\ \A u \in Threads : host'[u] \in {"blocked", "resuming"} => host[u] \in {"blocked", "resuming"}
      BY <1>1, <2>2, WaitOnHosts
    <3> QED
      BY <1>1, <1>2, <3>1, HostCallsKept, LockFacts DEF QueueInv
  <2> QED
    BY <1>1, <2>1, <2>2 DEF StallDecided
<1>4. CASE status[t] = "RUNNING"
  BY <1>1, <1>2, <1>3, <1>4, GoesOnQueues
<1>5. CASE status[t] # "RUNNING"
  BY <1>1, <1>2, <1>3, <1>5, QueuesKept DEF syncVars
<1> QED
  BY <1>4, <1>5

LEMMA NextQueues ==
  ASSUME RunInv, QueueInv, [Next]_vars
  PROVE  QueueInv'
<1>1. CASE UNCHANGED vars
  <2>1. /\ UNCHANGED <<status, stalled_reason, waiter, syscallVars, host, m_thread_lock>>
        /\ UNCHANGED <<m_mutexes, m_conds, m_barrier, want>>
    BY <1>1 DEF vars, threadVars, syncVars
  <2>2. HostCalls'
    BY <2>1, HostCallsKept DEF QueueInv
  <2> QED
    BY <2>1, <2>2, QueuesKept
<1>2. CASE Next
  BY <1>2, ThreadQueues, SyncQueues, SyscallQueues, ExitQueues, HostQueues, ExecutesQueues,
     BarrierSignalQueues, ReleaseQueues, AdvanceQueues, StallDecidedQueues
     DEF Next, ServerStep
<1> QED
  BY <1>1, <1>2

LEMMA InitQueues ==
  ASSUME Init
  PROVE  QueueInv
<1> USE DEF Init, ThreadInit, SyncInit, SyscallInit
<1>1. \A t \in Threads : \A reasons \in SUBSET Waits : ~ Stuck(t, reasons)
  BY DEF Stuck, Waits
<1>2. {"JOIN"} \in SUBSET Waits /\ {"BARRIER"} \in SUBSET Waits /\ {"SLEEP"} \in SUBSET Waits
      /\ {"FUTEX"} \in SUBSET Waits /\ {"MUTEX", "COND"} \in SUBSET Waits
  BY DEF Waits
<1>3. JoinQueue
  BY <1>1, <1>2, ThreadsAssumption DEF JoinQueue
<1>4. BarrierQueue
  BY <1>1, <1>2 DEF BarrierQueue, Once, Elements
<1>5. SleepQueue
  BY <1>1, <1>2 DEF SleepQueue, Sleepers, Apart, Queued, Who
<1>6. FutexQueues
  BY <1>1, <1>2 DEF FutexQueues, Apart, Queued, Who
<1>7. MonitorQueues
  BY <1>1, <1>2 DEF MonitorQueues, Apart, Queued, Who, Once, Elements, Lined
<1>8. HostCalls
  <2>1. Free.call = "none"
    BY DEF Free
  <2> QED
    BY <2>1 DEF HostCalls, Reasons
<1>9. StallReasons
  BY DEF StallReasons, Stuck
<1> QED
  BY <1>9, <1>3, <1>4, <1>5, <1>6, <1>7, <1>8 DEF QueueInv

-----------------------------------------------------------------------------
(* The places of a thread. *)
LEMMA TripleFacts ==
  ASSUME NEW a, NEW k, NEW I, NEW p
  PROVE  p \in {a} \X {k} \X I <=> \E i \in I : p = <<a, k, i>>
OBVIOUS

FamilyOf(a, queues, keys, t) == UNION {{a} \X {k} \X Entries(queues[k], t) : k \in keys}

LEMMA FamilyPlaces ==
  ASSUME NEW queues, NEW keys, Apart(queues, keys), NEW a, NEW t
  PROVE  /\ t \notin Queued(queues, keys) => FamilyOf(a, queues, keys, t) = {}
         /\ t \in Queued(queues, keys) => \E p : FamilyOf(a, queues, keys, t) = {p}
<1> DEFINE places == FamilyOf(a, queues, keys, t)
<1>1. \A p : p \in places <=>
        \E k \in keys : \E i \in 1..Len(queues[k]) : queues[k][i].thread = t /\ p = <<a, k, i>>
  <2>1. \A p : p \in places <=> \E k \in keys : p \in {a} \X {k} \X Entries(queues[k], t)
    BY DEF FamilyOf
  <2>2. \A p : p \in places <=> \E k \in keys : \E i \in Entries(queues[k], t) : p = <<a, k, i>>
    BY <2>1, TripleFacts
  <2> HIDE DEF places
  <2> QED
    BY <2>2 DEF Entries
<1> HIDE DEF places
<1>2. ASSUME t \notin Queued(queues, keys) PROVE places = {}
  BY <1>1, <1>2 DEF Queued, Who
<1>3. ASSUME t \in Queued(queues, keys) PROVE \E p : places = {p}
  <2>1. PICK k \in keys : \E i \in 1..Len(queues[k]) : queues[k][i].thread = t
    BY <1>3 DEF Queued, Who
  <2>2. PICK i \in 1..Len(queues[k]) : queues[k][i].thread = t
    BY <2>1
  <2>3. \A l \in keys : \A j \in 1..Len(queues[l]) : queues[l][j].thread = t => l = k /\ j = i
    BY <2>2 DEF Apart
  <2>4. \A p : p \in places <=> p = <<a, k, i>>
    BY <1>1, <2>2, <2>3
  <2>5. places = {<<a, k, i>>}
    BY <2>4
  <2> QED
    BY <2>5
<1> QED
  BY <1>2, <1>3 DEF places

MutexPlaces(t) == UNION {{"mutex"} \X {m} \X Positions(m_mutexes[m], t) : m \in Mutexes}

LEMMA MutexPlacesFacts ==
  ASSUME MonitorQueues, NEW t
  PROVE  /\ t \notin Lined(m_mutexes) => MutexPlaces(t) = {}
         /\ t \in Lined(m_mutexes) => \E p : MutexPlaces(t) = {p}
<1>1. \A p : p \in MutexPlaces(t) <=>
        \E m \in Mutexes : \E i \in 1..Len(m_mutexes[m]) :
          m_mutexes[m][i] = t /\ p = <<"mutex", m, i>>
  <2>1. \A p : p \in MutexPlaces(t) <=>
          \E m \in Mutexes : p \in {"mutex"} \X {m} \X Positions(m_mutexes[m], t)
    BY DEF MutexPlaces
  <2>2. \A p : p \in MutexPlaces(t) <=>
          \E m \in Mutexes : \E i \in Positions(m_mutexes[m], t) : p = <<"mutex", m, i>>
    BY <2>1, TripleFacts
  <2> QED
    BY <2>2 DEF Positions
<1>2. ASSUME t \notin Lined(m_mutexes) PROVE MutexPlaces(t) = {}
  BY <1>1, <1>2 DEF Lined, Elements
<1>3. ASSUME t \in Lined(m_mutexes) PROVE \E p : MutexPlaces(t) = {p}
  <2>1. PICK m \in Mutexes : \E i \in 1..Len(m_mutexes[m]) : m_mutexes[m][i] = t
    BY <1>3 DEF Lined, Elements
  <2>2. PICK i \in 1..Len(m_mutexes[m]) : m_mutexes[m][i] = t
    BY <2>1
  <2>3. \A k \in Mutexes : t \in Elements(m_mutexes[k]) => want[t] = k
    BY MonitorFacts
  <2>4. \A k \in Mutexes : \A j \in 1..Len(m_mutexes[k]) : m_mutexes[k][j] = t => k = m /\ j = i
    <3>1. \A k \in Mutexes : \A j \in 1..Len(m_mutexes[k]) : m_mutexes[k][j] = t => k = m
      BY <2>2, <2>3 DEF Elements
    <3>2. \A j \in 1..Len(m_mutexes[m]) : m_mutexes[m][j] = t => j = i
      BY <2>2, MonitorFacts DEF Once
    <3> QED
      BY <3>1, <3>2
  <2>5. \A p : p \in MutexPlaces(t) <=> p = <<"mutex", m, i>>
    BY <1>1, <2>2, <2>4
  <2>6. MutexPlaces(t) = {<<"mutex", m, i>>}
    BY <2>5
  <2> QED
    BY <2>6
<1> QED
  BY <1>2, <1>3

\* A set that is empty or has one element.
AtMostOne(places, one) == (~ one => places = {}) /\ (one => \E p : places = {p})

LEMMA JoinPlaces ==
  ASSUME JoinQueue, NEW t \in Threads
  PROVE  AtMostOne({"join"} \X {u \in Threads : waiter[u] = t}, Stuck(t, {"JOIN"}))
<1>1. t # NoThread
  BY ThreadsAssumption
<1>2. \A u, v \in Threads : waiter[u] = t /\ waiter[v] = t => u = v
  BY <1>1 DEF JoinQueue
<1>3. (\E u \in Threads : waiter[u] = t) <=> Stuck(t, {"JOIN"})
  BY DEF JoinQueue
<1>4. CASE ~ Stuck(t, {"JOIN"})
  BY <1>3, <1>4 DEF AtMostOne
<1>5. CASE Stuck(t, {"JOIN"})
  <2>1. PICK u \in Threads : waiter[u] = t
    BY <1>3, <1>5
  <2>2. {v \in Threads : waiter[v] = t} = {u}
    BY <1>2, <2>1
  <2>3. {"join"} \X {u} = {<<"join", u>>}
    OBVIOUS
  <2> QED
    BY <1>5, <2>2, <2>3 DEF AtMostOne
<1> QED
  BY <1>4, <1>5

LEMMA BarrierPlaces ==
  ASSUME BarrierQueue, NEW t \in Threads
  PROVE  AtMostOne({"barrier"} \X Positions(m_barrier, t), Stuck(t, {"BARRIER"}))
<1>1. \A i, j \in Positions(m_barrier, t) : i = j
  BY DEF BarrierQueue, Once, Positions
<1>2. Positions(m_barrier, t) # {} <=> Stuck(t, {"BARRIER"})
  BY DEF BarrierQueue, Elements, Positions
<1>3. CASE ~ Stuck(t, {"BARRIER"})
  BY <1>2, <1>3 DEF AtMostOne
<1>4. CASE Stuck(t, {"BARRIER"})
  <2>1. PICK i : Positions(m_barrier, t) = {i}
    BY <1>1, <1>2, <1>4
  <2>2. {"barrier"} \X {i} = {<<"barrier", i>>}
    OBVIOUS
  <2> QED
    BY <1>4, <2>1, <2>2 DEF AtMostOne
<1> QED
  BY <1>3, <1>4

LEMMA SleepPlaces ==
  ASSUME SleepQueue, NEW t \in Threads
  PROVE  AtMostOne({"sleep"} \X Entries(m_sleeping, t), Stuck(t, {"SLEEP"}))
<1>1. \A i, j \in Entries(m_sleeping, t) : i = j
  BY DEF SleepQueue, Apart, Sleepers, Entries
<1>2. Entries(m_sleeping, t) # {} <=> Stuck(t, {"SLEEP"})
  BY DEF SleepQueue, Queued, Who, Sleepers, Entries
<1>3. CASE ~ Stuck(t, {"SLEEP"})
  BY <1>2, <1>3 DEF AtMostOne
<1>4. CASE Stuck(t, {"SLEEP"})
  <2>1. PICK i : Entries(m_sleeping, t) = {i}
    BY <1>1, <1>2, <1>4
  <2>2. {"sleep"} \X {i} = {<<"sleep", i>>}
    OBVIOUS
  <2> QED
    BY <1>4, <2>1, <2>2 DEF AtMostOne
<1> QED
  BY <1>3, <1>4

LEMMA FutexPlaces ==
  ASSUME FutexQueues, NEW t \in Threads
  PROVE  AtMostOne(FamilyOf("futex", m_futexes, Futexes, t), Stuck(t, {"FUTEX"}))
<1> DEFINE places == FamilyOf("futex", m_futexes, Futexes, t)
<1>0. Apart(m_futexes, Futexes) /\ (t \in Queued(m_futexes, Futexes) <=> Stuck(t, {"FUTEX"}))
  BY DEF FutexQueues
<1>1. /\ t \notin Queued(m_futexes, Futexes) => places = {}
      /\ t \in Queued(m_futexes, Futexes) => \E p : places = {p}
  BY <1>0, FamilyPlaces
<1> HIDE DEF places
<1>2. AtMostOne(places, Stuck(t, {"FUTEX"}))
  BY <1>0, <1>1 DEF AtMostOne
<1> QED
  BY <1>2 DEF places

LEMMA MonitorPlaces ==
  ASSUME MonitorQueues, NEW t \in Threads
  PROVE  AtMostOne(MutexPlaces(t) \cup FamilyOf("cond", m_conds, Conds, t),
                   Stuck(t, {"MUTEX", "COND"}))
<1> DEFINE places == FamilyOf("cond", m_conds, Conds, t)
<1>0. Apart(m_conds, Conds)
  BY DEF MonitorQueues
<1>1. /\ t \notin Queued(m_conds, Conds) => places = {}
      /\ t \in Queued(m_conds, Conds) => \E p : places = {p}
  BY <1>0, FamilyPlaces
<1>2. /\ t \notin Lined(m_mutexes) => MutexPlaces(t) = {}
      /\ t \in Lined(m_mutexes) => \E p : MutexPlaces(t) = {p}
  BY MutexPlacesFacts
<1>3. ~ (t \in Lined(m_mutexes) /\ t \in Queued(m_conds, Conds))
  BY MonitorFacts
<1>4. t \in Lined(m_mutexes) \/ t \in Queued(m_conds, Conds) <=> Stuck(t, {"MUTEX", "COND"})
  BY DEF MonitorQueues
<1> HIDE DEF places
<1>5. AtMostOne(MutexPlaces(t) \cup places, Stuck(t, {"MUTEX", "COND"}))
  <2>1. CASE t \in Lined(m_mutexes)
    <3>1. MutexPlaces(t) \cup places = MutexPlaces(t)
      BY <1>1, <1>3, <2>1
    <3> QED
      BY <1>2, <1>4, <2>1, <3>1 DEF AtMostOne
  <2>2. CASE t \notin Lined(m_mutexes)
    <3>1. MutexPlaces(t) \cup places = places
      BY <1>2, <2>2
    <3> QED
      BY <1>1, <1>4, <2>2, <3>1 DEF AtMostOne
  <2> QED
    BY <2>1, <2>2
<1> QED
  BY <1>5 DEF places

\* One of several such sets has an element, if any.
LEMMA OneOfTwo ==
  ASSUME NEW a, NEW b, NEW one, NEW other, AtMostOne(a, one), AtMostOne(b, other),
         ~ (one /\ other)
  PROVE  AtMostOne(a \cup b, one \/ other)
<1>1. CASE one
  <2>1. b = {}
    BY <1>1 DEF AtMostOne
  <2>2. a \cup b = a
    BY <2>1
  <2> QED
    BY <1>1, <2>2 DEF AtMostOne
<1>2. CASE ~ one
  <2>1. a = {}
    BY <1>2 DEF AtMostOne
  <2>2. a \cup b = b
    BY <2>1
  <2> QED
    BY <1>2, <2>2 DEF AtMostOne
<1> QED
  BY <1>1, <1>2

LEMMA EveryPlace ==
  ASSUME QueueInv, NEW t \in Threads
  PROVE  AtMostOne(Places(t), status[t] = "STALLED" /\ stalled_reason[t] # "SYSCALL")
<1> DEFINE J == {"join"} \X {u \in Threads : waiter[u] = t}
           M == MutexPlaces(t) \cup FamilyOf("cond", m_conds, Conds, t)
           F == FamilyOf("futex", m_futexes, Futexes, t)
           S == {"sleep"} \X Entries(m_sleeping, t)
           B == {"barrier"} \X Positions(m_barrier, t)
<1>1. /\ AtMostOne(J, Stuck(t, {"JOIN"})) /\ AtMostOne(M, Stuck(t, {"MUTEX", "COND"}))
      /\ AtMostOne(F, Stuck(t, {"FUTEX"})) /\ AtMostOne(S, Stuck(t, {"SLEEP"}))
      /\ AtMostOne(B, Stuck(t, {"BARRIER"}))
  BY JoinPlaces, MonitorPlaces, FutexPlaces, SleepPlaces, BarrierPlaces DEF QueueInv
<1>2. Places(t) = (((J \cup M) \cup F) \cup S) \cup B
  <2>1. Places(t) = J \cup M \cup F \cup S \cup B
    BY Zenon DEF Places, MutexPlaces, FamilyOf
  <2> QED
    BY <2>1
<1> HIDE DEF J, M, F, S, B
<1>3. AtMostOne(J \cup M, Stuck(t, {"JOIN", "MUTEX", "COND"}))
  <2>1. /\ ~ (Stuck(t, {"JOIN"}) /\ Stuck(t, {"MUTEX", "COND"}))
        /\ Stuck(t, {"JOIN"}) \/ Stuck(t, {"MUTEX", "COND"}) <=> Stuck(t, {"JOIN", "MUTEX", "COND"})
    BY DEF Stuck
  <2>2. AtMostOne(J \cup M, Stuck(t, {"JOIN"}) \/ Stuck(t, {"MUTEX", "COND"}))
    BY <1>1, <2>1, OneOfTwo
  <2> QED
    BY <2>1, <2>2 DEF AtMostOne
<1>4. AtMostOne((J \cup M) \cup F, Stuck(t, {"JOIN", "MUTEX", "COND", "FUTEX"}))
  <2>1. /\ ~ (Stuck(t, {"JOIN", "MUTEX", "COND"}) /\ Stuck(t, {"FUTEX"}))
        /\ Stuck(t, {"JOIN", "MUTEX", "COND"}) \/ Stuck(t, {"FUTEX"})
             <=> Stuck(t, {"JOIN", "MUTEX", "COND", "FUTEX"})
    BY DEF Stuck
  <2>2. AtMostOne((J \cup M) \cup F, Stuck(t, {"JOIN", "MUTEX", "COND"}) \/ Stuck(t, {"FUTEX"}))
    BY <1>1, <1>3, <2>1, OneOfTwo
  <2> QED
    BY <2>1, <2>2 DEF AtMostOne
<1>5. AtMostOne(((J \cup M) \cup F) \cup S, Stuck(t, {"JOIN", "MUTEX", "COND", "FUTEX", "SLEEP"}))
  <2>1. /\ ~ (Stuck(t, {"JOIN", "MUTEX", "COND", "FUTEX"}) /\ Stuck(t, {"SLEEP"}))
        /\ Stuck(t, {"JOIN", "MUTEX", "COND", "FUTEX"}) \/ Stuck(t, {"SLEEP"})
             <=> Stuck(t, {"JOIN", "MUTEX", "COND", "FUTEX", "SLEEP"})
    BY DEF Stuck
  <2>2. AtMostOne(((J \cup M) \cup F) \cup S,
                  Stuck(t, {"JOIN", "MUTEX", "COND", "FUTEX"}) \/ Stuck(t, {"SLEEP"}))
    BY <1>1, <1>4, <2>1, OneOfTwo
  <2> QED
    BY <2>1, <2>2 DEF AtMostOne
<1>6. AtMostOne((((J \cup M) \cup F) \cup S) \cup B, Stuck(t, Waits))
  <2>1. /\ ~ (Stuck(t, {"JOIN", "MUTEX", "COND", "FUTEX", "SLEEP"}) /\ Stuck(t, {"BARRIER"}))
        /\ Stuck(t, {"JOIN", "MUTEX", "COND", "FUTEX", "SLEEP"}) \/ Stuck(t, {"BARRIER"})
             <=> Stuck(t, Waits)
    BY DEF Stuck, Waits
  <2>2. AtMostOne((((J \cup M) \cup F) \cup S) \cup B,
                  Stuck(t, {"JOIN", "MUTEX", "COND", "FUTEX", "SLEEP"}) \/ Stuck(t, {"BARRIER"}))
    BY <1>1, <1>5, <2>1, OneOfTwo
  <2> QED
    BY <2>1, <2>2 DEF AtMostOne
<1>7. status[t] = "STALLED" /\ stalled_reason[t] # "SYSCALL" <=> Stuck(t, Waits)
  <2>1. stalled_reason[t] \in Reasons /\ ~ Stuck(t, {"NONE"})
    BY DEF QueueInv, HostCalls, StallReasons
  <2> QED
    BY <2>1 DEF Stuck, Waits, Reasons
<1> QED
  BY <1>2, <1>6, <1>7 DEF AtMostOne

-----------------------------------------------------------------------------
(* Unless threads are joined before they start, a stalled thread is in exactly
   one queue of the servers, and any other thread in none: no wake-up finds a
   thread twice, or one that runs (thread_manager.cc, sync_server.cc,
   syscall_server.cc).                                                     *)
THEOREM QueuesHoldStalledThreads == ~ JoinsEarly /\ Spec => []StalledThreadsWaitOnce
<1>1. ~ JoinsEarly /\ Init => RunInv /\ QueueInv
  BY InitInv, InitQueues
<1>2. RunInv /\ QueueInv /\ [Next]_vars => (RunInv /\ QueueInv)'
  BY NextInv, NextQueues DEF RunInv
<1>3. RunInv /\ QueueInv => StalledThreadsWaitOnce
  <2> SUFFICES ASSUME QueueInv, NEW t \in Threads
               PROVE  Cardinality(Places(t)) =
                        IF status[t] = "STALLED" /\ stalled_reason[t] # "SYSCALL" THEN 1 ELSE 0
    BY DEF StalledThreadsWaitOnce
  <2>1. CASE status[t] = "STALLED" /\ stalled_reason[t] # "SYSCALL"
    <3>1. PICK p : Places(t) = {p}
      BY <2>1, EveryPlace DEF AtMostOne
    <3> QED
      BY <2>1, <3>1, FS_Singleton
  <2>2. CASE ~ (status[t] = "STALLED" /\ stalled_reason[t] # "SYSCALL")
    <3>1. Places(t) = {}
      BY <2>2, EveryPlace DEF AtMostOne
    <3> QED
      BY <2>2, <3>1, FS_EmptySet
  <2> QED
    BY <2>1, <2>2
<1> QED
  BY <1>1, <1>2, <1>3, PTL DEF Spec

-----------------------------------------------------------------------------
(* A thread that waits to go on: it sleeps on its condition variable, is on
   the way there or back, or is in the middle of its stall.                *)
Suspends(t) ==
  \/ host[t] \in {"releasing", "asleep", "waking"}
  \/ m_thread_lock.by = t /\ m_thread_lock.call = "stall"

StaySuspended == \A u \in Threads : Suspends(u) => Suspends(u)'

LEMMA CallerGoesOn ==
  ASSUME RunInv, NEW t, Calls(t)
  PROVE  /\ HostTypeOK /\ m_thread_lock = Free /\ host[t] = "app"
         /\ \A u \in Threads : Suspends(u) <=> host[u] \in {"releasing", "asleep", "waking"}
BY LockFacts DEF RunInv, SkewInv, Calls, Suspends

LEMMA ProceedSuspends ==
  ASSUME RunInv, NEW t \in Threads, NEW ts, CallProceeds(t, ts)
  PROVE  StaySuspended
<1>1. UNCHANGED m_thread_lock /\ host' = Signalled(OfThreads(ts)) /\ HostTypeOK
  BY DEF CallProceeds, Proceed, RunInv, SkewInv
<1>2. \A u \in Threads : host'[u] \in {host[u], "waking"}
  BY <1>1, SignalledFacts
<1> QED
  BY <1>1, <1>2 DEF StaySuspended, Suspends

LEMMA StallSuspends ==
  ASSUME RunInv, NEW t \in Threads, NEW reason, NEW ts, NEW call,
         CallStalls(t, reason, ts, call)
  PROVE  StaySuspended /\ (call = "stall" => Suspends(t)')
<1>1. /\ host' = [Signalled(OfThreads(ts)) EXCEPT ![t] = "serving"]
      /\ m_thread_lock' = Held(t, call, "signal") /\ call \in {"stall", "block"}
      /\ Calls(t)
  BY DEF CallStalls, Stall
<1>2. \A u \in Threads : u # t => host'[u] \in {host[u], "waking"}
  BY <1>1, CallerGoesOn, SignalledFacts
<1>3. m_thread_lock'.by = t /\ m_thread_lock'.call = call
  BY <1>1, HeldFacts
<1>4. \A u \in Threads : Suspends(u) <=> host[u] \in {"releasing", "asleep", "waking"}
  BY <1>1, CallerGoesOn
<1>5. \A u \in Threads : Suspends(u) => host'[u] \in {"releasing", "asleep", "waking"}
  BY <1>1, <1>2, <1>4 DEF Calls
<1> QED
  BY <1>3, <1>5 DEF StaySuspended, Suspends

LEMMA ExitSuspends ==
  ASSUME RunInv, NEW t \in Threads, NEW ts, CallExits(t, ts)
  PROVE  StaySuspended
<1>1. /\ host' = [Signalled(OfThreads(ts)) EXCEPT ![t] = "serving"] /\ Calls(t)
  BY DEF CallExits, Exit
<1>2. \A u \in Threads : u # t => host'[u] \in {host[u], "waking"}
  BY <1>1, CallerGoesOn, SignalledFacts
<1>3. \A u \in Threads : Suspends(u) => host'[u] \in {"releasing", "asleep", "waking"}
  BY <1>1, <1>2, CallerGoesOn
<1> QED
  BY <1>3 DEF StaySuspended, Suspends

LEMMA ThreadStepSuspends ==
  ASSUME RunInv, NEW t \in Threads, ThreadStep(t), UNCHANGED barrierVars
  PROVE  StaySuspended
<1>1. ASSUME NEW u \in Threads, CreateThread(t, u) PROVE StaySuspended
  BY <1>1 DEF CreateThread, StaySuspended, Suspends
<1>2. ASSUME NEW u \in Threads, JoinThread(t, u) PROVE StaySuspended
  <2>1. WaiterAdded
    BY <1>2 DEF JoinThread, WaiterAdded
  <2>2. CallStalls(t, "JOIN", {}, "stall")
    BY <1>2, <2>1 DEF JoinThread, CallStalls, Calls, StallThread, Enter
  <2> QED
    BY <2>2, StallSuspends
<1>3. CASE ThreadStart(t)
  <2>1. PICK cvs : host' = [Signalled(cvs) EXCEPT ![t] = "app"]
    BY <1>3 DEF ThreadStart
  <2>2. HostTypeOK /\ m_thread_lock = Free /\ UNCHANGED m_thread_lock /\ host[t] = "none"
    BY <1>3 DEF ThreadStart, RunInv, SkewInv, Started
  <2>3. \A u \in Threads : u # t => host'[u] \in {host[u], "waking"}
    BY <2>1, <2>2, SignalledFacts
  <2> QED
    BY <2>2, <2>3, LockFacts DEF StaySuspended, Suspends
<1> QED
  BY <1>1, <1>2, <1>3 DEF ThreadStep

LEMMA SyscallSuspends ==
  ASSUME RunInv, NEW t \in Threads, SyscallStep(t), UNCHANGED barrierVars
  PROVE  StaySuspended
<1>1. CASE BlockingReturn(t, m_next_barrier_time) \/ BlockingResume(t)
  <2>1. /\ HostTypeOK /\ UNCHANGED m_thread_lock /\ host[t] \in {"blocked", "resuming"}
        /\ \A u \in Threads : u # t => host'[u] = host[u]
    BY <1>1 DEF BlockingReturn, BlockingResume, RunInv, SkewInv, HostTypeOK
  <2>2. m_thread_lock.by # t \/ m_thread_lock = Free
    BY <2>1 DEF RunInv, SkewInv, HolderServes
  <2> QED
    BY <2>1, <2>2, LockFacts DEF StaySuspended, Suspends
<1> QED
  BY <1>1, SyscallCalls, ProceedSuspends, StallSuspends DEF RunInv, SkewInv

LEMMA CompleteSuspends ==
  ASSUME RunInv, NEW t \in Threads, m_thread_lock # Free, m_thread_lock.by = t,
         NEW freed, NEW cvs, Complete(t, m_thread_lock.call, freed, cvs)
  PROVE  StaySuspended
<1>1. HostTypeOK /\ host[t] = "serving" /\ m_thread_lock.call \in CallKinds
  BY LockFacts DEF RunInv, SkewInv, HolderServes, CallKinds
<1>2. Hear(t, cvs) /\ Ends(t, m_thread_lock.call, freed)
  BY <1>1, CompleteFacts
<1>3. \A u \in Threads : u # t => host'[u] \in {host[u], "waking"}
  BY <1>2 DEF Hear
<1>4. m_thread_lock.call = "stall" => m_thread_lock'.by = t /\ m_thread_lock'.call = "stall"
  BY <1>2, HeldFacts DEF Ends
<1> QED
  BY <1>1, <1>3, <1>4 DEF StaySuspended, Suspends

LEMMA ServerSuspends ==
  ASSUME RunInv, BarrierSignal \/ BarrierRelease \/ Advance
  PROVE  StaySuspended
<1>1. PICK t \in Threads : m_thread_lock # Free /\ m_thread_lock.by = t /\ HostTypeOK
  BY HolderIsThread DEF BarrierSignal, BarrierRelease, Advance
<1>2. PICK freed, cvs :
        \/ host' = Signalled(cvs) /\ UNCHANGED m_thread_lock
        \/ UNCHANGED host /\ UNCHANGED m_thread_lock
        \/ UNCHANGED host /\ m_thread_lock' = Held(t, m_thread_lock.call, "release")
        \/ Complete(t, m_thread_lock.call, freed, cvs)
  BY <1>1 DEF BarrierSignal, BarrierRelease, Advance
<1>3. CASE host' = Signalled(cvs) /\ UNCHANGED m_thread_lock
  <2>1. \A u \in Threads : host'[u] \in {host[u], "waking"}
    BY <1>1, <1>3, SignalledFacts
  <2> QED
    BY <1>3, <2>1 DEF StaySuspended, Suspends
<1>4. CASE UNCHANGED host /\ UNCHANGED m_thread_lock
  BY <1>4 DEF StaySuspended, Suspends
<1>5. CASE UNCHANGED host /\ m_thread_lock' = Held(t, m_thread_lock.call, "release")
  <2>1. m_thread_lock'.call = m_thread_lock.call /\ m_thread_lock'.by = t
    BY <1>5 DEF Held
  <2> QED
    BY <1>1, <1>5, <2>1 DEF StaySuspended, Suspends
<1>6. CASE Complete(t, m_thread_lock.call, freed, cvs)
  BY <1>1, <1>6, CompleteSuspends
<1> QED
  BY <1>2, <1>3, <1>4, <1>5, <1>6

LEMMA ExecuteSuspends ==
  ASSUME RunInv, NEW t \in Threads, Executes(t)
  PROVE  StaySuspended
<1>1. PICK d \in Nat : Execute(t, d) \/ EnterBarrier(t, d)
  BY DurationsAssumption DEF Executes
<1>2. CASE Execute(t, d)
  BY <1>2 DEF Execute, StaySuspended, Suspends
<1>3. CASE EnterBarrier(t, d)
  <2>1. HostTypeOK /\ m_thread_lock = Free /\ host[t] = "app"
    BY <1>3 DEF EnterBarrier, RunInv, SkewInv
  <2>2. \A u \in Threads : u # t => host'[u] \in {host[u], "waking"}
    <3>1. CASE host' = [host EXCEPT ![t] = "serving"]
      BY <2>1, <3>1 DEF HostTypeOK
    <3>2. CASE WaitOn(t, "core", {})
      <4>1. host' = [Signalled({}) EXCEPT ![t] = "releasing"]
        BY <3>2 DEF WaitOn
      <4> QED
        BY <2>1, <4>1, SignalledFacts
    <3> QED
      BY <1>3, <3>1, <3>2 DEF EnterBarrier
  <2> QED
    BY <2>1, <2>2, LockFacts DEF StaySuspended, Suspends
<1> QED
  BY <1>1, <1>2, <1>3

-----------------------------------------------------------------------------
(* A mutex that is owned is the owner's, or about to be: the owner has come
   back with it, or was resumed to do so and nobody else is inside.  Only a
   mutex without an owner has nobody in its queue.                         *)
MutexInv ==
  /\ m_owner \in [Mutexes -> Threads \cup {NoThread}]
  /\ inside \in [Mutexes -> SUBSET Threads]
  /\ \A m \in Mutexes : inside[m] \subseteq {m_owner[m]}
  /\ \A m \in Mutexes : m_owner[m] = NoThread => m_mutexes[m] = <<>>
  /\ \A m \in Mutexes, t \in Threads :
       want[t] = m /\ ~ Stuck(t, {"MUTEX", "COND"}) => m_owner[m] = t /\ inside[m] = {}
  /\ \A m \in Mutexes : m_owner[m] # NoThread =>
       inside[m] = {m_owner[m]} \/ want[m_owner[m]] = m

(* Only a thread that is stalled, or on its way back, wants a mutex. *)
WantInv == \A t \in Threads : want[t] # NoMutex => Suspends(t)

LEMMA CallerWantsNothing ==
  ASSUME RunInv, WantInv, NEW t \in Threads, Calls(t)
  PROVE  want[t] = NoMutex
BY CallerGoesOn DEF WantInv, Calls

\* Whoever is inside owns the mutex, if somebody does.
LEMMA InsideFacts ==
  ASSUME MutexInv, NEW m \in Mutexes
  PROVE  /\ m_owner[m] \in Threads \cup {NoThread} /\ inside[m] \subseteq Threads
         /\ m_owner[m] = NoThread => inside[m] = {} /\ m_mutexes[m] = <<>>
         /\ \A t \in Threads : m_owner[m] = t => inside[m] \ {t} = {}
         /\ \A t \in Threads : m_owner[m] = t /\ want[t] = NoMutex => inside[m] = {t}
         /\ \A t \in Threads : want[t] = m /\ ~ Stuck(t, {"MUTEX", "COND"}) =>
              m_owner[m] = t /\ inside[m] = {}
<1>1. m_owner[m] \in Threads \cup {NoThread} /\ inside[m] \subseteq Threads
  BY DEF MutexInv
<1>2. inside[m] \subseteq {m_owner[m]}
  BY DEF MutexInv
<1>3. m_owner[m] = NoThread => inside[m] = {}
  BY <1>1, <1>2, ThreadsAssumption
<1>4. \A t \in Threads : m_owner[m] = t /\ want[t] = NoMutex => inside[m] = {t}
  BY MutexAssumption, ThreadsAssumption DEF MutexInv
<1> QED
  BY <1>1, <1>2, <1>3, <1>4 DEF MutexInv

\* The operations on other queues and on the host threads.
LEMMA MutexKept ==
  ASSUME MutexInv, MonitorQueues, MonitorQueues',
         UNCHANGED <<m_owner, m_mutexes, m_conds, want, inside>>
  PROVE  MutexInv'
<1>1. \A t \in Threads : (Stuck(t, {"MUTEX", "COND"}))' <=> Stuck(t, {"MUTEX", "COND"})
  <2>1. \A t \in Threads :
          t \in Lined(m_mutexes) \cup Queued(m_conds, Conds) <=> Stuck(t, {"MUTEX", "COND"})
    BY DEF MonitorQueues
  <2>2. \A t \in Threads :
          t \in Lined(m_mutexes') \cup Queued(m_conds', Conds) <=> (Stuck(t, {"MUTEX", "COND"}))'
    BY DEF MonitorQueues
  <2> QED
    BY <2>1, <2>2
<1> QED
  BY <1>1 DEF MutexInv

LEMMA MutexTaken ==
  ASSUME MutexInv, NEW t \in Threads, NEW m \in Mutexes, m_owner[m] = NoThread,
         want[t] = NoMutex,
         m_owner' = [m_owner EXCEPT ![m] = t], inside' = [inside EXCEPT ![m] = @ \cup {t}],
         UNCHANGED <<m_mutexes, want>>,
         \A u \in Threads : (Stuck(u, {"MUTEX", "COND"}))' <=> Stuck(u, {"MUTEX", "COND"})
  PROVE  MutexInv'
<1>1. inside[m] = {}
  BY InsideFacts
<1>2. \A k \in Mutexes : m_owner'[k] = IF k = m THEN t ELSE m_owner[k]
  BY DEF MutexInv
<1>3. \A k \in Mutexes : inside'[k] = IF k = m THEN {t} ELSE inside[k]
  BY <1>1 DEF MutexInv
<1>4. \A u \in Threads : want[u] = m => Stuck(u, {"MUTEX", "COND"})
  BY ThreadsAssumption DEF MutexInv
<1>5. m_owner' \in [Mutexes -> Threads \cup {NoThread}] /\ inside' \in [Mutexes -> SUBSET Threads]
  BY DEF MutexInv
<1>6. \A k \in Mutexes : inside'[k] \subseteq {m_owner'[k]}
  <2>1. \A k \in Mutexes : inside[k] \subseteq {m_owner[k]}
    BY DEF MutexInv
  <2> QED
    BY <1>2, <1>3, <2>1
<1>7. \A k \in Mutexes : m_owner'[k] = NoThread => m_mutexes'[k] = <<>>
  BY <1>2, ThreadsAssumption DEF MutexInv
<1>8. \A k \in Mutexes, u \in Threads : want'[u] = k /\ ~ (Stuck(u, {"MUTEX", "COND"}))' =>
        m_owner'[k] = u /\ inside'[k] = {}
  BY <1>2, <1>3, <1>4 DEF MutexInv
<1>9. \A k \in Mutexes : m_owner'[k] # NoThread =>
        inside'[k] = {m_owner'[k]} \/ want'[m_owner'[k]] = k
  BY <1>2, <1>3 DEF MutexInv
<1> QED
  BY <1>5, <1>6, <1>7, <1>8, <1>9 DEF MutexInv

LEMMA MutexWanted ==
  ASSUME MutexInv, MonitorQueues, NEW t \in Threads, NEW m \in Mutexes, m_owner[m] # NoThread,
         want[t] = NoMutex,
         m_mutexes' = [m_mutexes EXCEPT ![m] = Append(@, t)], want' = [want EXCEPT ![t] = m],
         UNCHANGED <<m_owner, inside>>,
         \A u \in Threads : (Stuck(u, {"MUTEX", "COND"}))' <=> Stuck(u, {"MUTEX", "COND"}) \/ u = t
  PROVE  MutexInv'
<1>1. \A k \in Mutexes : k # m => m_mutexes'[k] = m_mutexes[k]
  BY DEF MonitorQueues
<1>2. \A u \in Threads : want'[u] = IF u = t THEN m ELSE want[u]
  BY DEF MonitorQueues
<1>3. \A k \in Mutexes : m_owner'[k] = NoThread => m_mutexes'[k] = <<>>
  BY <1>1 DEF MutexInv
<1>4. \A k \in Mutexes, u \in Threads : want'[u] = k /\ ~ (Stuck(u, {"MUTEX", "COND"}))' =>
        m_owner'[k] = u /\ inside'[k] = {}
  BY <1>2 DEF MutexInv
<1>5. \A k \in Mutexes : m_owner'[k] # NoThread =>
        inside'[k] = {m_owner'[k]} \/ want'[m_owner'[k]] = k
  BY <1>2, InsideFacts DEF MutexInv
<1> QED
  BY <1>3, <1>4, <1>5 DEF MutexInv

\* An unlock, also by a wait: the first in the queue, if any, is the owner now.
LEMMA MutexReleased ==
  ASSUME MutexInv, MonitorQueues, NEW t \in Threads, NEW m \in Mutexes, Unlock(t, m),
         want[t] = NoMutex, \A u \in Threads \ {t} : want'[u] = want[u],
         \A u \in Threads : ~ (Stuck(u, {"MUTEX", "COND"}))' /\ want'[u] # NoMutex =>
           u # t /\ (u \in Granted(m) \/ ~ Stuck(u, {"MUTEX", "COND"}))
  PROVE  MutexInv'
<1>a. /\ m_owner[m] = t /\ m_owner' = [m_owner EXCEPT ![m] = Successor(m)]
      /\ m_mutexes' = [m_mutexes EXCEPT ![m] = IF @ = <<>> THEN @ ELSE Tail(@)]
      /\ inside' = [inside EXCEPT ![m] = @ \ {t}]
  BY DEF Unlock
<1>b. /\ \A u \in Granted(m) : u \in Elements(m_mutexes[m]) /\ u \in Threads /\ u = Successor(m)
      /\ m_mutexes[m] # <<>> => Successor(m) \in Granted(m)
  <2> DEFINE new == m_mutexes'
  <2>1. Unlocked(new, m)
    BY <1>a DEF Unlocked
  <2> HIDE DEF new
  <2> QED
    BY <2>1, UnlockFacts
<1>c. \A u \in Granted(m) : want[u] = m
  BY <1>b, MonitorFacts
<1>d. Successor(m) \in Threads \cup {NoThread} /\ (Successor(m) # NoThread => Successor(m) \in Granted(m))
  BY <1>b DEF Successor
<1>1. \A k \in Mutexes : m_owner'[k] = IF k = m THEN Successor(m) ELSE m_owner[k]
  BY <1>a DEF MutexInv
<1>2. \A k \in Mutexes : inside'[k] = IF k = m THEN {} ELSE inside[k]
  <2>1. inside[m] \ {t} = {}
    BY <1>a, InsideFacts
  <2> QED
    BY <1>a, <2>1 DEF MutexInv
<1>3. \A k \in Mutexes : k # m => m_mutexes'[k] = m_mutexes[k]
  BY <1>a DEF MonitorQueues
<1>4. m_owner' \in [Mutexes -> Threads \cup {NoThread}] /\ inside' \in [Mutexes -> SUBSET Threads]
  BY <1>a, <1>d DEF MutexInv
<1>5. \A k \in Mutexes : inside'[k] \subseteq {m_owner'[k]}
  BY <1>1, <1>2 DEF MutexInv
<1>6. \A k \in Mutexes : m_owner'[k] = NoThread => m_mutexes'[k] = <<>>
  <2>1. Successor(m) = NoThread => m_mutexes'[m] = <<>>
    <3>1. Successor(m) = NoThread => m_mutexes[m] = <<>>
      BY <1>b, ThreadsAssumption
    <3>2. m_mutexes[m] = <<>> => m_mutexes'[m] = <<>>
      BY <1>a DEF MonitorQueues
    <3> QED
      BY <3>1, <3>2
  <2> QED
    BY <1>1, <1>3, <2>1 DEF MutexInv
<1>7. ASSUME NEW k \in Mutexes, NEW u \in Threads, want'[u] = k,
             ~ (Stuck(u, {"MUTEX", "COND"}))'
      PROVE  m_owner'[k] = u /\ inside'[k] = {}
  <2>1. want'[u] # NoMutex
    BY <1>7, MutexAssumption
  <2>2. want[u] = k /\ (u \in Granted(m) \/ ~ Stuck(u, {"MUTEX", "COND"}))
    BY <1>7, <2>1
  <2>3. CASE u \in Granted(m)
    BY <1>1, <1>2, <1>b, <1>c, <2>2, <2>3
  <2>4. CASE ~ Stuck(u, {"MUTEX", "COND"})
    <3>1. m_owner[k] = u /\ inside[k] = {}
      BY <2>2, <2>4 DEF MutexInv
    <3>2. k # m
      BY <1>7, <1>a, <2>1, <3>1
    <3> QED
      BY <1>1, <1>2, <3>1, <3>2
  <2> QED
    BY <2>2, <2>3, <2>4
<1>8. ASSUME NEW k \in Mutexes, m_owner'[k] # NoThread
      PROVE  inside'[k] = {m_owner'[k]} \/ want'[m_owner'[k]] = k
  <2>1. CASE k = m
    <3>1. Successor(m) \in Granted(m) /\ Successor(m) # t /\ Successor(m) \in Threads
      <4>1. Successor(m) \in Granted(m)
        BY <1>1, <1>8, <1>d, <2>1
      <4>2. want[Successor(m)] = m
        BY <1>c, <4>1
      <4> QED
        BY <1>b, <4>1, <4>2, MutexAssumption
    <3> QED
      BY <1>1, <1>c, <2>1, <3>1
  <2>2. CASE k # m
    <3>1. m_owner'[k] = m_owner[k] /\ inside'[k] = inside[k] /\ m_owner[k] \in Threads
      BY <1>1, <1>2, <1>8, <2>2 DEF MutexInv
    <3>2. inside[k] = {m_owner[k]} \/ want[m_owner[k]] = k
      BY <1>8, <3>1 DEF MutexInv
    <3>3. m_owner[k] = t => inside[k] = {m_owner[k]}
      BY <3>1, InsideFacts
    <3> QED
      BY <3>1, <3>2, <3>3
  <2> QED
    BY <2>1, <2>2
<1> QED
  BY <1>4, <1>5, <1>6, <1>7, <1>8 DEF MutexInv

\* A signal: the first of the signalled threads that want a free mutex owns it.
LEMMA MutexSignalled ==
  ASSUME MutexInv, MonitorQueues, NEW c \in Conds, NEW n \in Nat, NEW woken, Woken(woken, c, n),
         m_owner' = [m \in Mutexes |-> IF Takes(woken, m) THEN Head(Of(woken, m)) ELSE m_owner[m]],
         m_mutexes' = [m \in Mutexes |->
           m_mutexes[m] \o (IF Takes(woken, m) THEN Tail(Of(woken, m)) ELSE Of(woken, m))],
         UNCHANGED <<want, inside>>,
         \A u \in Threads : ~ (Stuck(u, {"MUTEX", "COND"}))' =>
           u \in Takers(woken) \/ ~ Stuck(u, {"MUTEX", "COND"})
  PROVE  MutexInv'
<1> DEFINE first(m) == Head(Of(woken, m))
<1>1. \A m \in Mutexes : Takes(woken, m) =>
        /\ first(m) \in Threads /\ want[first(m)] = m
        /\ m_owner[m] = NoThread /\ inside[m] = {}
  <2>1. \A m \in Mutexes : Takes(woken, m) => first(m) \in Elements(Of(woken, m))
    BY TakersFacts
  <2>2. \A m \in Mutexes : \A u \in Elements(Of(woken, m)) : u \in Threads /\ want[u] = m
    BY WokenFacts
  <2>3. \A m \in Mutexes : Takes(woken, m) => m_owner[m] = NoThread
    BY DEF Takes
  <2>4. \A m \in Mutexes : m_owner[m] = NoThread => inside[m] = {}
    BY InsideFacts
  <2> HIDE DEF first
  <2> QED
    BY <2>1, <2>2, <2>3, <2>4
<1>2. \A u \in Takers(woken) : \E m \in Mutexes : Takes(woken, m) /\ u = first(m)
  BY DEF Takers
<1>3. \A m \in Mutexes : m_owner'[m] = IF Takes(woken, m) THEN first(m) ELSE m_owner[m]
  OBVIOUS
<1>4. m_owner' = [m \in Mutexes |-> IF Takes(woken, m) THEN first(m) ELSE m_owner[m]]
  OBVIOUS
<1> HIDE DEF first
<1>5. m_owner' \in [Mutexes -> Threads \cup {NoThread}] /\ inside' \in [Mutexes -> SUBSET Threads]
  BY <1>1, <1>4 DEF MutexInv
<1>6. \A m \in Mutexes : inside'[m] \subseteq {m_owner'[m]}
  <2>1. \A m \in Mutexes : inside[m] \subseteq {m_owner[m]}
    BY DEF MutexInv
  <2> QED
    BY <1>1, <1>3, <2>1
<1>7. ASSUME NEW m \in Mutexes, m_owner'[m] = NoThread
      PROVE  m_mutexes'[m] = <<>>
  <2>1. ~ Takes(woken, m) /\ m_owner[m] = NoThread
    BY <1>1, <1>3, <1>7, ThreadsAssumption
  <2>2. Of(woken, m) = <<>>
    BY <2>1 DEF Takes
  <2>3. m_mutexes[m] = <<>>
    BY <2>1 DEF MutexInv
  <2>4. m_mutexes'[m] = <<>> \o <<>>
    BY <2>1, <2>2, <2>3
  <2> QED
    BY <2>4
<1>8. ASSUME NEW m \in Mutexes, NEW u \in Threads, want'[u] = m,
             ~ (Stuck(u, {"MUTEX", "COND"}))'
      PROVE  m_owner'[m] = u /\ inside'[m] = {}
  <2>1. CASE u \in Takers(woken)
    <3>1. PICK k \in Mutexes : Takes(woken, k) /\ u = first(k)
      BY <1>2, <2>1
    <3>2. k = m
      BY <1>1, <1>8, <3>1
    <3> QED
      BY <1>1, <1>3, <3>1, <3>2
  <2>2. CASE ~ Stuck(u, {"MUTEX", "COND"})
    <3>1. m_owner[m] = u /\ inside[m] = {}
      BY <1>8, <2>2 DEF MutexInv
    <3>2. ~ Takes(woken, m)
      BY <1>1, <3>1, ThreadsAssumption
    <3> QED
      BY <1>3, <3>1, <3>2
  <2> QED
    BY <1>8, <2>1, <2>2
<1>9. ASSUME NEW m \in Mutexes, m_owner'[m] # NoThread
      PROVE  inside'[m] = {m_owner'[m]} \/ want'[m_owner'[m]] = m
  <2>1. CASE Takes(woken, m)
    BY <1>1, <1>3, <2>1
  <2>2. CASE ~ Takes(woken, m)
    <3>1. m_owner'[m] = m_owner[m]
      BY <1>3, <2>2
    <3> QED
      BY <1>9, <3>1 DEF MutexInv
  <2> QED
    BY <2>1, <2>2
<1> QED
  BY <1>5, <1>6, <1>7, <1>8, <1>9 DEF MutexInv

\* Whoever goes on is inside its mutex, alone.
LEMMA MutexEntered ==
  ASSUME MutexInv, MonitorQueues, NEW t \in Threads, GoesOn(t), status[t] = "RUNNING",
         UNCHANGED <<status, stalled_reason>>
  PROVE  MutexInv'
<1>1. want' = [want EXCEPT ![t] = NoMutex] /\ UNCHANGED <<m_owner, m_mutexes, m_conds>>
  BY DEF GoesOn
<1>2. \A u \in Threads : want'[u] = IF u = t THEN NoMutex ELSE want[u]
  BY <1>1 DEF MonitorQueues
<1>3. \A u \in Threads : (Stuck(u, {"MUTEX", "COND"}))' <=> Stuck(u, {"MUTEX", "COND"})
  BY DEF Stuck
<1>4. ~ Stuck(t, {"MUTEX", "COND"})
  BY DEF Stuck
<1>5. \A m \in Mutexes : want[t] = m => m_owner[m] = t /\ inside[m] = {}
  BY <1>4 DEF MutexInv
<1>6. \A m \in Mutexes : inside'[m] = IF m = want[t] THEN {t} ELSE inside[m]
  BY <1>5 DEF GoesOn
<1>7. inside' \in [Mutexes -> SUBSET Threads]
  BY DEF GoesOn, MutexInv
<1>8. \A m \in Mutexes : inside'[m] \subseteq {m_owner'[m]}
  <2>1. \A m \in Mutexes : inside[m] \subseteq {m_owner[m]}
    BY DEF MutexInv
  <2> QED
    BY <1>1, <1>5, <1>6, <2>1
<1>9. ASSUME NEW m \in Mutexes, NEW u \in Threads, want'[u] = m,
             ~ (Stuck(u, {"MUTEX", "COND"}))'
      PROVE  m_owner'[m] = u /\ inside'[m] = {}
  <2>1. u # t /\ want[u] = m /\ ~ Stuck(u, {"MUTEX", "COND"})
    BY <1>2, <1>3, <1>9, MutexAssumption
  <2>2. m_owner[m] = u /\ inside[m] = {}
    BY <2>1 DEF MutexInv
  <2>3. want[t] # m
    BY <1>5, <2>1, <2>2
  <2> QED
    BY <1>1, <1>6, <2>2, <2>3
<1>10. ASSUME NEW m \in Mutexes, m_owner'[m] # NoThread
       PROVE  inside'[m] = {m_owner'[m]} \/ want'[m_owner'[m]] = m
  <2>1. CASE m = want[t]
    BY <1>1, <1>5, <1>6, <2>1
  <2>2. CASE m # want[t]
    <3>1. inside[m] = {m_owner[m]} \/ want[m_owner[m]] = m
      BY <1>1, <1>10 DEF MutexInv
    <3>2. m_owner[m] \in Threads
      BY <1>1, <1>10 DEF MutexInv
    <3> QED
      BY <1>1, <1>2, <1>6, <2>2, <3>1, <3>2
  <2> QED
    BY <2>1, <2>2
<1>11. m_owner' \in [Mutexes -> Threads \cup {NoThread}]
  BY <1>1 DEF MutexInv
<1>12. \A m \in Mutexes : m_owner'[m] = NoThread => m_mutexes'[m] = <<>>
  BY <1>1 DEF MutexInv
<1> QED
  BY <1>7, <1>8, <1>9, <1>10, <1>11, <1>12 DEF MutexInv

-----------------------------------------------------------------------------
(* The steps.  Only the synchronisation server and GoesOn change what the
   invariant speaks of.                                                    *)
OwnerInv == MutexInv /\ WantInv

LEMMA OwnersKept ==
  ASSUME OwnerInv, QueueInv, QueueInv', StaySuspended,
         UNCHANGED <<m_owner, m_mutexes, m_conds, want, inside>>
  PROVE  OwnerInv'
<1>1. MutexInv'
  BY MutexKept DEF OwnerInv, QueueInv
<1>2. WantInv'
  BY DEF OwnerInv, WantInv, StaySuspended
<1> QED
  BY <1>1, <1>2 DEF OwnerInv

LEMMA MutexLockOwners ==
  ASSUME RunInv, QueueInv, OwnerInv, NEW t \in Threads, NEW m \in Mutexes,
         NEW tryLock \in BOOLEAN, MutexLock(t, m, tryLock), UNCHANGED <<syscallVars, barrierVars>>
  PROVE  OwnerInv'
<1>0. UNCHANGED <<m_conds, m_barrier, waiter, barrierVars>>
  BY DEF MutexLock
<1>a. Calls(t) /\ MutexInv /\ WantInv /\ HostCalls /\ MonitorQueues /\ {"MUTEX", "COND"} \in SUBSET Waits
  BY DEF MutexLock, Enter, Calls, OwnerInv, QueueInv, Waits
<1>b. want[t] = NoMutex
  BY <1>a, CallerWantsNothing
<1>1. CASE /\ m_owner[m] = NoThread
           /\ m_owner' = [m_owner EXCEPT ![m] = t]
           /\ inside' = [inside EXCEPT ![m] = @ \cup {t}]
           /\ CallProceeds(t, {}) /\ UNCHANGED <<m_mutexes, want>>
  <2>1. CallProceeds(t, {})
    BY <1>1
  <2>2. Restalls({}, NoThread, "NONE") /\ StaySuspended
    BY <2>1, ProceedRestalls, ProceedSuspends
  <2>3. \A u \in Threads : (Stuck(u, {"MUTEX", "COND"}))' <=> Stuck(u, {"MUTEX", "COND"})
    BY <1>a, <2>2, OnlyResumes
  <2>4. MutexInv'
    BY <1>1, <1>a, <1>b, <2>3, MutexTaken
  <2>5. WantInv'
    BY <1>1, <1>a, <2>2 DEF WantInv, StaySuspended
  <2> QED
    BY <2>4, <2>5 DEF OwnerInv
<1>2. CASE /\ m_owner[m] # NoThread
           /\ m_mutexes' = [m_mutexes EXCEPT ![m] = Append(@, t)]
           /\ want' = [want EXCEPT ![t] = m]
           /\ CallStalls(t, "MUTEX", {}, "stall") /\ UNCHANGED <<m_owner, inside>>
  <2>1. CallStalls(t, "MUTEX", {}, "stall")
    BY <1>2
  <2>2. Restalls({}, t, "MUTEX") /\ StaySuspended /\ Suspends(t)'
    BY <1>a, <2>1, StallRestalls, StallSuspends
  <2>3. \A u \in Threads : (Stuck(u, {"MUTEX", "COND"}))' <=> Stuck(u, {"MUTEX", "COND"}) \/ u = t
    BY <1>a, <2>2 DEF Restalls
  <2>4. MutexInv'
    BY <1>2, <1>a, <1>b, <2>3, MutexWanted
  <2>5. \A u \in Threads : u # t => want'[u] = want[u]
    BY <1>2, <1>a DEF MonitorQueues
  <2>6. WantInv'
    BY <1>a, <2>2, <2>5 DEF WantInv, StaySuspended
  <2> QED
    BY <2>4, <2>6 DEF OwnerInv
<1> QED
  BY <1>1, <1>2, MutexLockCall DEF RunInv, SkewInv

LEMMA MutexUnlockOwners ==
  ASSUME RunInv, QueueInv, OwnerInv, NEW t \in Threads, NEW m \in Mutexes,
         MutexUnlock(t, m), UNCHANGED <<syscallVars, barrierVars>>
  PROVE  OwnerInv'
<1>a. /\ Calls(t) /\ MutexInv /\ WantInv /\ MonitorQueues
      /\ {"MUTEX", "COND"} \in SUBSET Waits /\ Unlock(t, m)
      /\ UNCHANGED <<m_conds, want, waiter>>
  BY DEF MutexUnlock, Enter, Calls, OwnerInv, QueueInv, Waits
<1>b. PICK R : R = Granted(m)
  OBVIOUS
<1>1. CallProceeds(t, R)
  BY <1>b, MutexUnlockCall DEF RunInv, SkewInv
<1>2. Restalls(R, NoThread, "NONE") /\ StaySuspended
  BY <1>1, ProceedRestalls, ProceedSuspends
<1>3. \A u \in Threads :
        (Stuck(u, {"MUTEX", "COND"}))' <=> Stuck(u, {"MUTEX", "COND"}) /\ u \notin R
  BY <1>a, <1>2, OnlyResumes
<1>4. want[t] = NoMutex
  BY <1>a, CallerWantsNothing
<1>5. MutexInv'
  <2>1. \A u \in Threads : ~ (Stuck(u, {"MUTEX", "COND"}))' /\ want'[u] # NoMutex =>
           u # t /\ (u \in Granted(m) \/ ~ Stuck(u, {"MUTEX", "COND"}))
    BY <1>a, <1>b, <1>3, <1>4
  <2> QED
    BY <1>a, <1>4, <2>1, MutexReleased
<1>6. WantInv'
  BY <1>a, <1>2 DEF WantInv, StaySuspended
<1> QED
  BY <1>5, <1>6 DEF OwnerInv

LEMMA CondWaitOwners ==
  ASSUME RunInv, QueueInv, OwnerInv, NEW t \in Threads, NEW c \in Conds, NEW m \in Mutexes,
         CondWait(t, c, m), UNCHANGED <<syscallVars, barrierVars>>
  PROVE  OwnerInv'
<1>a. /\ Calls(t) /\ MutexInv /\ WantInv /\ HostCalls /\ MonitorQueues
      /\ {"MUTEX", "COND"} \in SUBSET Waits /\ Unlock(t, m)
      /\ want' = [want EXCEPT ![t] = m] /\ UNCHANGED waiter
  BY DEF CondWait, Enter, Calls, OwnerInv, QueueInv, Waits
<1>b. PICK R : R = Granted(m)
  OBVIOUS
<1>1. CallStalls(t, "COND", R, "stall")
  BY <1>a, <1>b DEF CondWait, CallStalls, StallThread
<1>2. Restalls(R, t, "COND") /\ StaySuspended /\ Suspends(t)'
  BY <1>a, <1>1, StallRestalls, StallSuspends
<1>3. \A u \in Threads : (Stuck(u, {"MUTEX", "COND"}))' <=>
        (Stuck(u, {"MUTEX", "COND"}) /\ u \notin R) \/ u = t
  BY <1>a, <1>2 DEF Restalls
<1>4. want[t] = NoMutex /\ \A u \in Threads \ {t} : want'[u] = want[u]
  BY <1>a, CallerWantsNothing DEF MonitorQueues
<1>5. MutexInv'
  <2>1. \A u \in Threads : ~ (Stuck(u, {"MUTEX", "COND"}))' /\ want'[u] # NoMutex =>
           u # t /\ (u \in Granted(m) \/ ~ Stuck(u, {"MUTEX", "COND"}))
    BY <1>b, <1>3
  <2> QED
    BY <1>a, <1>4, <2>1, MutexReleased
<1>6. WantInv'
  BY <1>a, <1>2, <1>4 DEF WantInv, StaySuspended
<1> QED
  BY <1>5, <1>6 DEF OwnerInv

LEMMA SignalOwners ==
  ASSUME RunInv, QueueInv, OwnerInv, NEW t \in Threads, NEW c \in Conds, NEW n \in Nat,
         NEW woken, Woken(woken, c, n), Calls(t), LockAsync(t, woken),
         UNCHANGED <<clock, want, inside, waiter>>
  PROVE  OwnerInv'
<1>a. MutexInv /\ WantInv /\ MonitorQueues /\ {"MUTEX", "COND"} \in SUBSET Waits
  BY DEF OwnerInv, QueueInv, Waits
<1>b. PICK R : R = Takers(woken)
  OBVIOUS
<1>1. CallProceeds(t, R)
  BY <1>b, ProceedsNow DEF LockAsync, Takers, RunInv, SkewInv
<1>2. Restalls(R, NoThread, "NONE") /\ StaySuspended
  BY <1>1, ProceedRestalls, ProceedSuspends
<1>3. \A u \in Threads :
        (Stuck(u, {"MUTEX", "COND"}))' <=> Stuck(u, {"MUTEX", "COND"}) /\ u \notin R
  BY <1>a, <1>2, OnlyResumes
<1>4. MutexInv'
  <2>1. /\ m_owner' = [m \in Mutexes |-> IF Takes(woken, m) THEN Head(Of(woken, m)) ELSE m_owner[m]]
        /\ m_mutexes' = [m \in Mutexes |->
             m_mutexes[m] \o (IF Takes(woken, m) THEN Tail(Of(woken, m)) ELSE Of(woken, m))]
    BY DEF LockAsync
  <2>2. \A u \in Threads : ~ (Stuck(u, {"MUTEX", "COND"}))' =>
           u \in Takers(woken) \/ ~ Stuck(u, {"MUTEX", "COND"})
    BY <1>b, <1>3
  <2> QED
    BY <1>a, <2>1, <2>2, MutexSignalled
<1>5. WantInv'
  BY <1>a, <1>2 DEF WantInv, StaySuspended
<1> QED
  BY <1>4, <1>5 DEF OwnerInv

LEMMA CondSignalOwners ==
  ASSUME RunInv, QueueInv, OwnerInv, NEW t \in Threads, NEW c \in Conds,
         CondSignal(t, c) \/ CondBroadcast(t, c), UNCHANGED <<syscallVars, barrierVars>>
  PROVE  OwnerInv'
<1>a. /\ Calls(t) /\ m_conds[c] # <<>> /\ MonitorQueues /\ UNCHANGED <<clock, want, inside, waiter>>
  BY DEF CondSignal, CondBroadcast, Enter, Calls, QueueInv
<1>1. CASE CondSignal(t, c)
  <2>1. Woken(<<Head(m_conds[c])>>, c, 1)
    BY <1>a, SignalledOfQueue
  <2>2. LockAsync(t, <<Head(m_conds[c])>>)
    BY <1>1 DEF CondSignal
  <2> QED
    BY <1>a, <2>1, <2>2, SignalOwners
<1>2. CASE CondBroadcast(t, c)
  <2>1. Len(m_conds[c]) \in Nat /\ Woken(m_conds[c], c, Len(m_conds[c]))
    BY <1>a, SignalledOfQueue
  <2>2. LockAsync(t, m_conds[c])
    BY <1>2 DEF CondBroadcast
  <2> QED
    BY <1>a, <2>1, <2>2, SignalOwners
<1> QED
  BY <1>1, <1>2

LEMMA SyncOwners ==
  ASSUME RunInv, QueueInv, QueueInv', OwnerInv, NEW t \in Threads, SyncStep(t),
         UNCHANGED <<syscallVars, barrierVars>>
  PROVE  OwnerInv'
<1>1. CASE BarrierWait(t)
  <2>1. UNCHANGED <<m_owner, m_mutexes, m_conds, want, inside>>
    BY <1>1 DEF BarrierWait
  <2>2. StaySuspended
    BY SyncCalls, ProceedSuspends, StallSuspends DEF RunInv, SkewInv
  <2> QED
    BY <2>1, <2>2, OwnersKept
<1> QED
  BY <1>1, MutexLockOwners, MutexUnlockOwners, CondWaitOwners, CondSignalOwners DEF SyncStep

LEMMA HostOwners ==
  ASSUME RunInv, QueueInv, QueueInv', OwnerInv, NEW t \in Threads, HostStep(t)
  PROVE  OwnerInv'
<1>a. HostTypeOK /\ MutexInv /\ WantInv /\ MonitorQueues
  BY DEF RunInv, SkewInv, OwnerInv, QueueInv
<1>1. CASE FutexSleep(t) /\ UNCHANGED <<syncVars, syscallVars, barrierVars>>
  <2>1. StaySuspended
    <3>1. \A u \in Threads : host'[u] = host[u] \/ host'[u] \in {"asleep", "waking"}
      BY <1>1, <1>a DEF FutexSleep, HostTypeOK
    <3> QED
      BY <1>1, <3>1 DEF FutexSleep, StaySuspended, Suspends
  <2> QED
    BY <1>1, <2>1, OwnersKept DEF syncVars
<1>2. CASE Return(t) /\ GoesOn(t) /\ UNCHANGED <<syscallVars, barrierVars>>
  <2>1. status[t] = "RUNNING" /\ UNCHANGED <<status, stalled_reason>>
    BY <1>2 DEF Return, RunInv, AwakeRuns
  <2>2. MutexInv'
    BY <1>2, <1>a, <2>1, MutexEntered
  <2>3. \A u \in Threads : want'[u] = IF u = t THEN NoMutex ELSE want[u]
    BY <1>2, <1>a DEF GoesOn, MonitorQueues
  <2>4. \A u \in Threads : u # t => host'[u] = host[u]
    BY <1>2, <1>a DEF Return, HostTypeOK
  <2>5. WantInv'
    BY <1>2, <1>a, <2>3, <2>4 DEF WantInv, Suspends, Return
  <2> QED
    BY <2>2, <2>5 DEF OwnerInv
<1> QED
  BY <1>1, <1>2 DEF HostStep

LEMMA StallDecidedOwners ==
  ASSUME RunInv, QueueInv, QueueInv', OwnerInv, StallDecided,
         IF status[m_thread_lock.by] = "RUNNING" THEN GoesOn(m_thread_lock.by)
         ELSE UNCHANGED syncVars
  PROVE  OwnerInv'
<1>1. PICK t \in Threads : m_thread_lock # Free /\ m_thread_lock.by = t /\ HostTypeOK
  BY HolderIsThread DEF StallDecided
<1>2. /\ MutexInv /\ WantInv /\ MonitorQueues /\ UNCHANGED <<status, stalled_reason>>
      /\ m_thread_lock.call = "stall"
  BY DEF OwnerInv, QueueInv, StallDecided
<1>3. CASE status[t] = "RUNNING"
  <2>1. GoesOn(t) /\ host' = [host EXCEPT ![t] = "app"]
    BY <1>1, <1>3 DEF StallDecided
  <2>2. MutexInv'
    BY <1>2, <1>3, <2>1, MutexEntered
  <2>3. \A u \in Threads : want'[u] = IF u = t THEN NoMutex ELSE want[u]
    BY <1>2, <2>1 DEF GoesOn, MonitorQueues
  <2>4. \A u \in Threads : u # t => host'[u] = host[u]
    BY <1>1, <2>1 DEF HostTypeOK
  <2>5. WantInv'
    BY <1>1, <1>2, <2>3, <2>4 DEF WantInv, Suspends
  <2> QED
    BY <2>2, <2>5 DEF OwnerInv
<1>4. CASE status[t] # "RUNNING"
  <2>1. WaitOn(t, "thread", {}) /\ UNCHANGED syncVars
    BY <1>1, <1>4 DEF StallDecided
  <2>2. host' = [Signalled({}) EXCEPT ![t] = "releasing"]
    BY <2>1 DEF WaitOn
  <2>3. \A u \in Threads : host'[u] \in {host[u], "waking", "releasing"} /\ host'[t] = "releasing"
    BY <1>1, <2>2, SignalledFacts
  <2>4. StaySuspended
    BY <1>1, <2>3 DEF StaySuspended, Suspends
  <2> QED
    BY <2>1, <2>4, OwnersKept DEF syncVars
<1> QED
  BY <1>3, <1>4

LEMMA NextOwners ==
  ASSUME RunInv, QueueInv, QueueInv', OwnerInv, [Next]_vars
  PROVE  OwnerInv'
<1>1. CASE UNCHANGED vars
  <2>1. StaySuspended
    BY <1>1 DEF vars, threadVars, StaySuspended, Suspends
  <2> QED
    BY <1>1, <2>1, OwnersKept DEF vars, syncVars
<1>2. ASSUME NEW t \in Threads, ThreadStep(t), UNCHANGED <<syncVars, syscallVars, barrierVars>>
      PROVE  OwnerInv'
  BY <1>2, ThreadStepSuspends, OwnersKept DEF syncVars
<1>3. ASSUME NEW t \in Threads, SyncStep(t), UNCHANGED <<syscallVars, barrierVars>>
      PROVE  OwnerInv'
  BY <1>3, SyncOwners
<1>4. ASSUME NEW t \in Threads, SyscallStep(t), UNCHANGED <<syncVars, barrierVars>>
      PROVE  OwnerInv'
  BY <1>4, SyscallSuspends, OwnersKept DEF syncVars
<1>5. ASSUME NEW t \in Threads, NEW f, ThreadExit(t, f), UNCHANGED <<syncVars, barrierVars>>
      PROVE  OwnerInv'
  <2>1. PICK ts : CallExits(t, ts)
    BY <1>5, ThreadExitCall
  <2> QED
    BY <1>5, <2>1, ExitSuspends, OwnersKept DEF syncVars
<1>6. ASSUME NEW t \in Threads, HostStep(t) PROVE OwnerInv'
  BY <1>6, HostOwners
<1>7. ASSUME NEW t \in Threads, Executes(t) PROVE OwnerInv'
  <2>1. UNCHANGED syncVars
    BY <1>7 DEF Executes, Execute, EnterBarrier
  <2> QED
    BY <1>7, <2>1, ExecuteSuspends, OwnersKept DEF syncVars
<1>8. CASE BarrierSignal \/ BarrierRelease \/ Advance
  <2>1. UNCHANGED syncVars
    BY <1>8 DEF BarrierSignal, BarrierRelease, Advance
  <2> QED
    BY <1>8, <2>1, ServerSuspends, OwnersKept DEF syncVars
<1> QED
  BY <1>1, <1>2, <1>3, <1>4, <1>5, <1>6, <1>7, <1>8, StallDecidedOwners DEF Next, ServerStep

LEMMA InitOwners ==
  ASSUME Init
  PROVE  OwnerInv
<1>1. /\ m_owner = [m \in Mutexes |-> NoThread] /\ m_mutexes = [m \in Mutexes |-> <<>>]
      /\ inside = [m \in Mutexes |-> {}] /\ want = [t \in Threads |-> NoMutex]
  BY DEF Init, SyncInit
<1> QED
  BY <1>1, MutexAssumption DEF OwnerInv, MutexInv, WantInv

(* If nobody joins a thread before it starts, a simulated mutex is held by one
   thread, whichever queues its holders came through (sync_server.cc).     *)
THEOREM MutexesExclude == ~ JoinsEarly /\ Spec => []MutualExclusion
<1>1. ~ JoinsEarly /\ Init => RunInv /\ QueueInv /\ OwnerInv
  BY InitInv, InitQueues, InitOwners
<1>2. RunInv /\ QueueInv /\ OwnerInv /\ [Next]_vars => (RunInv /\ QueueInv /\ OwnerInv)'
  BY NextInv, NextQueues, NextOwners DEF RunInv
<1>3. OwnerInv => MutualExclusion
  BY InsideFacts DEF OwnerInv, MutexInv, MutualExclusion
<1> QED
  BY <1>1, <1>2, <1>3, PTL DEF Spec

-----------------------------------------------------------------------------
(* The types: what the other invariants leave open is the application, how
   far it is, and the answer of the deadlock test.                         *)
ProgramInv ==
  program \in Programs /\ calls \in [Threads -> Nat] /\ aborted \in BOOLEAN

LEMMA EnterProgram ==
  ASSUME ProgramInv, NEW t \in Threads, NEW call, Enter(t, call), UNCHANGED aborted
  PROVE  ProgramInv'
<1>1. calls' = [calls EXCEPT ![t] = @ + 1] /\ UNCHANGED program /\ calls[t] \in Nat
  BY DEF Enter, ProgramInv
<1>2. calls' \in [Threads -> Nat]
  BY <1>1 DEF ProgramInv
<1> QED
  BY <1>1, <1>2 DEF ProgramInv

LEMMA KeepProgram ==
  ASSUME ProgramInv, UNCHANGED programVars, aborted' = aborted \/ aborted' = TRUE
  PROVE  ProgramInv'
BY DEF ProgramInv, programVars

LEMMA NextProgram ==
  ASSUME ProgramInv, [Next]_vars
  PROVE  ProgramInv'
<1>1. CASE UNCHANGED vars
  BY <1>1, KeepProgram DEF vars, threadVars, barrierVars
<1>2. ASSUME NEW t \in Threads, ThreadStep(t), UNCHANGED barrierVars PROVE ProgramInv'
  <2>1. CASE \E u \in Threads : CreateThread(t, u) \/ JoinThread(t, u)
    BY <1>2, <2>1, EnterProgram DEF CreateThread, JoinThread, barrierVars
  <2>2. CASE ThreadStart(t)
    BY <1>2, <2>2, KeepProgram DEF ThreadStart, barrierVars
  <2> QED
    BY <1>2, <2>1, <2>2 DEF ThreadStep
<1>3. ASSUME NEW t \in Threads, SyncStep(t), UNCHANGED barrierVars PROVE ProgramInv'
  <2>1. PICK call : Enter(t, call)
    BY <1>3 DEF SyncStep, MutexLock, MutexUnlock, CondWait, CondSignal, CondBroadcast, BarrierWait
  <2> QED
    BY <1>3, <2>1, EnterProgram DEF barrierVars
<1>4. ASSUME NEW t \in Threads, SyscallStep(t), UNCHANGED barrierVars PROVE ProgramInv'
  <2>1. CASE BlockingReturn(t, m_next_barrier_time) \/ BlockingResume(t)
    BY <1>4, <2>1, KeepProgram DEF BlockingReturn, BlockingResume, barrierVars
  <2>2. CASE \E call : Enter(t, call)
    BY <1>4, <2>2, EnterProgram DEF barrierVars
  <2> QED
    BY <1>4, <2>1, <2>2
       DEF SyscallStep, Sleep, FutexWait, FutexWake, FutexWakeOp, FutexCmpRequeue, BlockingCall
<1>5. ASSUME NEW t \in Threads, NEW f, ThreadExit(t, f), UNCHANGED barrierVars PROVE ProgramInv'
  BY <1>5, EnterProgram DEF ThreadExit, barrierVars
<1>6. ASSUME NEW t \in Threads, HostStep(t) PROVE ProgramInv'
  BY <1>6, KeepProgram DEF HostStep, FutexSleep, Return, barrierVars
<1>7. ASSUME NEW t \in Threads, Executes(t) PROVE ProgramInv'
  BY <1>7, KeepProgram DEF Executes, Execute, EnterBarrier
<1>8. CASE ServerStep
  <2>1. CASE BarrierSignal
    BY <2>1, KeepProgram DEF BarrierSignal, barrierVars
  <2>2. CASE BarrierRelease
    BY <2>2, KeepProgram DEF BarrierRelease
  <2>3. CASE Advance
    BY <2>3, KeepProgram DEF Advance
  <2>4. CASE StallDecided /\ UNCHANGED barrierVars
    BY <2>4, KeepProgram DEF StallDecided, barrierVars
  <2> QED
    BY <1>8, <2>1, <2>2, <2>3, <2>4 DEF ServerStep
<1> QED
  BY <1>1, <1>2, <1>3, <1>4, <1>5, <1>6, <1>7, <1>8 DEF Next

(* Under the same condition every variable of simulation control keeps its
   type.                                                                   *)
THEOREM ControlTypesHold == ~ JoinsEarly /\ Spec => []TypeOK
<1>1. ~ JoinsEarly /\ Init => RunInv /\ QueueInv /\ OwnerInv /\ ProgramInv
  <2>1. Init => ProgramInv
    <3> SUFFICES ASSUME Init PROVE ProgramInv
      OBVIOUS
    <3>1. program \in Programs /\ calls = [t \in Threads |-> 0] /\ aborted = FALSE
      BY DEF Init, ThreadInit
    <3> QED
      BY <3>1 DEF ProgramInv
  <2> QED
    BY <2>1, InitInv, InitQueues, InitOwners
<1>2. RunInv /\ QueueInv /\ OwnerInv /\ ProgramInv /\ [Next]_vars
        => (RunInv /\ QueueInv /\ OwnerInv /\ ProgramInv)'
  BY NextInv, NextQueues, NextOwners, NextProgram DEF RunInv
<1>3. RunInv /\ QueueInv /\ OwnerInv /\ ProgramInv => TypeOK
  <2> SUFFICES ASSUME RunInv, QueueInv, OwnerInv, ProgramInv PROVE TypeOK
    OBVIOUS
  <2>1. ThreadTypeOK
    BY DEF ThreadTypeOK, RunInv, SkewInv, HostTypeOK, QueueInv, HostCalls, ProgramInv
  <2>2. SyncTypeOK
    BY DEF SyncTypeOK, QueueInv, MonitorQueues, BarrierQueue, OwnerInv, MutexInv
  <2>3. SyscallTypeOK
    BY DEF SyscallTypeOK, QueueInv, SleepQueue, FutexQueues
  <2> QED
    BY <2>1, <2>2, <2>3 DEF TypeOK, RunInv, SkewInv, HostTypeOK, ProgramInv
<1> QED
  BY <1>1, <1>2, <1>3, PTL DEF Spec

-----------------------------------------------------------------------------
(* Somebody is there to make time pass. *)
Ticking ==
  \E t \in Threads : status[t] \in {"RUNNING", "INITIALIZING"}
                     \/ host[t] \in {"blocked", "resuming"}

(* Also in the middle of an operation: a thread that stalls makes time pass
   itself before it gives the lock up, and one that blocks will return.    *)
TimeInv == TimeoutPending => m_thread_lock.call \in {"stall", "block"} \/ Ticking

LEMMA TickingKept ==
  ASSUME Ticking, \A t \in Threads :
           /\ status[t] \in {"RUNNING", "INITIALIZING"} =>
                status'[t] \in {"RUNNING", "INITIALIZING"}
           /\ host[t] \in {"blocked", "resuming"} =>
                \/ host'[t] \in {"blocked", "resuming"}
                \/ status'[t] = "RUNNING"
  PROVE  Ticking'
BY DEF Ticking

LEMMA CallerTicks ==
  ASSUME NEW t \in Threads, status'[t] = "RUNNING"
  PROVE  TimeInv'
BY DEF TimeInv, Ticking

LEMMA ProceedTicks ==
  ASSUME RunInv, NEW t \in Threads, NEW ts, CallProceeds(t, ts)
  PROVE  TimeInv'
<1>1. HostTypeOK /\ status[t] = "RUNNING" /\ status' = Resumed(ts)
  BY CallerRuns DEF CallProceeds, Proceed, RunInv, SkewInv
<1>2. status'[t] = "RUNNING"
  BY <1>1, ResumedFacts
<1> QED
  BY <1>2, CallerTicks

LEMMA StallTicks ==
  ASSUME RunInv, NEW t \in Threads, NEW reason, NEW ts, NEW call, CallStalls(t, reason, ts, call)
  PROVE  TimeInv'
<1>1. call \in {"stall", "block"} /\ m_thread_lock' = Held(t, call, "signal")
  BY DEF CallStalls, Stall
<1>2. m_thread_lock'.call = call
  BY <1>1, HeldFacts
<1> QED
  BY <1>1, <1>2 DEF TimeInv

LEMMA ThreadStepTicks ==
  ASSUME RunInv, NEW t \in Threads, ThreadStep(t), UNCHANGED barrierVars
  PROVE  TimeInv'
<1>a. HostTypeOK
  BY DEF RunInv, SkewInv
<1>1. ASSUME NEW u \in Threads, CreateThread(t, u) PROVE TimeInv'
  <2>1. status'[u] = "INITIALIZING"
    BY <1>1, <1>a DEF CreateThread, HostTypeOK
  <2> QED
    BY <2>1 DEF TimeInv, Ticking
<1>2. ASSUME NEW u \in Threads, JoinThread(t, u) PROVE TimeInv'
  <2>1. WaiterAdded
    BY <1>2 DEF JoinThread, WaiterAdded
  <2>2. CallStalls(t, "JOIN", {}, "stall")
    BY <1>2, <2>1 DEF JoinThread, CallStalls, Calls, StallThread, Enter
  <2> QED
    BY <2>2, StallTicks
<1>3. CASE ThreadStart(t)
  <2>1. status'[t] = "RUNNING"
    BY <1>3, <1>a DEF ThreadStart, HostTypeOK
  <2> QED
    BY <2>1, CallerTicks
<1> QED
  BY <1>1, <1>2, <1>3 DEF ThreadStep

LEMMA SyscallTicks ==
  ASSUME RunInv, NEW t \in Threads, SyscallStep(t), UNCHANGED barrierVars
  PROVE  TimeInv'
<1>a. HostTypeOK
  BY DEF RunInv, SkewInv
<1>1. CASE BlockingReturn(t, m_next_barrier_time)
  <2>1. host'[t] = "resuming"
    BY <1>1, <1>a DEF BlockingReturn, HostTypeOK
  <2> QED
    BY <2>1 DEF TimeInv, Ticking
<1>2. CASE BlockingResume(t)
  <2>1. status'[t] = "RUNNING"
    BY <1>2, <1>a DEF BlockingResume, HostTypeOK
  <2> QED
    BY <2>1, CallerTicks
<1> QED
  BY <1>1, <1>2, <1>a, SyscallCalls, ProceedTicks, StallTicks

LEMMA HostTicks ==
  ASSUME RunInv, TimeInv, NEW t \in Threads, HostStep(t)
  PROVE  TimeInv'
<1>1. /\ UNCHANGED <<status, m_thread_lock, syscallVars>> /\ host[t] \in {"releasing", "waking"}
      /\ \A u \in Threads : u # t => host'[u] = host[u]
  BY DEF HostStep, FutexSleep, Return, RunInv, SkewInv, HostTypeOK
<1>2. Ticking => Ticking'
  BY <1>1, TickingKept
<1> QED
  BY <1>1, <1>2 DEF TimeInv, TimeoutPending, syscallVars

LEMMA ExecutesTicks ==
  ASSUME RunInv, NEW t \in Threads, Executes(t)
  PROVE  TimeInv'
<1>1. host[t] = "app" /\ UNCHANGED status
  BY DEF Executes, Execute, EnterBarrier
<1>2. status'[t] = "RUNNING"
  BY <1>1 DEF RunInv, AwakeRuns
<1> QED
  BY <1>2, CallerTicks

\* No queue gets a timeout by losing entries.
LEMMA PickedTimeout ==
  ASSUME NEW queue, NEW new, NEW D, NEW o, Picks(new, queue, D, o), HasTimeout(new)
  PROVE  HasTimeout(queue)
<1>1. PICK j \in 1..Len(new) : new[j].timeout # Never
  BY DEF HasTimeout
<1>2. o[j] \in 1..Len(queue) /\ new[j] = queue[o[j]]
  BY DEF Picks
<1> QED
  BY <1>1, <1>2 DEF HasTimeout

LEMMA PeriodicTimeouts ==
  ASSUME QueueInv, NEW time, FutexPeriodic(time), TimeoutPending'
  PROVE  TimeoutPending
<1>1. m_sleeping \in Seq(Waiters) /\ m_futexes \in [Futexes -> Seq(Waiters)]
  BY DEF QueueInv, SleepQueue, FutexQueues
<1>2. CASE HasTimeout(m_sleeping')
  <2>1. HasTimeout(WithoutTimedOut(m_sleeping, time))
    BY <1>2 DEF FutexPeriodic
  <2>2. PICK o : Picks(WithoutTimedOut(m_sleeping, time), m_sleeping,
                       FirstExpired(m_sleeping, time), o)
    BY <1>1, TimedOutPicks
  <2> QED
    BY <2>1, <2>2, PickedTimeout DEF TimeoutPending
<1>3. ASSUME NEW f \in Futexes, HasTimeout(m_futexes'[f])
      PROVE  TimeoutPending
  <2>1. HasTimeout(WithoutTimedOut(m_futexes[f], time)) /\ m_futexes[f] \in Seq(Waiters)
    BY <1>1, <1>3 DEF FutexPeriodic
  <2>2. PICK o : Picks(WithoutTimedOut(m_futexes[f], time), m_futexes[f],
                       FirstExpired(m_futexes[f], time), o)
    BY <2>1, TimedOutPicks
  <2> QED
    BY <2>1, <2>2, PickedTimeout DEF TimeoutPending
<1> QED
  BY <1>2, <1>3 DEF TimeoutPending

\* A thread that exits leaves another one that runs, or nobody to wait for.
LEMMA ExitTicks ==
  ASSUME ~ LastLeaves, RunInv, QueueInv, TimeInv, NEW t \in Threads, NEW f, ThreadExit(t, f)
  PROVE  TimeInv'
<1> DEFINE woken == IF f \in Futexes THEN First(m_futexes[f], 1) ELSE {}
<1>a. /\ HostTypeOK /\ status[t] = "RUNNING" /\ host[t] = "app"
      /\ \A reasons : ~ Stuck(t, reasons)
  <2>1. host[t] = "app"
    BY DEF ThreadExit, Enter
  <2>2. status[t] = "RUNNING"
    BY <2>1 DEF RunInv, AwakeRuns
  <2> QED
    BY <2>1, <2>2 DEF RunInv, SkewInv, Stuck
<1>b. PICK R : R = Joiners(t) \cup woken
  OBVIOUS
<1>c. /\ \/ R # {} \/ ~ TimeoutPending
         \/ \E u \in Threads \ {t} : status[u] \in {"RUNNING", "INITIALIZING"}
      /\ status' = [Resumed(R) EXCEPT ![t] = "IDLE"]
      /\ m_futexes' = [g \in Futexes |-> IF g = f THEN Without(m_futexes[g], 1) ELSE m_futexes[g]]
      /\ UNCHANGED m_sleeping
  BY <1>b DEF ThreadExit, Exit
<1>1. \A u \in Threads : u # t => status'[u] = IF u \in R THEN "RUNNING" ELSE status[u]
  BY <1>a, <1>c, ResumedFacts
<1>2. ASSUME NEW u \in R PROVE Ticking'
  <2>1. CASE u \in Joiners(t)
    <3>1. u \in Threads /\ waiter[t] = u
      BY <1>a, <2>1 DEF Joiners, HostTypeOK
    <3>2. Stuck(u, {"JOIN"})
      BY <3>1 DEF QueueInv, JoinQueue
    <3> QED
      BY <1>1, <1>2, <1>a, <3>1, <3>2 DEF Ticking
  <2>2. CASE f \in Futexes /\ u \in First(m_futexes[f], 1)
    <3>1. m_futexes[f] \in Seq(Waiters)
      BY <2>2 DEF QueueInv, FutexQueues
    <3>2. u \in Who(m_futexes[f])
      BY <2>2, <3>1, FirstWaits
    <3>3. u \in Threads /\ Stuck(u, {"FUTEX"})
      BY <2>2, <3>2, WaitersAreStuck
    <3> QED
      BY <1>1, <1>2, <1>a, <3>3 DEF Ticking
  <2> QED
    BY <1>2, <1>b, <2>1, <2>2
<1>3. ASSUME ~ TimeoutPending PROVE ~ TimeoutPending'
  <2>1. ~ HasTimeout(m_sleeping') /\ \A g \in Futexes : ~ HasTimeout(m_futexes[g])
    BY <1>3, <1>c DEF TimeoutPending
  <2>2. ASSUME NEW g \in Futexes PROVE ~ HasTimeout(m_futexes'[g])
    <3>1. CASE g = f
      <4>1. m_futexes'[g] = Without(m_futexes[g], 1) /\ m_futexes[g] \in Seq(Waiters)
        BY <1>c, <3>1 DEF QueueInv, FutexQueues
      <4>2. PICK D, o : Picks(Without(m_futexes[g], 1), m_futexes[g], D, o)
        BY <4>1, WithoutPicks
      <4> QED
        BY <2>1, <4>1, <4>2, PickedTimeout
    <3>2. CASE g # f
      BY <1>c, <2>1, <3>2
    <3> QED
      BY <3>1, <3>2
  <2> QED
    BY <2>1, <2>2 DEF TimeoutPending
<1>4. ASSUME NEW u \in Threads \ {t}, status[u] \in {"RUNNING", "INITIALIZING"}
      PROVE  Ticking'
  BY <1>1, <1>4 DEF Ticking
<1> QED
  BY <1>2, <1>3, <1>4, <1>c DEF TimeInv

\* The end of an operation: a core that leaves the barrier or waits in it runs.
LEMMA CompleteTicks ==
  ASSUME RunInv, TimeInv, NEW t \in Threads, m_thread_lock # Free, m_thread_lock.by = t,
         NEW freed, NEW cvs, Complete(t, m_thread_lock.call, freed, cvs),
         \A u \in Threads : status'[u] \in {status[u], "RUNNING"},
         TimeoutPending' => TimeoutPending
  PROVE  TimeInv'
<1>1. HostTypeOK /\ host[t] = "serving" /\ m_thread_lock.call \in CallKinds
  BY LockFacts DEF RunInv, SkewInv, HolderServes, CallKinds
<1>2. Hear(t, cvs) /\ Ends(t, m_thread_lock.call, freed)
  BY <1>1, CompleteFacts
<1>3. CASE m_thread_lock.call = "stall"
  <2>1. m_thread_lock'.call = "stall"
    BY <1>2, <1>3, HeldFacts DEF Ends
  <2> QED
    BY <2>1 DEF TimeInv
<1>4. CASE m_thread_lock.call = "sync"
  <2>1. status[t] = "RUNNING"
    BY <1>4 DEF RunInv, AwakeRuns
  <2>2. status'[t] = "RUNNING"
    BY <2>1
  <2> QED
    BY <2>2, CallerTicks
<1>5. CASE m_thread_lock.call = "block"
  <2>1. host'[t] = "blocked"
    BY <1>1, <1>5, SignalledFacts DEF Complete
  <2> QED
    BY <2>1 DEF TimeInv, Ticking
<1>6. CASE m_thread_lock.call = "exit"
  <2>1. \A u \in Threads : host[u] \in {"blocked", "resuming"} => host'[u] = host[u]
    BY <1>1, <1>2 DEF Hear
  <2>2. Ticking => Ticking'
    BY <2>1, TickingKept
  <2> QED
    BY <1>6, <2>2 DEF TimeInv
<1> QED
  BY <1>1, <1>3, <1>4, <1>5, <1>6 DEF CallKinds

LEMMA ServerTicks ==
  ASSUME RunInv, QueueInv, TimeInv, BarrierSignal \/ BarrierRelease \/ Advance \/ StallDecided
  PROVE  TimeInv'
<1>1. PICK t \in Threads : m_thread_lock # Free /\ m_thread_lock.by = t /\ HostTypeOK
  BY HolderIsThread DEF BarrierSignal, BarrierRelease, Advance, StallDecided
<1>2. CASE BarrierSignal
  <2>1. UNCHANGED <<status, syscallVars>>
    BY <1>2 DEF BarrierSignal
  <2>2. TimeoutPending' => TimeoutPending
    BY <2>1 DEF TimeoutPending, syscallVars
  <2>3. CASE m_thread_lock' = Held(t, m_thread_lock.call, "release") /\ UNCHANGED host
    <3>1. m_thread_lock'.call = m_thread_lock.call
      BY <2>3 DEF Held
    <3>2. Ticking => Ticking'
      BY <2>1, <2>3, TickingKept
    <3> QED
      BY <2>2, <3>1, <3>2 DEF TimeInv
  <2>4. CASE Complete(t, m_thread_lock.call, {}, {})
    BY <1>1, <2>1, <2>2, <2>4, CompleteTicks
  <2> QED
    BY <1>1, <1>2, <2>3, <2>4 DEF BarrierSignal
<1>3. CASE BarrierRelease
  <2>1. PICK time : FutexPeriodic(time)
    BY <1>3 DEF BarrierRelease
  <2>2. TimeoutPending' => TimeoutPending
    BY <2>1, PeriodicTimeouts
  <2>3. \A u \in Threads : status'[u] \in {status[u], "RUNNING"}
    BY <1>1, <2>1, ResumedFacts DEF FutexPeriodic
  <2>4. PICK freed, cvs :
          \/ host' = Signalled(cvs) /\ UNCHANGED m_thread_lock
          \/ Complete(t, m_thread_lock.call, freed, cvs)
    BY <1>1, <1>3 DEF BarrierRelease
  <2>5. CASE host' = Signalled(cvs) /\ UNCHANGED m_thread_lock
    <3>1. \A u \in Threads : host[u] \in {"blocked", "resuming"} => host'[u] = host[u]
      BY <1>1, <2>5, SignalledFacts
    <3>2. Ticking => Ticking'
      BY <2>3, <3>1, TickingKept
    <3> QED
      BY <2>2, <2>5, <3>2 DEF TimeInv
  <2>6. CASE Complete(t, m_thread_lock.call, freed, cvs)
    BY <1>1, <2>2, <2>3, <2>6, CompleteTicks
  <2> QED
    BY <2>4, <2>5, <2>6
<1>4. CASE Advance
  <2>1. m_thread_lock.call = "stall" /\ UNCHANGED m_thread_lock
    BY <1>4 DEF Advance, RunInv, SkewInv, HolderServes
  <2> QED
    BY <2>1 DEF TimeInv
<1>5. CASE StallDecided
  <2>1. PICK u \in Threads : status'[u] \in {"RUNNING", "INITIALIZING"}
    BY <1>5 DEF StallDecided, AnyThreadRunning
  <2> QED
    BY <2>1 DEF TimeInv, Ticking
<1> QED
  BY <1>2, <1>3, <1>4, <1>5

LEMMA NextTicks ==
  ASSUME ~ LastLeaves, RunInv, QueueInv, TimeInv, [Next]_vars
  PROVE  TimeInv'
<1>1. CASE UNCHANGED vars
  BY <1>1 DEF vars, threadVars, syscallVars, TimeInv, TimeoutPending, Ticking
<1>2. ASSUME NEW t \in Threads, ThreadStep(t), UNCHANGED barrierVars PROVE TimeInv'
  BY <1>2, ThreadStepTicks
<1>3. ASSUME NEW t \in Threads, SyncStep(t), UNCHANGED barrierVars PROVE TimeInv'
  BY <1>3, SyncCalls, ProceedTicks, StallTicks DEF RunInv, SkewInv
<1>4. ASSUME NEW t \in Threads, SyscallStep(t), UNCHANGED barrierVars PROVE TimeInv'
  BY <1>4, SyscallTicks
<1>5. ASSUME NEW t \in Threads, NEW f, ThreadExit(t, f) PROVE TimeInv'
  BY <1>5, ExitTicks
<1>6. ASSUME NEW t \in Threads, HostStep(t) PROVE TimeInv'
  BY <1>6, HostTicks
<1>7. ASSUME NEW t \in Threads, Executes(t) PROVE TimeInv'
  BY <1>7, ExecutesTicks
<1>8. CASE ServerStep
  BY <1>8, ServerTicks DEF ServerStep
<1> QED
  BY <1>1, <1>2, <1>3, <1>4, <1>5, <1>6, <1>7, <1>8 DEF Next

(* If nobody joins a thread before it starts, and unless the last running
   thread exits while others wait for a timeout, somebody is always there to
   make time pass for them (thread_manager.cc, barrier_sync_server.cc).    *)
THEOREM TimeGoesOn == ~ JoinsEarly /\ ~ LastLeaves /\ Spec => []TimeAdvances
<1> DEFINE Inv == ~ LastLeaves /\ RunInv /\ QueueInv /\ TimeInv
<1>1. ~ JoinsEarly /\ ~ LastLeaves /\ Init => Inv
  <2>1. ASSUME Init PROVE TimeInv
    <3>1. m_sleeping = <<>> /\ m_futexes = [f \in Futexes |-> <<>>]
      BY <2>1 DEF Init, SyscallInit
    <3>2. ~ HasTimeout(m_sleeping) /\ \A f \in Futexes : ~ HasTimeout(m_futexes[f])
      BY <3>1 DEF HasTimeout
    <3> QED
      BY <3>2 DEF TimeInv, TimeoutPending
  <2> QED
    BY <2>1, InitInv, InitQueues
<1>2. Inv /\ [Next]_vars => Inv'
  BY NextInv, NextQueues, NextTicks DEF RunInv
<1>3. Inv => TimeAdvances
  BY DEF TimeInv, TimeAdvances, Ticking, Free
<1> QED
  BY <1>1, <1>2, <1>3, PTL DEF Spec

-----------------------------------------------------------------------------
(* The refinement of Monitor.  By the invariants a thread is about to enter
   the mutex it wants exactly if it is in the queue of no condition.       *)
LEMMA EnteringQueues ==
  ASSUME NEW conds \in [Conds -> Seq(CondWaiters)], NEW wants,
         \A c \in Conds : \A i \in 1..Len(conds[c]) : wants[conds[c][i].thread] = conds[c][i].mutex,
         NEW t \in Threads, NEW m \in Mutexes, wants[t] = m
  PROVE  (\A c \in Conds : CondWaiter(t, m) \notin Elements(conds[c])) <=> t \notin Queued(conds, Conds)
<1>1. ASSUME NEW c \in Conds, CondWaiter(t, m) \in Elements(conds[c])
      PROVE  t \in Queued(conds, Conds)
  <2>1. PICK i \in 1..Len(conds[c]) : conds[c][i] = CondWaiter(t, m)
    BY <1>1 DEF Elements
  <2>2. conds[c][i].thread = t
    BY <2>1 DEF CondWaiter
  <2> QED
    BY <2>2 DEF Queued, Who
<1>2. ASSUME t \in Queued(conds, Conds)
      PROVE  \E c \in Conds : CondWaiter(t, m) \in Elements(conds[c])
  <2>1. PICK c \in Conds : \E i \in 1..Len(conds[c]) : conds[c][i].thread = t
    BY <1>2 DEF Queued, Who
  <2>2. PICK i \in 1..Len(conds[c]) : conds[c][i].thread = t
    BY <2>1
  <2>3. conds[c] \in Seq(CondWaiters)
    OBVIOUS
  <2>4. conds[c][i] \in CondWaiters
    BY <2>3
  <2>5. conds[c][i].mutex = m
    BY <2>2
  <2>6. conds[c][i] = CondWaiter(t, m)
    BY <2>2, <2>4, <2>5 DEF CondWaiters, CondWaiter
  <2> QED
    BY <2>6 DEF Elements
<1> QED
  BY <1>1, <1>2

LEMMA EnteringFacts ==
  ASSUME MonitorQueues
  PROVE  /\ Entering = [m \in Mutexes |-> Entering[m]]
         /\ \A m \in Mutexes : \A u : u \in Entering[m] <=>
              u \in Threads /\ want[u] = m /\ u \notin Queued(m_conds, Conds)
<1>1. /\ m_conds \in [Conds -> Seq(CondWaiters)]
      /\ \A c \in Conds : \A i \in 1..Len(m_conds[c]) : want[m_conds[c][i].thread] = m_conds[c][i].mutex
  BY DEF MonitorQueues
<1>2. ASSUME NEW m \in Mutexes, NEW u
      PROVE  u \in Entering[m] <=> u \in Threads /\ want[u] = m /\ u \notin Queued(m_conds, Conds)
  <2>1. u \in Entering[m] <=> /\ u \in Threads /\ want[u] = m
                              /\ \A c \in Conds : CondWaiter(u, m) \notin Elements(m_conds[c])
    BY DEF Entering
  <2> QED
    BY <1>1, <2>1, EnteringQueues
<1> QED
  BY <1>2 DEF Entering

\* The same after a step.
LEMMA EnteringNext ==
  ASSUME MonitorQueues'
  PROVE  /\ Entering' = [m \in Mutexes |-> (Entering')[m]]
         /\ \A m \in Mutexes : \A u : u \in (Entering')[m] <=>
              u \in Threads /\ want'[u] = m /\ u \notin Queued(m_conds', Conds)
<1> DEFINE conds == m_conds' wants == want'
<1>1. /\ conds \in [Conds -> Seq(CondWaiters)]
      /\ \A c \in Conds : \A i \in 1..Len(conds[c]) : wants[conds[c][i].thread] = conds[c][i].mutex
  BY DEF MonitorQueues
<1>a. Entering' = [m \in Mutexes |-> {t \in Threads : wants[t] = m /\ \A c \in Conds :
                       CondWaiter(t, m) \notin Elements(conds[c])}]
  BY DEF Entering
<1> HIDE DEF conds, wants
<1>2. ASSUME NEW m \in Mutexes, NEW u
      PROVE  u \in (Entering')[m] <=> u \in Threads /\ wants[u] = m /\ u \notin Queued(conds, Conds)
  <2>1. u \in (Entering')[m] <=> /\ u \in Threads /\ wants[u] = m
                              /\ \A c \in Conds : CondWaiter(u, m) \notin Elements(conds[c])
    BY <1>a
  <2> QED
    BY <1>1, <2>1, EnteringQueues
<1> QED
  BY <1>2, <1>a DEF conds, wants

LEMMA WaitingFacts ==
  /\ Waiting = [c \in Conds |-> Pairs(m_conds[c])]
  /\ Waiting' = [c \in Conds |-> Pairs(m_conds'[c])]
BY DEF Waiting, Elements, Pairs

\* A thread that calls waits for nothing.
LEMMA CallerActs ==
  ASSUME RunInv, QueueInv, OwnerInv, NEW t \in Threads, Calls(t)
  PROVE  ~ AbstractMonitor!Suspended(t)
<1>1. want[t] = NoMutex /\ MonitorQueues
  BY CallerWantsNothing DEF OwnerInv, QueueInv
<1>2. ASSUME NEW m \in Mutexes, t \in Entering[m] PROVE FALSE
  BY <1>1, <1>2, EnteringFacts, MutexAssumption
<1>3. ASSUME NEW c \in Conds, NEW m \in Mutexes, <<t, m>> \in Waiting[c] PROVE FALSE
  <2>1. PICK i \in 1..Len(m_conds[c]) : <<t, m>> = <<m_conds[c][i].thread, m_conds[c][i].mutex>>
    BY <1>3, WaitingFacts DEF Pairs
  <2> QED
    BY <1>1, <2>1, CondFacts, MutexAssumption
<1> QED
  BY <1>2, <1>3 DEF AbstractMonitor!Suspended

\* Two families of sets are the same if they have the same elements.
LEMMA SameFamily ==
  ASSUME NEW keys, NEW f, NEW g, f = [k \in keys |-> f[k]], g = [k \in keys |-> g[k]],
         \A k \in keys : \A u : u \in f[k] <=> u \in g[k]
  PROVE  f = g
<1>1. \A k \in keys : f[k] = g[k]
  OBVIOUS
<1> QED
  BY <1>1

LEMMA Stutters ==
  ASSUME UNCHANGED <<m_conds, want, inside>>
  PROVE  UNCHANGED AbstractMonitor!vars
BY DEF AbstractMonitor!vars, Entering, Waiting

Refined == [AbstractMonitor!Next]_AbstractMonitor!vars

LEMMA CallerUnqueued ==
  ASSUME MonitorQueues, NEW t \in Threads, want[t] = NoMutex
  PROVE  t \notin Queued(m_conds, Conds)
<1> SUFFICES ASSUME t \in Queued(m_conds, Conds) PROVE FALSE
  OBVIOUS
<1>1. PICK c \in Conds : \E i \in 1..Len(m_conds[c]) : m_conds[c][i].thread = t
  BY DEF Queued, Who
<1>2. PICK i \in 1..Len(m_conds[c]) : m_conds[c][i].thread = t
  BY <1>1
<1> QED
  BY <1>2, CondFacts, MutexAssumption

LEMMA LockRefines ==
  ASSUME RunInv, QueueInv, QueueInv', OwnerInv, NEW t \in Threads, NEW m \in Mutexes,
         NEW tryLock \in BOOLEAN, MutexLock(t, m, tryLock), UNCHANGED <<syscallVars, barrierVars>>
  PROVE  Refined
<1>a. /\ Calls(t) /\ MonitorQueues /\ MonitorQueues' /\ MutexInv /\ WantInv /\ m_conds' = m_conds
  BY DEF MutexLock, Enter, Calls, OwnerInv, QueueInv
<1>b. ~ AbstractMonitor!Suspended(t) /\ want[t] = NoMutex
  BY <1>a, CallerActs, CallerWantsNothing
<1>c. Waiting' = Waiting
  BY <1>a DEF Waiting
<1>1. CASE /\ m_owner[m] = NoThread /\ inside' = [inside EXCEPT ![m] = @ \cup {t}]
           /\ want' = want
  <2>1. inside[m] = {} /\ inside' = [inside EXCEPT ![m] = {t}]
    BY <1>1, <1>a, InsideFacts
  <2>2. Entering' = Entering
    BY <1>1, <1>a DEF Entering
  <2>3. [Entering EXCEPT ![m] = @ \ {t}] = Entering
    <3>1. t \notin Entering[m]
      BY <1>a, <1>b, EnteringFacts, MutexAssumption
    <3>2. Entering[m] \ {t} = Entering[m]
      BY <3>1
    <3>3. Entering = [k \in Mutexes |-> Entering[k]]
      BY <1>a, EnteringFacts
    <3> QED
      BY <3>2, <3>3
  <2>4. AbstractMonitor!Enter(t, m)
    BY <1>b, <1>c, <2>1, <2>2, <2>3 DEF AbstractMonitor!Enter
  <2> QED
    BY <2>4 DEF Refined, AbstractMonitor!Next
<1>2. CASE want' = [want EXCEPT ![t] = m] /\ inside' = inside
  <2> DEFINE more == [Entering EXCEPT ![m] = @ \cup {t}]
  <2>1. \A u \in Threads : want'[u] = IF u = t THEN m ELSE want[u]
    BY <1>2, <1>a DEF MonitorQueues
  <2>2. t \notin Queued(m_conds, Conds)
    BY <1>a, <1>b, CallerUnqueued
  <2>3. /\ more = [k \in Mutexes |-> more[k]]
        /\ \A k \in Mutexes : \A u : u \in more[k] <=> u \in Entering[k] \/ (u = t /\ k = m)
    BY <1>a, EnteringFacts
  <2>4. \A k \in Mutexes : \A u : u \in (Entering')[k] <=> u \in more[k]
    BY <1>a, <1>b, <2>1, <2>2, <2>3, EnteringFacts, EnteringNext, MutexAssumption
  <2>5. Entering' = [k \in Mutexes |-> (Entering')[k]]
    BY <1>a, EnteringNext
  <2>6. Entering' = more
    <3> HIDE DEF more
    <3> DEFINE new == Entering'
    <3>1. /\ new = [k \in Mutexes |-> new[k]]
          /\ \A k \in Mutexes : \A u : u \in new[k] <=> u \in more[k]
      BY <2>4, <2>5
    <3> HIDE DEF new
    <3>2. new = more
      BY <2>3, <3>1, SameFamily
    <3> QED
      BY <3>2 DEF new
  <2>7. AbstractMonitor!Request(t, m)
    BY <1>2, <1>b, <1>c, <2>6 DEF AbstractMonitor!Request
  <2> QED
    BY <2>7 DEF Refined, AbstractMonitor!Next
<1> QED
  BY <1>1, <1>2 DEF MutexLock

LEMMA UnlockRefines ==
  ASSUME RunInv, QueueInv, OwnerInv, NEW t \in Threads, NEW m \in Mutexes,
         MutexUnlock(t, m), UNCHANGED <<syscallVars, barrierVars>>
  PROVE  Refined
<1>a. /\ Calls(t) /\ MutexInv /\ WantInv
      /\ m_owner[m] = t /\ inside' = [inside EXCEPT ![m] = @ \ {t}] /\ UNCHANGED <<m_conds, want>>
  BY DEF MutexUnlock, Unlock, Enter, Calls, OwnerInv
<1>b. ~ AbstractMonitor!Suspended(t) /\ want[t] = NoMutex
  BY <1>a, CallerActs, CallerWantsNothing
<1>1. t \in inside[m]
  BY <1>a, <1>b, InsideFacts
<1>2. Entering' = Entering /\ Waiting' = Waiting
  BY <1>a DEF Entering, Waiting
<1>3. AbstractMonitor!Leave(t, m)
  BY <1>a, <1>b, <1>1, <1>2 DEF AbstractMonitor!Leave
<1> QED
  BY <1>3 DEF Refined, AbstractMonitor!Next

\* The queues of the conditions after a wait.
Waited(t, c, m) == m_conds' = [m_conds EXCEPT ![c] = Append(@, CondWaiter(t, m))]

LEMMA WaitAppends ==
  ASSUME MonitorQueues, NEW t \in Threads, NEW c \in Conds, NEW m \in Mutexes,
         Waited(t, c, m)
  PROVE  /\ \A u : u \in Queued(m_conds', Conds) <=> u \in Queued(m_conds, Conds) \/ u = t
         /\ \A k \in Conds : k # c => m_conds'[k] = m_conds[k]
         /\ Pairs(m_conds'[c]) = Pairs(m_conds[c]) \cup {<<t, m>>}
<1> DEFINE new == m_conds'
<1>1. m_conds[c] \in Seq(CondWaiters) /\ CondWaiter(t, m) \in CondWaiters
  BY DEF MonitorQueues, CondWaiter, CondWaiters
<1>2. CondWaiter(t, m).thread = t /\ CondWaiter(t, m).mutex = m
  BY DEF CondWaiter
<1>3. new[c] = Append(m_conds[c], CondWaiter(t, m)) /\ \A k \in Conds : k # c => new[k] = m_conds[k]
  BY DEF MonitorQueues, Waited
<1> HIDE DEF new
<1>4. /\ Len(m_conds[c]) \in Nat /\ Len(new[c]) = Len(m_conds[c]) + 1
      /\ new[c][Len(m_conds[c]) + 1] = CondWaiter(t, m)
      /\ \A i \in 1..Len(m_conds[c]) : new[c][i] = m_conds[c][i]
  BY <1>1, <1>3, AppendFacts
<1>5. PICK n \in Nat : n = Len(m_conds[c])
  BY <1>4
<1>6. \A i : i \in 1..n + 1 <=> i \in 1..n \/ i = n + 1
  OBVIOUS
<1>7. \A u : u \in Who(new[c]) <=> u \in Who(m_conds[c]) \/ u = t
  BY <1>2, <1>4, <1>5, <1>6 DEF Who
<1>8. Pairs(new[c]) = Pairs(m_conds[c]) \cup {<<t, m>>}
  <2>1. \A p : p \in Pairs(new[c]) <=> p \in Pairs(m_conds[c]) \/ p = <<t, m>>
    BY <1>2, <1>4, <1>5, <1>6 DEF Pairs
  <2> QED
    BY <2>1
<1>9. \A u : u \in Queued(new, Conds) <=> u \in Queued(m_conds, Conds) \/ u = t
  BY <1>3, <1>7 DEF Queued
<1> QED
  BY <1>3, <1>8, <1>9 DEF new

LEMMA WaitRefines ==
  ASSUME RunInv, QueueInv, QueueInv', OwnerInv, NEW t \in Threads, NEW c \in Conds,
         NEW m \in Mutexes, CondWait(t, c, m), UNCHANGED <<syscallVars, barrierVars>>
  PROVE  Refined
<1>a. /\ Calls(t) /\ MonitorQueues /\ MutexInv /\ WantInv
      /\ m_owner[m] = t /\ inside' = [inside EXCEPT ![m] = @ \ {t}]
      /\ Waited(t, c, m) /\ want' = [want EXCEPT ![t] = m]
  BY DEF Waited, CondWait, Unlock, Enter, Calls, OwnerInv, QueueInv
<1>n. MonitorQueues'
  BY DEF QueueInv
<1>b. ~ AbstractMonitor!Suspended(t) /\ want[t] = NoMutex
  BY <1>a, CallerActs, CallerWantsNothing
<1>1. t \in inside[m]
  BY <1>a, <1>b, InsideFacts
<1>2. \A u \in Threads : want'[u] = IF u = t THEN m ELSE want[u]
  BY <1>a DEF MonitorQueues
<1>3. \A u : u \in Queued(m_conds', Conds) <=> u \in Queued(m_conds, Conds) \/ u = t
  BY <1>a, WaitAppends
<1>4. Entering' = Entering
  <2> DEFINE new == Entering'
  <2>1. \A k \in Mutexes : \A u : u \in (Entering')[k] <=> u \in Entering[k]
    <3>1. \A k \in Mutexes : \A u :
            u \in Entering[k] <=> u \in Threads /\ want[u] = k /\ u \notin Queued(m_conds, Conds)
      BY <1>a, EnteringFacts
    <3>2. \A k \in Mutexes : \A u :
            u \in (Entering')[k] <=> u \in Threads /\ want'[u] = k /\ u \notin Queued(m_conds', Conds)
      BY <1>n, EnteringNext
    <3> QED
      BY <1>b, <1>2, <1>3, <3>1, <3>2, MutexAssumption
  <2>2. new = [k \in Mutexes |-> new[k]] /\ \A k \in Mutexes : \A u : u \in new[k] <=> u \in Entering[k]
    BY <1>n, <2>1, EnteringNext
  <2>3. Entering = [k \in Mutexes |-> Entering[k]]
    BY <1>a, EnteringFacts
  <2> HIDE DEF new
  <2>4. new = Entering
    BY <2>2, <2>3, SameFamily
  <2> QED
    BY <2>4 DEF new
<1>5. Waiting' = [Waiting EXCEPT ![c] = @ \cup {<<t, m>>}]
  <2>1. /\ Pairs(m_conds'[c]) = Pairs(m_conds[c]) \cup {<<t, m>>}
        /\ \A k \in Conds : k # c => m_conds'[k] = m_conds[k]
    BY <1>a, WaitAppends
  <2> QED
    BY <2>1, WaitingFacts
<1>6. AbstractMonitor!Wait(t, m, c)
  BY <1>a, <1>b, <1>1, <1>4, <1>5 DEF AbstractMonitor!Wait
<1> QED
  BY <1>6 DEF Refined, AbstractMonitor!Next

\* The mutexes that the woken threads want are those they gave up.
LEMMA FirstPairsFacts ==
  ASSUME MonitorQueues, NEW c \in Conds, NEW n \in Nat
  PROVE  /\ FirstPairs(m_conds[c], n) \subseteq Waiting[c]
         /\ \A u, m : <<u, m>> \in FirstPairs(m_conds[c], n) <=>
              u \in First(m_conds[c], n) /\ m = want[u]
         /\ \A u \in First(m_conds[c], n) : u \in Threads /\ u \in Queued(m_conds, Conds)
<1>1. Len(m_conds[c]) \in Nat
  BY DEF MonitorQueues
<1>2. \A i \in 1..Least(n, Len(m_conds[c])) : i \in 1..Len(m_conds[c])
  BY <1>1 DEF Least
<1>3. \A i \in 1..Least(n, Len(m_conds[c])) :
        /\ want[m_conds[c][i].thread] = m_conds[c][i].mutex
        /\ m_conds[c][i].thread \in Threads /\ m_conds[c][i].thread \in Queued(m_conds, Conds)
  BY <1>2, CondFacts
<1>4. FirstPairs(m_conds[c], n) \subseteq Waiting[c]
  BY <1>2, WaitingFacts DEF FirstPairs, Pairs
<1>5. \A u : u \in First(m_conds[c], n) <=>
               \E i \in 1..Least(n, Len(m_conds[c])) : m_conds[c][i].thread = u
  BY DEF First
<1>6. \A u, m : <<u, m>> \in FirstPairs(m_conds[c], n) <=>
        \E i \in 1..Least(n, Len(m_conds[c])) : m_conds[c][i].thread = u /\ m_conds[c][i].mutex = m
  BY DEF FirstPairs
<1> QED
  BY <1>3, <1>4, <1>5, <1>6

LEMMA SignalRefines ==
  ASSUME RunInv, QueueInv, QueueInv', OwnerInv, NEW t \in Threads, NEW c \in Conds, NEW n \in Nat,
         Calls(t), Dismissed(c, n), want' = want, inside' = inside
  PROVE  Refined
<1>a. MonitorQueues /\ MonitorQueues'
  BY DEF QueueInv
<1>b. ~ AbstractMonitor!Suspended(t)
  BY CallerActs
<1> DEFINE woken == FirstPairs(m_conds[c], n)
           more == [m \in Mutexes |-> Entering[m] \cup {u \in Threads : <<u, m>> \in woken}]
<1>1. /\ woken \subseteq Waiting[c]
      /\ \A u, m : <<u, m>> \in woken <=> u \in First(m_conds[c], n) /\ m = want[u]
      /\ \A u \in First(m_conds[c], n) : u \in Threads /\ u \in Queued(m_conds, Conds)
  BY <1>a, FirstPairsFacts
<1>2. /\ \A u : u \in Queued(m_conds', Conds) <=>
                  u \in Queued(m_conds, Conds) /\ u \notin First(m_conds[c], n)
      /\ \A k \in Conds : k # c => m_conds'[k] = m_conds[k]
      /\ Pairs(m_conds'[c]) = Pairs(m_conds[c]) \ woken
  BY <1>a, DismissedFacts
<1> HIDE DEF woken
<1>3. Waiting' = [Waiting EXCEPT ![c] = @ \ woken]
  BY <1>2, WaitingFacts
<1>4. Entering' = more
  <2> DEFINE new == Entering'
  <2>1. \A k \in Mutexes : \A u :
          u \in Entering[k] <=> u \in Threads /\ want[u] = k /\ u \notin Queued(m_conds, Conds)
    BY <1>a, EnteringFacts
  <2>2. /\ new = [k \in Mutexes |-> new[k]]
        /\ \A k \in Mutexes : \A u :
             u \in new[k] <=> u \in Threads /\ want[u] = k /\ u \notin Queued(m_conds', Conds)
    BY <1>a, EnteringNext
  <2> HIDE DEF new
  <2>3. \A k \in Mutexes : \A u : u \in new[k] <=> u \in more[k]
    BY <1>1, <1>2, <2>1, <2>2
  <2>4. more = [k \in Mutexes |-> more[k]]
    OBVIOUS
  <2> HIDE DEF more
  <2>5. new = more
    BY <2>2, <2>3, <2>4, SameFamily
  <2> QED
    BY <2>5 DEF new
<1>5. AbstractMonitor!Notify(t, c, woken)
  BY <1>b, <1>3, <1>4 DEF AbstractMonitor!Notify
<1>6. woken \in SUBSET Waiting[c]
  BY <1>1
<1> QED
  BY <1>5, <1>6 DEF Refined, AbstractMonitor!Next

LEMMA CondSignalRefines ==
  ASSUME RunInv, QueueInv, QueueInv', OwnerInv, NEW t \in Threads, NEW c \in Conds,
         CondSignal(t, c) \/ CondBroadcast(t, c), UNCHANGED <<syscallVars, barrierVars>>
  PROVE  Refined
<1>a. /\ Calls(t) /\ m_conds[c] # <<>> /\ MonitorQueues /\ want' = want /\ inside' = inside
  BY DEF CondSignal, CondBroadcast, Enter, Calls, QueueInv
<1>1. CASE CondSignal(t, c)
  <2>1. Without(m_conds[c], 1) = Tail(m_conds[c])
    BY <1>a, SignalledOfQueue
  <2>2. Dismissed(c, 1)
    BY <1>1, <2>1 DEF CondSignal, Dismissed
  <2> QED
    BY <1>a, <2>2, SignalRefines
<1>2. CASE CondBroadcast(t, c)
  <2>1. Len(m_conds[c]) \in Nat /\ Without(m_conds[c], Len(m_conds[c])) = <<>>
    BY <1>a, SignalledOfQueue
  <2>2. Dismissed(c, Len(m_conds[c]))
    BY <1>2, <2>1 DEF CondBroadcast, Dismissed
  <2> QED
    BY <1>a, <2>1, <2>2, SignalRefines
<1> QED
  BY <1>1, <1>2

\* A lock or a wait that returns.
LEMMA GoesOnRefines ==
  ASSUME RunInv, QueueInv, QueueInv', OwnerInv, NEW t \in Threads, status[t] = "RUNNING", GoesOn(t)
  PROVE  Refined
<1>a. /\ MonitorQueues /\ MonitorQueues' /\ MutexInv
      /\ want' = [want EXCEPT ![t] = NoMutex] /\ m_conds' = m_conds
  BY DEF GoesOn, OwnerInv, QueueInv
<1>b. inside' = [m \in Mutexes |-> IF m = want[t] THEN inside[m] \cup {t} ELSE inside[m]]
  BY DEF GoesOn
<1>1. CASE want[t] = NoMutex
  <2>1. want' = want
    BY <1>1, <1>a DEF MonitorQueues
  <2>2. inside' = inside
    BY <1>1, <1>a, <1>b, MutexAssumption DEF MutexInv
  <2>3. UNCHANGED AbstractMonitor!vars
    BY <1>a, <2>1, <2>2, Stutters
  <2> QED
    BY <2>3 DEF Refined
<1>2. CASE want[t] # NoMutex
  <2>1. PICK m \in Mutexes : want[t] = m
    BY <1>2, <1>a DEF MonitorQueues
  <2>2. ~ Stuck(t, {"MUTEX", "COND"})
    BY DEF Stuck
  <2>3. t \notin Queued(m_conds, Conds)
    BY <1>a, <2>2 DEF MonitorQueues
  <2>4. inside[m] = {}
    BY <1>a, <2>1, <2>2, InsideFacts
  <2>5. inside' = [inside EXCEPT ![m] = {t}]
    BY <1>a, <1>b, <2>1, <2>4 DEF MutexInv
  <2>6. \A u \in Threads : want'[u] = IF u = t THEN NoMutex ELSE want[u]
    BY <1>a DEF MonitorQueues
  <2>7. \A k \in Mutexes : \A u :
          u \in Entering[k] <=> u \in Threads /\ want[u] = k /\ u \notin Queued(m_conds, Conds)
    BY <1>a, EnteringFacts
  <2>8. t \in Entering[m]
    BY <2>1, <2>3, <2>7
  <2>9. Entering' = [Entering EXCEPT ![m] = @ \ {t}]
    <3> DEFINE new == Entering' less == [Entering EXCEPT ![m] = @ \ {t}]
    <3>1. /\ new = [k \in Mutexes |-> new[k]]
          /\ \A k \in Mutexes : \A u :
               u \in new[k] <=> u \in Threads /\ want'[u] = k /\ u \notin Queued(m_conds, Conds)
      BY <1>a, EnteringNext
    <3>2. /\ less = [k \in Mutexes |-> less[k]]
          /\ \A k \in Mutexes : \A u : u \in less[k] <=> u \in Entering[k] /\ ~ (u = t /\ k = m)
      BY <1>a, EnteringFacts
    <3> HIDE DEF new, less
    <3>3. \A k \in Mutexes : \A u : u \in new[k] <=> u \in less[k]
      BY <2>1, <2>6, <2>7, <3>1, <3>2, MutexAssumption
    <3>4. new = less
      BY <3>1, <3>2, <3>3, SameFamily
    <3> QED
      BY <3>4 DEF new, less
  <2>10. Waiting' = Waiting
    BY <1>a DEF Waiting
  <2>11. AbstractMonitor!Enter(t, m)
    BY <2>4, <2>5, <2>8, <2>9, <2>10 DEF AbstractMonitor!Enter
  <2> QED
    BY <2>11 DEF Refined, AbstractMonitor!Next
<1> QED
  BY <1>1, <1>2

LEMMA NextRefines ==
  ASSUME RunInv, QueueInv, QueueInv', OwnerInv, [Next]_vars
  PROVE  Refined
<1>0. ASSUME UNCHANGED <<m_conds, want, inside>> PROVE Refined
  BY <1>0, Stutters DEF Refined
<1>1. CASE UNCHANGED vars
  BY <1>0, <1>1 DEF vars, syncVars
<1>2. ASSUME UNCHANGED syncVars PROVE Refined
  BY <1>0, <1>2 DEF syncVars
<1>3. ASSUME NEW t \in Threads, SyncStep(t), UNCHANGED <<syscallVars, barrierVars>>
      PROVE  Refined
  <2>1. CASE BarrierWait(t)
    <3>1. UNCHANGED <<m_conds, want, inside>>
      BY <2>1 DEF BarrierWait
    <3> QED
      BY <1>0, <3>1
  <2> QED
    BY <1>3, <2>1, LockRefines, UnlockRefines, WaitRefines, CondSignalRefines DEF SyncStep
<1>4. ASSUME NEW t \in Threads, HostStep(t) PROVE Refined
  <2>1. CASE Return(t) /\ GoesOn(t)
    <3>1. status[t] = "RUNNING"
      BY <2>1 DEF Return, RunInv, AwakeRuns
    <3> QED
      BY <2>1, <3>1, GoesOnRefines
  <2> QED
    BY <1>2, <1>4, <2>1 DEF HostStep
<1>5. ASSUME NEW t \in Threads, Executes(t) PROVE Refined
  <2>1. UNCHANGED syncVars
    BY <1>5 DEF Executes, Execute, EnterBarrier
  <2> QED
    BY <1>2, <2>1
<1>6. CASE BarrierSignal \/ BarrierRelease \/ Advance
  <2>1. UNCHANGED syncVars
    BY <1>6 DEF BarrierSignal, BarrierRelease, Advance
  <2> QED
    BY <1>2, <2>1
<1>7. CASE /\ StallDecided
           /\ IF status[m_thread_lock.by] = "RUNNING" THEN GoesOn(m_thread_lock.by)
              ELSE UNCHANGED syncVars
  <2>1. PICK t \in Threads : m_thread_lock.by = t
    BY <1>7, HolderIsThread DEF StallDecided
  <2> QED
    BY <1>2, <1>7, <2>1, GoesOnRefines
<1> QED
  BY <1>1, <1>2, <1>3, <1>4, <1>5, <1>6, <1>7 DEF Next, ServerStep

(* If nobody joins a thread before it starts, the synchronisation server is a
   monitor, for any number of threads, mutexes and conditions: a thread is let
   into a mutex only when nobody is inside, a waiting thread has left its mutex,
   and every signalled thread wants to enter again (sync_server.cc).       *)
THEOREM MonitorImplemented == ~ JoinsEarly /\ Spec => ImplementsMonitor
<1>1. ~ JoinsEarly /\ Init => RunInv /\ QueueInv /\ OwnerInv
  BY InitInv, InitQueues, InitOwners
<1>2. RunInv /\ QueueInv /\ OwnerInv /\ [Next]_vars => (RunInv /\ QueueInv /\ OwnerInv)'
  BY NextInv, NextQueues, NextOwners DEF RunInv
<1>3. Init => AbstractMonitor!Init
  <2> SUFFICES ASSUME Init PROVE AbstractMonitor!Init
    OBVIOUS
  <2>1. /\ inside = [m \in Mutexes |-> {}] /\ want = [t \in Threads |-> NoMutex]
        /\ m_conds = [c \in Conds |-> <<>>]
    BY DEF Init, SyncInit
  <2>2. Entering = [m \in Mutexes |-> {}]
    BY <2>1, MutexAssumption DEF Entering
  <2>3. Waiting = [c \in Conds |-> {}]
    BY <2>1 DEF Waiting, Elements
  <2> QED
    BY <2>1, <2>2, <2>3 DEF AbstractMonitor!Init
<1>4. RunInv /\ QueueInv /\ OwnerInv /\ (QueueInv)' /\ [Next]_vars
        => [AbstractMonitor!Next]_AbstractMonitor!vars
  BY NextRefines DEF Refined
<1> QED
  BY <1>1, <1>2, <1>3, <1>4, PTL DEF Spec, ImplementsMonitor, AbstractMonitor!Spec
=============================================================================
