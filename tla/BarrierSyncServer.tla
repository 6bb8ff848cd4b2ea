------------------------- MODULE BarrierSyncServer -------------------------
(***************************************************************************)
(* The clock skew barrier (system/barrier_sync_server.cc) composed with    *)
(* the thread manager and the servers that stall and resume threads.  No   *)
(* core runs past the next barrier time before all running cores have      *)
(* reached it; each release lets the system call server wake threads whose *)
(* timeout has passed, and when nobody runs time advances to the next one. *)
(***************************************************************************)
EXTENDS SyncServer, SyscallServer

CONSTANTS
  BarrierInterval,  (* m_barrier_interval                                  *)
  Durations,        (* bound: Durations[t] is what t executes between two
                       synchronisations of its core                        *)
  LastLeaves        (* the last running thread may exit while others wait
                       for a timeout                                       *)

ASSUME IntervalAssumption == BarrierInterval \in Nat \ {0}
ASSUME DurationsAssumption == Durations \in [Threads -> SUBSET Nat]
ASSUME LastLeavesAssumption == LastLeaves \in BOOLEAN

VARIABLES
  m_next_barrier_time,
  m_local_clock_list,      (* the time at which a core entered the barrier *)
  m_barrier_acquire_list,  (* is the core in the barrier                   *)
  m_next_sync_time,        (* BarrierSyncClient                            *)
  aborted                  (* "Application has deadlocked..."              *)

barrierVars == <<m_next_barrier_time, m_local_clock_list, m_barrier_acquire_list,
                 m_next_sync_time, aborted>>
vars == <<threadVars, syncVars, syscallVars, barrierVars>>

TypeOK ==
  /\ ThreadTypeOK /\ SyncTypeOK /\ SyscallTypeOK
  /\ m_next_barrier_time \in Nat
  /\ m_local_clock_list \in [Threads -> Nat]
  /\ m_barrier_acquire_list \in [Threads -> BOOLEAN]
  /\ m_next_sync_time \in [Threads -> Nat]
  /\ aborted \in BOOLEAN

Init ==
  /\ ThreadInit /\ SyncInit /\ SyscallInit
  /\ m_next_barrier_time = BarrierInterval
  /\ m_local_clock_list = [t \in Threads |-> 0]
  /\ m_barrier_acquire_list = [t \in Threads |-> FALSE]
  /\ m_next_sync_time = [t \in Threads |-> BarrierInterval]
  /\ aborted = FALSE

-----------------------------------------------------------------------------
Running == {t \in Threads : status[t] = "RUNNING"}

(* Mutant: one core is enough. *)
MutIsBarrierReached(clocks) ==
  \E t \in Running : clocks[t] >= m_next_barrier_time

IsBarrierReached(clocks) ==
  /\ Running # {}
  /\ \A t \in Running : clocks[t] >= m_next_barrier_time

(* BarrierSyncClient::synchronize, after t has executed for d. *)
NextSync(now) == ((now \div BarrierInterval) * BarrierInterval) + BarrierInterval

(* No synchronisation, or one that is not needed yet. *)
Execute(t, d) ==
  LET now == clock[t] + d
  IN  /\ host[t] = "app" /\ m_next_barrier_time <= program.until
      /\ \/ /\ now < m_next_sync_time[t]
            /\ UNCHANGED m_next_sync_time
         \/ /\ now >= m_next_sync_time[t] /\ now < m_next_barrier_time
            /\ m_thread_lock = Free
            /\ m_next_sync_time' = [m_next_sync_time EXCEPT ![t] = NextSync(now)]
      /\ clock' = [clock EXCEPT ![t] = now]
      /\ UNCHANGED <<status, stalled_reason, waiter, m_thread_lock, host, on, m_futx,
                     sync_time, programVars, m_next_barrier_time, m_local_clock_list,
                     m_barrier_acquire_list, aborted, syncVars, syscallVars>>

(* BarrierSyncServer::synchronize: the core enters the barrier. *)
EnterBarrier(t, d) ==
  LET now == clock[t] + d
      clocks == [m_local_clock_list EXCEPT ![t] = now]
  IN  /\ host[t] = "app" /\ m_next_barrier_time <= program.until
      /\ m_thread_lock = Free
      /\ now >= m_next_sync_time[t] /\ now >= m_next_barrier_time
      /\ clock' = [clock EXCEPT ![t] = now]
      /\ m_next_sync_time' = [m_next_sync_time EXCEPT ![t] = NextSync(now)]
      /\ m_local_clock_list' = clocks
      /\ m_barrier_acquire_list' = [m_barrier_acquire_list EXCEPT ![t] = TRUE]
      /\ \/ /\ IsBarrierReached(clocks)
            /\ m_thread_lock' = Held(t, "sync", "release")
            /\ host' = [host EXCEPT ![t] = "serving"]
            /\ UNCHANGED <<on, m_futx>>
         \/ /\ ~ IsBarrierReached(clocks)
            /\ WaitOn(t, "core", {})
      /\ UNCHANGED <<status, stalled_reason, waiter, sync_time, programVars,
                     m_next_barrier_time, aborted, syncVars, syscallVars>>

-----------------------------------------------------------------------------
(* The end of an operation of the thread that holds the lock, which signals
   some condition variables on the way.                                    *)
Complete(t, call, freed, cvs) ==
  CASE call = "stall" -> /\ m_thread_lock' = Held(t, call, "advance")
                         /\ host' = Signalled(cvs)
                         /\ Signal(cvs)
                         /\ UNCHANGED on
    [] call = "sync" /\ t \notin freed -> WaitOn(t, "core", cvs)
    [] OTHER -> /\ m_thread_lock' = Free
                /\ host' = [Signalled(cvs) EXCEPT
                             ![t] = CASE call = "sync" -> "app"
                                      [] call = "block" -> "blocked"
                                      [] call = "exit" -> "exited"]
                /\ Signal(cvs)
                /\ UNCHANGED on

(* threadStall and threadExit: was the barrier waiting for this thread?    *)
BarrierSignal ==
  LET t == m_thread_lock.by
  IN  /\ m_thread_lock.at = "signal"
      /\ \/ /\ IsBarrierReached(m_local_clock_list)
            /\ m_thread_lock' = Held(t, m_thread_lock.call, "release")
            /\ UNCHANGED <<host, on, m_futx>>
         \/ /\ ~ IsBarrierReached(m_local_clock_list)
            /\ Complete(t, m_thread_lock.call, {}, {})
      /\ UNCHANGED <<status, stalled_reason, waiter, clock, sync_time, programVars,
                     syncVars, syscallVars, barrierVars>>

(* Mutant: every core in the barrier may go. *)
MutDue(next) == {t \in Threads : m_barrier_acquire_list[t]}

(* The cores that a release at the next barrier time lets go. *)
Due(next) ==
  {t \in Threads : m_barrier_acquire_list[t] /\ m_local_clock_list[t] < next}

(* One round of the loop of barrierRelease. *)
BarrierRelease ==
  LET t == m_thread_lock.by
      next == m_next_barrier_time + BarrierInterval
      freed == Due(next)
      cvs == OfThreads(WokenAt(m_next_barrier_time)) \cup ((freed \ {t}) \X {"core"})
  IN  /\ m_thread_lock.at = "release"
      /\ FutexPeriodic(m_next_barrier_time)
      /\ m_next_barrier_time' = next
      /\ m_barrier_acquire_list' = [u \in Threads |-> m_barrier_acquire_list[u] /\ u \notin freed]
      /\ \/ /\ freed = {}
            /\ host' = Signalled(cvs) /\ Signal(cvs)
            /\ UNCHANGED <<m_thread_lock, on>>
         \/ /\ freed # {}
            /\ Complete(t, m_thread_lock.call, freed, cvs)
      /\ UNCHANGED <<stalled_reason, waiter, clock, programVars, m_local_clock_list,
                     m_next_sync_time, aborted, syncVars>>

(* advance: nobody runs.  A round of barrierRelease until a timeout passes. *)
Advance ==
  LET cvs == OfThreads(WokenAt(m_next_barrier_time))
      next == m_next_barrier_time + BarrierInterval
      freed == Due(next)
  IN  /\ ~ aborted
      /\ m_thread_lock.at = "advance" /\ ~ AnyThreadRunning(status)
      /\ FutexPeriodic(m_next_barrier_time)
      /\ \/ /\ WokenAt(m_next_barrier_time) # {}
            /\ host' = Signalled(cvs) /\ Signal(cvs)
            /\ UNCHANGED <<m_next_barrier_time, m_barrier_acquire_list, aborted>>
         \/ /\ WokenAt(m_next_barrier_time) = {}
            /\ ~ TimeoutPending
            /\ aborted' = TRUE
            /\ UNCHANGED <<host, m_futx, m_next_barrier_time, m_barrier_acquire_list>>
         \/ /\ WokenAt(m_next_barrier_time) = {}
            /\ TimeoutPending
            /\ m_next_barrier_time' = next
            /\ m_barrier_acquire_list' =
                 [u \in Threads |-> m_barrier_acquire_list[u] /\ u \notin freed]
            /\ host' = Signalled(freed \X {"core"}) /\ Signal(freed \X {"core"})
            /\ UNCHANGED aborted
      /\ UNCHANGED <<stalled_reason, waiter, m_thread_lock, on, clock, programVars,
                     m_local_clock_list, m_next_sync_time, syncVars>>

-----------------------------------------------------------------------------
(* onThreadExit, with the futex that CLONE_CHILD_CLEARTID names, if any. *)
ThreadExit(t, f) ==
  LET woken == IF f \in Futexes THEN First(m_futexes[f], 1) ELSE {}
      resumed == Joiners(t) \cup woken
  IN  /\ Enter(t, "exit")
      /\ LastLeaves \/ resumed # {} \/ ~ TimeoutPending
           \/ \E u \in Threads \ {t} : status[u] \in {"RUNNING", "INITIALIZING"}
      /\ \E cost \in RescheduleCosts : Exit(t, resumed, woken, cost)
      /\ m_futexes' = [g \in Futexes |-> IF g = f THEN Without(m_futexes[g], 1)
                                         ELSE m_futexes[g]]
      /\ UNCHANGED m_sleeping

ThreadStep(t) ==
  \/ \E u \in Threads : CreateThread(t, u) \/ JoinThread(t, u)
  \/ ThreadStart(t)

SyncStep(t) ==
  \/ \E m \in Mutexes : (\E tryLock \in BOOLEAN : MutexLock(t, m, tryLock))
                        \/ MutexUnlock(t, m)
  \/ \E c \in Conds : (\E m \in Mutexes : CondWait(t, c, m))
                      \/ CondSignal(t, c) \/ CondBroadcast(t, c)
  \/ BarrierWait(t)

SyscallStep(t) ==
  \/ \E time \in Timeouts(t) : Sleep(t, time)
  \/ \E f \in Futexes :
       \/ \E time \in Timeouts(t) \cup {Never} : FutexWait(t, f, time)
       \/ \E n \in 1..Cardinality(Threads) :
            \/ FutexWake(t, f, n)
            \/ \E g \in Futexes : FutexWakeOp(t, f, n, g, 1) \/ FutexCmpRequeue(t, f, n, g)
  \/ BlockingCall(t)
  \/ BlockingReturn(t, m_next_barrier_time)
  \/ BlockingResume(t)

(* What the host thread of t does for itself. *)
HostStep(t) ==
  \/ FutexSleep(t) /\ UNCHANGED <<syncVars, syscallVars, barrierVars>>
  \/ Return(t) /\ GoesOn(t) /\ UNCHANGED <<syscallVars, barrierVars>>

(* What the holder of the lock goes on to do. *)
ServerStep ==
  \/ BarrierSignal \/ BarrierRelease \/ Advance
  \/ /\ StallDecided
     /\ IF status[m_thread_lock.by] = "RUNNING" THEN GoesOn(m_thread_lock.by)
        ELSE UNCHANGED syncVars
     /\ UNCHANGED <<syscallVars, barrierVars>>

Executes(t) == \E d \in Durations[t] : Execute(t, d) \/ EnterBarrier(t, d)

Next ==
  \/ \E t \in Threads :
       \/ ThreadStep(t) /\ UNCHANGED <<syncVars, syscallVars, barrierVars>>
       \/ SyncStep(t) /\ UNCHANGED <<syscallVars, barrierVars>>
       \/ SyscallStep(t) /\ UNCHANGED <<syncVars, barrierVars>>
       \/ \E f \in Futexes \cup {"none"} :
            ThreadExit(t, f) /\ UNCHANGED <<syncVars, barrierVars>>
       \/ HostStep(t)
       \/ Executes(t)
  \/ ServerStep

Spec == Init /\ [][Next]_vars

(* What a thread does unless it waits for another one: a host thread that was
   created starts, one that is woken returns, one that executes goes on, and
   a blocking system call ends.                                            *)
Proceeds(t) ==
  \/ ThreadStart(t) /\ UNCHANGED <<syncVars, syscallVars, barrierVars>>
  \/ HostStep(t)
  \/ (BlockingReturn(t, m_next_barrier_time) \/ BlockingResume(t))
       /\ UNCHANGED <<syncVars, barrierVars>>
  \/ Executes(t)

FairSpec ==
  Spec /\ (\A t \in Threads : WF_vars(Proceeds(t))) /\ WF_vars(ServerStep)

-----------------------------------------------------------------------------
(* A simulated mutex is held by one thread: whoever came back from a lock or
   a wait, by way of any queue, is the owner, and no other thread that came
   back still believes to hold it.                                         *)
MutualExclusion ==
  \A m \in Mutexes : \A t \in inside[m] : inside[m] = {t} /\ m_owner[m] = t

(* Where a thread waits to be resumed. *)
Positions(queue, t) == {i \in 1..Len(queue) : queue[i] = t}
Entries(queue, t) == {i \in 1..Len(queue) : queue[i].thread = t}
Places(t) ==
  ({"join"} \X {u \in Threads : waiter[u] = t})
    \cup (UNION {{"mutex"} \X {m} \X Positions(m_mutexes[m], t) : m \in Mutexes})
    \cup (UNION {{"cond"} \X {c} \X Entries(m_conds[c], t) : c \in Conds})
    \cup (UNION {{"futex"} \X {f} \X Entries(m_futexes[f], t) : f \in Futexes})
    \cup ({"sleep"} \X Entries(m_sleeping, t))
    \cup ({"barrier"} \X Positions(m_barrier, t))

(* A stalled thread is in exactly one queue, so that somebody can resume it
   and nobody resumes it twice; a thread that is not stalled is in none.   *)
StalledThreadsWaitOnce ==
  \A t \in Threads :
    Cardinality(Places(t)) =
      IF status[t] = "STALLED" /\ stalled_reason[t] # "SYSCALL" THEN 1 ELSE 0

(* No wake-up is lost between the release of the lock and the futex_wait, nor
   in the hook that runs before the wait: a host thread that sleeps, or is
   about to, carries a thread that is still stalled or in the barrier.     *)
NoLostWakeup ==
  \A t \in Threads :
    host[t] = "asleep" \/ (host[t] = "releasing" /\ m_futx[<<t, on[t]>>] = 0) =>
      IF on[t] = "thread" THEN status[t] = "STALLED" ELSE m_barrier_acquire_list[t]

(* A thread executes its program only while the simulator counts it as
   running: the barrier waits for it.                                      *)
ReturnedThreadsRun == \A t \in Threads : host[t] = "app" => status[t] = "RUNNING"

(* No application runs past the barrier: a core that executes, or goes on at
   a time that another core, a timeout or the end of a system call gives it,
   is at most at the next barrier time when its thread makes a call.       *)
BoundedSkew == \A t \in Threads : host[t] = "app" => clock[t] <= m_next_barrier_time

(* The barrier moves only while every thread is in it, stalled, or on its way
   back from a stall.                                                      *)
BarrierWaitsForAll ==
  [][m_next_barrier_time' # m_next_barrier_time =>
       \A t \in Threads : host[t] # "app"]_vars

(* As long as somebody waits for a timeout, somebody is there to make time
   pass: a thread that runs, is about to start, or will return from the host. *)
TimeAdvances ==
  m_thread_lock = Free /\ TimeoutPending =>
    \E t \in Threads : status[t] \in {"RUNNING", "INITIALIZING"}
                        \/ host[t] \in {"blocked", "resuming"}

(* A sleeping thread executes again. *)
SleeperWakes ==
  \A t \in Threads :
    (\E i \in 1..Len(m_sleeping) : m_sleeping[i].thread = t)
      ~> (host[t] = "app" \/ m_next_barrier_time > program.until)

(* The synchronisation server is a monitor: a thread that wants a mutex and
   waits for no condition is about to enter.                               *)
Entering ==
  [m \in Mutexes |-> {t \in Threads : want[t] = m /\ \A c \in Conds :
                       CondWaiter(t, m) \notin Elements(m_conds[c])}]
Waiting == [c \in Conds |-> {<<w.thread, w.mutex>> : w \in Elements(m_conds[c])}]
AbstractMonitor == INSTANCE Monitor WITH entering <- Entering, waiting <- Waiting
ImplementsMonitor == AbstractMonitor!Spec
=============================================================================
