--------------------------- MODULE SyscallServer ---------------------------
(***************************************************************************)
(* Sleeping threads, futexes and blocking system calls of the simulated    *)
(* application (system/syscall_server.cc, core/syscall_model.cc).  Sleeps  *)
(* and waits with a timeout end when the clock skew barrier passes it, one *)
(* of each queue per period.                                               *)
(***************************************************************************)
EXTENDS ThreadManager

CONSTANTS
  Futexes,
  Delays   (* bound: how far timeouts are ahead                            *)

ASSUME DelaysAssumption == Delays \subseteq Nat

VARIABLES
  m_sleeping,  (* SyscallServer::m_sleeping                                *)
  m_futexes    (* SimFutex::m_waiting                                      *)

syscallVars == <<m_sleeping, m_futexes>>

Never == -1   \* SubsecondTime::MaxTime()

Waiters == [thread : Threads, timeout : Nat \cup {Never}]
Waiter(t, timeout) == [thread |-> t, timeout |-> timeout]

SyscallTypeOK ==
  /\ m_sleeping \in Seq(Waiters)
  /\ m_futexes \in [Futexes -> Seq(Waiters)]

SyscallInit ==
  /\ m_sleeping = <<>>
  /\ m_futexes = [f \in Futexes |-> <<>>]

(* Mutant: the difference the wrong way. *)
MutTimeouts(t) == {clock[t] - d : d \in Delays}

Timeouts(t) == {clock[t] + d : d \in Delays}

Sleep(t, wake_time) ==
  /\ Enter(t, "sleep")
  /\ m_sleeping' = Append(m_sleeping, Waiter(t, wake_time))
  /\ StallThread(t, "SLEEP", {})
  /\ UNCHANGED <<m_futexes, waiter, clock>>

(* A wait that finds another value in the word changes nothing. *)
FutexWait(t, f, timeout) ==
  /\ Enter(t, "futexWait")
  /\ m_futexes' = [m_futexes EXCEPT ![f] = Append(@, Waiter(t, timeout))]
  /\ StallThread(t, "FUTEX", {})
  /\ UNCHANGED <<m_sleeping, waiter, clock>>

-----------------------------------------------------------------------------
(* dequeueWaiter n times: every wake matches any bitset. *)
Least(a, b) == IF a < b THEN a ELSE b
First(queue, n) == {queue[i].thread : i \in 1..Least(n, Len(queue))}
Without(queue, n) == SubSeq(queue, n + 1, Len(queue))

(* applyRescheduleCost: none while the core has executed no instruction. *)
RescheduleCosts == {0, RescheduleCost}

FutexWake(t, f, n) ==
  /\ Enter(t, "futexWake")
  /\ m_futexes' = [m_futexes EXCEPT ![f] = Without(@, n)]
  /\ \E cost \in RescheduleCosts : Wake(t, First(m_futexes[f], n), cost)
  /\ UNCHANGED <<m_sleeping, waiter>>

(* Wake on one futex, and on another one if the operation on it says so;
   without that it is a FutexWake.                                         *)
FutexWakeOp(t, f, n, f2, n2) ==
  /\ Enter(t, "futexWakeOp")
  /\ f # f2
  /\ m_futexes' = [m_futexes EXCEPT ![f] = Without(@, n), ![f2] = Without(@, n2)]
  /\ \E cost \in RescheduleCosts :
       Wake(t, First(m_futexes[f], n) \cup First(m_futexes[f2], n2), cost)
  /\ UNCHANGED <<m_sleeping, waiter>>

(* Wake some waiters and move the others to another futex. *)
FutexCmpRequeue(t, f, n, f2) ==
  /\ Enter(t, "futexRequeue")
  /\ f # f2
  /\ m_futexes' = [m_futexes EXCEPT ![f] = <<>>, ![f2] = @ \o Without(m_futexes[f], n)]
  /\ Proceed(t, First(m_futexes[f], n), clock[t])
  /\ UNCHANGED <<m_sleeping, waiter, clock>>

-----------------------------------------------------------------------------
(* A blocking system call runs on the host; the thread counts as stalled.  *)
BlockingCall(t) ==
  /\ Enter(t, "block")
  /\ Stall(t, "SYSCALL", {}, "block")
  /\ UNCHANGED <<waiter, clock, syscallVars>>

(* It returns, and the time is read before the lock is taken. *)
BlockingReturn(t, time) ==
  /\ host[t] = "blocked"
  /\ host' = [host EXCEPT ![t] = "resuming"]
  /\ sync_time' = [sync_time EXCEPT ![t] = time]
  /\ UNCHANGED <<status, stalled_reason, waiter, m_thread_lock, on, m_futx,
                 clock, programVars, syscallVars>>

BlockingResume(t) ==
  /\ host[t] = "resuming"
  /\ m_thread_lock = Free
  /\ status' = [status EXCEPT ![t] = "RUNNING"]
  /\ host' = [host EXCEPT ![t] = "app"]
  /\ SyncInstruction(t, sync_time[t])
  /\ UNCHANGED <<stalled_reason, waiter, m_thread_lock, on, m_futx, sync_time,
                 programVars, syscallVars>>

-----------------------------------------------------------------------------
(* futexPeriodic: of the sleepers, and of the waiters of each futex, the
   first one whose time has come.                                          *)
Expired(queue, time) ==
  {i \in 1..Len(queue) : queue[i].timeout # Never /\ queue[i].timeout <= time}
FirstExpired(queue, time) ==
  {i \in Expired(queue, time) : \A j \in Expired(queue, time) : i <= j}
TimedOut(queue, time) == {queue[i].thread : i \in FirstExpired(queue, time)}

(* Mutant: the entry is not erased. *)
MutWithoutTimedOut(queue, time) == queue

WithoutTimedOut(queue, time) ==
  [j \in 1..Len(queue) - Cardinality(FirstExpired(queue, time)) |->
     IF \E i \in FirstExpired(queue, time) : i <= j THEN queue[j + 1] ELSE queue[j]]

WokenAt(time) ==
  TimedOut(m_sleeping, time) \cup UNION {TimedOut(m_futexes[f], time) : f \in Futexes}

FutexPeriodic(time) ==
  /\ m_sleeping' = WithoutTimedOut(m_sleeping, time)
  /\ m_futexes' = [f \in Futexes |-> WithoutTimedOut(m_futexes[f], time)]
  /\ status' = Resumed(WokenAt(time))
  /\ sync_time' = SyncTimes(WokenAt(time), time)

(* getNextTimeout(time) < MaxTime *)
HasTimeout(queue) == \E i \in 1..Len(queue) : queue[i].timeout # Never
TimeoutPending == HasTimeout(m_sleeping) \/ \E f \in Futexes : HasTimeout(m_futexes[f])
=============================================================================
