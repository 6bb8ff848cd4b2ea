--------------------------- MODULE ThreadManager ---------------------------
(***************************************************************************)
(* The threads of the simulated application (system/thread_manager.cc) and *)
(* the host threads that carry them.  Every operation of the servers holds *)
(* m_thread_lock; a host thread that must wait clears the futex word of a  *)
(* condition variable, gives the lock up, and only then goes to sleep on   *)
(* the word (misc/cond.cc).  One thread per core, which it keeps.          *)
(***************************************************************************)
EXTENDS Integers, Sequences, FiniteSets

CONSTANTS
  Threads,      (* application threads, and the cores they are pinned to   *)
  NoThread,     (* INVALID_THREAD_ID                                       *)
  Created,      (* the threads that the front end creates at startup       *)
  Programs,     (* bound: the applications.  calls[t] is the sequence of
                   calls that thread t makes; no core starts to execute when
                   the next barrier time is past until                     *)
  JoinsEarly,   (* the application joins threads that have not started yet *)
  RescheduleCost  (* m_reschedule_cost of the servers                      *)

ASSUME ThreadsAssumption == NoThread \notin Threads
ASSUME CreatedAssumption == Created \subseteq Threads
ASSUME JoinsEarlyAssumption == JoinsEarly \in BOOLEAN
ASSUME RescheduleAssumption == RescheduleCost \in Nat

VARIABLES
  program,         (* the application that is simulated                    *)
  calls,           (* calls that each thread has made                      *)
  status,          (* ThreadState::status                                  *)
  stalled_reason,  (* ThreadState::stalled_reason                          *)
  waiter,          (* ThreadState::waiter: who joins the thread            *)
  m_thread_lock,   (* who is in the middle of an operation, and where      *)
  host,            (* what the host thread of each thread does             *)
  on,              (* which of its condition variables it waits on         *)
  m_futx,          (* the futex word of every condition variable           *)
  clock,           (* the elapsed time of the core                         *)
  sync_time        (* when a thread that was resumed or created goes on:
                      m_wakeup_time, ThreadSpawnRequest::time, time_wake   *)

programVars == <<program, calls>>
threadVars == <<programVars, status, stalled_reason, waiter, m_thread_lock, host,
                on, m_futx, clock, sync_time>>

Statuses == {"ABSENT", "INITIALIZING", "RUNNING", "STALLED", "IDLE"}
Reasons == {"NONE", "JOIN", "MUTEX", "COND", "BARRIER", "FUTEX", "SLEEP", "SYSCALL"}

(* "app": executing the program; "serving": in an operation; "releasing":
   gave the lock up to wait; "asleep": in the host's futex_wait; "waking":
   about to take the lock again; "blocked": in a system call of the host;
   "resuming": back from it.                                               *)
HostStates == {"none", "app", "serving", "releasing", "asleep", "waking",
               "blocked", "resuming", "exited"}

(* The condition variables: one of each thread, one of each core's barrier. *)
CVs == Threads \X {"thread", "core"}

Free == [by |-> NoThread, call |-> "none", at |-> "none"]
Holds == [by : Threads, call : {"stall", "block", "exit", "sync"},
          at : {"signal", "release", "advance"}]
Held(t, call, at) == [by |-> t, call |-> call, at |-> at]

ThreadTypeOK ==
  /\ program \in Programs
  /\ calls \in [Threads -> Nat]
  /\ status \in [Threads -> Statuses]
  /\ stalled_reason \in [Threads -> Reasons]
  /\ waiter \in [Threads -> Threads \cup {NoThread}]
  /\ m_thread_lock \in Holds \cup {Free}
  /\ host \in [Threads -> HostStates]
  /\ on \in [Threads -> {"thread", "core"}]
  /\ m_futx \in [CVs -> 0..1]
  /\ clock \in [Threads -> Nat]
  /\ sync_time \in [Threads -> Nat]

ThreadInit ==
  /\ program \in Programs
  /\ calls = [t \in Threads |-> 0]
  /\ status = [t \in Threads |-> IF t \in Created THEN "INITIALIZING" ELSE "ABSENT"]
  /\ stalled_reason = [t \in Threads |-> "NONE"]
  /\ waiter = [t \in Threads |-> NoThread]
  /\ m_thread_lock = Free
  /\ host = [t \in Threads |-> "none"]
  /\ on = [t \in Threads |-> "thread"]
  /\ m_futx = [c \in CVs |-> 0]
  /\ clock = [t \in Threads |-> 0]
  /\ sync_time = [t \in Threads |-> 0]

-----------------------------------------------------------------------------
(* Mutant: signal sets the word and wakes nobody. *)
MutSignalled(cvs) == host

(* ConditionVariable::signal: set the word, wake who sleeps on it.         *)
Signalled(cvs) ==
  [t \in Threads |-> IF host[t] = "asleep" /\ <<t, on[t]>> \in cvs
                     THEN "waking" ELSE host[t]]
Signal(cvs) == m_futx' = [c \in CVs |-> IF c \in cvs THEN 1 ELSE m_futx[c]]
OfThreads(ts) == ts \X {"thread"}

(* ConditionVariable::wait up to the release of both locks, together with
   the signals of the same operation.                                      *)
WaitOn(t, which, cvs) ==
  /\ m_futx' = [c \in CVs |-> IF c = <<t, which>> THEN 0
                              ELSE IF c \in cvs THEN 1 ELSE m_futx[c]]
  /\ host' = [Signalled(cvs) EXCEPT ![t] = "releasing"]
  /\ on' = [on EXCEPT ![t] = which]
  /\ m_thread_lock' = Free

(* Mutant: the word is not compared. *)
MutFutexSleep(t) ==
  /\ host[t] = "releasing"
  /\ host' = [host EXCEPT ![t] = "asleep"]
  /\ UNCHANGED <<status, stalled_reason, waiter, m_thread_lock, on, m_futx,
                 clock, sync_time, programVars>>

(* The futex_wait of a thread that gave the lock up: it returns at once when
   the word has been set meanwhile.                                        *)
FutexSleep(t) ==
  /\ host[t] = "releasing"
  /\ host' = [host EXCEPT ![t] = IF m_futx[<<t, on[t]>>] = 0 THEN "asleep" ELSE "waking"]
  /\ UNCHANGED <<status, stalled_reason, waiter, m_thread_lock, on, m_futx,
                 clock, sync_time, programVars>>

Later(a, b) == IF a < b THEN b ELSE a

(* A SyncInstruction: the core idles until a time, unless that is past.  It
   is executed at once, before the call returns to the application.        *)
SyncInstruction(t, time) == clock' = [clock EXCEPT ![t] = Later(@, time)]

(* The time that a call of t which stalled returns. *)
EndTime(t) ==
  sync_time[t] + IF stalled_reason[t] = "MUTEX" THEN RescheduleCost ELSE 0

(* ConditionVariable::wait takes the lock again and the call returns, with
   the time at which the thread goes on if it had stalled.                 *)
Return(t) ==
  /\ host[t] = "waking"
  /\ m_thread_lock = Free
  /\ host' = [host EXCEPT ![t] = "app"]
  /\ IF on[t] = "thread" THEN SyncInstruction(t, EndTime(t)) ELSE UNCHANGED clock
  /\ UNCHANGED <<status, stalled_reason, waiter, m_thread_lock, on, m_futx,
                 sync_time, programVars>>

-----------------------------------------------------------------------------
(* A thread makes a call of its program, which takes the lock.             *)
Enter(t, call) ==
  /\ host[t] = "app"
  /\ m_thread_lock = Free
  /\ calls[t] < Len(program.calls[t]) /\ program.calls[t][calls[t] + 1] = call
  /\ calls' = [calls EXCEPT ![t] = @ + 1]
  /\ UNCHANGED program

(* resumeThread for each of a set of threads. *)
Resumed(ts) == [t \in Threads |-> IF t \in ts THEN "RUNNING" ELSE status[t]]
SyncTimes(ts, time) == [t \in Threads |-> IF t \in ts THEN time ELSE sync_time[t]]

(* The rest of a call of t that resumes some threads and returns. *)
Proceed(t, ts, time) ==
  /\ status' = Resumed(ts)
  /\ sync_time' = SyncTimes(ts, time)
  /\ Signal(OfThreads(ts))
  /\ host' = Signalled(OfThreads(ts))
  /\ UNCHANGED <<stalled_reason, m_thread_lock, on>>

(* One that pays for the threads it wakes, as they do. *)
Wake(t, ts, cost) ==
  /\ Proceed(t, ts, clock[t] + cost)
  /\ SyncInstruction(t, clock[t] + IF ts = {} THEN 0 ELSE cost)

(* The rest of a call of t that resumes some threads and stalls t; the hook
   of the stall comes next (stallThread_async).                            *)
Stall(t, reason, ts, call) ==
  /\ status' = [Resumed(ts) EXCEPT ![t] = "STALLED"]
  /\ stalled_reason' = [stalled_reason EXCEPT ![t] = reason]
  /\ sync_time' = SyncTimes(ts, clock[t])
  /\ Signal(OfThreads(ts))
  /\ host' = [Signalled(OfThreads(ts)) EXCEPT ![t] = "serving"]
  /\ m_thread_lock' = Held(t, call, "signal")
  /\ UNCHANGED on

StallThread(t, reason, ts) == Stall(t, reason, ts, "stall")

(* Mutant: a stalled thread counts as one that runs. *)
MutAnyThreadRunning(st) == \E t \in Threads : st[t] # "IDLE"

AnyThreadRunning(st) == \E t \in Threads : st[t] \in {"RUNNING", "INITIALIZING"}

(* The end of stallThread: a thread that was resumed during its own call
   returns at once, others wait until they are.                            *)
StallDecided ==
  LET t == m_thread_lock.by
  IN  /\ m_thread_lock.call = "stall" /\ m_thread_lock.at = "advance"
      /\ AnyThreadRunning(status)
      /\ \/ /\ status[t] = "RUNNING"
            /\ host' = [host EXCEPT ![t] = "app"]
            /\ m_thread_lock' = Free
            /\ SyncInstruction(t, EndTime(t))
            /\ UNCHANGED <<on, m_futx>>
         \/ /\ status[t] # "RUNNING"
            /\ WaitOn(t, "thread", {})
            /\ UNCHANGED clock
      /\ UNCHANGED <<status, stalled_reason, waiter, sync_time, programVars>>

-----------------------------------------------------------------------------
CreateThread(t, u) ==
  /\ Enter(t, "create")
  /\ status[u] = "ABSENT"
  /\ status' = [status EXCEPT ![u] = "INITIALIZING"]
  /\ sync_time' = [sync_time EXCEPT ![u] = clock[t]]
  /\ UNCHANGED <<stalled_reason, waiter, m_thread_lock, host, on, m_futx, clock>>

(* onThreadStart: the core goes on at the time of the request (a
   SpawnInstruction); who joins the thread already is signalled, not resumed. *)
ThreadStart(t) ==
  /\ status[t] = "INITIALIZING"
  /\ m_thread_lock = Free
  /\ status' = [status EXCEPT ![t] = "RUNNING"]
  /\ waiter' = [waiter EXCEPT ![t] = NoThread]
  /\ SyncInstruction(t, sync_time[t])
  /\ sync_time' = SyncTimes({waiter[t]}, Later(clock[t], sync_time[t]))
  /\ Signal(OfThreads({waiter[t]}))
  /\ host' = [Signalled(OfThreads({waiter[t]})) EXCEPT ![t] = "app"]
  /\ UNCHANGED <<stalled_reason, m_thread_lock, on, programVars>>

(* A join of a thread that has exited returns and changes nothing. *)
JoinThread(t, u) ==
  /\ Enter(t, "join")
  /\ u # t /\ status[u] \in {"INITIALIZING", "RUNNING", "STALLED"}
  /\ status[u] = "INITIALIZING" => JoinsEarly
  /\ waiter[u] = NoThread
  /\ waiter' = [waiter EXCEPT ![u] = t]
  /\ StallThread(t, "JOIN", {})
  /\ UNCHANGED clock

(* wakeUpWaiter resumes who joins t. *)
Joiners(t) == {waiter[t]} \ {NoThread}

(* onThreadExit: resume who joins t, and who waits on the futex of its tid,
   the latter at a cost.                                                   *)
Exit(t, ts, woken, cost) ==
  /\ status' = [Resumed(ts) EXCEPT ![t] = "IDLE"]
  /\ waiter' = [waiter EXCEPT ![t] = NoThread]
  /\ sync_time' = [u \in Threads |-> IF u \in woken THEN clock[t] + cost
                                     ELSE SyncTimes(ts, clock[t])[u]]
  /\ Signal(OfThreads(ts))
  /\ host' = [Signalled(OfThreads(ts)) EXCEPT ![t] = "serving"]
  /\ m_thread_lock' = Held(t, "exit", "signal")
  /\ UNCHANGED <<stalled_reason, on, clock>>
=============================================================================
