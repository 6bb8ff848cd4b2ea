----------------------------- MODULE SyncServer -----------------------------
(***************************************************************************)
(* Mutexes, condition variables and barriers of the simulated application  *)
(* (system/sync_server.cc).  A mutex is handed to the first thread that    *)
(* waits for it; a signalled thread moves from the queue of the condition  *)
(* variable to that of the mutex it had.                                   *)
(***************************************************************************)
EXTENDS ThreadManager

CONSTANTS
  Mutexes, NoMutex, Conds,
  BarrierCount  (* SimBarrier::m_count of the one barrier                  *)

ASSUME MutexAssumption == NoMutex \notin Mutexes
ASSUME BarrierAssumption == BarrierCount \in Nat \ {0}

VARIABLES
  m_owner,      (* SimMutex::m_owner                                       *)
  m_mutexes,    (* SimMutex::m_waiting                                     *)
  m_conds,      (* SimCond::m_waiting: who, and the mutex it gave up       *)
  m_barrier,    (* SimBarrier::m_waiting                                   *)
  want,         (* history: the mutex for which a thread is stalled        *)
  inside        (* history: the threads whose lock or wait has returned    *)

syncVars == <<m_owner, m_mutexes, m_conds, m_barrier, want, inside>>

CondWaiters == [thread : Threads, mutex : Mutexes]
CondWaiter(t, m) == [thread |-> t, mutex |-> m]

Elements(queue) == {queue[i] : i \in 1..Len(queue)}

SyncTypeOK ==
  /\ m_owner \in [Mutexes -> Threads \cup {NoThread}]
  /\ m_mutexes \in [Mutexes -> Seq(Threads)]
  /\ m_conds \in [Conds -> Seq(CondWaiters)]
  /\ m_barrier \in Seq(Threads)
  /\ want \in [Threads -> Mutexes \cup {NoMutex}]
  /\ inside \in [Mutexes -> SUBSET Threads]

SyncInit ==
  /\ m_owner = [m \in Mutexes |-> NoThread]
  /\ m_mutexes = [m \in Mutexes |-> <<>>]
  /\ m_conds = [c \in Conds |-> <<>>]
  /\ m_barrier = <<>>
  /\ want = [t \in Threads |-> NoMutex]
  /\ inside = [m \in Mutexes |-> {}]

-----------------------------------------------------------------------------
(* A try that fails changes nothing, and its own mutex does not fail it. *)
IsLocked(t, m) == m_owner[m] \notin {NoThread, t}

MutexLock(t, m, tryLock) ==
  /\ Enter(t, "lock")
  /\ tryLock => ~ IsLocked(t, m)
  /\ \/ /\ m_owner[m] = NoThread
        /\ m_owner' = [m_owner EXCEPT ![m] = t]
        /\ inside' = [inside EXCEPT ![m] = @ \cup {t}]
        /\ Proceed(t, {}, clock[t])
        /\ SyncInstruction(t, clock[t] + RescheduleCost)
        /\ UNCHANGED <<m_mutexes, want>>
     \/ /\ m_owner[m] # NoThread
        /\ m_mutexes' = [m_mutexes EXCEPT ![m] = Append(@, t)]
        /\ want' = [want EXCEPT ![t] = m]
        /\ StallThread(t, "MUTEX", {})
        /\ UNCHANGED <<m_owner, inside, clock>>
  /\ UNCHANGED <<m_conds, m_barrier, waiter>>

(* SimMutex::unlock: to the first that waits, which is resumed. *)
Successor(m) == IF m_mutexes[m] = <<>> THEN NoThread ELSE Head(m_mutexes[m])
Granted(m) == {Successor(m)} \ {NoThread}

(* Mutant: the mutex is free until the thread that was resumed takes it. *)
MutUnlock(t, m) ==
  /\ m_owner[m] = t
  /\ m_owner' = [m_owner EXCEPT ![m] = NoThread]
  /\ m_mutexes' = [m_mutexes EXCEPT ![m] = IF @ = <<>> THEN @ ELSE Tail(@)]
  /\ inside' = [inside EXCEPT ![m] = @ \ {t}]

Unlock(t, m) ==
  /\ m_owner[m] = t
  /\ m_owner' = [m_owner EXCEPT ![m] = Successor(m)]
  /\ m_mutexes' = [m_mutexes EXCEPT ![m] = IF @ = <<>> THEN @ ELSE Tail(@)]
  /\ inside' = [inside EXCEPT ![m] = @ \ {t}]

MutexUnlock(t, m) ==
  /\ Enter(t, "unlock")
  /\ Unlock(t, m)
  /\ Wake(t, Granted(m), RescheduleCost)
  /\ UNCHANGED <<m_conds, m_barrier, want, waiter>>

-----------------------------------------------------------------------------
CondWait(t, c, m) ==
  /\ Enter(t, "wait")
  /\ Unlock(t, m)
  /\ m_conds' = [m_conds EXCEPT ![c] = Append(@, CondWaiter(t, m))]
  /\ want' = [want EXCEPT ![t] = m]
  /\ StallThread(t, "COND", Granted(m))
  /\ UNCHANGED <<m_barrier, waiter, clock>>

(* lock_async for a sequence of waiters: each queues for its mutex, except
   that the first takes a mutex without an owner.                          *)
Of(woken, m) ==
  LET mine == {i \in 1..Len(woken) : woken[i].mutex = m}
      Place(i) == Cardinality({j \in mine : j <= i})
  IN  [n \in 1..Cardinality(mine) |-> woken[CHOOSE i \in mine : Place(i) = n].thread]

(* Mutant: a signalled thread takes the mutex in any case. *)
MutTakes(woken, m) == Of(woken, m) # <<>>

Takes(woken, m) == m_owner[m] = NoThread /\ Of(woken, m) # <<>>

LockAsync(t, woken) ==
  /\ m_owner' = [m \in Mutexes |-> IF Takes(woken, m) THEN Head(Of(woken, m))
                                   ELSE m_owner[m]]
  /\ m_mutexes' = [m \in Mutexes |->
                     m_mutexes[m] \o (IF Takes(woken, m) THEN Tail(Of(woken, m))
                                      ELSE Of(woken, m))]
  /\ Proceed(t, {Head(Of(woken, m)) : m \in {n \in Mutexes : Takes(woken, n)}}, clock[t])

CondSignal(t, c) ==
  /\ Enter(t, "signal")
  /\ m_conds[c] # <<>>
  /\ LockAsync(t, <<Head(m_conds[c])>>)
  /\ m_conds' = [m_conds EXCEPT ![c] = Tail(@)]
  /\ UNCHANGED <<m_barrier, want, inside, waiter, clock>>

CondBroadcast(t, c) ==
  /\ Enter(t, "broadcast")
  /\ m_conds[c] # <<>>
  /\ LockAsync(t, m_conds[c])
  /\ m_conds' = [m_conds EXCEPT ![c] = <<>>]
  /\ UNCHANGED <<m_barrier, want, inside, waiter, clock>>

-----------------------------------------------------------------------------
BarrierWait(t) ==
  /\ Enter(t, "barrier")
  /\ \/ /\ Len(m_barrier) = BarrierCount - 1
        /\ m_barrier' = <<>>
        /\ Proceed(t, Elements(m_barrier), clock[t])
     \/ /\ Len(m_barrier) # BarrierCount - 1
        /\ m_barrier' = Append(m_barrier, t)
        /\ StallThread(t, "BARRIER", {})
  /\ UNCHANGED <<m_owner, m_mutexes, m_conds, want, inside, waiter, clock>>

(* A lock or a wait of t returns: t goes on as a holder of its mutex. *)
GoesOn(t) ==
  /\ want' = [want EXCEPT ![t] = NoMutex]
  /\ inside' = [m \in Mutexes |-> IF m = want[t] THEN inside[m] \cup {t}
                                  ELSE inside[m]]
  /\ UNCHANGED <<m_owner, m_mutexes, m_conds, m_barrier>>
=============================================================================
