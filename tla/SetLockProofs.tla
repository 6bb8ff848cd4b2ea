----------------------------- MODULE SetLockProofs -----------------------------
(***************************************************************************)
(* Proofs about SetLock for any number N of cores: its types, the mutexes  *)
(* that each thread holds, mutual exclusion, and that it implements        *)
(* ReaderWriterLock.                                                       *)
(***************************************************************************)
EXTENDS SetLock, TLAPS

\* Which thread can be where, when the loop variable is at its start, and to whom
\* the network thread has passed the lock.
ControlInv ==
  /\ pc[Network] \in {"idle", "acquiring", "exclusive", "releasing", "handing"}
  /\ \A c \in Sharers : pc[c] # "handing"
  /\ \A t \in Threads :
       pc[t] \notin {"acquiring", "releasing", "posting", "downgrading"} => it[t] = 0
  /\ passed # Nobody => pc[Network] = "handing" /\ pc[passed] \in {"posting", "waiting"}
  /\ pc[Network] = "handing" => passed # Nobody

IInv == TypeOK /\ ControlInv /\ MutexesAccountedFor

USE NAssumption, MaxOpsAssumption, ThreadAssumption DEF NAssumption, MaxOpsAssumption, ThreadAssumption

-----------------------------------------------------------------------------
(* Types.                                                                  *)

\* At the start no mutex is taken and every thread is idle.
LEMMA TypeInit == Init => TypeOK
<1> SUFFICES ASSUME Init PROVE TypeOK
  OBVIOUS
<1>1. 0 \in 0 .. N /\ 0 \in 0 .. MaxOps
  OBVIOUS
<1>2. m_locks \in [Sharers -> BOOLEAN] /\ exclusive \in [Sharers -> BOOLEAN] /\ reply \in BOOLEAN
  BY Zenon DEF Init
<1>3. pc \in [Threads -> Locations] /\ it \in [Threads -> 0 .. N] /\ ops \in [Threads -> 0 .. MaxOps]
  BY <1>1 DEF Init, Locations
<1> QED
  BY <1>2, <1>3 DEF Init, TypeOK

\* The loops over the mutexes (acquire_exclusive, release_exclusive) stop at the last one.
LEMMA TypeLoop ==
  ASSUME TypeOK, NEW t \in Threads, LoopStep(t)
  PROVE  TypeOK'
<1>1. CASE AcquireNext(t)
  BY <1>1 DEF AcquireNext, TypeOK, Step, Sharers
<1>2. CASE AcquireDone(t)
  BY <1>2 DEF AcquireDone, TypeOK, Goto, Rewind, Locations
<1>3. CASE ReleaseNext(t)
  <2>1. m_locks' \in [Sharers -> BOOLEAN]
    BY <1>3, Zenon DEF ReleaseNext, TypeOK
  <2>2. it' \in [Threads -> 0 .. N]
    BY <1>3 DEF ReleaseNext, TypeOK, Step
  <2> QED
    BY <1>3, <2>1, <2>2 DEF ReleaseNext, TypeOK
<1>4. CASE ReleaseDone(t)
  BY <1>4 DEF ReleaseDone, TypeOK, Goto, Rewind, Locations
<1> QED
  BY <1>1, <1>2, <1>3, <1>4 DEF LoopStep

\* What a core does to enter, leave, upgrade and downgrade keeps the types.
LEMMA TypeCore ==
  ASSUME TypeOK, NEW c \in Sharers, CoreStep(c)
  PROVE  TypeOK'
<1>0. c \in Threads
  BY DEF Threads
<1>1. CASE AcquireShared(c)
  BY <1>0, <1>1 DEF AcquireShared, TypeOK, Goto, Start, Locations
<1>2. CASE ReleaseShared(c)
  BY <1>0, <1>2 DEF ReleaseShared, TypeOK, Goto, Locations
<1>3. CASE Upgrade(c)
  BY <1>0, <1>3 DEF Upgrade, TypeOK, Goto, Rewind, Locations
<1>4. CASE AcquireStack(c)
  BY <1>0, <1>4 DEF AcquireStack, TypeOK, Goto, Rewind, Start, Locations
<1>5. CASE DowngradeNext(c)
  <2>1. m_locks' \in [Sharers -> BOOLEAN]
    BY <1>5, Zenon DEF DowngradeNext, TypeOK
  <2>2. it' \in [Threads -> 0 .. N]
    BY <1>0, <1>5 DEF DowngradeNext, TypeOK, Step
  <2> QED
    BY <1>5, <2>1, <2>2 DEF DowngradeNext, TypeOK
<1>6. CASE DowngradeDone(c)
  BY <1>0, <1>6 DEF DowngradeDone, TypeOK, Goto, Rewind, Locations
<1>7. CASE Finish(c)
  BY <1>0, <1>7 DEF Finish, TypeOK, Goto, Locations
<1>8. CASE MissInLastLevel(c)
  BY <1>0, <1>8 DEF MissInLastLevel, TypeOK, Goto, Locations
<1>9. CASE WaitForNetworkThread(c)
  BY <1>0, <1>9 DEF WaitForNetworkThread, TypeOK, Goto, Rewind, Locations
<1>10. CASE WakeUpNetworkThread(c)
  BY <1>0, <1>10 DEF WakeUpNetworkThread, TypeOK, Locations
<1> QED
  BY <1>1, <1>2, <1>3, <1>4, <1>5, <1>6, <1>7, <1>8, <1>9, <1>10 DEF CoreStep

\* What the network thread does with a message keeps the types.
LEMMA TypeNetwork ==
  ASSUME TypeOK, NetworkStep
  PROVE  TypeOK'
<1>0. Network \in Threads
  BY DEF Threads
<1>1. CASE HandleRequest
  <2>1. pc' \in [Threads -> Locations] /\ it' \in [Threads -> 0 .. N]
    BY <1>0, <1>1 DEF HandleRequest, TypeOK, Goto, Rewind, Locations
  <2>2. ops' \in [Threads -> 0 .. MaxOps]
    BY <1>0, <1>1 DEF HandleRequest, TypeOK, Start
  <2> QED
    BY <1>1, <2>1, <2>2 DEF HandleRequest, TypeOK
<1>2. CASE HandleReply
  BY <1>0, <1>2 DEF HandleReply, TypeOK, Goto, Rewind, Locations
<1>3. CASE FinishMessage
  BY <1>0, <1>3 DEF FinishMessage, TypeOK, Goto, Locations
<1>4. CASE UpgradeForWaiter
  BY <1>0, <1>4 DEF UpgradeForWaiter, TypeOK, Goto, Start, Locations
<1>5. ASSUME NEW c \in Sharers, WakeUpUserThread(c) PROVE TypeOK'
  BY <1>0, <1>5 DEF WakeUpUserThread, TypeOK, Goto, Locations
<1> QED
  BY <1>1, <1>2, <1>3, <1>4, <1>5 DEF NetworkStep

\* Every step keeps the types.
LEMMA TypeNext ==
  ASSUME TypeOK, [Next]_vars
  PROVE  TypeOK'
<1>1. CASE UNCHANGED vars
  BY <1>1 DEF vars, TypeOK
<1>2. CASE Done
  BY <1>2 DEF Done, vars, TypeOK
<1> QED
  BY <1>1, <1>2, TypeLoop, TypeCore, TypeNetwork DEF Next

\* Type correctness, for any number of cores and any number of operations.
THEOREM TypeCorrect == Spec => []TypeOK
<1>1. TypeOK /\ [Next]_vars => TypeOK'
  BY TypeNext
<1> QED
  BY TypeInit, <1>1, PTL DEF Spec

-----------------------------------------------------------------------------
(* Control.                                                                *)

\* A loop that ends resets its variable and goes where its caller goes on.
LEMMA ControlLoop ==
  ASSUME TypeOK, ControlInv, NEW t \in Threads, LoopStep(t)
  PROVE  ControlInv'
<1>1. CASE AcquireNext(t)
  BY <1>1 DEF AcquireNext, TypeOK, ControlInv, Step, Threads
<1>2. CASE AcquireDone(t)
  BY <1>2 DEF AcquireDone, TypeOK, ControlInv, Goto, Rewind, Threads
<1>3. CASE ReleaseNext(t)
  BY <1>3 DEF ReleaseNext, TypeOK, ControlInv, Step, Threads
<1>4. CASE ReleaseDone(t)
  BY <1>4 DEF ReleaseDone, TypeOK, ControlInv, Goto, Rewind, Threads
<1> QED
  BY <1>1, <1>2, <1>3, <1>4 DEF LoopStep

\* A core is never in a state of the network thread, and notices a hand-over where it waits.
LEMMA ControlCore ==
  ASSUME TypeOK, ControlInv, NEW c \in Sharers, CoreStep(c)
  PROVE  ControlInv'
<1>0. c \in Threads /\ c # Network
  BY DEF Threads, Sharers
<1>1. CASE AcquireShared(c)
  BY <1>0, <1>1 DEF AcquireShared, TypeOK, ControlInv, Goto, Threads
<1>2. CASE ReleaseShared(c)
  BY <1>0, <1>2 DEF ReleaseShared, TypeOK, ControlInv, Goto, Threads
<1>3. CASE Upgrade(c)
  BY <1>0, <1>3 DEF Upgrade, TypeOK, ControlInv, Goto, Rewind, Threads
<1>4. CASE AcquireStack(c)
  BY <1>0, <1>4 DEF AcquireStack, TypeOK, ControlInv, Goto, Rewind, Threads
<1>5. CASE DowngradeNext(c)
  BY <1>0, <1>5 DEF DowngradeNext, TypeOK, ControlInv, Step, Threads
<1>6. CASE DowngradeDone(c)
  BY <1>0, <1>6 DEF DowngradeDone, TypeOK, ControlInv, Goto, Rewind, Threads
<1>7. CASE Finish(c)
  BY <1>0, <1>7 DEF Finish, TypeOK, ControlInv, Goto, Threads
<1>8. CASE MissInLastLevel(c)
  BY <1>0, <1>8 DEF MissInLastLevel, TypeOK, ControlInv, Goto, Threads
<1>9. CASE WaitForNetworkThread(c)
  BY <1>0, <1>9 DEF WaitForNetworkThread, TypeOK, ControlInv, Goto, Rewind, Threads
<1>10. CASE WakeUpNetworkThread(c)
  BY <1>0, <1>10 DEF WakeUpNetworkThread, TypeOK, ControlInv, Threads
<1> QED
  BY <1>1, <1>2, <1>3, <1>4, <1>5, <1>6, <1>7, <1>8, <1>9, <1>10 DEF CoreStep

\* The network thread passes the lock to a waiting core only.
LEMMA ControlNetwork ==
  ASSUME TypeOK, ControlInv, NetworkStep
  PROVE  ControlInv'
<1>0. Network \in Threads /\ Network \notin Sharers /\ Nobody \notin Sharers
  BY DEF Threads, Sharers
<1>1. CASE HandleRequest
  BY <1>0, <1>1 DEF HandleRequest, TypeOK, ControlInv, Goto, Rewind, Threads
<1>2. CASE HandleReply
  BY <1>0, <1>2 DEF HandleReply, TypeOK, ControlInv, Goto, Rewind, Threads
<1>3. CASE FinishMessage
  BY <1>0, <1>3 DEF FinishMessage, TypeOK, ControlInv, Goto, Threads
<1>4. CASE UpgradeForWaiter
  BY <1>0, <1>4 DEF UpgradeForWaiter, TypeOK, ControlInv, Goto, Threads
<1>5. ASSUME NEW c \in Sharers, WakeUpUserThread(c) PROVE ControlInv'
  BY <1>0, <1>5 DEF WakeUpUserThread, TypeOK, ControlInv, Goto, Threads, Waiters
<1> QED
  BY <1>1, <1>2, <1>3, <1>4, <1>5 DEF NetworkStep

-----------------------------------------------------------------------------
(* Who holds which mutex.                                                  *)

\* The mutexes taken are those that the threads hold, each held by one thread.
Accounted(taken, H) ==
  /\ \A i \in Sharers : taken[i] <=> \E t \in Threads : i \in H[t]
  /\ \A t, u \in Threads : t # u => H[t] \cap H[u] = {}

\* A thread takes a free mutex.
LEMMA TakeOne ==
  ASSUME NEW taken, NEW taken1, NEW H, NEW H1, Accounted(taken, H),
         NEW t \in Threads, NEW i \in Sharers, ~ taken[i], taken1[i],
         \A j \in Sharers \ {i} : taken1[j] = taken[j],
         H1[t] = H[t] \cup {i},
         \A u \in Threads \ {t} : H1[u] = H[u]
  PROVE  Accounted(taken1, H1)
<1>1. \A u \in Threads : i \notin H[u]
  BY DEF Accounted
<1>2. ASSUME NEW j \in Sharers PROVE taken1[j] <=> \E u \in Threads : j \in H1[u]
  <2>1. CASE j = i
    BY <2>1
  <2>2. CASE j # i
    <3>1. \A u \in Threads : j \in H1[u] <=> j \in H[u]
      BY <2>2
    <3> QED
      BY <2>2, <3>1 DEF Accounted
  <2> QED
    BY <2>1, <2>2
<1>3. ASSUME NEW u \in Threads, NEW v \in Threads, u # v PROVE H1[u] \cap H1[v] = {}
  BY <1>1, <1>3 DEF Accounted
<1> QED
  BY <1>2, <1>3 DEF Accounted

\* A thread releases a mutex it holds.
LEMMA ReleaseOne ==
  ASSUME NEW taken, NEW taken1, NEW H, NEW H1, Accounted(taken, H),
         NEW t \in Threads, NEW i \in H[t] \cap Sharers, ~ taken1[i],
         \A j \in Sharers \ {i} : taken1[j] = taken[j],
         H1[t] = H[t] \ {i},
         \A u \in Threads \ {t} : H1[u] = H[u]
  PROVE  Accounted(taken1, H1)
<1>1. \A u \in Threads \ {t} : i \notin H[u]
  BY DEF Accounted
<1>2. ASSUME NEW j \in Sharers PROVE taken1[j] <=> \E u \in Threads : j \in H1[u]
  <2>1. CASE j = i
    BY <1>1, <2>1
  <2>2. CASE j # i
    <3>1. \A u \in Threads : j \in H1[u] <=> j \in H[u]
      BY <2>2
    <3> QED
      BY <2>2, <3>1 DEF Accounted
  <2> QED
    BY <2>1, <2>2
<1>3. ASSUME NEW u \in Threads, NEW v \in Threads, u # v PROVE H1[u] \cap H1[v] = {}
  BY <1>3 DEF Accounted
<1> QED
  BY <1>2, <1>3 DEF Accounted

\* The mutexes of each thread as a function, and the invariant in terms of it.
HoldsF == [t \in Threads |-> Holds(t)]

\* MutexesAccountedFor in terms of a function, for the provers.
LEMMA AccountedNow == MutexesAccountedFor <=> Accounted(m_locks, HoldsF)
  BY DEF MutexesAccountedFor, Accounted, HoldsF

\* The same after a step.
LEMMA AccountedNext == MutexesAccountedFor' <=> Accounted(m_locks', HoldsF')
  BY DEF MutexesAccountedFor, Accounted, HoldsF

\* What a thread holds follows from where it is.
LEMMA HoldsSame ==
  ASSUME NEW t \in Threads, pc'[t] = pc[t], it'[t] = it[t]
  PROVE  HoldsF'[t] = HoldsF[t]
  BY DEF HoldsF, Holds

\* The thread moves on and neither takes nor releases a mutex.
LEMMA KeepAll ==
  ASSUME Accounted(m_locks, HoldsF), UNCHANGED m_locks,
         \A t \in Threads : HoldsF'[t] = HoldsF[t]
  PROVE  Accounted(m_locks', HoldsF')
  BY DEF Accounted

\* One turn of a loop takes or releases the mutex that its thread gains or gives up.
LEMMA MutexLoop ==
  ASSUME TypeOK, ControlInv, MutexesAccountedFor, NEW t \in Threads, LoopStep(t)
  PROVE  MutexesAccountedFor'
<1>0. Accounted(m_locks, HoldsF) /\ it[t] \in 0 .. N
  BY AccountedNow DEF TypeOK
<1>1. CASE AcquireNext(t)
  <2>1. \A u \in Threads \ {t} : HoldsF'[u] = HoldsF[u]
    BY <1>1, HoldsSame DEF AcquireNext, TypeOK, Step
  <2>2. HoldsF[t] = 0 .. it[t] - 1 /\ HoldsF'[t] = 0 .. it[t]
    BY <1>0, <1>1 DEF AcquireNext, TypeOK, Step, HoldsF, Holds
  <2>3. HoldsF'[t] = HoldsF[t] \cup {it[t]} /\ it[t] \in Sharers
    BY <1>0, <1>1, <2>2 DEF AcquireNext, Sharers
  <2>4. ~ m_locks[it[t]] /\ m_locks'[it[t]]
    BY <1>1, <2>3 DEF AcquireNext, TypeOK
  <2>5. \A j \in Sharers \ {it[t]} : m_locks'[j] = m_locks[j]
    BY <1>1, Zenon DEF AcquireNext, TypeOK
  <2> QED
    BY <1>0, <2>1, <2>3, <2>4, <2>5, TakeOne, AccountedNext
<1>2. CASE AcquireDone(t)
  <2>1. \A u \in Threads \ {t} : HoldsF'[u] = HoldsF[u]
    BY <1>2, HoldsSame DEF AcquireDone, TypeOK, Goto, Rewind
  <2>2. HoldsF[t] = 0 .. N - 1 /\ HoldsF'[t] = 0 .. N - 1
    BY <1>2 DEF AcquireDone, AllTaken, TypeOK, Goto, Rewind, HoldsF, Holds, Sharers
  <2> QED
    BY <1>0, <1>2, <2>1, <2>2, KeepAll, AccountedNext DEF AcquireDone
<1>3. CASE ReleaseNext(t)
  <2>1. \A u \in Threads \ {t} : HoldsF'[u] = HoldsF[u]
    BY <1>3, HoldsSame DEF ReleaseNext, TypeOK, Step
  <2>2. HoldsF[t] = it[t] .. N - 1 /\ HoldsF'[t] = it[t] + 1 .. N - 1
    BY <1>0, <1>3 DEF ReleaseNext, TypeOK, Step, HoldsF, Holds
  <2>3. HoldsF'[t] = HoldsF[t] \ {it[t]} /\ it[t] \in HoldsF[t] \cap Sharers
    BY <1>0, <1>3, <2>2 DEF ReleaseNext, Sharers
  <2>4. ~ m_locks'[it[t]]
    BY <1>3, <2>3 DEF ReleaseNext, TypeOK
  <2>5. \A j \in Sharers \ {it[t]} : m_locks'[j] = m_locks[j]
    BY <1>3, Zenon DEF ReleaseNext, TypeOK
  <2> QED
    BY <1>0, <2>1, <2>3, <2>4, <2>5, ReleaseOne, AccountedNext
<1>4. CASE ReleaseDone(t)
  <2>1. \A u \in Threads \ {t} : HoldsF'[u] = HoldsF[u]
    BY <1>4, HoldsSame DEF ReleaseDone, TypeOK, Goto, Rewind
  <2>2. HoldsF[t] = {} /\ HoldsF'[t] = {}
    BY <1>4 DEF ReleaseDone, TypeOK, Goto, Rewind, HoldsF, Holds
  <2> QED
    BY <1>0, <1>4, <2>1, <2>2, KeepAll, AccountedNext DEF ReleaseDone
<1> QED
  BY <1>1, <1>2, <1>3, <1>4 DEF LoopStep

\* A core that enters, leaves or downgrades keeps the account of its mutexes.
LEMMA MutexCore ==
  ASSUME TypeOK, ControlInv, MutexesAccountedFor, NEW c \in Sharers, CoreStep(c)
  PROVE  MutexesAccountedFor'
<1>0. /\ Accounted(m_locks, HoldsF)
      /\ c \in Threads /\ c # Network /\ c \in 0 .. N - 1 /\ it[c] \in 0 .. N
  BY AccountedNow DEF TypeOK, Threads, Sharers
<1>1. CASE AcquireShared(c)
  <2>1. \A u \in Threads \ {c} : HoldsF'[u] = HoldsF[u]
    BY <1>1, HoldsSame DEF AcquireShared, TypeOK, Goto
  <2>2. HoldsF[c] = {} /\ HoldsF'[c] = {c}
    BY <1>0, <1>1 DEF AcquireShared, TypeOK, Goto, HoldsF, Holds
  <2>3. ~ m_locks[c] /\ m_locks'[c] /\ \A j \in Sharers \ {c} : m_locks'[j] = m_locks[j]
    BY <1>1, Zenon DEF AcquireShared, TypeOK
  <2> QED
    BY <1>0, <2>1, <2>2, <2>3, TakeOne, AccountedNext
<1>2. ASSUME ReleaseShared(c) \/ Upgrade(c) PROVE MutexesAccountedFor'
  <2>1. \A u \in Threads \ {c} : HoldsF'[u] = HoldsF[u]
    BY <1>2, HoldsSame DEF ReleaseShared, Upgrade, TypeOK, Goto, Rewind
  <2>2. HoldsF[c] = {c} /\ HoldsF'[c] = {}
    BY <1>0, <1>2 DEF ReleaseShared, Upgrade, TypeOK, Goto, Rewind, HoldsF, Holds
  <2>3. ~ m_locks'[c] /\ \A j \in Sharers \ {c} : m_locks'[j] = m_locks[j]
    BY <1>2, Zenon DEF ReleaseShared, Upgrade, TypeOK
  <2> QED
    BY <1>0, <2>1, <2>2, <2>3, ReleaseOne, AccountedNext
<1>3. CASE AcquireStack(c)
  <2>1. \A u \in Threads \ {c} : HoldsF'[u] = HoldsF[u]
    BY <1>3, HoldsSame DEF AcquireStack, TypeOK, Goto, Rewind
  <2>2. HoldsF[c] = {} /\ HoldsF'[c] = {}
    BY <1>0, <1>3 DEF AcquireStack, TypeOK, Goto, Rewind, HoldsF, Holds
  <2> QED
    BY <1>0, <1>3, <2>1, <2>2, KeepAll, AccountedNext DEF AcquireStack
<1>4. CASE DowngradeNext(c)
  <2>1. \A u \in Threads \ {c} : HoldsF'[u] = HoldsF[u]
    BY <1>4, HoldsSame DEF DowngradeNext, TypeOK, Step
  <2>2. /\ HoldsF[c] = {c} \cup (it[c] .. N - 1)
        /\ HoldsF'[c] = {c} \cup (it[c] + 1 .. N - 1)
    BY <1>0, <1>4 DEF DowngradeNext, TypeOK, Step, HoldsF, Holds
  <2>3. CASE it[c] = c
    <3>1. HoldsF'[c] = HoldsF[c] /\ UNCHANGED m_locks
      BY <1>0, <1>4, <2>2, <2>3 DEF DowngradeNext, Keeps
    <3> QED
      BY <1>0, <2>1, <3>1, KeepAll, AccountedNext
  <2>4. CASE it[c] # c
    <3>1. HoldsF'[c] = HoldsF[c] \ {it[c]} /\ it[c] \in HoldsF[c] \cap Sharers
      BY <1>0, <1>4, <2>2, <2>4 DEF DowngradeNext, Sharers
    <3>2. m_locks' = [m_locks EXCEPT ![it[c]] = FALSE]
      BY <1>4, <2>4 DEF DowngradeNext, Keeps
    <3>3. ~ m_locks'[it[c]] /\ \A j \in Sharers \ {it[c]} : m_locks'[j] = m_locks[j]
      BY <3>1, <3>2, Zenon DEF TypeOK
    <3> QED
      BY <1>0, <2>1, <3>1, <3>3, ReleaseOne, AccountedNext
  <2> QED
    BY <2>3, <2>4
<1>5. CASE DowngradeDone(c)
  <2>1. \A u \in Threads \ {c} : HoldsF'[u] = HoldsF[u]
    BY <1>5, HoldsSame DEF DowngradeDone, TypeOK, Goto, Rewind
  <2>2. HoldsF[c] = {c} /\ HoldsF'[c] = {c}
    BY <1>0, <1>5 DEF DowngradeDone, TypeOK, Goto, Rewind, HoldsF, Holds
  <2> QED
    BY <1>0, <1>5, <2>1, <2>2, KeepAll, AccountedNext DEF DowngradeDone
<1>6. ASSUME Finish(c) \/ MissInLastLevel(c) PROVE MutexesAccountedFor'
  <2>1. \A u \in Threads \ {c} : HoldsF'[u] = HoldsF[u]
    BY <1>6, HoldsSame DEF Finish, MissInLastLevel, TypeOK, Goto
  <2>2. it[c] = 0 /\ it'[c] = 0
    BY <1>0, <1>6 DEF Finish, MissInLastLevel, ControlInv
  <2>3. HoldsF[c] = 0 .. N - 1 /\ pc'[c] \in {"releasing", "downgrading", "posting"}
    BY <1>0, <1>6 DEF Finish, MissInLastLevel, TypeOK, Goto, HoldsF, Holds, Sharers
  <2>4. HoldsF'[c] = 0 .. N - 1
    BY <1>0, <2>2, <2>3 DEF HoldsF, Holds
  <2> QED
    BY <1>0, <1>6, <2>1, <2>3, <2>4, KeepAll, AccountedNext DEF Finish, MissInLastLevel
<1>7. CASE WaitForNetworkThread(c)
  <2>1. \A u \in Threads \ {c} : HoldsF'[u] = HoldsF[u]
    BY <1>7, HoldsSame DEF WaitForNetworkThread, TypeOK, Goto, Rewind
  <2>2. HoldsF[c] = {} /\ HoldsF'[c] = {}
    BY <1>0, <1>7 DEF WaitForNetworkThread, TypeOK, Goto, Rewind, HoldsF, Holds
  <2> QED
    BY <1>0, <1>7, <2>1, <2>2, KeepAll, AccountedNext DEF WaitForNetworkThread
<1>8. CASE WakeUpNetworkThread(c)
  \* The only step that moves the mutexes of one thread to another.
  <2>1. \A u \in Threads \ {c, Network} : HoldsF'[u] = HoldsF[u]
    BY <1>8, HoldsSame DEF WakeUpNetworkThread, TypeOK
  <2>2. HoldsF[c] = {} /\ HoldsF'[c] = Sharers
    BY <1>0, <1>8 DEF WakeUpNetworkThread, TypeOK, HoldsF, Holds
  <2>3. Network \in Threads /\ it'[Network] = 0
    BY <1>8 DEF WakeUpNetworkThread, ControlInv, Threads
  <2>4. HoldsF[Network] = Sharers /\ HoldsF'[Network] = {}
    BY <1>0, <1>8, <2>3 DEF WakeUpNetworkThread, TypeOK, HoldsF, Holds
  <2>5. UNCHANGED m_locks
    BY <1>8 DEF WakeUpNetworkThread
  <2>6. Accounted(m_locks', HoldsF')
    <3>1. \A i \in Sharers : i \in HoldsF[Network] /\ i \in HoldsF'[c]
      BY <2>2, <2>4
    <3>2. \A i \in Sharers : m_locks'[i] <=> \E u \in Threads : i \in HoldsF'[u]
      BY <1>0, <2>3, <2>5, <3>1 DEF Accounted
    <3>3. \A u \in Threads \ {Network} : HoldsF[u] \cap Sharers = {}
      BY <1>0, <2>3, <2>4 DEF Accounted
    <3>4. ASSUME NEW u \in Threads, NEW v \in Threads, u # v
          PROVE  HoldsF'[u] \cap HoldsF'[v] = {}
      BY <1>0, <2>1, <2>2, <2>4, <3>3, <3>4 DEF Accounted
    <3> QED
      BY <3>2, <3>4 DEF Accounted
  <2> QED
    BY <2>6, AccountedNext
<1> QED
  BY <1>1, <1>2, <1>3, <1>4, <1>5, <1>6, <1>7, <1>8 DEF CoreStep

\* The network thread keeps the account, also when it passes all mutexes on.
LEMMA MutexNetwork ==
  ASSUME TypeOK, ControlInv, MutexesAccountedFor, NetworkStep
  PROVE  MutexesAccountedFor'
<1>0. Accounted(m_locks, HoldsF) /\ Network \in Threads
  BY AccountedNow DEF Threads
<1>1. ASSUME HandleRequest \/ HandleReply PROVE MutexesAccountedFor'
  <2>1. \A u \in Threads \ {Network} : HoldsF'[u] = HoldsF[u]
    BY <1>1, HoldsSame DEF HandleRequest, HandleReply, TypeOK, Goto, Rewind
  <2>2. HoldsF[Network] = {} /\ HoldsF'[Network] = {}
    BY <1>0, <1>1 DEF HandleRequest, HandleReply, TypeOK, Goto, Rewind, HoldsF, Holds
  <2> QED
    BY <1>0, <1>1, <2>1, <2>2, KeepAll, AccountedNext DEF HandleRequest, HandleReply
<1>2. ASSUME FinishMessage \/ UpgradeForWaiter \/ \E c \in Sharers : WakeUpUserThread(c)
      PROVE MutexesAccountedFor'
  <2>1. pc[Network] = "exclusive" /\ UNCHANGED <<m_locks, it>>
    BY <1>2 DEF FinishMessage, UpgradeForWaiter, WakeUpUserThread
  <2>2. pc' = [pc EXCEPT ![Network] = "releasing"] \/ pc' = [pc EXCEPT ![Network] = "handing"]
    BY <1>2 DEF FinishMessage, UpgradeForWaiter, WakeUpUserThread, Goto
  <2>3. \A u \in Threads \ {Network} : HoldsF'[u] = HoldsF[u]
    BY <2>1, <2>2, HoldsSame DEF TypeOK
  <2>4. it[Network] = 0 /\ it'[Network] = 0
    BY <1>0, <2>1 DEF ControlInv
  <2>5. HoldsF[Network] = 0 .. N - 1
    BY <1>0, <2>1 DEF HoldsF, Holds, Sharers
  <2>6. pc'[Network] \in {"releasing", "handing"}
    BY <1>0, <2>2 DEF TypeOK
  <2>7. HoldsF'[Network] = 0 .. N - 1
    BY <1>0, <2>4, <2>6 DEF HoldsF, Holds, Sharers
  <2> QED
    BY <1>0, <2>1, <2>3, <2>5, <2>7, KeepAll, AccountedNext
<1> QED
  BY <1>1, <1>2 DEF NetworkStep

-----------------------------------------------------------------------------
(* The inductive invariant and what follows from it.                       *)

\* The inductive invariant holds at the start.
LEMMA InvInit == Init => IInv
<1> SUFFICES ASSUME Init PROVE IInv
  OBVIOUS
<1>1. \A t \in Threads : pc[t] = "idle" /\ it[t] = 0
  BY DEF Init
<1>2. ControlInv
  BY <1>1 DEF ControlInv, Init, Threads
<1>3. \A t \in Threads : Holds(t) = {}
  BY <1>1 DEF Holds
<1>4. \A i \in Sharers : ~ m_locks[i]
  BY Zenon DEF Init
<1>5. MutexesAccountedFor
  BY <1>3, <1>4 DEF MutexesAccountedFor
<1> QED
  BY TypeInit, <1>2, <1>5 DEF IInv

\* Every step keeps the inductive invariant.
LEMMA InvNext == IInv /\ [Next]_vars => IInv'
<1> SUFFICES ASSUME IInv, [Next]_vars PROVE IInv'
  OBVIOUS
<1>0. TypeOK /\ ControlInv /\ MutexesAccountedFor /\ TypeOK'
  BY TypeNext DEF IInv
<1>1. CASE UNCHANGED vars
  <2>1. ControlInv'
    BY <1>0, <1>1 DEF vars, ControlInv
  <2>2. Accounted(m_locks, HoldsF) /\ UNCHANGED <<m_locks, pc, it>>
    BY <1>0, <1>1, AccountedNow DEF vars
  <2>3. \A t \in Threads : HoldsF'[t] = HoldsF[t]
    BY <2>2, HoldsSame
  <2> QED
    BY <1>0, <2>1, <2>2, <2>3, KeepAll, AccountedNext DEF IInv
<1>2. ASSUME NEW t \in Threads, LoopStep(t) PROVE IInv'
  BY <1>0, <1>2, ControlLoop, MutexLoop DEF IInv
<1>3. ASSUME NEW c \in Sharers, CoreStep(c) PROVE IInv'
  BY <1>0, <1>3, ControlCore, MutexCore DEF IInv
<1>4. CASE NetworkStep
  BY <1>0, <1>4, ControlNetwork, MutexNetwork DEF IInv
<1> QED
  BY <1>1, <1>2, <1>3, <1>4 DEF Next, Done

\* Whoever owns the stack holds every mutex, or the network thread holds them for
\* the core it has woken; whoever is inside a first-level transaction holds one.
LEMMA InvExcludes == IInv => MutualExclusion
<1> SUFFICES ASSUME IInv PROVE MutualExclusion
  OBVIOUS
<1> DEFINE Holder(t) == IF passed = t THEN Network ELSE t
<1>0. 0 \in Sharers /\ Network \in Threads /\ Network \notin Sharers
  BY DEF Sharers, Threads
<1>1. ASSUME NEW t \in Owners
      PROVE  t \in Threads /\ Holder(t) \in Threads /\ Holds(Holder(t)) = Sharers
  <2>1. CASE passed = t
    <3>1. t \in Threads /\ passed # Nobody
      BY <1>1, <2>1 DEF Owners, Threads, Sharers
    <3>2. pc[Network] = "handing"
      BY <3>1 DEF IInv, ControlInv
    <3> QED
      BY <1>0, <2>1, <3>1, <3>2 DEF Holds
  <2>2. CASE passed # t
    BY <1>0, <1>1, <2>2 DEF IInv, Owners, Holds
  <2> QED
    BY <2>1, <2>2
<1>2. ASSUME NEW t \in Owners, NEW u \in Owners PROVE t = u
  <2>1. Holder(t) = Holder(u)
    <3>1. /\ Holder(t) \in Threads /\ Holds(Holder(t)) = Sharers
          /\ Holder(u) \in Threads /\ Holds(Holder(u)) = Sharers
      BY <1>1, <1>2
    <3>2. Holds(Holder(t)) \cap Holds(Holder(u)) # {}
      BY <1>0, <3>1
    <3> HIDE DEF Holder
    <3> QED
      BY <3>1, <3>2 DEF IInv, MutexesAccountedFor
  <2>2. CASE passed = t /\ passed # u
    <3>1. u = Network /\ pc[Network] = "handing"
      <4>1. u = Network
        BY <2>1, <2>2
      <4>2. passed # Nobody
        BY <1>0, <1>1, <2>2 DEF Threads, Sharers
      <4> QED
        BY <4>1, <4>2 DEF IInv, ControlInv
    <3> QED
      BY <3>1, <1>0, <1>2, <2>2 DEF Owners
  <2>3. CASE passed = u /\ passed # t
    <3>1. t = Network /\ pc[Network] = "handing"
      <4>1. t = Network
        BY <2>1, <2>3
      <4>2. passed # Nobody
        BY <1>0, <1>1, <2>3 DEF Threads, Sharers
      <4> QED
        BY <4>1, <4>2 DEF IInv, ControlInv
    <3> QED
      BY <3>1, <1>0, <1>2, <2>3 DEF Owners
  <2> QED
    BY <2>1, <2>2, <2>3
<1>3. ASSUME NEW t \in Owners, NEW c \in Readers PROVE FALSE
  <2>1. c \in Sharers /\ c \in Threads /\ c \in Holds(c)
    BY <1>3 DEF Readers, Holds, Threads
  <2>2. Holder(t) = c
    BY <1>1, <2>1 DEF IInv, MutexesAccountedFor
  <2>3. t = c /\ passed # c
    BY <1>0, <2>1, <2>2
  <2> QED
    BY <1>3, <2>3 DEF Owners, Readers
<1> QED
  BY <1>2, <1>3 DEF MutualExclusion

\* No mutex is leaked, held twice or released under its holder, for any number of
\* cores and operations.
THEOREM MutexesAccounted == Spec => []MutexesAccountedFor
<1>1. IInv => MutexesAccountedFor
  BY DEF IInv
<1> QED
  BY InvInit, InvNext, <1>1, PTL DEF Spec

\* The owner of a stack is alone, for any number of cores and operations.
THEOREM OwnerIsAlone == Spec => []MutualExclusion
  BY InvInit, InvNext, InvExcludes, PTL DEF Spec

-----------------------------------------------------------------------------
(* SetLock implements ReaderWriterLock.                                    *)

\* Behind every owner of the stack there is a thread that holds all mutexes and is
\* done acquiring them.
LEMMA OwnerHoldsAll ==
  ASSUME IInv, NEW t \in Owners
  PROVE  \E u \in Threads :
           pc[u] \in {"exclusive", "filling", "handing"} /\ Holds(u) = Sharers
<1>1. CASE pc[t] \in {"exclusive", "filling"}
  BY <1>1 DEF Owners, Holds, Threads
<1>2. CASE pc[t] \notin {"exclusive", "filling"}
  <2>1. passed = t /\ passed # Nobody
    BY <1>2 DEF Owners, Sharers
  <2>2. pc[Network] = "handing" /\ Network \in Threads
    BY <2>1 DEF IInv, ControlInv, Threads
  <2> QED
    BY <2>2 DEF Holds
<1> QED
  BY <1>1, <1>2

\* No thread owns the stack while a mutex is free.
LEMMA FreeMutexMeansNoOwner ==
  ASSUME IInv, NEW i \in Sharers, ~ m_locks[i]
  PROVE  Owners = {}
<1> SUFFICES ASSUME NEW t \in Owners PROVE FALSE
  OBVIOUS
<1>1. PICK u \in Threads : Holds(u) = Sharers
  BY OwnerHoldsAll
<1> QED
  BY <1>1 DEF IInv, MutexesAccountedFor

\* A thread that has acquired every mutex finds no owner and no reader.
LEMMA AllTakenMeansAlone ==
  ASSUME IInv, NEW t \in Threads, pc[t] = "acquiring", it[t] = N
  PROVE  Owners = {} /\ Readers = {}
<1>0. Holds(t) = Sharers /\ 0 \in Sharers
  BY DEF Holds, Sharers
<1>1. ASSUME NEW o \in Owners PROVE FALSE
  <2>1. PICK u \in Threads :
          pc[u] \in {"exclusive", "filling", "handing"} /\ Holds(u) = Sharers
    BY OwnerHoldsAll
  <2>2. u # t /\ Holds(u) \cap Holds(t) # {}
    BY <1>0, <2>1
  <2> QED
    BY <2>1, <2>2 DEF IInv, MutexesAccountedFor
<1>2. ASSUME NEW c \in Readers PROVE FALSE
  <2>1. c \in Threads /\ c \in Holds(c) /\ c \in Sharers /\ c # t
    BY DEF Readers, Holds, Threads
  <2>2. Holds(c) \cap Holds(t) # {}
    BY <1>0, <2>1
  <2> QED
    BY <2>1, <2>2 DEF IInv, MutexesAccountedFor
<1> QED
  BY <1>1, <1>2

\* How the owners and readers change when one thread moves on.
LEMMA ThreadMoves ==
  ASSUME TypeOK, NEW t \in Threads, NEW l \in Locations, Goto(t, l), passed' = passed
  PROVE  /\ Owners' = IF l \in {"exclusive", "filling"} \/ passed = t
                      THEN Owners \cup {t} ELSE Owners \ {t}
         /\ Readers' = IF t \in Sharers /\ l \in {"shared", "downgrading", "filled"}
                       THEN Readers \cup {t} ELSE Readers \ {t}
<1>1. pc'[t] = l /\ \A u \in Threads \ {t} : pc'[u] = pc[u]
  BY DEF Goto, TypeOK
<1>2. Sharers \subseteq Threads /\ (passed = t => t \in Sharers)
  BY DEF TypeOK, Threads, Sharers
<1>3. \A u : u \in Owners <=> \/ u \in Threads /\ pc[u] \in {"exclusive", "filling"}
                              \/ u \in Sharers /\ passed = u
  BY DEF Owners
<1>4. \A u : u \in Owners' <=> \/ u \in Threads /\ pc'[u] \in {"exclusive", "filling"}
                               \/ u \in Sharers /\ passed = u
  BY DEF Owners
<1>5. \A c : c \in Readers <=> c \in Sharers /\ pc[c] \in {"shared", "downgrading", "filled"}
  BY DEF Readers
<1>6. \A c : c \in Readers' <=> c \in Sharers /\ pc'[c] \in {"shared", "downgrading", "filled"}
  BY DEF Readers
<1> HIDE DEF Threads, Sharers
<1>7. \A u : u # t => (u \in Owners' <=> u \in Owners) /\ (u \in Readers' <=> u \in Readers)
  BY <1>1, <1>2, <1>3, <1>4, <1>5, <1>6
<1>8. /\ t \in Owners' <=> l \in {"exclusive", "filling"} \/ passed = t
      /\ t \in Readers' <=> t \in Sharers /\ l \in {"shared", "downgrading", "filled"}
  BY <1>1, <1>2, <1>4, <1>6
<1> QED
  BY <1>7, <1>8

\* The writer of the abstract lock, now and after a step.
Writer == IF Owners = {} THEN Nobody ELSE CHOOSE t \in Owners : TRUE

\* It is the only owner.
LEMMA WriterIs == /\ Owners = {} => Writer = Nobody
                  /\ \A t : Owners = {t} => Writer = t
                  /\ Owners' = {} => Writer' = Nobody
                  /\ \A t : Owners' = {t} => Writer' = t
<1>1. \A S : S # {} => (CHOOSE t \in S : TRUE) \in S
  BY Zenon
<1>2. Owners # {} => Writer \in Owners
  BY <1>1, Zenon DEF Writer
<1>3. Owners' # {} => Writer' \in Owners'
  BY <1>1, Zenon DEF Writer
<1>4. (Owners = {} => Writer = Nobody) /\ (Owners' = {} => Writer' = Nobody)
  BY DEF Writer
<1> HIDE DEF Writer
<1> QED
  BY <1>2, <1>3, <1>4

\* A step that leaves owners and readers alone is a stutter of the abstract lock.
LEMMA Stutters ==
  ASSUME Owners' = Owners, Readers' = Readers
  PROVE  UNCHANGED RW!rwvars
<1>1. Writer' = Writer
  BY DEF Writer
<1> QED
  BY <1>1 DEF Writer, RW!rwvars

\* An own loop over the mutexes is invisible until it ends; the end of
\* acquire_exclusive is WriteLock.
LEMMA RefineLoop ==
  ASSUME IInv, NEW t \in Threads, LoopStep(t)
  PROVE  [RW!RWNext]_RW!rwvars
<1>0. TypeOK /\ (passed = t => pc[t] \in {"posting", "waiting"})
  <2>1. t # Nobody
    BY DEF Threads, Sharers
  <2> QED
    BY <2>1 DEF IInv, ControlInv
<1>1. ASSUME AcquireNext(t) \/ ReleaseNext(t) PROVE [RW!RWNext]_RW!rwvars
  <2>1. UNCHANGED <<pc, passed>>
    BY <1>1 DEF AcquireNext, ReleaseNext
  <2>2. Owners' = Owners /\ Readers' = Readers
    BY <2>1 DEF Owners, Readers
  <2> QED
    BY <2>2, Stutters
<1>2. CASE AcquireDone(t)
  <2>1. Owners = {} /\ Readers = {}
    BY <1>2, AllTakenMeansAlone DEF AcquireDone, AllTaken
  <2>2. Goto(t, "exclusive") /\ passed' = passed /\ "exclusive" \in Locations
    BY <1>2 DEF AcquireDone, Locations
  <2>3. Owners' = {t} /\ Readers' = {}
    BY <1>0, <2>1, <2>2, ThreadMoves
  <2>4. Writer = Nobody /\ Writer' = t
    BY <2>1, <2>3, WriterIs
  <2>5. RW!WriteLock(t)
    BY <2>1, <2>3, <2>4 DEF Writer, RW!WriteLock
  <2> QED
    BY <2>5 DEF RW!RWNext, RW!Threads, Threads
<1>3. CASE ReleaseDone(t)
  <2>1. Goto(t, "idle") /\ passed' = passed /\ "idle" \in Locations /\ pc[t] = "releasing"
    BY <1>3 DEF ReleaseDone, Locations
  <2>2. t \notin Owners /\ t \notin Readers /\ passed # t
    BY <1>0, <2>1 DEF Owners, Readers
  <2>3. Owners' = Owners /\ Readers' = Readers
    BY <1>0, <2>1, <2>2, ThreadMoves
  <2> QED
    BY <2>3, Stutters
<1> QED
  BY <1>1, <1>2, <1>3 DEF LoopStep

\* Entering a first-level transaction is ReadLock; leaving or upgrading it is
\* ReadUnlock; an owner that is done takes Downgrade or WriteUnlock, one that has
\* missed takes WriteUnlock; nothing else that a core does is visible.
LEMMA RefineCore ==
  ASSUME IInv, NEW c \in Sharers, CoreStep(c)
  PROVE  [RW!RWNext]_RW!rwvars
<1>0. /\ TypeOK /\ c \in Threads /\ c # Network /\ c # Nobody
      /\ passed = c => pc[c] \in {"posting", "waiting"}
      /\ \A t, u \in Owners : t = u
      /\ Owners # {} => Readers = {}
  <2>1. c # Nobody /\ c \in Threads /\ c # Network
    BY DEF Threads, Sharers
  <2> QED
    BY <2>1, InvExcludes DEF IInv, ControlInv, MutualExclusion
<1>1. CASE AcquireShared(c)
  <2>1. Goto(c, "shared") /\ passed' = passed /\ "shared" \in Locations
    BY <1>1 DEF AcquireShared, Locations
  <2>2. Owners = {} /\ passed # c
    BY <1>0, <1>1, FreeMutexMeansNoOwner DEF AcquireShared
  <2>3. Owners' = {} /\ Readers' = Readers \cup {c}
    BY <1>0, <2>1, <2>2, ThreadMoves
  <2>4. Writer = Nobody /\ Writer' = Nobody
    BY <2>2, <2>3, WriterIs
  <2>5. RW!ReadLock(c)
    BY <2>3, <2>4 DEF Writer, RW!ReadLock
  <2> QED
    BY <2>5 DEF RW!RWNext
<1>2. ASSUME ReleaseShared(c) \/ Upgrade(c) PROVE [RW!RWNext]_RW!rwvars
  <2>1. PICK l \in {"idle", "acquiring"} : Goto(c, l)
    BY <1>2 DEF ReleaseShared, Upgrade
  <2>2. l \in Locations /\ passed' = passed /\ c \in Readers /\ passed # c
    BY <1>0, <1>2 DEF ReleaseShared, Upgrade, Readers, Locations
  <2>3. Owners = {}
    BY <1>0, <2>2
  <2>4. Owners' = {} /\ Readers' = Readers \ {c}
    BY <1>0, <2>1, <2>2, <2>3, ThreadMoves
  <2>5. Writer = Nobody /\ Writer' = Nobody
    BY <2>3, <2>4, WriterIs
  <2>6. RW!ReadUnlock(c)
    BY <2>2, <2>4, <2>5 DEF Writer, RW!ReadUnlock
  <2> QED
    BY <2>6 DEF RW!RWNext
<1>3. CASE AcquireStack(c)
  <2>1. Goto(c, "acquiring") /\ passed' = passed /\ "acquiring" \in Locations /\ pc[c] = "idle"
    BY <1>3 DEF AcquireStack, Locations
  <2>2. c \notin Owners /\ c \notin Readers /\ passed # c
    BY <1>0, <2>1 DEF Owners, Readers
  <2> QED
    BY <1>0, <2>1, <2>2, ThreadMoves, Stutters
<1>4. CASE DowngradeNext(c)
  <2>1. UNCHANGED <<pc, passed>>
    BY <1>4 DEF DowngradeNext
  <2>2. Owners' = Owners /\ Readers' = Readers
    BY <2>1 DEF Owners, Readers
  <2> QED
    BY <2>2, Stutters
<1>5. CASE DowngradeDone(c)
  <2>1. Goto(c, "filled") /\ passed' = passed /\ "filled" \in Locations /\ pc[c] = "downgrading"
    BY <1>5 DEF DowngradeDone, Locations
  <2>2. c \notin Owners /\ c \in Readers /\ passed # c
    BY <1>0, <2>1 DEF Owners, Readers
  <2> QED
    BY <1>0, <2>1, <2>2, ThreadMoves, Stutters
<1>6. ASSUME Finish(c) \/ MissInLastLevel(c) PROVE [RW!RWNext]_RW!rwvars
  <2>1. PICK l \in {"releasing", "downgrading", "posting"} : Goto(c, l)
    BY <1>6 DEF Finish, MissInLastLevel
  <2>2. l \in Locations /\ passed' = passed /\ c \in Owners /\ passed # c
    BY <1>0, <1>6 DEF Finish, MissInLastLevel, Owners, Locations
  <2>3. Owners = {c} /\ Readers = {}
    BY <1>0, <2>2
  <2>4. Owners' = {} /\ Readers' = IF l = "downgrading" THEN {c} ELSE {}
    BY <1>0, <2>1, <2>2, <2>3, ThreadMoves
  <2>5. Writer = c /\ Writer' = Nobody
    BY <2>3, <2>4, WriterIs
  <2>6. RW!Downgrade(c) \/ RW!WriteUnlock
    BY <2>3, <2>4, <2>5 DEF Writer, RW!Downgrade, RW!WriteUnlock
  <2> QED
    BY <2>6 DEF RW!RWNext
<1>7. CASE WaitForNetworkThread(c)
  \* The network thread may have passed the lock to the core already.
  <2>1. Goto(c, "waiting") /\ passed' = passed /\ "waiting" \in Locations /\ pc[c] = "posting"
    BY <1>7 DEF WaitForNetworkThread, Locations
  <2>2. (c \in Owners <=> passed = c) /\ c \notin Readers
    BY <1>0, <2>1 DEF Owners, Readers
  <2>3. Owners' = Owners /\ Readers' = Readers
    BY <1>0, <2>1, <2>2, ThreadMoves
  <2> QED
    BY <2>3, Stutters
<1>8. CASE WakeUpNetworkThread(c)
  \* The core owns the stack by the semaphore before, by its own code after.
  <2>1. /\ passed = c /\ passed' = Nobody /\ pc[c] = "waiting" /\ pc[Network] = "handing"
        /\ pc'[c] = "filling" /\ pc'[Network] = "acquiring"
        /\ \A u \in Threads \ {c, Network} : pc'[u] = pc[u]
    BY <1>0, <1>8 DEF WakeUpNetworkThread, TypeOK, Threads
  <2>2. c \in Owners /\ c \notin Readers /\ Owners = {c}
    BY <1>0, <2>1 DEF Owners, Readers
  <2>3. c \in Owners' /\ c \notin Readers' /\ Network \notin Owners' /\ Nobody \notin Owners'
    BY <1>0, <2>1 DEF Owners, Readers, Threads, Sharers
  <2>4. \A u \in Threads \ {c, Network} : u \in Owners' => u \in Owners
    BY <2>1 DEF Owners, Threads, Sharers
  <2>5. Owners' \subseteq Threads
    BY DEF Owners, Threads
  <2>6. Owners' = {c}
    BY <2>2, <2>3, <2>4, <2>5
  <2>7. Readers' = Readers
    BY <1>0, <2>1 DEF Readers, Threads, Sharers
  <2> QED
    BY <2>2, <2>6, <2>7, Stutters
<1> QED
  BY <1>1, <1>2, <1>3, <1>4, <1>5, <1>6, <1>7, <1>8 DEF CoreStep

\* The network thread gives the stack back with WriteUnlock or hands it over with PassOn.
LEMMA RefineNetwork ==
  ASSUME IInv, NetworkStep
  PROVE  [RW!RWNext]_RW!rwvars
<1>0. /\ TypeOK /\ Network \in Threads /\ Network \notin Sharers /\ passed # Network
      /\ \A t, u \in Owners : t = u
      /\ Owners # {} => Readers = {}
      /\ pc[Network] # "handing" => passed = Nobody
  <2>1. Network \in Threads /\ Network \notin Sharers
    BY DEF Threads, Sharers
  <2> QED
    BY <2>1, InvExcludes DEF IInv, ControlInv, MutualExclusion, TypeOK
<1>1. ASSUME HandleRequest \/ HandleReply PROVE [RW!RWNext]_RW!rwvars
  <2>1. /\ Goto(Network, "acquiring") /\ passed' = passed /\ "acquiring" \in Locations
        /\ pc[Network] = "idle"
    BY <1>1 DEF HandleRequest, HandleReply, Locations
  <2>2. Network \notin Owners /\ Network \notin Readers
    BY <1>0, <2>1 DEF Owners, Readers
  <2> QED
    BY <1>0, <2>1, <2>2, ThreadMoves, Stutters
<1>2. ASSUME FinishMessage \/ UpgradeForWaiter PROVE [RW!RWNext]_RW!rwvars
  <2>1. /\ Goto(Network, "releasing") /\ passed' = passed /\ "releasing" \in Locations
        /\ pc[Network] = "exclusive"
    BY <1>2 DEF FinishMessage, UpgradeForWaiter, Locations
  <2>2. Network \in Owners
    BY <1>0, <2>1 DEF Owners
  <2>3. Owners = {Network} /\ Readers = {}
    BY <1>0, <2>2
  <2>4. Owners' = {} /\ Readers' = {}
    BY <1>0, <2>1, <2>3, ThreadMoves
  <2>5. Writer = Network /\ Writer' = Nobody
    BY <2>3, <2>4, WriterIs
  <2>6. RW!WriteUnlock
    BY <2>3, <2>4, <2>5 DEF Writer, RW!WriteUnlock
  <2> QED
    BY <2>6 DEF RW!RWNext
<1>3. ASSUME NEW c \in Sharers, WakeUpUserThread(c) PROVE [RW!RWNext]_RW!rwvars
  <2>1. /\ pc[Network] = "exclusive" /\ pc'[Network] = "handing" /\ passed' = c
        /\ c \in Waiters /\ \A u \in Threads \ {Network} : pc'[u] = pc[u]
    BY <1>0, <1>3 DEF WakeUpUserThread, Goto, TypeOK
  <2>2. Network \in Owners /\ Owners \subseteq Threads /\ passed = Nobody
    BY <1>0, <2>1 DEF Owners, Threads
  <2>3. Owners = {Network} /\ Readers = {}
    BY <1>0, <2>2
  <2>4. Readers' = {}
    BY <1>0, <2>1, <2>3 DEF Readers, Threads
  <2>5. c \in Owners' /\ Network \notin Owners' /\ Owners' \subseteq Threads
    BY <1>0, <2>1 DEF Owners, Threads
  <2>6. \A u \in Threads \ {c, Network} : u \in Owners' => u \in Owners
    BY <2>1 DEF Owners
  <2>7. Owners' = {c}
    BY <2>3, <2>5, <2>6
  <2>8. Writer = Network /\ Writer' = c
    BY <2>3, <2>7, WriterIs
  <2>9. RW!PassOn(c)
    BY <2>3, <2>4, <2>8 DEF Writer, RW!PassOn
  <2> QED
    BY <2>9 DEF RW!RWNext
<1> QED
  BY <1>1, <1>2, <1>3 DEF NetworkStep

\* The set lock is the shared/exclusive lock that the "Lock design" comment of
\* cache_cntlr.cc describes, for any number of cores and operations: upgrades give
\* the shared lock up first, downgrades never do, and the network thread can pass
\* the stack on to a user thread without anybody getting in between.
THEOREM LockImplementsReaderWriterLock == Spec => ImplementsReaderWriterLock
<1>1. Init => RW!RWInit
  <2> SUFFICES ASSUME Init PROVE RW!RWInit
    OBVIOUS
  <2>1. Owners = {} /\ Readers = {}
    BY DEF Init, Owners, Readers, Threads, Sharers
  <2>2. Writer = Nobody
    BY <2>1, WriterIs
  <2> QED
    BY <2>1, <2>2 DEF Writer, RW!RWInit
<1>2. IInv /\ [Next]_vars => [RW!RWNext]_RW!rwvars
  <2> SUFFICES ASSUME IInv, [Next]_vars PROVE [RW!RWNext]_RW!rwvars
    OBVIOUS
  <2>1. CASE UNCHANGED vars
    <3>1. Owners' = Owners /\ Readers' = Readers
      BY <2>1 DEF vars, Owners, Readers
    <3> QED
      BY <3>1, Stutters
  <2>2. CASE Next
    BY <2>1, <2>2, RefineLoop, RefineCore, RefineNetwork DEF Next, Done
  <2> QED
    BY <2>1, <2>2
<1> QED
  BY InvInit, InvNext, <1>1, <1>2, PTL DEF Spec, ImplementsReaderWriterLock, RW!RWSpec
=============================================================================
