-------------------------------- MODULE SetLock --------------------------------
(***************************************************************************)
(* The lock of one cache set (misc/setlock.cc) as the cache controllers    *)
(* use it (cache_cntlr.cc): one mutex per core that shares the stack.  A   *)
(* first-level transaction of core c holds mutex c; everything else holds  *)
(* them all, taken one after the other in index order.  The mutexes have   *)
(* no owner: the network thread takes them and the user thread it wakes    *)
(* releases them.                                                          *)
(***************************************************************************)
EXTENDS Naturals

CONSTANTS N,         \* m_locks.size(): number of cores that share the stack
          Network,   \* the network (simulation) thread of the master cache
          Nobody,    \* no thread
          MaxOps     \* bound: lock operations started by each thread

ASSUME NAssumption == N \in Nat \ {0}
ASSUME MaxOpsAssumption == MaxOps \in Nat
ASSUME ThreadAssumption == Network \notin Nat /\ Nobody \notin Nat /\ Network # Nobody

Sharers == 0 .. N - 1
Threads == Sharers \cup {Network}

VARIABLES
  m_locks,   \* m_locks[i]: is mutex i taken
  pc,        \* where each thread is
  it,        \* the loop variable of acquire_exclusive, release_exclusive, downgrade
  exclusive, \* did core c enter without the shared lock (Prefetch, lock_all)
  passed,    \* user_thread_sem: the core the network thread has woken, or Nobody
  reply,     \* is the network thread handling a reply that cores wait for
  ops        \* operations each thread has started

vars == <<m_locks, pc, it, exclusive, passed, reply, ops>>

Locations == {"idle", "shared", "acquiring", "exclusive", "downgrading",
              "releasing", "posting", "waiting", "filling", "filled", "handing"}

TypeOK ==
  /\ m_locks \in [Sharers -> BOOLEAN]
  /\ pc \in [Threads -> Locations]
  /\ it \in [Threads -> 0 .. N]
  /\ exclusive \in [Sharers -> BOOLEAN]
  /\ passed \in Sharers \cup {Nobody}
  /\ reply \in BOOLEAN
  /\ ops \in [Threads -> 0 .. MaxOps]

Init ==
  /\ m_locks = [i \in Sharers |-> FALSE]
  /\ pc = [t \in Threads |-> "idle"]
  /\ it = [t \in Threads |-> 0]
  /\ exclusive = [c \in Sharers |-> FALSE]
  /\ passed = Nobody
  /\ reply = FALSE
  /\ ops = [t \in Threads |-> 0]

Goto(t, l) == pc' = [pc EXCEPT ![t] = l]
Rewind(t) == it' = [it EXCEPT ![t] = 0]
Step(t) == it' = [it EXCEPT ![t] = @ + 1]
Start(t) == ops[t] < MaxOps /\ ops' = [ops EXCEPT ![t] = @ + 1]

-----------------------------------------------------------------------------
(* A first-level transaction of core c.                                    *)

AcquireShared(c) ==
  /\ pc[c] = "idle" /\ Start(c)
  /\ ~ m_locks[c]
  /\ m_locks' = [m_locks EXCEPT ![c] = TRUE]
  /\ Goto(c, "shared")
  /\ UNCHANGED <<it, exclusive, passed, reply>>

ReleaseShared(c) ==
  /\ pc[c] \in {"shared", "filled"}
  /\ m_locks' = [m_locks EXCEPT ![c] = FALSE]
  /\ Goto(c, "idle")
  /\ UNCHANGED <<it, exclusive, passed, reply, ops>>

\* upgrade: give mutex c up, then take them all.
Upgrade(c) ==
  /\ pc[c] = "shared"
  /\ m_locks' = [m_locks EXCEPT ![c] = FALSE]
  /\ exclusive' = [exclusive EXCEPT ![c] = FALSE]
  /\ Goto(c, "acquiring") /\ Rewind(c)
  /\ UNCHANGED <<passed, reply, ops>>

\* A core that prefetches or writes through takes the whole stack at once.
AcquireStack(c) ==
  /\ pc[c] = "idle" /\ Start(c)
  /\ exclusive' = [exclusive EXCEPT ![c] = TRUE]
  /\ Goto(c, "acquiring") /\ Rewind(c)
  /\ UNCHANGED <<m_locks, passed, reply>>

\* The cores in m_directory_waiters: their request is sent, nobody woke them.
Waiters == {c \in Sharers : pc[c] \in {"posting", "waiting"} /\ passed # c}

\* The network thread takes the stack for an invalidation, flush or write-back
\* request of the directory.
HandleRequest ==
  /\ pc[Network] = "idle" /\ Start(Network)
  /\ reply' = FALSE
  /\ Goto(Network, "acquiring") /\ Rewind(Network)
  /\ UNCHANGED <<m_locks, exclusive, passed>>

\* The network thread takes the stack for a reply some core waits for.
HandleReply ==
  /\ pc[Network] = "idle" /\ Waiters # {}
  /\ reply' = TRUE
  /\ Goto(Network, "acquiring") /\ Rewind(Network)
  /\ UNCHANGED <<m_locks, exclusive, passed, ops>>

-----------------------------------------------------------------------------
(* The loops of acquire_exclusive, release_exclusive and downgrade.        *)

AcquireNext(t) ==
  /\ pc[t] = "acquiring" /\ it[t] < N
  /\ ~ m_locks[it[t]]
  /\ m_locks' = [m_locks EXCEPT ![it[t]] = TRUE]
  /\ Step(t)
  /\ UNCHANGED <<pc, exclusive, passed, reply, ops>>

\* Mutant: the loop stops one mutex early.
AllButOneTaken(t) == it[t] = N - 1

AllTaken(t) == it[t] = N

AcquireDone(t) ==
  /\ pc[t] = "acquiring" /\ AllTaken(t)
  /\ Goto(t, "exclusive") /\ Rewind(t)
  /\ UNCHANGED <<m_locks, exclusive, passed, reply, ops>>

ReleaseNext(t) ==
  /\ pc[t] \in {"releasing", "posting"} /\ it[t] < N
  /\ m_locks' = [m_locks EXCEPT ![it[t]] = FALSE]
  /\ Step(t)
  /\ UNCHANGED <<pc, exclusive, passed, reply, ops>>

ReleaseDone(t) ==
  /\ pc[t] = "releasing" /\ it[t] = N
  /\ Goto(t, "idle") /\ Rewind(t)
  /\ UNCHANGED <<m_locks, exclusive, passed, reply, ops>>

\* Mutants: downgrade keeps no mutex; downgrade keeps mutex 0.
KeepsNone(c) == FALSE
KeepsFirst(c) == it[c] = 0

Keeps(c) == it[c] = c

DowngradeNext(c) ==
  /\ pc[c] = "downgrading" /\ it[c] < N
  /\ m_locks' = IF Keeps(c) THEN m_locks ELSE [m_locks EXCEPT ![it[c]] = FALSE]
  /\ Step(c)
  /\ UNCHANGED <<pc, exclusive, passed, reply, ops>>

DowngradeDone(c) ==
  /\ pc[c] = "downgrading" /\ it[c] = N
  /\ Goto(c, "filled") /\ Rewind(c)
  /\ UNCHANGED <<m_locks, exclusive, passed, reply, ops>>

-----------------------------------------------------------------------------
(* What the owner of the stack does next.                                  *)

\* The work of a core is done: it keeps its own mutex if it came with it.
Finish(c) ==
  /\ pc[c] \in {"exclusive", "filling"}
  /\ Goto(c, IF exclusive[c] THEN "releasing" ELSE "downgrading")
  /\ UNCHANGED <<m_locks, it, exclusive, passed, reply, ops>>

\* The network thread is done when it handles a request or nobody waits.
\* Mutant: the loop over the waiters ends early.
FirstServed == TRUE

AllServed == reply => Waiters = {}

FinishMessage ==
  /\ pc[Network] = "exclusive"
  /\ AllServed
  /\ Goto(Network, "releasing")
  /\ UNCHANGED <<m_locks, it, exclusive, passed, reply, ops>>

\* The next waiter wants to write and the line is shared: the network thread
\* sends an upgrade request for it and returns.
UpgradeForWaiter ==
  /\ pc[Network] = "exclusive" /\ reply /\ Waiters # {}
  /\ Start(Network)
  /\ Goto(Network, "releasing")
  /\ UNCHANGED <<m_locks, it, exclusive, passed, reply>>

\* A last-level miss: the request is on its way, release the stack ...
MissInLastLevel(c) ==
  /\ pc[c] = "exclusive"
  /\ Goto(c, "posting")
  /\ UNCHANGED <<m_locks, it, exclusive, passed, reply, ops>>

\* ... and wait for the network thread.
WaitForNetworkThread(c) ==
  /\ pc[c] = "posting" /\ it[c] = N
  /\ Goto(c, "waiting") /\ Rewind(c)
  /\ UNCHANGED <<m_locks, exclusive, passed, reply, ops>>

\* The reply is in: the network thread wakes a waiting core, which inherits
\* the stack lock, and waits until that core is running.
WakeUpUserThread(c) ==
  /\ pc[Network] = "exclusive" /\ reply /\ c \in Waiters
  /\ passed' = c
  /\ Goto(Network, "handing")
  /\ UNCHANGED <<m_locks, it, exclusive, reply, ops>>

\* The woken core owns the stack and releases the network thread, which then
\* takes the stack lock again.
WakeUpNetworkThread(c) ==
  /\ passed = c /\ pc[c] = "waiting" /\ pc[Network] = "handing"
  /\ pc' = [pc EXCEPT ![c] = "filling", ![Network] = "acquiring"]
  /\ passed' = Nobody
  /\ UNCHANGED <<m_locks, it, exclusive, reply, ops>>

-----------------------------------------------------------------------------
LoopStep(t) == AcquireNext(t) \/ AcquireDone(t) \/ ReleaseNext(t) \/ ReleaseDone(t)

CoreStep(c) ==
  \/ AcquireShared(c) \/ ReleaseShared(c) \/ Upgrade(c) \/ AcquireStack(c)
  \/ DowngradeNext(c) \/ DowngradeDone(c) \/ Finish(c)
  \/ MissInLastLevel(c) \/ WaitForNetworkThread(c) \/ WakeUpNetworkThread(c)

NetworkStep ==
  \/ HandleRequest \/ HandleReply \/ FinishMessage \/ UpgradeForWaiter
  \/ \E c \in Sharers : WakeUpUserThread(c)

\* Every thread has done what it had to do.
Done ==
  /\ \A t \in Threads : pc[t] = "idle" /\ ops[t] = MaxOps
  /\ UNCHANGED vars

Next ==
  \/ \E t \in Threads : LoopStep(t)
  \/ \E c \in Sharers : CoreStep(c)
  \/ NetworkStep
  \/ Done

Spec == Init /\ [][Next]_vars

\* The threads run: a thread that can take a step takes one.  Nothing is assumed
\* of who gets a mutex that several threads want.
FairSpec ==
  /\ Spec
  /\ \A t \in Threads : WF_vars(LoopStep(t))
  /\ \A c \in Sharers : WF_vars(CoreStep(c))
  /\ WF_vars(NetworkStep)

-----------------------------------------------------------------------------
(* Properties.                                                             *)

\* The threads that believe to own the whole stack; a woken core owns it from
\* the moment the network thread posts its semaphore.
Owners == {t \in Threads : pc[t] \in {"exclusive", "filling"}} \cup {c \in Sharers : passed = c}

\* The cores inside a first-level transaction; downgrade keeps them there.
Readers == {c \in Sharers : pc[c] \in {"shared", "downgrading", "filled"}}

\* The owner of the stack is alone: no other owner, also while the lock is passed
\* from the network thread to a user thread, and no first-level transaction of
\* any core, also while one is being downgraded to (cache_cntlr.cc, "Lock design").
MutualExclusion ==
  /\ \A t, u \in Owners : t = u
  /\ Owners # {} => Readers = {}

\* The mutexes a thread must have in hand at each point of its code.
Holds(t) ==
  CASE pc[t] \in {"exclusive", "filling", "handing"} -> Sharers
    [] pc[t] = "acquiring"   -> 0 .. it[t] - 1
    [] pc[t] \in {"releasing", "posting"} -> it[t] .. N - 1
    [] pc[t] = "downgrading" -> {t} \cup (it[t] .. N - 1)
    [] pc[t] \in {"shared", "filled"} -> {t}
    [] OTHER                 -> {}

\* No mutex is ever held twice, leaked, or released under its holder, whatever
\* the order in which upgrades, downgrades, releases and hand-overs interleave.
MutexesAccountedFor ==
  /\ \A i \in Sharers : m_locks[i] <=> \E t \in Threads : i \in Holds(t)
  /\ \A t, u \in Threads : t # u => Holds(t) \cap Holds(u) = {}

\* SetLock implements the shared/exclusive lock its clients were written for.
RW == INSTANCE ReaderWriterLock
        WITH readers <- Readers,
             writer <- IF Owners = {} THEN Nobody ELSE CHOOSE t \in Owners : TRUE
ImplementsReaderWriterLock == RW!RWSpec

\* A core that waits for the network thread is woken, and owns the stack then.
WaitingCoreIsWoken ==
  \A c \in Sharers : pc[c] = "waiting" ~> pc[c] = "filling"
=============================================================================
