# Verification of the simulator's protocols

This directory models the parts of `src/sniperpic` (the Sniper multi-core
simulator, extended with processing in cache and a cache automaton) whose
correctness depends on many threads, messages or long sequences of calls: the
locks that a cache hierarchy is guarded by, the directory protocol between
last-level caches, directories and DRAM, the replacement policies that this
protocol relies on, the cache automaton, and the servers that create, stall,
resume and synchronise the threads of the simulated application.
Paths below are relative to `src/sniperpic/common/`; `msi/` stands for
`core/memory_subsystem/parametric_dram_directory_msi/`, `pr/` for
`core/memory_subsystem/pr_l1_pr_l2_dram_directory_msi/` and `cache/` for
`core/memory_subsystem/cache/`.

## 1. Inventory

The simulator runs one *user thread* per simulated application thread (it
executes the instrumented program or replays a trace) and one *simulation
thread* per simulated node (`system/sim_thread.cc`). A memory access is
simulated by the user thread down to the last-level cache; a miss there becomes a
message to the block's home node and the user thread sleeps until the
simulation thread of its node has the reply.

| component | state | operations | talks to |
|---|---|---|---|
| set lock (`misc/setlock.cc`) | one mutex per core that shares the last-level cache | acquire and release, exclusive and shared; upgrade; downgrade | used by every cache controller; handed from the network thread to a user thread and back by two semaphores (`msi/cache_cntlr.cc:1262-1295`, `3445-3460`) |
| simulation threads, transport (`system/sim_thread.cc`, `transport/smtransport.cc`, `network/network.cc`) | a FIFO of packets per node | send, receive, dispatch to a component | all components of the memory hierarchy |
| last-level cache controller (`msi/cache_cntlr.cc`) | lines with a state (I, S, S-upgrading, E, M) and data; per block a queue of waiting cores (`m_directory_waiters`) | access, miss, the three replies, INV/FLUSH/WB requests, insertion with eviction, serving of waiters | directory by message, upper levels by call, cores by semaphore |
| upper levels (L1, L2) (`msi/cache_cntlr.cc`) | lines; a buffer for the line that is being evicted; whether a core is in an atomic pair | access, pass a miss on, fill, back-invalidation, write-back, prefetch | next and previous level, by call |
| directory controller, directory cache (`pr/dram_directory_cntlr.cc`, `pr/dram_directory_cache.cc`) | per block: state, sharers, owner, forwarder; queue of requests; set of limited associativity and the list of replaced entries | the three requests, NULLIFY of a replaced entry, three answers, the DRAM reply, processing of the next request | caches and DRAM by message |
| DRAM controller (`pr/dram_cntlr.cc`) | contents of memory (only when faults are injected) | read, write | directory |
| replacement policies (`cache/cache_set*.cc`) | per set: ages, bits or counters | victim, access | last-level cache, which forbids some victims |
| processing in cache (PIC) (`msi/cache_cntlr.cc`, `core/core.cc`) | operands in a set, two or three addresses per operation | compare, copy, search, logic, clear | all levels, directory |
| cache automaton (CAP) (`msi/cache_cntlr.cc`, `msi/memory_manager.cc`) | rows in the first-level cache; swizzle switch, start mask, current mask, reporting elements; the map from addresses to operations | program a row, the switch or a mask; match a character; end | the performance model executes one store per operation |
| NUCA and DRAM caches, prefetchers, TLB, ATD | lines, tables | lookup, insert | directory, caches |
| thread manager, synchronisation and system call servers (`system/thread_manager.cc`, `sync_server.cc`, `syscall_server.cc`) | states of simulated threads; simulated mutexes, condition variables, barriers, futexes | create, join, stall, resume, lock, signal, wait | user threads, scheduler, barrier |
| clock skew barrier (`system/barrier_sync_server.cc`) | next barrier time, waiting threads | wait, release, advance | thread manager, core timing models |
| host primitives (`misc/cond.cc`, `semaphore.cc`, `selock.cc`) | futex words, counters | wait, signal, broadcast | everything |
| schedulers (`scheduler/`) | thread to core mapping, affinities, quanta | create, stall, resume, migrate | thread manager |
| timing models, network models, DVFS, hooks, statistics, front ends, McPAT, CACTI | numbers | arithmetic and I/O | everybody, without a protocol |

What is hard about them:

* **Threads.** The mutexes of a stack lock have no owner. They are upgraded
  (shared to exclusive) by giving up the own mutex first, and the whole lock is
  passed from the simulation thread to the user thread it wakes, and back.
* **Ordering.** A cache evicts lines without asking; its message crosses
  invalidations, flush and write-back requests of the directory and upgrade
  requests of its own. An `INV_REP` means "I evicted" or "I did as you said", and the
  directory cannot tell. All messages to a node share one queue.
* **Upgrades.** `UPGRADE_REP` carries no data: the line must neither be evicted
  nor invalidated while it is under way; when it is invalidated the request must
  turn into a full one.
* **Waiters.** One reply serves every core that waits for the block, though some
  want to read and others to write.
* **Limits.** Ways of a cache set, entries of a directory set, pointers in
  an entry.
* **Lifetimes.** Buffers and directory entries are passed as raw pointers.
* **Levels.** A fill at a lower level evicts a line that the levels above still have, and
  whose newest data is theirs; what they give up goes through a buffer that only the
  evicting level knows. While a core waits for a reply, all levels go on changing.
* **Two sorts of waiting.** A simulated thread stalls in a queue of a server,
  its host thread sleeps on a futex word, and its core may sleep in the clock
  skew barrier; the hooks of one may wake the other before it sleeps. When nobody
  runs, the thread that stalls last has to make time pass.
* **Operations disguised as stores.** The cache automaton is programmed and fed by
  ordinary store instructions, which are longer than the byte they carry and are
  recognised by their address.

What makes each component correct:

* set lock: a holder of the stack is alone, also across the hand-over; no mutex
  is lost or released twice; no deadlock; a woken core gets the lock.
* protocol: one writer or many readers; the directory knows each copy and each
  answer it waits for; reads see the last write; no assertion of a handler
  fails; each miss completes.
* upper levels: each level has every line of the one above it; a write-back finds the
  line MODIFIED; the last write survives every eviction; two cores never both write;
  the two halves of an atomic access have the line to themselves.
* replacement: the victim is the line unused for longest among those that may
  go; there is always one.
* cache automaton: it is programmed before it is used, its mask is the set of
  elements that a run of the automaton reaches, each character is matched once and in
  order.
* thread manager and servers: a stalled thread waits in one queue; no wake-up is
  lost; a simulated mutex has one owner; sleepers wake.
* clock skew barrier: nobody runs past it (unless a reschedule costs time), it never moves under a thread that runs,
  and time advances when nobody runs.

`PROJECT.json` lists every hazard at its line.

## 2. Plan

| | modules | abstract specification | proofs | state |
|---|---|---|---|---|
| 1 | `SetLock`, `SetLockProofs` | `ReaderWriterLock` | types, accounting of mutexes, exclusion, the refinement | done |
| 2 | `SimThreads`, `DramDirectoryCntlr`, `LastLevelCache`, composed in `Coherence`; `DirectoryProofs`, `CoherenceProofs` | none: its promises are stated as invariants | types, woken cores, `SingleWriter`, `DirectoryCoversCaches`, `CopiesAreLimited`, `SharersAccountedFor`, `OneRequestPerBlock`, `RepliesAreExpected`, `AnswersAreExpected`, `ForwarderIsSharer`, `ReplacedEntryIsNullified` | modelled and checked; `ReadsSeeLastWrite` and liveness are not proved |
| 3 | `CacheSetLRU`, `CacheSetLRUProofs` | `LeastRecentlyUsed` | types, ages, the victim, the refinement | LRU done; the other policies (one module with the policy as a constant), query-based selection and the ways PIC operations avoid are left |
| 4 | `ThreadManager`, `SyncServer`, `SyscallServer`, composed in `BarrierSyncServer`; `BarrierSyncServerProofs` | `Monitor` | wake-ups, bounded skew, who runs, types, queues, mutexes, passing of time, the refinement | done for one thread per core |
| 5 | `CacheAutomaton`, `CapMemoryManager`, `CacheAutomatonProofs`, `CapMemoryManagerProofs` | the runs of the automaton; `CapSpec` | types, mask, matches, the program in place, `CapSpec`, the order of the input | done |
| 6 | `CacheHierarchy`, `CacheHierarchyProofs` | | types, inclusion, write-backs, atomic pairs, one writer, no lost write | done; left: its composition with `Coherence` in place of the environment, write-through and perfect caches, proofs for levels in the middle that several cores share |
| 7 | PIC requests of the directory; NUCA cache as an extension of 2; schedulers | atomic copy | | left |

No module that is proved about uses `RECURSIVE`.

## 3. Modules

| module | models |
|---|---|
| `ReaderWriterLock` | what the set lock promises: readers or one writer, and a writer that may pass the lock on |
| `SetLock` | `misc/setlock.cc` and its use by a first-level access, a stack access, a handler of the network thread and the hand-over |
| `SetLockProofs` | theorems about it |
| `MCSetLock` | TLC instance |
| `SimThreads` | the queue and the thread of each node |
| `DramDirectoryCntlr` | directory controller, directory cache, DRAM controller |
| `LastLevelCache` | last-level cache controllers and the cores that wait for them |
| `Coherence` | the composition, the specification and the properties |
| `DirectoryProofs` | theorems about it: types, the directory's entries and queues, the waiting cores |
| `CoherenceProofs` | theorems about it: the caches agree with the directory |
| `MCCoherence` | TLC instances |
| `LeastRecentlyUsed` | what an LRU set promises: the ways in order of use |
| `CacheSetLRU` | one cache set with the LRU policy and lines that are being upgraded |
| `CacheSetLRUProofs` | theorems about it |
| `MCCacheSetLRU` | TLC instances |
| `CacheAutomaton` | the automaton of a cache controller: switch, masks, matching |
| `CapMemoryManager` | the memory manager's markers, the stores they make, and the accesses that carry the operations |
| `CacheAutomatonProofs`, `CapMemoryManagerProofs` | theorems about them |
| `MCCapMemoryManager` | TLC instances: automata and inputs |
| `CacheHierarchy` | the caches of one node, from the first levels to the last, as a tree |
| `CacheHierarchyProofs` | theorems about it |
| `MCCacheHierarchy` | TLC instances |
| `ThreadManager` | threads of the application and the host threads that carry them |
| `SyncServer` | simulated mutexes, condition variables, barriers |
| `SyscallServer` | simulated sleeps, futexes, blocking system calls |
| `Monitor` | what the synchronisation server promises |
| `BarrierSyncServer` | the clock skew barrier, composed with the three modules above; the specification and its properties |
| `BarrierSyncServerProofs` | theorems about it |
| `MCControl` | TLC instances: applications of three threads |

### The set lock

`m_locks[s]` is mutex `s`. Each thread has a program counter, a loop index
`it`, and takes or releases **one mutex per step**, as `acquire_exclusive`,
`release_exclusive` and `downgrade` do. `exclusive` and `reply` stand for what the
thread remembers and for the two semaphores of the hand-over. A core does what
`processMemOpFromCore` does with the lock: `AcquireShared` for a hit in the first
level, `Upgrade` on a first-level miss, then `DowngradeNext`, or `MissInLastLevel`
and `WaitForNetworkThread`; `AcquireStack` begins with the whole stack. The
network thread does `HandleRequest` or `HandleReply`; with the latter it wakes the
waiters one by one (`WakeUpUserThread`), gives each of them the lock, and takes
it again from the core (`WakeUpNetworkThread`, `FinishMessage`).

### The directory protocol

The state of a node's thread is its message queue and `job`, which says whether it
is between two messages, waits for the core it woke, or is about to take the
next request of a block. Every handler of `pr/dram_directory_cntlr.cc` and
`msi/cache_cntlr.cc` is one action. A handler holds the stack lock throughout (or
is the only thread of the directory), which `SetLock` shows to be exclusive, so
that one step per handler is what other threads can observe. Where the code
gives the lock away, the action ends: `NextWaiter` is the rest of the loop over the
waiters after a core has done its access.

In the directory the request that is processed stays at the head of `reqs[a]`, and
is processed again when an answer arrives that may be the one it waits for. An
operator `ProcessExReq`, `ProcessShReq`, ... yields the possible *outcomes*: the
new entry, the new request, the messages, and whether the next request follows.
Assertions of the code are guards: no outcome. A state in which an assertion
would fail is either found by one of the properties `AnswersAreExpected`,
`RepliesAreExpected`, `RequestsFindAnEntry`, `WokenCoreHits`, or is a deadlock,
which TLC looks for in every run.

Data is a version number modulo `NumVersions`; `Null` is a message without data,
`Garbage` a buffer that was freed or never filled. An uninitialised
`m_forwarder_id` (`directory_entry.h:44-51`) is the value `Uninit`, which may turn
out to be any node, or none.

What is abstracted: all modelled blocks are in one set, so that they compete for
ways and entries; a block's directory and memory are on one node; levels above
the last are part of the access (they run under the same lock); `getOneSharer`
may pick any sharer; the replacement policy may pick any line that
`isValidReplacement` allows. Atomic accesses, prefetching and the upper levels are the
matter of `CacheHierarchy`. Left out: write-through, NUCA, PIC, the `limitless` and
broadcast directories, and all timing.

### The cache set

`tag[w]` and `lru_bits[w]` are the block and the age of way `w`, `upgrading` the
ways in state `SHARED_UPGRADING`, `pending` the blocks for which a request is out.
The set sees misses, hits, upgrades, replies and invalidations in any order that
the protocol allows: one outstanding request per block, at most one block per
waiting core. `ReplacementIndex` is `getReplacementIndex` with both of its loops, the
initial index 0 included.

### The cache hierarchy

`state[c][a]` is the state of a line in a cache, `Stack[c]` the caches below it, `Tree(c)` those
above it. `lock` says who holds the lock of the stack (`NoCache` in `at`: nobody) and where its
access is. On the way down (`ask`) each level is one step of `processShmemReqFromPrevCache`:
`HitInCache`, `PassOn` to the next level, and in the last level `SilentUpgrade`, `AccessDRAM` or
`InitiateDirectoryAccess`, which queues the core in `m_directory_waiters` and gives
the lock up. On the way up (`fill`) each level is one step of `copyDataFromNextLevel`;
`Finish` is the access itself. `locked` is the line of a core between the two halves of an
atomic access, which keeps the core's mutex and so the stack lock from everybody else.
The network thread fills the last level (`Rep`, `UpgradeRep`), wakes the waiters one by one
(`NextWaiter`, `serving`), and may at any time that is allowed be asked for a line
(`InvReq`, `FlushReq`, `WbReq`): the directory is the environment here. `direct` is the
configuration in which the last level accesses DRAM itself.

Data is one bit: `fresh` is a history that says which places hold the value written last.
`WrittenBack` and `EvictedData` follow it through the levels, a level's own copy
being overwritten by the one above it and the eviction buffer by both.

What is abstracted: each cache is one set; the replacement policy may pick any line that is
not being upgraded; a cache of `Prefetchers` may prefetch any line at any time. The upgrade from
the own mutex to the whole stack is part of `FirstLevelMiss`, since nothing that happens in
between makes a line of this first level more permissive. The branch of `copyDataFromNextLevel`
for a line that is already there is not modelled: every level drops its copy when it passes a
miss on, so that it is never taken (if it were, the guard of `Inserted` would
stop the model, which TLC reports as a deadlock). Assertions are guards, as in the directory
protocol: "Got writeback for non-MODIFIED line" is `WritebacksHit`, "Expected to find address in
L1 Cache" is in `Unlock` and `Finish`.

### The cache automaton

An *element* is a bit position of a cache line; the row of a character is the line
that says which elements accept it, and a row of the swizzle switch says which
elements an element activates. A byte is the set of its bits, a vector a function from
byte positions to bytes. `ProcessPatternMatch` is `processPatternMatch` with its
loops over the bytes and bits of the mask; `since` is a history of the rows
read since the last start or restart, from which `ReachedBy` says by definition
what the mask should be.

`CapMemoryManager` is what feeds it. A marker of the application creates one store
per byte of a file and notes in `capInsInfoMap` what each store stands for, under its
address (`ProcessAppMagic`). The stores are executed in order, while later markers
may already have been seen. A store that crosses the end of a line is two accesses,
and each looks its own address up: it is the operation that is noted there
(`ProgramCacheLine`, `ProgramSwizzleSwitch`, `ProgramMasks`, `MatchCharacter`,
`EndOfInput`, which take it out of the map), or an ordinary store of an unfilled
buffer (`NormalStore`). Only the first byte of a buffer is filled: `Overwritten`
puts `Garbage` over the others, and `Resolved` lets a read of garbage be anything.

### Simulation control

Every operation of the servers holds `m_thread_lock`, so that one action is one
operation, up to the point where it runs a hook that may release the barrier:
from there on `m_thread_lock` says who holds it and where it is (`signal`:
`BarrierSyncServer::signal`, `release`: a round of `barrierRelease`, `advance`). `status`,
`stalled_reason` and `waiter` are `ThreadState`; `host[t]` is where the host thread of
`t` is. A thread that must wait resets the futex word of a condition variable
(`m_futx`), gives the lock up (`releasing`) and only then sleeps (`FutexSleep`), so
that a signal can come in between; it wakes, takes the lock (`Return`) and goes on.
The servers stall and resume through `StallThread`, `StallDecided` and the
`Resumed` sets; the queues are sequences. `clock` is the time of a core, `sync_time` when
its thread goes on after a stall or its creation: a time that another core, a timeout or the
barrier gives it. The idle instruction with that time is not queued but executed at once
(`performance_model.cc:200-221`), before the call returns to the application: `SyncInstruction`
in `Return`, `StallDecided`, `ThreadStart` and `BlockingResume`. `RescheduleCost`
(`perf_model/sync/reschedule_cost`) delays who is woken by an unlock or a futex and who wakes it
(`Wake`), and who takes a mutex (`EndTime`). The application
is data: `program` is chosen in the initial state and says which calls each
thread makes.

`inside` and `want` are histories of the simulated mutexes: who came back from a lock
or a wait, and for what a thread is stalled. `Monitor` is the abstract specification:
entering, owning and leaving, waiting, and notification by moving to the entry queue.

Every thread has a core of its own and keeps it, and each core has one: there are
no moves, yields, affinities or SMT groups, and the detailed timing model is enabled. What a
core executes between two synchronisations is any of `Durations`; it looks at the barrier when it
has executed it, not when a call returns. Where the front end or the application makes a promise it is a constant:
`JoinsEarly` (a thread may be joined before it has started; then
`thread_manager.cc:140-144` returns as soon as it starts, and properties of threads
that run fail) and `LastLeaves` (the last running thread may exit while others
sleep, which leaves nobody to make time pass).

## 4. Runs

| run | instance | shows |
|---|---|---|
| `setlock` | 3 cores, 1 operation each, network thread; 125 218 states | `MutualExclusion`; `MutexesAccountedFor`: every mutex is taken exactly if one thread is at a place where it must hold it; the refinement of `ReaderWriterLock`; `WaitingCoreIsWoken` |
| `mesif` | MESIF, 3 private caches, 1 block homed elsewhere, 2 pointers, 2 accesses per core; 62 416 states | `SingleWriter`, `DirectoryCoversCaches`, `ForwarderIsSharer`, `CopiesAreLimited` |
| `waiters` | MESI, cores 1 and 2 behind the cache of the home node, core 3 elsewhere, 1 block, 2 accesses per core; 21 669 states | `WokenCoreHits`, `OneRequestPerBlock`, `ReadsSeeLastWrite`, `AccessesComplete` |
| `eviction` | MESI, 2 private caches of 1 way, 3 blocks in a directory set of 2 entries, 2 accesses per core; 149 969 states with symmetric blocks | `AnswersAreExpected`, `RepliesAreExpected`, `ReplacedEntryIsNullified`, `SharersAccountedFor`, types |
| `lru` | 4 ways, 5 blocks, 3 waiting cores; 312 624 states | `AgesDiffer`, `VictimIsReplaceable`, the refinement of `LeastRecentlyUsed` |
| `cap` | lines of 4 bytes of 2 bits, 4 characters, 8 automata with loops, branches and reports, 8 inputs; 17 892 states | `ProgramInPlace`: the automaton is complete before the first character although each store damages bytes that follow; `ShortInputInOrder`, `NoCharacterTwice`; `MaskIsReachable`, `MatchesAreReal`; `ProgrammedFirst`: the memory manager implements the automaton's `CapSpec` |
| `control` | six applications of three threads that make up to four calls each, a barrier every 2 units, cores that take 1, 5 or 2 units per step, a reschedule that costs nothing; 309 348 states | types; `MutualExclusion`, `StalledThreadsWaitOnce`, `NoLostWakeup`, `BoundedSkew`, `BarrierWaitsForAll`, `TimeAdvances`, `SleeperWakes`, and the refinement of `Monitor` |
| `hierarchy` | 2 cores, first and second levels of 1 line, a common last level of 2, 3 lines, a prefetcher on one second level, with a directory or with DRAM; 734 083 states with symmetric lines | `Inclusive`, `ModifiedBelow`, `OneWriter`, `LastWriteKept`, `AtomicPairsHit` |
| `allocation` | 1 entry per directory set, 2 blocks | **violated**: `RequestsFindAnEntry` |
| `freed_buffer` | MESI, 3 caches | **violated**: `RepliesCarryData` |
| `cap_input` | one automaton, all inputs of up to 5 characters of 2 | **violated**: `InputInOrder` |
| `hierarchy_read_modified` | as `hierarchy`, 2 lines | **violated**: `OnlyWritableCopy` |

The types of the set lock, the cache set, the automaton and the hierarchy are proved (section 6)
and need no run; those of the directory protocol and of simulation control are checked.

Why these bounds. Three threads are what it takes for a third one to run
between the two halves of a hand-over or of an upgrade; the set lock's threads do
not depend on their identity beyond the order of the mutexes, and the theorems
cover any number. In the protocol two accesses per core let a core read, lose the
line, and upgrade or read again while two others interfere; three caches with two
pointers make `addSharer` fail; the home node among the caches (`waiters`) makes
requests and answers cross in one queue; three blocks for one way and two
entries make each insertion an eviction and each third request an entry
replacement. `NumVersions` is 3 where values are checked, one more than the
writes that can be outstanding, and 1 elsewhere. The blocks of
`eviction` have the same home and are interchangeable; its properties quantify over
all of them and none is temporal. In the cache set, four ways are enough for three
different ages behind the most recent one, and five blocks for one more
than fits.

In the automaton eight elements in four bytes are enough for chains, loops and branches that meet in one
byte, two reports at once and a restart; inputs of five characters exceed a line
and make stores spill into the next one (the stores of the masks always do, into the
rows of characters 1 and 2: `SpilledLines`). In simulation control, three threads are
what it takes for a third one to run between a stall and its wake-up; the
steps of the cores straddle one barrier, none and several; a reschedule costs nothing, as in
`config/base.cfg:240` (`BoundedSkew` needs it, section 6); each application puts two
calls against each other whose queues or timeouts meet. `until` bounds time: no core starts
to execute when the next barrier is past it. In the hierarchy two cores make siblings, and two levels
above the last make a line travel through one that lies between; with three lines for
two places each fill of the last level is an eviction whose line the levels above may have in
any state, while one place above makes them evict at each fill. The lines are interchangeable, and
no property is temporal.

Deadlock is checked everywhere except in `control`, where the
application really ends or deadlocks; the hierarchy never stops, and in the other modules the explicit step `Done`
stutters when everything is done.

## 5. Fairness and liveness

`FairSpec` of `SetLock` asks weak fairness of every thread: one that can take its next
mutex or post its semaphore eventually does; a core need not begin an operation, but it
finishes one. Pthread mutexes make no promise between competitors, so nothing
stronger is assumed; that nobody overtakes forever comes from the bound on operations,
and `WaitingCoreIsWoken` does not speak of cores that wait for a mutex for the first
time. `FairSpec` of
`Coherence` asks weak fairness of each simulation thread, which runs a loop for
the whole simulation, and of the resumption of a woken core. Nothing is assumed
of a core's next access. `AccessesComplete` then says that every access that
misses completes, `WaitingCoreIsWoken` that the waiting core owns the stack
some time after.

`FairSpec` of `BarrierSyncServer` asks weak fairness of what a thread does unless it waits for
another one (`Proceeds`: a created host thread starts, a woken one returns, an executing one goes
on, a blocking system call ends) and of the holder of the lock (`ServerStep`). These
are loops of host threads; that a blocking call returns is an assumption about the
host. No call of the application is assumed to happen. `SleeperWakes` then says that a thread
that sleeps executes again unless the run ends first: time passes although everybody
sleeps or is in the barrier.

## 6. Proofs

Checked by TLAPS for every value of the constants.

`SetLockProofs` (any number of cores). `MutualExclusion` is not inductive: a
thread in the middle of `acquire_exclusive` owns some mutexes, and during a hand-over
the owner is the network thread until the core has noticed. The inductive invariant
`IInv` is `TypeOK`, `ControlInv` (which thread can be where; the loop index is 0 outside
loops; to whom the lock was passed) and `MutexesAccountedFor`, which defines for
each program counter the mutexes that its thread holds, and says that a mutex is
taken exactly if there is a holder, and one only. `TypeCorrect`,
`MutexesAccounted` and `OwnerIsAlone` follow: two owners would both hold
every mutex, and an owner and a sharer both the sharer's. `LockImplementsReaderWriterLock`:
under the same invariant every step is a step of `ReaderWriterLock` or a stutter.

`DirectoryProofs` (any nodes, blocks, homes and cores, any number of directory entries, sharers
and ways, the three variants). `TypeInv` is the types, `QueuesOK` (a node gets requests, answers and
DRAM messages only for the blocks whose home it is), `EntriesOK` (an entry is UNCACHED exactly
without sharers, its owner is the only sharer of a block that may be written, it has as many sharers
as pointers at most, and a block without an entry has none), `LinesOK`, `WaitersOK` (the cores that
wait at a node are those of its cache) and `JobsOK` (what a thread is in the middle of still
exists). The outcomes of `ProcessReq` are first reduced to eight kinds (`IsOutcome`): data,
an upgrade, a request to the DRAM, the forwarder, the owner or the sharers, a flush, and the end of a
NULLIFY_REQ; each handler is then one of these applied to the entry, its queue and the messages.
`TypesHold` and `CoherenceTypesHold` follow. `WaitersInv` adds that the line of a thread
that serves waiters is readable, which gives `WokenCoresHit`: while the
stack lock is passed from one waiter to the next no handler of the node runs. `FitsInv` concerns the two
ways in which an entry may fall short: `NullifiesReplaced` (an entry that was replaced has a
NULLIFY_REQ in its queue, as nothing but that request drops it) and `ForwarderShares` (a block that is
SHARED in MESIF has a forwarder, which, if there is one, is one of the sharers). `EntriesNullified` (`ReplacedEntryIsNullified`)
and `ForwardersShare` (`ForwarderIsSharer`) follow, the latter for `MaxHwSharers > 1`: with a single
pointer the reader that follows a write-back finds none free for the old owner and itself, and
the entry is left with a forwarder that shares nothing, which TLC confirms.

`CoherenceProofs` (the same). `SingleWriter` speaks of two caches that know nothing of each other;
what relates them is the directory's entry, which is ahead of the caches by what is in the queues. The
inductive invariant `CoherenceInv` is, for every block, `ReqInv` (the requests that wait are as they came,
and one that waits for data has been granted its copy) and for every node `NodeInv`, a relation between the
entry, the request being worked on, the ones that wait, the two FIFO queues between the home and the
node, the state of the line and what the first of the waiting cores wants or does:
`Tokens` (the copy is in the cache, on its way to it, on its way back, or still to be fetched, one of
these at most, and the node is a sharer then), `Ownership` (a line that may be written, and an EX_REP or
UPGRADE_REP that will make it so, belongs to the owner of the entry; an owner with a SHARED line has its WB_REP
under way), `WriteBacks` and `Flushes` (a WB_REQ or FLUSH_REQ that will still find a line, and
its answer, are there only while the directory works on the request that needs them),
`Requests` (one request for a block is under way, queued or answered at most, and only while
cores wait). Commands in a queue are not bound to the request that caused them: a WB_REQ may arrive
when the line has been evicted, fetched again and evicted once more. The invariant therefore distinguishes
the commands that will find a line (`Live`: the line is there, or data come before the command)
from those that the cache will ignore. `Accounts` is the converse of `Tokens` and `Requests`: no core waits
without a request, and no node is a sharer that neither has the line, nor is about to get it, nor has an
answer under way. `Invalidations` says that a sharer is sent an INV_REQ only for a request that is going to
write, so that the cache whose upgrade is granted keeps its line. `Writers` follows a write from the
request to the line: an EX_REQ or UPGRADE_REQ is there for a first waiter that writes, a MODIFIED entry's EX_REP
meets this waiter, and the line that it fills stays EXCLUSIVE only until the woken core has written, before
the stack lock is free for an eviction; so a cache that gives its line away without data is not the owner
of a MODIFIED entry, or has sent the data ahead. Each message is handled in three lemmas: what it does to the
view of one node, to all nodes' views of one block (all others keep theirs:
`Foreign`), and to all blocks. `CoherenceHolds` is the invariant;
`WriterIsAlone` (`SingleWriter`), `DirectoryKnowsCopies` (`DirectoryCoversCaches`),
`CopiesStayLimited` (`CopiesAreLimited`), `SharersAreAccountedFor` (`SharersAccountedFor`) and
`BlocksRequestedOnce` (`OneRequestPerBlock`) follow from it; the last counts the requests in
three places, of which `Requests` lets one at most hold one.
Where a handler asserts something, its step is taken only if the assertion holds; the invariant holds
whether or not the others do. `RepliesAwaited` shows for the replies that it does: `RepliesAreExpected`
follows if an entry has a pointer for each cache (`FullMap`), as in the default configurations, and
`AnswersAwaited` shows it for the answers of the caches and of the DRAM (`AnswersAreExpected`). The
hypothesis is needed (section 7, MESI with three caches and two pointers): a reader that finds no free pointer
has one sharer invalidated, the eviction of another one makes room first, and the INV_REQ that is left over
meets a line whose upgrade has been granted, or its INV_REP a MODIFIED entry.

`CacheSetLRUProofs` (any associativity, any set of blocks). `TypeCorrect`: ages stay
below the associativity. `AgesAlwaysDiffer`: they stay different, since a move to
the front increments only ages below the moved one's. `VictimAlwaysReplaceable`,
for `MaxPending < Associativity`: the strengthening `RequestInv` says that valid
tags differ, that a line that is being upgraded is the line of a pending request,
and that there are at most `MaxPending` of these. A reply for a block that is not
present is for a request that is no upgrade, so `FewUpgrades` maps the upgrading
ways one-to-one into the other requests; if the default index 0 were an upgrading
way, all ways but one would be upgrading, which are too many. The assumption cannot
be weakened: with as many waiting cores as ways TLC finds a victim that is being upgraded
(section 7). `AgesImplementLRU` needs no such assumption: every step is one of `LeastRecentlyUsed`, under
the mapping `Recency` that lists the ways by age. Ages that differ and stay below the associativity are
a permutation (`EveryAge`, by the pigeonhole principle), so that each position of the list has
one way; that adding one to the smaller ages is moving a way to the front is then a matter of
positions (`MoveToMRUMovesToFront`), and the largest age of the candidates is the last of them in the list
(`VictimIsOldest`, also where the victim is the default index 0).

`CacheAutomatonProofs` (any line size, any bits, any automaton and input, any
sequence of operations). `IInv` is `CapTypeOK`, `MaskIsReachable` and `FreshMask` (before
the first character the history is empty). The mask is a function of the row, the
switch and the previous mask, and so is the set that the runs of the automaton
reach; one lemma says that they stay equal when a character extends the history, another
that the count of matches is the number of completed runs. `TypeCorrect`,
`MaskCorrect` and `MatchesCorrect` follow.

`CapMemoryManagerProofs` (any line, any store size up to it, any automaton and input). `IInv` is `Progress`
(the part that is about to be accessed exists), `Taken` (the operation of a position that was
read is no longer in the map, and is never noted again) and `NoCharacterTwice`, which is
`NoCharacterIsReadTwice`. `PlaceInv` says what programming has achieved: the next access belongs to
a store of a phase that has one (`AtInv`), the map has operations of the announced phases only (`MapInv`), and
for each phase (`PhaseInv`) no operation is missing before it, its bytes are right after it, and
in between the stores sweep over them (`Swept`): behind the store that is due every byte is right, and ahead of
it every byte still has its operation, except the first byte of a line, which may have been stored
by a store of the line before. The unfilled bytes that a store copies are ahead of it, and never the first of a line
(`BytesAfter`), so that no byte that has lost its operation is spoilt. `SpilledLines` are left
out because the stores of the masks go on there later. `ProgramIsInPlace` follows for files in which no
byte is the code of 0 (`NoZeroCode`), which the decoding turns into 0 (section 7).
`ProgrammedBeforeMatched` (`ProgrammedFirst`, the refinement of `CapSpec`) needs no such hypothesis:
whatever the bytes are, they are not unfilled ones. `ShortInputIsInOrder`: if the input
fits a line the second access of a store of a character is beyond the input, so that it takes no
operation, and as many characters have been read as stores have begun (`OrderInv`). For a
longer input this is false (section 7).
The assumptions are that a line and a byte have at least one bit, that characters are lines of the
sub-array, and that a store is no longer than a line.

`BarrierSyncServerProofs` (any number of threads, any application, interval, durations,
delays and cost of a reschedule). `SkewInv` is the types of the host state, `HolderServes` (the lock's holder
does nothing else, and is where its call says), `InBarrier` (a core in the barrier sleeps, is about
to with its word cleared, or is the one that releases), `BehindBarrier` (any other core last
reported a time before the barrier, and will look at the barrier when it gets there), `Grid` (the barrier time is a multiple of the
interval), `Started` (a thread with a host thread has started) and `NoLostWakeup`. Every call of
every server is reduced to one of `CallProceeds`, `CallStalls` and `CallExits`, and every
step of the holder to `HolderMoves`, so that each conjunct is shown once per kind of
step; what is in the queues plays no part. `WakeupsNeverLost` follows.

`SkewBounded` assumes `RescheduleCost = 0` and adds `TimesBehind`: a core that is not in the barrier
is at most at the next barrier time, and no thread is to go on later than that. Whoever wakes
a thread is itself behind the barrier, a timeout or the end of a blocking system call gives the barrier time
itself, and what a core executes beyond it takes it into the barrier. So the bound is "at
most", and is attained. With a cost it is false: with 1000 ns and a barrier every 100 ns, as in
`config/nehalem.cfg`, the call of a thread that takes or hands over a mutex returns several barriers ahead, and
it makes further calls there until it executes again. The other theorems hold for any cost.

`RunInv` adds `JoinsLater`, `AwakeRuns` (whoever is woken, will not sleep, or was
in the barrier is counted as running) and `NobodyOvertakes` (nobody executes during a
release), for applications that
do not join a thread before it starts; `RunningThreadsExecute` and `BarrierWaits` follow
under that condition.

The rest of the module looks into the queues, under the same condition (`~JoinsEarly`: otherwise a thread
that joined one before it started is taken out of its place and signalled, but still counted as stalled). `StalledThreadsWaitOnce` counts the places of one thread. The inductive `QueueInv` relates the
queues to the statuses instead: for each reason the threads in the queues of that reason are
exactly those stalled for it, each once (`JoinQueue`, `BarrierQueue`, `SleepQueue`, `FutexQueues`, and
`MonitorQueues`, in which mutexes and conditions share their threads, as a signal moves them without
resuming them), and a thread that waits for the host is in none (`HostCalls`). A call is
reduced to `Restalls` (whom it resumes and who stalls, for which reason), so that every family of queues it does not
touch is kept by one lemma (`Untouched`); what it does to its own is a matter of sequences: appending
(`FamilyAppend`) and taking out the ones that are woken, requeued or timed out (`Picks`, `FamilyPicks`: the new queue is the old one
without some places, in whatever order). `QueuesHoldStalledThreads` follows.

`MutualExclusion` needs more, as the owner is assigned before the thread that was resumed knows. `MutexInv` says
that whoever is inside is the owner, that an owner who is not inside is a thread that wants the mutex and is
on its way back, and that a mutex without an owner has no queue; `WantInv`, that only a thread in the middle of a stall wants
a mutex (`Suspends`), so that a thread that calls wants none. Both are `OwnerInv`, and give `MutexesExclude`.
`ControlTypesHold` adds `ProgramInv` for what no queue says. `TimeGoesOn`, also under `~LastLeaves`: `TimeInv`
strengthens `TimeAdvances` to the middle of operations, when the holder of the lock is about to make time pass
itself or will come back from the host.

`MonitorImplemented` (the refinement of `Monitor`) uses `QueueInv` and `OwnerInv`. The mapping
takes for `entering[m]` the threads that want `m` and are in the queue of no condition, and
for `waiting[c]` the pairs in the queue of `c`; a thread that was handed the mutex stays among the
first until its call returns. So an unlock that hands over is only `Leave`; `Enter` is
the return of the thread that was resumed (`GoesOnRefines`), when by `MutexInv` nobody is inside any more; a signal, which may assign an owner, append to
several queues and resume one thread per mutex, is only `Notify` (`SignalRefines`).

`CacheHierarchyProofs` (any tree of caches, any lines, ways and prefetchers, with DRAM or with a
directory). `HierarchyTypeCorrect` and `AtomicPairsNeverMiss` hold for every tree; their invariant
`AtomicInv` adds `ServedWaits` (a line is served while its first waiter is still queued) and
`OwnerHasAll` (whoever holds the stack lock met no atomic pair). `HierarchyIsInclusive` and
`WritebacksNeverFail` assume `PrivateLevels`: the caches above any level but the last are above one
another, so that only the last level is shared.
`Inclusive` is not inductive: a level that passes a miss on drops its line, which is only right
if the levels above it have dropped theirs. `HierarchyInv` therefore follows the access: `TreeOK`
(inclusive, modified below modified, only the last level is upgrading), `PathInv` (the levels that the
request has passed do not have the line, and the requester waits for nothing), `Once` (a core waits for
one access) and `WaitersDropped` (a core that waits has dropped its line, and nobody gives it one
meanwhile). Each step is shown to keep the states first and then the queue and the path.

`CoresWriteAlone` and `WritesReachMemory` are about the data. Neither property is inductive: after the
answer to an upgrade every copy of the node is MODIFIED, those of two cores too, until the core that
asked for it has gone down the levels again, and what keeps that harmless is that it does not give
the stack lock up meanwhile. `DataInv` adds to `HierarchyInv`
`Upgrading` (a line that is being upgraded has a request, whose core is the first waiter; this is why
an upgrade is always followed by the writer's access), `Paths` (the MODIFIED copies of a line are above
one another, but in the `Window` after an upgrade, in which the writer's own levels have none), `FillTop`
(a MODIFIED line that comes up has no MODIFIED copies but those below: the others have been taken),
and for the values `DataOK`: a last level that is not MODIFIED agrees with memory (`CleanLine`), all
copies of a line that is EXCLUSIVE, upgrading or being served SHARED are the same (`SameLine`: an upgrade turns
them into MODIFIED ones, and any of them may become the newest), and the topmost MODIFIED copy
of each path is the newest (`TopLine`). A write happens only in the topmost MODIFIED copy of the only
path (`WriteData`), a write-back takes the newest data down (`NewestHolds`), and the levels that lose a
line lose only older data.

Only model-checked: of the directory protocol `ReadsSeeLastWrite`, which fails for
MESIF (section 7), and liveness (which is out of the prover's reach).

## 7. Findings

* `allocation`: `processDirectoryEntryAllocationReq` needs a resident entry
  without outstanding requests. When every entry of a directory set has one, the assertion at
  `pr/dram_directory_cntlr.cc:346` stops the simulator; requests are not made to wait.
* `freed_buffer`: `processFlushRepFromL2Cache` keeps a pointer to the data of a
  message for an upgrade that waits for more answers (`:1252`). The message's
  buffer is deleted after the handler (`msi/memory_manager.cc:3971-3972`), and
  the pointer is used for the `EX_REP` later.
* `cap_input`: the operation of each character has an address of its own, one byte
  apart, but the store that carries it is as long as a line
  (`msi/memory_manager.cc:1316`). The store after the first character of a line touches
  the next line and takes the operation noted there: the first character of the next
  line, or the end of the input, is processed too early.
* `hierarchy_read_modified`: when a core reads a line that a sibling has written, the sibling's copy
  becomes SHARED but the level that both share stays MODIFIED, and `copyDataFromNextLevel` gives the
  reader that state (`msi/cache_cntlr.cc:1418`). The reader may then write without a message while
  the sibling keeps a copy that is out of date; `:2085` says of such a read "will have shared
  state". Timing simulation does not see it, since data is functional only when faults are injected, but
  hits and invalidations are counted wrongly.

Also met, without a run of its own. In the hierarchy: at a level that several cores share and that is not
the last one (`config/dunnington.cfg`), a write that finds its line EXCLUSIVE there passes on
without invalidating the other cores, since only SHARED is tested (`msi/cache_cntlr.cc:2116`). In the cache
set: the default index 0 of `CacheSetLRU::getReplacementIndex` is returned without a check, and is a line that is
being upgraded when as many cores wait as there are ways. In simulation control: `BarrierSyncServer::advance`
declares the application deadlocked (`system/barrier_sync_server.cc:270`) when no thread runs and no timeout is
pending, although a thread in a blocking system call of the host will return; `FUTEX_WAKE_BITSET` ignores its bitset
(`system/syscall_server.cc:88` tests for another command); a host `futex_wait` that is interrupted is taken for
a wake-up (`misc/cond.cc:47`); `getNextTimeout` does not return the earliest one, and time advances by
more periods than needed; `m_next_barrier_time` is read without the lock
(`core/syscall_model.cc:307`); a trylock of the owner of a mutex stalls forever
(`system/sync_server.cc:32`). In CAP a byte 199 cannot be told from the code for 0. In PIC an operation that
reaches any level but the last fails an assertion (`msi/cache_cntlr.cc:884`).

In the directory protocol: with fewer pointers than caches (`limited_no_broadcast`) the reader that waits for a
free pointer cannot tell an eviction from the answer to its INV_REQ, and goes on; the INV_REQ may
then take the line of a cache whose upgrade was granted meanwhile, so that the UPGRADE_REP finds the line
INVALID, or its INV_REP an entry that is MODIFIED: TLC finds both with three caches, two pointers and two blocks,
and both stop at an assertion (`RepliesAreExpected` and `AnswersAreExpected` are checked with a pointer for each cache).
In MESIF a forwarder whose line is being
upgraded answers a write-back request with a stack buffer it never filled
(`msi/cache_cntlr.cc:3692`), so `ReadsSeeLastWrite` is checked for MESI; and
`processWbRepFromL2Cache` (`pr/dram_directory_cntlr.cc:1304`) passes dirty data to
the reader without writing it to DRAM, so that the copies of a `SHARED` block,
which are dropped silently as clean, may be the only ones. Data is
functional only when faults are injected; otherwise neither matters for results.

## 8. Not modelled

Timing, networks, statistics, DVFS, front ends, power models: no protocol, or I/O.
Upper levels: write-through and perfect caches, caches that are not coherent, the timing of MSHRs;
their environment is any directory, not the one of `DramDirectoryCntlr`. PIC: most of its paths stop at an assertion (section 7), so that there is little behaviour to be right
about. NUCA and DRAM caches: off in `base.cfg`. Schedulers, moves of threads between cores, SMT groups,
fast-forwarding: left (section 2). CAP: rows that are evicted from the first level (256 rows
fit into the cache of `base.cfg`), several sub-arrays, the byte 199. The host's waits with a timeout, and
broadcasts.
`PROJECT.json` says for each hazard without a property why it has none.
