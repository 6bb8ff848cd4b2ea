--------------------------- MODULE CacheHierarchy ---------------------------
(***************************************************************************)
(* The caches of one node, from the first level to the last                *)
(* (parametric_dram_directory_msi/cache_cntlr.cc): a tree in which every   *)
(* cache asks the next level for the lines it misses, and every cache      *)
(* updates the previous levels when it invalidates, downgrades or evicts a *)
(* line.  Hits in the first level run under the core's own mutex, all the  *)
(* rest under the lock of the whole stack (SetLock), which a core keeps    *)
(* while its request goes down the levels and the line is copied up.  The  *)
(* directory is the environment: it answers requests and asks for lines    *)
(* back.  Write-back caches of one set; the contents of a line are         *)
(* abstracted to whether they are the last that was written.               *)
(***************************************************************************)
EXTENDS Naturals, FiniteSets, Sequences

CONSTANTS
  Caches,
  Memory,       \* DRAM and the other nodes
  NextLevel,    \* m_next_cache_cntlr
  Stack,        \* Stack[c]: c and all the levels that follow it
  Ways,         \* lines of each cache
  Prefetchers,  \* the caches that have a prefetcher
  Addrs, NoAddr, NoCache

ASSUME NamesAssumption ==
  Memory \notin Caches /\ NoCache \notin Caches /\ NoAddr \notin Addrs
ASSUME TreeAssumption ==
  /\ NextLevel \in [Caches -> Caches \cup {Memory}]
  /\ Stack \in [Caches -> SUBSET Caches]
  /\ \A c \in Caches :
       /\ Stack[c] = {c} \cup IF NextLevel[c] = Memory THEN {} ELSE Stack[NextLevel[c]]
       /\ NextLevel[c] # Memory => c \notin Stack[NextLevel[c]]
       /\ \A d \in Stack[c] :
            /\ Stack[d] \subseteq Stack[c]
            /\ d # c => \E e \in Stack[c] : NextLevel[e] = d
ASSUME ConfigAssumption ==
  Ways \in [Caches -> Nat \ {0}] /\ Prefetchers \subseteq Caches

VARIABLES
  state,    \* the state of each line in each cache
  fresh,    \* history variable: who holds the value written last
  lock,     \* who holds the stack lock, and how far its access is
  locked,   \* the line on which a core is in an atomic access
  m_directory_waiters,
  request,  \* the request for a line that is on its way to the directory
  serving,  \* the line whose waiters the network thread serves
  direct    \* m_dram_cntlr: the last level accesses DRAM itself; set up once

vars == <<state, fresh, lock, locked, m_directory_waiters, request, serving, direct>>

Prev(c) == {d \in Caches : NextLevel[d] = c}       \* m_prev_cache_cntlrs
Tree(c) == {d \in Caches : c \in Stack[d]}
FirstLevel == {c \in Caches : Prev(c) = {}}        \* one of each core
LastLevel == CHOOSE c \in Caches : NextLevel[c] = Memory

ASSUME LevelsAssumption ==
  /\ \E c \in Caches : NextLevel[c] = Memory
  /\ \A c, d \in Caches : NextLevel[c] = Memory /\ NextLevel[d] = Memory => c = d
  /\ LastLevel \notin FirstLevel
  /\ \A c \in Caches : LastLevel \in Stack[c]

States == {"I", "S", "U", "E", "M"}   \* U: SHARED_UPGRADING
Ops == {"READ", "READ_EX", "WRITE", "PREFETCH"}
Requests == {"SH_REQ", "EX_REQ", "UPGRADE_REQ"}
Exclusive(op) == op \in {"READ_EX", "WRITE"}

\* CacheDirectoryWaiter, and the access with which a core holds the stack lock; an
\* access of the program comes from the core's first level.
Waiters == {w \in [core : FirstLevel, from : Caches, op : Ops] :
              w.from \in Stack[w.core] /\ (w.op # "PREFETCH" => w.from = w.core)}
Holders == {h \in [core : FirstLevel, from : Caches, op : Ops, a : Addrs,
                   at : Caches, doing : {"ask", "fill"}, woken : BOOLEAN] :
              h.from \in Stack[h.core] /\ (h.op # "PREFETCH" => h.from = h.core)}
Free == [at |-> NoCache]

Init ==
  /\ state = [c \in Caches |-> [a \in Addrs |-> "I"]]
  /\ fresh = {Memory} \X Addrs
  /\ lock = Free
  /\ locked = [t \in FirstLevel |-> NoAddr]
  /\ m_directory_waiters = [a \in Addrs |-> <<>>]
  /\ request = [a \in Addrs |-> "none"]
  /\ serving = NoAddr
  /\ direct \in BOOLEAN

-----------------------------------------------------------------------------
(* The caches.                                                             *)

Valid(c, a) == state[c][a] # "I"
Readable(s) == s \in {"S", "E", "M"}
Writable(s) == s = "M"

\* operationPermissibleinCache
Permits(c, a, op) ==
  IF Exclusive(op) THEN Writable(state[c][a]) ELSE Readable(state[c][a])

\* updateCacheBlock: the caches of set that have the line.
Updated(set, a, new) ==
  [c \in Caches |-> [b \in Addrs |->
     IF c \in set /\ b = a /\ Valid(c, a) THEN new ELSE state[c][b]]]

\* The modified copies of the tree of c that have no more recent one above them;
\* c has the newest data once they are written back.
Owners(c, a) ==
  {d \in Tree(c) : state[d][a] = "M" /\ \A e \in Prev(d) : state[e][a] # "M"}
Newest(c, a) == \A d \in Owners(c, a) : <<d, a>> \in fresh

\* Modified data of set, all above c, goes down level by level until it is in c.
\* writeCacheBlock: "Got writeback for non-MODIFIED line".
WritebacksHit(set, a) ==
  \A d \in set : state[d][a] = "M" => state[NextLevel[d]][a] = "M"
WrittenBack(set, c, a) ==
  LET written == {d \in set \cup {c} : state[d][a] = "M"}
  IN  (fresh \ (written \X {a})) \cup {<<d, a>> : d \in {e \in written : Newest(e, a)}}

\* The value of line a is copied from one place to another, given who has it.
Copied(f, from, to, a) ==
  IF <<from, a>> \in f THEN f \cup {<<to, a>>} ELSE f \ {<<to, a>>}

\* A cache that lost a line has no value of it.
Held(f, s) == {p \in f : p[1] = Memory \/ s[p[1]][p[2]] # "I"}

\* The caches above c that are not on the way of the access.
Siblings(c) == UNION {Tree(d) : d \in Prev(c) \ Stack[lock.from]}

\* The previous levels of c other than the requester are set to new.
Snoop(c, a, new) ==
  /\ WritebacksHit(Siblings(c), a)
  /\ state' = Updated(Siblings(c), a, new)
  /\ fresh' = Held(WrittenBack(Siblings(c), c, a), state')

\* The sets of lines that may have to leave c for a new one: none while there is
\* room, else any line that is not being upgraded.
Victims(c) ==
  LET resident == {b \in Addrs : Valid(c, b)}
  IN  IF Cardinality(resident) < Ways[c] THEN {{}}
      ELSE {{v} : v \in {b \in resident : state[c][b] # "U"}}

\* Mutant: the previous levels keep the lines that c evicts.
EvictedAlone(c, victims) ==
  [d \in Caches |-> [b \in Addrs |-> IF d = c /\ b \in victims THEN "I" ELSE state[d][b]]]

\* The previous levels lose the lines that c evicts.
Evicted(c, victims) ==
  [d \in Caches |-> [b \in Addrs |->
     IF d \in Tree(c) /\ b \in victims THEN "I" ELSE state[d][b]]]

\* Mutant: the previous levels' data does not reach the eviction buffer.
OwnData(c, b) == <<c, b>> \in fresh

\* The eviction buffer m_evicting_buf of c holds the newest data.
BufferedData(c, b) == Newest(c, b)

\* The next level gets the buffer if c had the line in state MODIFIED.
EvictedData(c, victims) ==
  LET dirty == {b \in victims : state[c][b] = "M"}
  IN  (fresh \ ({NextLevel[c]} \X dirty))
        \cup ({NextLevel[c]} \X {b \in dirty : BufferedData(c, b)})

\* insertCacheBlock: the states and values after line a enters c, which does not
\* have it, in state new.
Inserted(c, a, new) ==
  LET above == {d \in Tree(c) : NextLevel[d] \notin {c, Memory}}
      s(victims) == [Evicted(c, victims) EXCEPT ![c][a] = new]
  IN  {[state |-> s(victims),
        fresh |-> Held(Copied(EvictedData(c, victims), NextLevel[c], c, a), s(victims))] :
         victims \in {w \in Victims(c) : ~ Valid(c, a) /\ \A v \in w : WritebacksHit(above, v)}}

-----------------------------------------------------------------------------
(* The cores: processMemOpFromCore and doPrefetch.                         *)

\* A core whose request is in the queue waits, until the network thread wakes it.
Waiting(t) ==
  \E a \in Addrs : \E i \in DOMAIN m_directory_waiters[a] :
    m_directory_waiters[a][i].core = t /\ (a = serving => i > 1)

\* Each core has one access at a time; the owner of the stack has all mutexes.
Ready(t) == lock = Free /\ locked[t] = NoAddr /\ ~ Waiting(t)

\* Mutant: the first half of an atomic pair gives the core's mutex back.
AtomicIgnored == lock = Free

\* The stack lock takes the mutexes of all cores.
StackFree == lock = Free /\ \A t \in FirstLevel : locked[t] = NoAddr

Lock(t, c, op, a, at, woken) ==
  lock' = [core |-> t, from |-> c, op |-> op, a |-> a, at |-> at,
           doing |-> "ask", woken |-> woken]

Written(t, a) == (fresh \ {p \in fresh : p[2] = a}) \cup {<<t, a>>}

\* The access itself; a READ_EX is the first half of an atomic pair and keeps
\* the core's mutex.
AccessCache(t, a, op) ==
  /\ fresh' = IF op = "WRITE" THEN Written(t, a) ELSE fresh
  /\ locked' = IF op = "READ_EX" THEN [locked EXCEPT ![t] = a] ELSE locked

FirstLevelHit(t, a, op) ==
  /\ Ready(t) /\ Permits(t, a, op)
  /\ AccessCache(t, a, op)
  /\ UNCHANGED <<state, lock, m_directory_waiters, request, serving>>

\* The second half: "Expected to find address in L1 Cache".
Unlock(t, a) ==
  /\ lock = Free /\ locked[t] = a
  /\ Permits(t, a, "WRITE")
  /\ fresh' = Written(t, a)
  /\ locked' = [locked EXCEPT ![t] = NoAddr]
  /\ UNCHANGED <<state, lock, m_directory_waiters, request, serving>>

\* "Invalidate the cache block before passing the request to L2 Cache"
Dropped(c, a) == [state EXCEPT ![c][a] = "I"]

FirstLevelMiss(t, a, op) ==
  /\ Ready(t) /\ StackFree /\ ~ Permits(t, a, op)
  /\ state' = Dropped(t, a)
  /\ fresh' = Held(fresh, state')
  /\ Lock(t, t, op, a, NextLevel[t], FALSE)
  /\ UNCHANGED <<locked, m_directory_waiters, request, serving>>

\* Any cache of the core's stack may prefetch; it is its own requester.
DoPrefetch(t, c, a) ==
  /\ Ready(t) /\ StackFree /\ c \in Stack[t] \cap Prefetchers
  /\ Lock(t, c, "PREFETCH", a, c, FALSE)
  /\ UNCHANGED <<state, fresh, locked, m_directory_waiters, request, serving>>

-----------------------------------------------------------------------------
(* processShmemReqFromPrevCache of the cache the request is at.            *)

Asked(c) == lock # Free /\ lock.at = c /\ lock.doing = "ask"

Fill == lock' = [lock EXCEPT !.doing = "fill"]

\* Mutant: a write that hits leaves the copies of the other cores.
OnlyReadsSnoop(c) ==
  IF ~ Exclusive(lock.op) /\ state[c][lock.a] \in {"E", "M"} THEN {"S"} ELSE {}

\* The state the other previous levels go to when the request hits.
SnoopedTo(c) ==
  IF Exclusive(lock.op) THEN {"I"}
  ELSE IF state[c][lock.a] \in {"E", "M"} THEN {"S"} ELSE {}

\* The cache keeps its state, also when it lets a reader in.
HitInCache(c) ==
  /\ Asked(c) /\ Permits(c, lock.a, lock.op)
  /\ \/ \E new \in SnoopedTo(c) : Snoop(c, lock.a, new)
     \/ SnoopedTo(c) = {} /\ UNCHANGED <<state, fresh>>
  /\ Fill
  /\ UNCHANGED <<locked, m_directory_waiters, request, serving>>

\* "this is a write on a SHARED block": the other previous levels lose it.
Upgrades(c, s) == state[c][lock.a] = s

\* A level before the last drops its copy and lets the next level handle it.
PassOn(c) ==
  /\ Asked(c) /\ ~ Permits(c, lock.a, lock.op) /\ c # LastLevel
  /\ LET snooped == IF Upgrades(c, "S") THEN Siblings(c) ELSE {}
     IN  /\ WritebacksHit(snooped, lock.a)
         /\ state' = [Updated(snooped, lock.a, "I") EXCEPT ![c][lock.a] = "I"]
         /\ fresh' = Held(WrittenBack(snooped, c, lock.a), state')
  /\ lock' = [lock EXCEPT !.at = NextLevel[c]]
  /\ UNCHANGED <<locked, m_directory_waiters, request, serving>>

\* Upgrades that need no message: the other previous levels lose the line.
SilentUpgrade(c) ==
  /\ Asked(c) /\ c = LastLevel /\ Exclusive(lock.op)
  /\ Upgrades(c, "E") \/ (direct /\ Upgrades(c, "S"))
  /\ WritebacksHit(Siblings(c), lock.a)
  /\ state' = [Updated(Siblings(c), lock.a, "I") EXCEPT ![c][lock.a] = "M"]
  /\ fresh' = Held(WrittenBack(Siblings(c), c, lock.a), state')
  /\ Fill
  /\ UNCHANGED <<locked, m_directory_waiters, request, serving>>

AccessDRAM(c) ==
  /\ Asked(c) /\ c = LastLevel /\ direct /\ ~ Valid(c, lock.a)
  /\ \E x \in Inserted(c, lock.a, IF Exclusive(lock.op) THEN "M" ELSE "S") :
       state' = x.state /\ fresh' = x.fresh
  /\ Fill
  /\ UNCHANGED <<locked, m_directory_waiters, request, serving>>

\* initiateDirectoryAccess: the first waiter of a line sends the request.  A core
\* that was woken must not get here.
InitiateDirectoryAccess(c) ==
  LET a == lock.a
      first == m_directory_waiters[a] = <<>>
      type == IF ~ Exclusive(lock.op) THEN "SH_REQ"
              ELSE IF state[c][a] = "S" THEN "UPGRADE_REQ" ELSE "EX_REQ"
      snooped == IF Upgrades(c, "S") THEN Siblings(c) ELSE {}
      s == Updated(snooped, a, "I")
  IN  /\ Asked(c) /\ c = LastLevel /\ ~ direct /\ ~ lock.woken
      /\ ~ Permits(c, a, lock.op) /\ state[c][a] # "E"
      /\ WritebacksHit(snooped, a)
      /\ state' = IF first /\ type = "UPGRADE_REQ" THEN [s EXCEPT ![c][a] = "U"] ELSE s
      /\ fresh' = Held(fresh, state')
      /\ request' = IF first THEN [request EXCEPT ![a] = type] ELSE request
      /\ first /\ type = "EX_REQ" => ~ Valid(c, a)
      /\ m_directory_waiters' = [m_directory_waiters EXCEPT ![a] =
           Append(@, [core |-> lock.core, from |-> lock.from, op |-> lock.op])]
      /\ lock' = Free
      /\ UNCHANGED <<locked, serving>>

-----------------------------------------------------------------------------
(* The way back up.                                                        *)

\* Mutant: the line always arrives in a state in which it can be written.
FilledModified(c, a) == "M"

\* copyDataFromNextLevel: the cache that asked c gets the state of c.
FilledState(c, a) == state[c][a]

CopyDataFromNextLevel(c) ==
  /\ lock # Free /\ lock.doing = "fill" /\ lock.at = NextLevel[c] /\ c \in Stack[lock.from]
  /\ Permits(NextLevel[c], lock.a, lock.op)
  /\ \E x \in Inserted(c, lock.a, FilledState(NextLevel[c], lock.a)) :
       state' = x.state /\ fresh' = x.fresh
  /\ lock' = [lock EXCEPT !.at = c]
  /\ UNCHANGED <<locked, m_directory_waiters, request, serving>>

\* The access of the core is done: "Expected %x to be valid in L1".
Finish ==
  /\ lock # Free /\ lock.doing = "fill" /\ lock.at = lock.from
  /\ Permits(lock.from, lock.a, lock.op)
  /\ AccessCache(lock.core, lock.a, lock.op)
  /\ lock' = Free
  /\ UNCHANGED <<state, m_directory_waiters, request, serving>>

-----------------------------------------------------------------------------
(* The network thread of the node: handleMsgFromDramDirectory.             *)

\* The loop over the waiters of line a, given the states and the queues: wake the
\* first with the stack lock, unless it wants to write and the line is SHARED.
Serve(a, s, q) ==
  /\ m_directory_waiters' = q
  /\ \/ /\ q[a] = <<>>
        /\ state' = s /\ lock' = Free /\ serving' = NoAddr
        /\ request' = [request EXCEPT ![a] = "none"]
     \/ /\ q[a] # <<>> /\ Exclusive(Head(q[a]).op) /\ s[LastLevel][a] = "S"
        /\ state' = [s EXCEPT ![LastLevel][a] = "U"]
        /\ lock' = Free /\ serving' = NoAddr
        /\ request' = [request EXCEPT ![a] = "UPGRADE_REQ"]
     \/ /\ q[a] # <<>> /\ ~ (Exclusive(Head(q[a]).op) /\ s[LastLevel][a] = "S")
        /\ LET w == Head(q[a])
           IN  Lock(w.core, w.from, w.op, a,
                    IF w.op = "PREFETCH" THEN w.from ELSE NextLevel[w.from], TRUE)
        /\ state' = s /\ serving' = a
        /\ request' = [request EXCEPT ![a] = "none"]

\* The directory may answer SH_REQ with the only copy.
Replies(a) == IF request[a] = "SH_REQ" THEN {"S", "E"} ELSE {"E"}

\* EX_REP and SH_REP, also after an upgraded line was lost on the way.
Rep(a) ==
  /\ StackFree /\ serving = NoAddr
  /\ request[a] # "none" /\ ~ Valid(LastLevel, a)
  /\ \E new \in Replies(a) : \E x \in Inserted(LastLevel, a, new) :
       fresh' = x.fresh /\ Serve(a, x.state, m_directory_waiters)
  /\ UNCHANGED locked

\* UPGRADE_REP: every copy in the node becomes MODIFIED.
UpgradeRep(a) ==
  /\ StackFree /\ serving = NoAddr
  /\ request[a] = "UPGRADE_REQ" /\ Valid(LastLevel, a)
  /\ Serve(a, Updated(Caches, a, "M"), m_directory_waiters)
  /\ UNCHANGED <<fresh, locked>>

\* The waiter that was woken is done.
NextWaiter(a) ==
  /\ StackFree /\ serving = a
  /\ Serve(a, state, [m_directory_waiters EXCEPT ![a] = Tail(@)])
  /\ UNCHANGED <<fresh, locked>>

\* INV_REQ and FLUSH_REQ: the whole node loses the line; FLUSH_REQ and WB_REQ
\* send the data of the last level.
ToDirectory(a, new) ==
  /\ WritebacksHit(Caches \ {LastLevel}, a)
  /\ state' = Updated(Caches, a, new)
  /\ fresh' = Held(Copied(WrittenBack(Caches, LastLevel, a), LastLevel, Memory, a), state')
  /\ UNCHANGED <<lock, locked, m_directory_waiters, request, serving>>

InvReq(a) ==
  /\ StackFree /\ serving = NoAddr /\ ~ direct
  /\ state[LastLevel][a] \in {"S", "U"}
  /\ state' = Updated(Caches, a, "I")
  /\ fresh' = Held(fresh, state')
  /\ UNCHANGED <<lock, locked, m_directory_waiters, request, serving>>

FlushReq(a) ==
  /\ StackFree /\ serving = NoAddr /\ ~ direct
  /\ Valid(LastLevel, a)
  /\ ToDirectory(a, "I")

\* A line that is being upgraded stays as it is.
WbReq(a) ==
  /\ StackFree /\ serving = NoAddr /\ ~ direct
  /\ Readable(state[LastLevel][a])
  /\ ToDirectory(a, "S")

-----------------------------------------------------------------------------
CoreStep(t) ==
  \/ \E a \in Addrs :
       \/ \E op \in Ops \ {"PREFETCH"} : FirstLevelHit(t, a, op) \/ FirstLevelMiss(t, a, op)
       \/ Unlock(t, a)
       \/ \E c \in Caches : DoPrefetch(t, c, a)

CacheStep(c) ==
  \/ HitInCache(c) \/ PassOn(c) \/ SilentUpgrade(c) \/ AccessDRAM(c)
  \/ InitiateDirectoryAccess(c) \/ CopyDataFromNextLevel(c)

NetworkStep ==
  \E a \in Addrs : Rep(a) \/ UpgradeRep(a) \/ NextWaiter(a)
                     \/ InvReq(a) \/ FlushReq(a) \/ WbReq(a)

Next ==
  /\ \/ \E t \in FirstLevel : CoreStep(t)
     \/ \E c \in Caches : CacheStep(c)
     \/ Finish
     \/ NetworkStep
  /\ UNCHANGED direct

Spec == Init /\ [][Next]_vars

-----------------------------------------------------------------------------
(* Properties.                                                             *)

\* The variables keep their types; a woken access is one that some core asked for.
TypeOK ==
  /\ state \in [Caches -> [Addrs -> States]]
  /\ fresh \subseteq (Caches \cup {Memory}) \X Addrs
  /\ lock \in Holders \cup {Free}
  /\ locked \in [FirstLevel -> Addrs \cup {NoAddr}]
  /\ m_directory_waiters \in [Addrs -> Seq(Waiters)]
  /\ request \in [Addrs -> Requests \cup {"none"}]
  /\ serving \in Addrs \cup {NoAddr}
  /\ direct \in BOOLEAN

\* A level has every line of its previous levels, whatever is evicted, prefetched
\* or taken away (insertCacheBlock, "Invalidate the line in previous levels").
Inclusive ==
  \A c \in Caches \ {LastLevel}, a \in Addrs : Valid(c, a) => Valid(NextLevel[c], a)

\* The next level of a MODIFIED line is MODIFIED, so that a write-back is never
\* refused (writeCacheBlock, "Got writeback for non-MODIFIED line").
ModifiedBelow ==
  \A c \in Caches \ {LastLevel}, a \in Addrs :
    state[c][a] = "M" => state[NextLevel[c]][a] = "M"

\* Two cores never both have a line they may write without asking anybody
\* (processShmemReqFromPrevCache, "Invalidate/flush in previous levels").
OneWriter ==
  lock = Free =>
    \A t, u \in FirstLevel, a \in Addrs : state[t][a] = "M" /\ state[u][a] = "M" => t = u

\* No write is lost: the value written last is in memory or, while the last level
\* is MODIFIED, comes out of it when the line is flushed (updateCacheBlock merges the
\* previous levels' data, insertCacheBlock writes the eviction buffer).
LastWriteKept ==
  \A a \in Addrs :
    \/ state[LastLevel][a] # "M" /\ <<Memory, a>> \in fresh
    \/ state[LastLevel][a] = "M" /\ Newest(LastLevel, a)

\* The second half of an atomic access finds the line that the first one left:
\* nobody takes it meanwhile (processMemOpFromCore, "Expected to find address(0x%x)
\* in L1 Cache").
AtomicPairsHit ==
  \A t \in FirstLevel : locked[t] # NoAddr => state[t][locked[t]] = "M"

\* A core that may write a line has its only copy: one that reads it while another
\* core has it "will have shared state" (processShmemReqFromPrevCache).
OnlyWritableCopy ==
  lock = Free =>
    \A t, u \in FirstLevel, a \in Addrs : state[t][a] = "M" /\ Valid(u, a) => t = u
=============================================================================
