------------------------------- MODULE Coherence -------------------------------
(***************************************************************************)
(* The directory protocol as a whole: cores, last-level caches, directory  *)
(* controllers and DRAM, which meet in the FIFO queues of the simulation   *)
(* threads.                                                                *)
(***************************************************************************)
EXTENDS DramDirectoryCntlr, LastLevelCache

vars == <<simThreadVars, directoryVars, cacheVars>>

Init == SimThreadsInit /\ DirectoryInit /\ LastLevelCacheInit

SimThreadStep(n) ==
  \/ DirectoryStep(n) /\ UNCHANGED cacheVars
  \/ CacheStep(n) /\ UNCHANGED directoryVars

CoreRuns(c) == CoreStep(c) /\ UNCHANGED directoryVars

\* Every access is done and every message handled: the program has ended.
Done ==
  /\ \A c \in Cores : pc[c] = "idle" /\ ops[c] = MaxOps
  /\ \A n \in Nodes : queue[n] = <<>> /\ job[n] = Recv
  /\ UNCHANGED vars

Next ==
  \/ \E n \in Nodes : SimThreadStep(n)
  \/ \E c \in Cores : CoreRuns(c)
  \/ Done

Spec == Init /\ [][Next]_vars

\* The simulation threads run all the time, and so does a woken core.  Whether a
\* core starts another access is its program's business.
FairSpec ==
  /\ Spec
  /\ \A n \in Nodes : WF_vars(SimThreadStep(n))
  /\ \A c \in Cores : WF_vars(Resume(c) /\ UNCHANGED directoryVars)

TypeOK == SimThreadsTypeOK /\ DirectoryTypeOK /\ LastLevelCacheTypeOK

-----------------------------------------------------------------------------
(* Safety.                                                                 *)

\* The messages in flight to node n about block a.
InFlight(n, a, types) ==
  {i \in 1 .. Len(queue[n]) : queue[n][i].type \in types /\ queue[n][i].addr = a}
InFlightFrom(m, n, a, types) ==
  {i \in InFlight(n, a, types) : queue[n][i].sender = m}

Cached(n, a) == line[n][a].state # "INVALID"

\* Single writer: while one cache holds a block MODIFIED or EXCLUSIVE, which lets
\* it write without a message, no other cache holds the block at all, also while
\* requests, evictions and answers of several nodes cross on their way.
SingleWriter ==
  \A a \in Addrs, m, n \in Nodes :
    line[m][a].state \in {"MODIFIED", "EXCLUSIVE"} /\ m # n => ~ Cached(n, a)

\* The directory never loses a copy: whatever crosses on the way, each cache that
\* holds a block is in its list of sharers, and a cache that may write the block
\* is its owner, whom the next request is sent to.
DirectoryCoversCaches ==
  \A a \in Addrs, n \in Nodes :
    /\ Cached(n, a) => n \in dir[a].sharers
    /\ line[n][a].state \in {"MODIFIED", "EXCLUSIVE"}
         => dir[a].owner = n /\ dir[a].state \in {"MODIFIED", "EXCLUSIVE"}

\* Nobody is waited for in vain: a sharer without a copy has its answer to the
\* directory under way, or gets its copy from a message that is under way or from
\* the request that the directory is working on.
SharersAccountedFor ==
  \A a \in Addrs : \A n \in dir[a].sharers :
    \/ Cached(n, a)
    \/ InFlightFrom(n, Home[a], a, {"INV_REP", "FLUSH_REP"}) # {}
    \/ InFlight(n, a, ReplyTypes) # {}
    \/ reqs[a] # <<>> /\ Head(reqs[a]).requester = n

\* Each answer that reaches the directory finds the entry and the request that its
\* handler asserts (processInvRepFromL2Cache, processFlushRepFromL2Cache,
\* processWbRepFromL2Cache, processDRAMReply), although caches evict lines at any
\* time and an answer may have been overtaken by an eviction of the same line.
AnswersAreExpected ==
  \A h \in Nodes : job[h] = Recv /\ queue[h] # <<>> =>
    LET m == Received(h)
    IN  /\ m.type = "INV_REP" => InvRepExpected(m.addr, m.sender)
        /\ m.type = "FLUSH_REP" => FlushRepExpected(m.addr, m.sender)
        /\ m.type = "WB_REP" => WbRepExpected(m.addr, m.sender)
        /\ m.type = "DRAM_READ_REP" => DramReplyExpected(m.addr)

\* Each reply finds a core that waits for it and the line as initiateDirectoryAccess
\* left it: being upgraded for UPGRADE_REP, which carries no data, and else invalid.
RepliesAreExpected ==
  \A n \in Nodes : job[n] = Recv /\ queue[n] # <<>> =>
    LET m == Received(n)
    IN  m.type \in ReplyTypes =>
          /\ waiters[n][m.addr] # <<>>
          /\ line[n][m.addr].state =
               IF m.type = "UPGRADE_REP" THEN "SHARED_UPGRADING" ELSE "INVALID"

\* A woken core finds the line in a state that permits its access: no message of
\* the directory takes it away between the reply and the access of each of the
\* waiters (processMemOpFromCore, "data is already gone").
WokenCoreHits ==
  \A c \in Cores : pc[c] = "woken" =>
    LET n == LLC[c]
        a == job[n].addr
    IN  /\ job[n].at = "waiters" /\ Head(waiters[n][a]).core = c
        /\ Hits(line[n][a].state, Head(waiters[n][a]).exclusive)

\* The requests of cache n for block a: under way, queued in the directory, or
\* answered.
Outstanding(n, a) ==
  Cardinality(InFlightFrom(n, Home[a], a, RequestTypes))
  + Cardinality({i \in 1 .. Len(reqs[a]) :
                   /\ reqs[a][i].type # "NULLIFY_REQ" /\ reqs[a][i].requester = n
                   /\ ~ (i = 1 /\ job[Home[a]] = Busy("nextReq", a))})
  + Cardinality(InFlight(n, a, ReplyTypes))
  + (IF job[n] = Busy("waiters", a) THEN 1 ELSE 0)

\* A block that cores of n wait for is requested exactly once: the waiters neither
\* start a second request nor are left behind without one.
OneRequestPerBlock ==
  \A n \in Nodes, a \in Addrs :
    Outstanding(n, a) = IF waiters[n][a] # <<>> THEN 1 ELSE 0

\* MESIF asks a cache for the data only if that cache is a sharer.
ForwarderIsSharer ==
  Variant = "mesif" =>
    \A a \in Addrs : dir[a].state = "SHARED" =>
      dir[a].forwarder \in dir[a].sharers \cup {NoNode}

\* A read sees what was written last, by whatever core.
ReadsSeeLastWrite ==
  \A a \in Addrs, n \in Nodes : Readable(line[n][a].state) => line[n][a].data = last[a]

\* A requester whose copy was invalidated before its upgrade request was served gets
\* the data that a sharer FLUSHed for it (processFlushRepFromL2Cache, "store the data
\* that was FLUSHed"), not a buffer that is freed.
RepliesCarryData ==
  \A n \in Nodes : \A i \in 1 .. Len(queue[n]) :
    queue[n][i].type \in {"EX_REP", "SH_REP"} => queue[n][i].data # Garbage

\* max_hw_sharers bounds the copies of a block, not only the pointers of its entry.
CopiesAreLimited ==
  \A a \in Addrs : Cardinality({n \in Nodes : Cached(n, a)}) <= MaxHwSharers

\* A replaced directory entry lives exactly as long as its NULLIFY_REQ is worked on
\* (processDirectoryEntryAllocationReq asserts that no other request is queued).
ReplacedEntryIsNullified ==
  \A a \in Addrs : dir[a].where = "replaced" <=>
    reqs[a] # <<>> /\ Head(reqs[a]).type = "NULLIFY_REQ" /\ job[Home[a]] # Busy("nextReq", a)

\* A request that the directory starts to process finds an entry for its block or
\* one it may take (processDirectoryEntryAllocationReq, "see Redmine #175").
RequestsFindAnEntry ==
  \A h \in Nodes, a \in Addrs :
    \/ /\ Receives(h, RequestTypes) /\ Received(h).addr = a /\ reqs[a] = <<>>
    \/ /\ job[h] = Busy("nextReq", a) /\ Len(reqs[a]) > 1
    => GetDirectoryEntry(a)[a].where # "none" \/ ReplacementCandidates(a) # {}

-----------------------------------------------------------------------------
(* Liveness.                                                               *)

\* A core whose access missed completes it.
AccessesComplete == \A c \in Cores : pc[c] = "waiting" ~> pc[c] = "idle"
=============================================================================
