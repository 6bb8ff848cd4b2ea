---------------------------- MODULE LastLevelCache ----------------------------
(***************************************************************************)
(* The last-level cache controllers (cache_cntlr.cc) and the cores whose   *)
(* misses they serve.  A core that misses queues up for the block; the     *)
(* first one sends a request to the home directory.  When the reply is in, *)
(* the simulation thread wakes the waiters one after the other and passes  *)
(* each the stack lock until it has done its access.  Each handler and     *)
(* each access runs under the stack lock of the set (SetLock) and is one   *)
(* step here.  The private levels above are part of the node's access.     *)
(***************************************************************************)
EXTENDS SimThreads

CONSTANTS Cores,    \* user threads
          LLC,      \* LLC[c]: the node whose last-level cache core c uses
          Ways,     \* associativity of the last-level cache
          MaxOps    \* bound: accesses of each core that are modelled

ASSUME LLCAssumption == LLC \in [Cores -> Nodes]
ASSUME WaysAssumption == Ways \in Nat \ {0}
ASSUME MaxOpsAssumption == MaxOps \in Nat

VARIABLES line,      \* line[n][a]: state and data of block a in the cache of n
          waiters,   \* waiters[n][a]: m_directory_waiters
          pc,        \* is a core running, waiting, or woken with the stack lock
          ops,       \* accesses each core has started
          last       \* last[a]: history variable, the value written last

cacheVars == <<line, waiters, pc, ops, last>>

CStates == {"INVALID", "SHARED", "SHARED_UPGRADING", "EXCLUSIVE", "MODIFIED"}
Lines == [state : CStates, data : Data \cup {Null}]
NoLine == [state |-> "INVALID", data |-> Null]

Waiters == [core : Cores, exclusive : BOOLEAN]

LastLevelCacheTypeOK ==
  /\ line \in [Nodes -> [Addrs -> Lines]]
  /\ waiters \in [Nodes -> [Addrs -> Seq(Waiters)]]
  /\ pc \in [Cores -> {"idle", "waiting", "woken"}]
  /\ ops \in [Cores -> 0 .. MaxOps]
  /\ last \in [Addrs -> Versions]

LastLevelCacheInit ==
  /\ line = [n \in Nodes |-> [a \in Addrs |-> NoLine]]
  /\ waiters = [n \in Nodes |-> [a \in Addrs |-> <<>>]]
  /\ pc = [c \in Cores |-> "idle"]
  /\ ops = [c \in Cores |-> 0]
  /\ last = [a \in Addrs |-> 0]

Readable(state) == state \in {"SHARED", "EXCLUSIVE", "MODIFIED"}
Writable(state) == state = "MODIFIED"
Permissible(state, exclusive) == IF exclusive THEN Writable(state) ELSE Readable(state)

\* Mutant: a write to a shared line needs no upgrade.
HitsShared(state, exclusive) == Permissible(state, exclusive) \/ Readable(state)

\* A write hits a MODIFIED line and turns an EXCLUSIVE one into one silently.
Hits(state, exclusive) ==
  Permissible(state, exclusive) \/ (exclusive /\ state = "EXCLUSIVE")

\* The stack lock of node n was passed to a core that still holds it.
StackLocked(n) == \E c \in Cores : LLC[c] = n /\ pc[c] = "woken"

-----------------------------------------------------------------------------
(* Accesses of core c.                                                     *)

\* The access itself, once the line permits it; a write makes a new version.
Access(n, a, exclusive) ==
  IF exclusive
  THEN LET v == (last[a] + 1) % NumVersions
       IN  /\ last' = [last EXCEPT ![a] = v]
           /\ line' = [line EXCEPT ![n][a] = [state |-> "MODIFIED", data |-> v]]
  ELSE UNCHANGED <<line, last>>

Request(n, type, a) == {To(Home[a], Msg(type, a, n, Null))}

\* processMemOpFromCore with a hit in some level of the node.
Hit(c, a, exclusive) ==
  LET n == LLC[c]
  IN  /\ pc[c] = "idle" /\ ops[c] < MaxOps /\ ~ StackLocked(n)
      /\ Hits(line[n][a].state, exclusive)
      /\ Access(n, a, exclusive)
      /\ ops' = [ops EXCEPT ![c] = @ + 1]
      /\ UNCHANGED <<queue, job, waiters, pc>>

\* Mutant: each core that misses sends a request of its own.
WaitersIgnored(n, a) == TRUE

\* Only the first waiter of a block sends a request.
NobodyWaits(n, a) == waiters[n][a] = <<>>

\* processMemOpFromCore with a miss in all levels: initiateDirectoryAccess.
Miss(c, a, exclusive) ==
  LET n == LLC[c]
      type == IF ~ exclusive THEN "SH_REQ"
              ELSE IF line[n][a].state = "SHARED" THEN "UPGRADE_REQ" ELSE "EX_REQ"
      first == NobodyWaits(n, a)
  IN  /\ pc[c] = "idle" /\ ops[c] < MaxOps /\ ~ StackLocked(n)
      /\ ~ Hits(line[n][a].state, exclusive)
      /\ waiters' = [waiters EXCEPT ![n][a] =
                       Append(@, [core |-> c, exclusive |-> exclusive])]
      /\ queue' = IF first THEN Send(queue, Request(n, type, a)) ELSE queue
      /\ line' = IF first /\ type = "UPGRADE_REQ"
                 THEN [line EXCEPT ![n][a].state = "SHARED_UPGRADING"] ELSE line
      /\ pc' = [pc EXCEPT ![c] = "waiting"]
      /\ ops' = [ops EXCEPT ![c] = @ + 1]
      /\ UNCHANGED <<job, last>>

\* The woken core accesses the line once more, which must hit now
\* (LOG_ASSERT "data is already gone"), and gives the stack lock back.
Resume(c) ==
  LET n == LLC[c]
      a == job[n].addr
      exclusive == Head(waiters[n][a]).exclusive
  IN  /\ pc[c] = "woken"
      /\ Hits(line[n][a].state, exclusive)
      /\ Access(n, a, exclusive)
      /\ pc' = [pc EXCEPT ![c] = "idle"]
      /\ UNCHANGED <<queue, job, waiters, ops>>

-----------------------------------------------------------------------------
(* The handlers of the simulation thread of node n, with the stack lock.   *)

\* Mutant: the core is woken although the line is only shared.
UpgradeForgotten(w, state) == FALSE

\* The next waiter wants to write and the reply to the one before it was a read.
NeedsUpgrade(w, state) == w.exclusive /\ state = "SHARED"

\* The loop over m_directory_waiters for block a with lines ls, waiters ws and
\* messages q: send an upgrade request for a first waiter that wants to write a
\* SHARED line, else wake the first waiter, else be done.
ServeWaiters(n, a, ls, ws, q) ==
  /\ waiters' = ws
  /\ \/ /\ ws[n][a] = <<>>
        /\ line' = ls /\ queue' = q
        /\ SetJob(n, Recv)
        /\ UNCHANGED pc
     \/ /\ ws[n][a] # <<>> /\ NeedsUpgrade(Head(ws[n][a]), ls[n][a].state)
        /\ line' = [ls EXCEPT ![n][a].state = "SHARED_UPGRADING"]
        /\ queue' = Send(q, Request(n, "UPGRADE_REQ", a))
        /\ SetJob(n, Recv)
        /\ UNCHANGED pc
     \/ /\ ws[n][a] # <<>> /\ ~ NeedsUpgrade(Head(ws[n][a]), ls[n][a].state)
        /\ line' = ls /\ queue' = q
        /\ SetJob(n, Busy("waiters", a))
        /\ pc' = [pc EXCEPT ![Head(ws[n][a]).core] = "woken"]

Resident(n) == {b \in Addrs : line[n][b].state # "INVALID"}

\* A full set evicts a line that is not being upgraded (isValidReplacement).
Victims(n) == {b \in Resident(n) : line[n][b].state # "SHARED_UPGRADING"}

\* Mutants: the buffer is not passed on; the dirty bit is ignored; a clean line
\* goes without telling the directory.
EvictWithoutData(n, v) ==
  {To(Home[v], Msg(IF line[n][v].state = "MODIFIED" THEN "FLUSH_REP" ELSE "INV_REP", v, n, Null))}
EvictAsClean(n, v) == {To(Home[v], Msg("INV_REP", v, n, Null))}
EvictSilently(n, v) ==
  {To(Home[v], Msg("FLUSH_REP", v, n, line[n][v].data)) :
     s \in {line[n][v].state} \cap {"MODIFIED"}}

\* The message that tells the directory of block v that the line is gone.
Evict(n, v) ==
  IF line[n][v].state = "MODIFIED"
  THEN {To(Home[v], Msg("FLUSH_REP", v, n, line[n][v].data))}
  ELSE {To(Home[v], Msg("INV_REP", v, n, Null))}

\* The sets of lines that may have to go: none while the set has room.
Evictions(n) == IF Cardinality(Resident(n)) < Ways THEN {{}} ELSE {{v} : v \in Victims(n)}

\* insertCacheBlock puts line l for block a into the cache of node n.
InsertCacheBlock(n, a, l, evicted) ==
  [line EXCEPT ![n] = [b \in Addrs |-> IF b = a THEN l
                                       ELSE IF b \in evicted THEN NoLine ELSE @[b]]]

\* EX_REP, SH_REP
ProcessRep(n) ==
  /\ Receives(n, {"EX_REP", "SH_REP"}) /\ ~ StackLocked(n)
  /\ LET m == Received(n)
         a == m.addr
         l == [state |-> IF m.type = "EX_REP" THEN "EXCLUSIVE" ELSE "SHARED",
               data |-> m.data]
     IN  /\ waiters[n][a] # <<>> /\ line[n][a].state = "INVALID"
         /\ \E evicted \in Evictions(n) :
              ServeWaiters(n, a, InsertCacheBlock(n, a, l, evicted), waiters,
                           Send(Consume(n), UNION {Evict(n, v) : v \in evicted}))
  /\ UNCHANGED <<ops, last>>

\* UPGRADE_REP: it carries no data, so the line must still be there.
ProcessUpgradeRep(n) ==
  /\ Receives(n, {"UPGRADE_REP"}) /\ ~ StackLocked(n)
  /\ LET a == Received(n).addr
     IN  /\ waiters[n][a] # <<>>
         /\ line[n][a].state = "SHARED_UPGRADING"
         /\ ServeWaiters(n, a, [line EXCEPT ![n][a].state = "MODIFIED"], waiters, Consume(n))
  /\ UNCHANGED <<ops, last>>

\* Mutant: the core that was woken stays in the queue.
NotDequeued(n, a) == waiters

Dequeued(n, a) == [waiters EXCEPT ![n][a] = Tail(@)]

\* The woken waiter is done: take the stack lock, dequeue it, serve the next one.
NextWaiter(n) ==
  /\ job[n].at = "waiters" /\ ~ StackLocked(n)
  /\ LET a == job[n].addr
     IN  ServeWaiters(n, a, line, Dequeued(n, a), queue)
  /\ UNCHANGED <<ops, last>>

\* INV_REQ, FLUSH_REQ and WB_REQ: answer, unless the line is gone and its
\* eviction message is on the way.  The write-back of a line that is being
\* upgraded answers with a buffer nobody filled.
ProcessCommand(n) ==
  /\ Receives(n, CommandTypes) /\ ~ StackLocked(n)
  /\ LET m == Received(n)
         a == m.addr
         l == line[n][a]
         answer == CASE m.type = "INV_REQ"   -> Msg("INV_REP", a, n, Null)
                     [] m.type = "FLUSH_REQ" -> Msg("FLUSH_REP", a, n, l.data)
                     [] m.type = "WB_REQ"    ->
                          Msg("WB_REP", a, n,
                              IF l.state = "SHARED_UPGRADING" THEN Garbage ELSE l.data)
     IN  IF l.state = "INVALID"
         THEN /\ queue' = Consume(n)
              /\ UNCHANGED line
         ELSE /\ queue' = Send(Consume(n), {To(m.sender, answer)})
              /\ line' = [line EXCEPT ![n][a] =
                            IF m.type # "WB_REQ" THEN NoLine
                            ELSE IF l.state = "SHARED_UPGRADING" THEN @
                            ELSE [@ EXCEPT !.state = "SHARED"]]
  /\ UNCHANGED <<job, waiters, pc, ops, last>>

CacheStep(n) ==
  \/ ProcessRep(n) \/ ProcessUpgradeRep(n) \/ NextWaiter(n) \/ ProcessCommand(n)

CoreStep(c) ==
  \/ \E a \in Addrs, exclusive \in BOOLEAN : Hit(c, a, exclusive) \/ Miss(c, a, exclusive)
  \/ Resume(c)
=============================================================================
