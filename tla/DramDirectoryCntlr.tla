-------------------------- MODULE DramDirectoryCntlr --------------------------
(***************************************************************************)
(* The directory controller of a home node and the DRAM behind it          *)
(* (pr_l1_pr_l2_dram_directory_msi/).  Requests for a block are queued; the *)
(* first one is processed until its reply is sent, and is processed again  *)
(* each time an answer of a cache arrives that it may have waited for.  The *)
(* entries of a directory set are limited: a request for a block without   *)
(* an entry takes the entry of another block, whose copies a NULLIFY_REQ   *)
(* then removes.  NUCA cache and PIC operations are off.                   *)
(***************************************************************************)
EXTENDS SimThreads

CONSTANTS Variant,        \* caching_protocol/variant: "msi", "mesi" or "mesif"
          MaxHwSharers,   \* max_hw_sharers
          DirAssoc,       \* m_associativity: entries of the directory set
          NoNode,         \* INVALID_CORE_ID
          Uninit          \* m_forwarder_id, which the constructor leaves unset

ASSUME VariantAssumption == Variant \in {"msi", "mesi", "mesif"}
ASSUME SharersAssumption == MaxHwSharers \in Nat \ {0}
ASSUME DirAssocAssumption == DirAssoc \in Nat \ {0}
ASSUME NoNodeAssumption == NoNode \notin Nodes /\ Uninit \notin Nodes /\ NoNode # Uninit

VARIABLES dir,    \* dir[a]: the directory entry of a
          reqs,   \* reqs[a]: m_dram_directory_req_queue_list
          mem     \* mem[a]: the content of a in DRAM

directoryVars == <<dir, reqs, mem>>

\* where: in its set, in m_replaced_directory_entry_list, or without an entry.
Entries == [where : {"none", "resident", "replaced"},
            state : {"UNCACHED", "SHARED", "EXCLUSIVE", "MODIFIED"},
            sharers : SUBSET Nodes,
            owner : Nodes \cup {NoNode},
            forwarder : Nodes \cup {NoNode, Uninit}]

NoEntry == [where |-> "none", state |-> "UNCACHED", sharers |-> {},
            owner |-> NoNode, forwarder |-> Uninit]
FreshEntry == [NoEntry EXCEPT !.where = "resident"]

Reqs == [type : RequestTypes \cup {"NULLIFY_REQ"},
         requester : Nodes,
         waitForData : BOOLEAN,
         forwardingFrom : Nodes \cup {NoNode},
         data : Data \cup {Null}]

Req(type, n) == [type |-> type, requester |-> n, waitForData |-> FALSE,
                 forwardingFrom |-> NoNode, data |-> Null]

DirectoryTypeOK ==
  /\ dir \in [Addrs -> Entries]
  /\ reqs \in [Addrs -> Seq(Reqs)]
  /\ mem \in [Addrs -> Data]

DirectoryInit ==
  /\ dir = [a \in Addrs |-> NoEntry]
  /\ reqs = [a \in Addrs |-> <<>>]
  /\ mem = [a \in Addrs |-> 0]

-----------------------------------------------------------------------------
(* Processing request r of block a whose entry is e.  An outcome says what *)
(* becomes of the entry and of the request, which messages are sent, and   *)
(* whether the request is complete (processNextReqFromL2Cache is called).  *)

Outcome(e, r, out, next) == [entry |-> e, req |-> r, out |-> out, next |-> next]

\* The request waits for the answers of some caches.
Command(type, a, e, r, dests) ==
  Outcome(e, r, ToAll(dests, Msg(type, a, Home[a], Null)), FALSE)

Reply(type, a, e, r, data) ==
  Outcome(e, r, {To(r.requester, Msg(type, a, Home[a], data))}, TRUE)

\* An unset forwarder may be any node, or look like INVALID_CORE_ID.
Forwarders(e) == IF e.forwarder = Uninit THEN Nodes \cup {NoNode} ELSE {e.forwarder}

RetrieveDataAndSendToL2Cache(type, a, e, r, data) ==
  IF data # Null
  THEN {Reply(type, a, [e EXCEPT !.forwarder = r.requester], r, data)}
  ELSE {IF f # NoNode
        THEN Command("WB_REQ", a, e, [r EXCEPT !.forwardingFrom = f], {f})
        ELSE Command("DRAM_READ_REQ", a, e, [r EXCEPT !.waitForData = TRUE], {Home[a]})
          : f \in IF /\ Variant = "mesif" /\ e.state = "SHARED"
                     /\ r.forwardingFrom = NoNode
                  THEN Forwarders(e) ELSE {NoNode}}

\* Mutant: the new owner is not added to the sharers.
TakeOwnershipUnlisted(e, n, state) == [e EXCEPT !.owner = n, !.state = state]

TakeOwnership(e, n, state) ==
  [e EXCEPT !.sharers = @ \cup {n}, !.owner = n, !.state = state]

ProcessExReq(a, e, r, data) ==
  CASE e.state \in {"EXCLUSIVE", "MODIFIED"} ->
         {Command("FLUSH_REQ", a, e, r, {e.owner})}
    [] e.state = "SHARED" ->
         {Command("INV_REQ", a, e, r, e.sharers)}
    [] e.state = "UNCACHED" ->
         RetrieveDataAndSendToL2Cache(
           "EX_REP", a, TakeOwnership(e, r.requester, "MODIFIED"), r, data)

\* Mutant: one sharer too many.
HasRoomForOneMore(e) == Cardinality(e.sharers) <= MaxHwSharers

\* addSharer of a directory entry that keeps max_hw_sharers pointers.
HasRoom(e) == Cardinality(e.sharers) < MaxHwSharers

\* The owner of an EXCLUSIVE block must not ask for it (assert: no outcome).
ProcessShReq(a, e, r, data) ==
  CASE e.state \in {"EXCLUSIVE", "MODIFIED"} ->
         IF e.state = "EXCLUSIVE" /\ r.requester = e.owner
         THEN {} ELSE {Command("WB_REQ", a, e, r, {e.owner})}
    [] e.state = "SHARED" /\ r.requester \in e.sharers ->
         RetrieveDataAndSendToL2Cache("SH_REP", a, e, r, data)
    [] e.state = "SHARED" /\ r.requester \notin e.sharers ->
         IF HasRoom(e)
         THEN RetrieveDataAndSendToL2Cache(
                "SH_REP", a, [e EXCEPT !.sharers = @ \cup {r.requester}], r, data)
         ELSE {Command("INV_REQ", a, e, r, {n}) : n \in e.sharers}
    [] e.state = "UNCACHED" /\ Variant = "msi" ->
         RetrieveDataAndSendToL2Cache(
           "SH_REP", a, TakeOwnership(e, r.requester, "SHARED"), r, data)
    [] e.state = "UNCACHED" /\ Variant # "msi" ->
         RetrieveDataAndSendToL2Cache(
           "EX_REP", a, TakeOwnership(e, r.requester, "EXCLUSIVE"), r, data)

\* Mutant: the copy of the requester is taken for granted.
CopyAssumed(e, n) == TRUE

\* The copy of n was not invalidated while its request was on the way.
StillHasCopy(e, n) == n \in e.sharers

\* Without a copy at the requester one of the sharers is asked to FLUSH the data.
ProcessUpgradeReq(a, e, r, data) ==
  CASE e.state \in {"EXCLUSIVE", "MODIFIED"} ->
         IF StillHasCopy(e, r.requester)
         THEN {Reply("UPGRADE_REP", a, [e EXCEPT !.state = "MODIFIED"], r, Null)}
         ELSE {Command("FLUSH_REQ", a, e, r, {e.owner})}
    [] e.state = "SHARED" ->
         IF e.sharers = {r.requester}
         THEN {Reply("UPGRADE_REP", a, TakeOwnership(e, r.requester, "MODIFIED"), r, Null)}
         ELSE IF StillHasCopy(e, r.requester)
         THEN {Command("INV_REQ", a, e, r, e.sharers \ {r.requester})}
         ELSE {Outcome(e, r, {To(n, Msg(IF n = f THEN "FLUSH_REQ" ELSE "INV_REQ",
                                        a, Home[a], Null)) : n \in e.sharers}, FALSE)
                 : f \in e.sharers}
    [] e.state = "UNCACHED" ->
         RetrieveDataAndSendToL2Cache(
           "EX_REP", a, TakeOwnership(e, r.requester, "MODIFIED"), r,
           IF data = Null THEN r.data ELSE data)

ProcessNullifyReq(a, e, r) ==
  CASE e.state \in {"EXCLUSIVE", "MODIFIED"} ->
         {Command("FLUSH_REQ", a, e, r, {e.owner})}
    [] e.state = "SHARED" ->
         {Command("INV_REQ", a, e, r, e.sharers)}
    [] e.state = "UNCACHED" ->
         {Outcome(NoEntry, r, {}, TRUE)}

ProcessReq(a, e, r, data) ==
  CASE r.type = "EX_REQ"      -> ProcessExReq(a, e, r, data)
    [] r.type = "SH_REQ"      -> ProcessShReq(a, e, r, data)
    [] r.type = "UPGRADE_REQ" -> ProcessUpgradeReq(a, e, r, data)
    [] r.type = "NULLIFY_REQ" -> ProcessNullifyReq(a, e, r)

\* o is the outcome for the first request of a: d, q and s are the entries, the
\* request queues and the messages it is applied to.
Apply(a, o, d, q, s) ==
  /\ dir' = [d EXCEPT ![a] = o.entry]
  /\ reqs' = [q EXCEPT ![a] = <<o.req>> \o Tail(@)]
  /\ queue' = Send(s, o.out)
  /\ SetJob(Home[a], IF o.next THEN Busy("nextReq", a) ELSE Recv)

-----------------------------------------------------------------------------
(* The entries of the directory set (dram_directory_cache.cc).             *)

SameDirectory(a) == {b \in Addrs : Home[b] = Home[a]}

HasFreeEntry(a) == Cardinality({b \in SameDirectory(a) : dir[b].where = "resident"}) < DirAssoc

\* getDirectoryEntry: a block without an entry takes a free one if there is one.
GetDirectoryEntry(a) ==
  IF dir[a].where = "none" /\ HasFreeEntry(a)
  THEN [dir EXCEPT ![a] = FreshEntry] ELSE dir

\* Mutant: the outstanding requests of a block do not matter.
BusyCandidates(a) ==
  LET all == {b \in SameDirectory(a) : dir[b].where = "resident"}
  IN  {b \in all : \A c \in all : Cardinality(dir[b].sharers) <= Cardinality(dir[c].sharers)}

\* The blocks whose entry may be taken: no outstanding request, fewest sharers.
ReplacementCandidates(a) ==
  LET idle == {b \in SameDirectory(a) : dir[b].where = "resident" /\ reqs[b] = <<>>}
  IN  {b \in idle : \A c \in idle :
         Cardinality(dir[b].sharers) <= Cardinality(dir[c].sharers)}

\* Process r, the first request of q[a]; s are the messages so far.
StartReq(a, r, q, s) ==
  \/ /\ GetDirectoryEntry(a)[a].where # "none"
     /\ \E o \in ProcessReq(a, GetDirectoryEntry(a)[a], r, Null) :
          Apply(a, o, GetDirectoryEntry(a), q, s)
  \/ \* processDirectoryEntryAllocationReq
     /\ GetDirectoryEntry(a)[a].where = "none"
     /\ \E v \in ReplacementCandidates(a) :
        LET e == [dir[v] EXCEPT !.where = "replaced"]
            nullify == Req("NULLIFY_REQ", r.requester)
        IN  \E n \in ProcessNullifyReq(v, e, nullify) :
            \E o \in ProcessReq(a, FreshEntry, r, Null) :
              Apply(a, o, [dir EXCEPT ![v] = n.entry],
                    [q EXCEPT ![v] = IF n.next THEN <<>> ELSE Append(@, nullify)],
                    Send(s, n.out))

-----------------------------------------------------------------------------
(* The handlers of home node h.                                            *)

\* EX_REQ, SH_REQ, UPGRADE_REQ
HandleReq(h) ==
  /\ Receives(h, RequestTypes)
  /\ LET m == Received(h)
         a == m.addr
         r == Req(m.type, m.sender)
     IN  IF reqs[a] = <<>>
         THEN StartReq(a, r, [reqs EXCEPT ![a] = <<r>>], Consume(h))
         ELSE /\ reqs' = [reqs EXCEPT ![a] = Append(@, r)]
              /\ dir' = GetDirectoryEntry(a)
              /\ queue' = Consume(h)
              /\ UNCHANGED job
  /\ UNCHANGED mem

\* processNextReqFromL2Cache: drop the completed request, start the next one.
ProcessNextReq(h) ==
  /\ job[h].at = "nextReq"
  /\ LET a == job[h].addr
         q == [reqs EXCEPT ![a] = Tail(@)]
     IN  IF q[a] = <<>>
         THEN /\ reqs' = q
              /\ SetJob(h, Recv)
              /\ UNCHANGED <<dir, queue>>
         ELSE StartReq(a, Head(q[a]), q, queue)
  /\ UNCHANGED mem

\* Mutant: the forwarder stays when its copy is gone.
ForwarderStays(e, n) == {e.forwarder}

\* The forwarder when the copy of n is gone; an unset one may happen to equal n.
ForwarderWithout(e, n) ==
  CASE e.forwarder = n      -> {NoNode}
    [] e.forwarder = Uninit -> {Uninit, NoNode}
    [] OTHER                -> {e.forwarder}

RemoveSharer(e, n) ==
  LET e1 == [e EXCEPT !.sharers = @ \ {n},
                      !.state = IF e.sharers \subseteq {n} THEN "UNCACHED" ELSE @]
  IN  {[e1 EXCEPT !.forwarder = f] : f \in ForwarderWithout(e, n)}

\* Does an INV_REP of n, after which the entry is e, wake request r?
InvRepWakes(e, r, n) ==
  \/ r.type \in {"EX_REQ", "NULLIFY_REQ"} /\ e.state = "UNCACHED"
  \/ r.type = "UPGRADE_REQ" /\ e.sharers \subseteq {r.requester}
  \/ /\ r.type = "SH_REQ" /\ ~ r.waitForData
     /\ r.forwardingFrom \in {NoNode, n}

InvRepExpected(a, n) == dir[a].state \in {"SHARED", "EXCLUSIVE"} /\ n \in dir[a].sharers

ProcessInvRep(h) ==
  /\ Receives(h, {"INV_REP"})
  /\ LET m == Received(h)
         a == m.addr
     IN  /\ InvRepExpected(a, m.sender)
         /\ \E e \in RemoveSharer(dir[a], m.sender) :
              IF reqs[a] # <<>> /\ InvRepWakes(e, Head(reqs[a]), m.sender)
              THEN \E o \in ProcessReq(a, e, Head(reqs[a]), Null) :
                     Apply(a, o, dir, reqs, Consume(h))
              ELSE /\ dir' = [dir EXCEPT ![a] = e]
                   /\ queue' = Consume(h)
                   /\ UNCHANGED <<reqs, job>>
  /\ UNCHANGED mem

\* sendDataToDram without a NUCA cache.
DataToDram(a, data) == {To(Home[a], Msg("DRAM_WRITE_REQ", a, Home[a], data))}

FlushRepExpected(a, n) ==
  LET e == dir[a]
  IN  /\ n \in e.sharers
      /\ e.sharers # {n} => e.state = "SHARED"
      /\ reqs[a] # <<>> /\ Head(reqs[a]).type = "EX_REQ" => e.sharers = {n}

ProcessFlushRep(h) ==
  /\ Receives(h, {"FLUSH_REP"})
  /\ LET m == Received(h)
         a == m.addr
         e == [dir[a] EXCEPT !.sharers = @ \ {m.sender},
                             !.forwarder = NoNode,
                             !.owner = NoNode,
                             !.state = IF dir[a].sharers = {m.sender}
                                       THEN "UNCACHED" ELSE @]
     IN  /\ FlushRepExpected(a, m.sender)
         /\ \/ /\ reqs[a] = <<>>     \* just an eviction
               /\ dir' = [dir EXCEPT ![a] = e]
               /\ queue' = Send(Consume(h), DataToDram(a, m.data))
               /\ UNCHANGED <<reqs, job>>
            \/ /\ reqs[a] # <<>> /\ Head(reqs[a]).type = "UPGRADE_REQ" /\ e.sharers # {}
               /\ dir' = [dir EXCEPT ![a] = e]
               \* a pointer to the message's buffer, which is freed with the message
               /\ reqs' = [reqs EXCEPT ![a] = <<[Head(@) EXCEPT !.data = Garbage]>> \o Tail(@)]
               /\ queue' = Consume(h)
               /\ UNCHANGED job
            \/ /\ reqs[a] # <<>> /\ (Head(reqs[a]).type = "UPGRADE_REQ" => e.sharers = {})
               /\ \E o \in ProcessReq(a, e, Head(reqs[a]), m.data) :
                    Apply(a, o, dir, reqs,
                          IF Head(reqs[a]).type \in {"SH_REQ", "NULLIFY_REQ"}
                          THEN Send(Consume(h), DataToDram(a, m.data)) ELSE Consume(h))
  /\ UNCHANGED mem

WbRepExpected(a, n) ==
  n \in dir[a].sharers /\ reqs[a] # <<>> /\ Head(reqs[a]).type = "SH_REQ"

ProcessWbRep(h) ==
  /\ Receives(h, {"WB_REP"})
  /\ LET m == Received(h)
         a == m.addr
         e == [dir[a] EXCEPT !.owner = NoNode, !.state = "SHARED"]
     IN  /\ WbRepExpected(a, m.sender)
         /\ \E o \in ProcessShReq(a, e, Head(reqs[a]), m.data) :
              Apply(a, o, dir, reqs, Consume(h))
  /\ UNCHANGED mem

DramReplyExpected(a) ==
  /\ reqs[a] # <<>>
  /\ LET state == dir[a].state
     IN  CASE Head(reqs[a]).type = "SH_REQ" -> state \in {"SHARED", "EXCLUSIVE"}
           [] Head(reqs[a]).type = "EX_REQ" -> state = "MODIFIED"
           [] Head(reqs[a]).type = "UPGRADE_REQ" -> TRUE
           [] OTHER -> FALSE

ProcessDRAMReply(h) ==
  /\ Receives(h, {"DRAM_READ_REP"})
  /\ LET m == Received(h)
         a == m.addr
         r == Head(reqs[a])
         type == IF r.type = "SH_REQ" /\ dir[a].state = "SHARED" THEN "SH_REP" ELSE "EX_REP"
     IN  /\ DramReplyExpected(a)
         /\ Apply(a, Reply(type, a, dir[a], r, m.data), dir, reqs, Consume(h))
  /\ UNCHANGED mem

-----------------------------------------------------------------------------
(* The DRAM controller of node h.                                          *)

GetDataFromDram(h) ==
  /\ Receives(h, {"DRAM_READ_REQ"})
  /\ LET m == Received(h)
     IN  queue' = Send(Consume(h),
                       {To(m.sender, Msg("DRAM_READ_REP", m.addr, h, mem[m.addr]))})
  /\ UNCHANGED <<job, dir, reqs, mem>>

PutDataToDram(h) ==
  /\ Receives(h, {"DRAM_WRITE_REQ"})
  /\ mem' = [mem EXCEPT ![Received(h).addr] = Received(h).data]
  /\ queue' = Consume(h)
  /\ UNCHANGED <<job, dir, reqs>>

DirectoryStep(h) ==
  \/ HandleReq(h) \/ ProcessNextReq(h)
  \/ ProcessInvRep(h) \/ ProcessFlushRep(h) \/ ProcessWbRep(h) \/ ProcessDRAMReply(h)
  \/ GetDataFromDram(h) \/ PutDataToDram(h)
=============================================================================
