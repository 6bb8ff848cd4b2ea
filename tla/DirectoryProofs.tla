---------------------------- MODULE DirectoryProofs ----------------------------
(***************************************************************************)
(* Proofs about Coherence for any set of nodes, blocks and cores, any      *)
(* directory size and number of sharers, and the three variants of the     *)
(* protocol: its types, where messages can be, and what the directory      *)
(* controller keeps true of its entries and of its request queues whatever *)
(* the caches answer.                                                      *)
(***************************************************************************)
EXTENDS Coherence, TLAPS, FiniteSetTheorems

USE HomeAssumption, NoAddrAssumption, VersionsAssumption, VariantAssumption,
    SharersAssumption, NoNodeAssumption, LLCAssumption

-----------------------------------------------------------------------------
(* Entries and outcomes.                                                   *)

\* An entry has no more sharers than pointers.
FewSharers(e) == IsFiniteSet(e.sharers) /\ Cardinality(e.sharers) <= MaxHwSharers

\* An entry without a sharer is UNCACHED, one that lets a cache write has its owner
\* as the only sharer, and a block outside the directory has no sharer.
EntryOK(e) ==
  /\ e \in Entries /\ FewSharers(e)
  /\ e.where = "none" => e.sharers = {}
  /\ e.state = "UNCACHED" <=> e.sharers = {}
  /\ e.state \in {"EXCLUSIVE", "MODIFIED"} => e.sharers = {e.owner}

\* Node n may write the block without asking.
Owns(e, n) == e.state \in {"EXCLUSIVE", "MODIFIED"} /\ e.owner = n

\* The entry f that gives the requester n of a request of type rt a copy under entry
\* e: it owns the block that nobody had, or shares it.
Admits(e, f, rt, n) ==
  /\ f \in Entries /\ f.where = e.where
  /\ f.sharers = e.sharers \cup {n}
  /\ \/ /\ e.state = "UNCACHED" /\ Owns(f, n)
        /\ f.state = IF rt = "SH_REQ" THEN "EXCLUSIVE" ELSE "MODIFIED"
     \/ e.state = "UNCACHED" /\ rt = "SH_REQ" /\ Variant = "msi" /\ f.state = "SHARED"
     \/ /\ e.state = "SHARED" /\ rt = "SH_REQ" /\ f.state = "SHARED"
        /\ n \in e.sharers \/ HasRoom(e)

\* INV_REQ for the nodes in dests, FLUSH_REQ for f among them.
Commands(a, dests, f) ==
  {To(n, Msg(IF n = f THEN "FLUSH_REQ" ELSE "INV_REQ", a, Home[a], Null)) : n \in dests}

\* The kinds of outcome of request r of block a under entry e.
GrantsData(a, e, r, o) ==
  /\ r.type \in RequestTypes /\ o.next = TRUE /\ o.req = r
  /\ Admits(e, o.entry, r.type, r.requester)
  /\ o.entry.forwarder = r.requester
  /\ \E data \in Data :
       o.out = {To(r.requester, Msg(IF o.entry.state = "SHARED" THEN "SH_REP" ELSE "EX_REP",
                                    a, Home[a], data))}

GrantsUpgrade(a, e, r, o) ==
  /\ r.type = "UPGRADE_REQ" /\ o.next = TRUE /\ o.req = r
  /\ e.sharers = {r.requester}
  /\ o.entry = [e EXCEPT !.state = "MODIFIED", !.owner = r.requester]
  /\ o.out = {To(r.requester, Msg("UPGRADE_REP", a, Home[a], Null))}

AsksDram(a, e, r, o) ==
  /\ r.type \in RequestTypes /\ o.next = FALSE /\ o.req = [r EXCEPT !.waitForData = TRUE]
  /\ Admits(e, o.entry, r.type, r.requester)
  /\ o.entry.forwarder = e.forwarder
  /\ o.out = {To(Home[a], Msg("DRAM_READ_REQ", a, Home[a], Null))}

AsksForwarder(a, e, r, o) ==
  /\ r.type = "SH_REQ" /\ r.forwardingFrom = NoNode /\ o.next = FALSE
  /\ Admits(e, o.entry, r.type, r.requester)
  /\ e.state = "SHARED" /\ o.entry.forwarder = e.forwarder
  /\ \E f \in Nodes : /\ o.req = [r EXCEPT !.forwardingFrom = f]
                      /\ o.out = {To(f, Msg("WB_REQ", a, Home[a], Null))}

AsksWriteBack(a, e, r, o) ==
  /\ r.type = "SH_REQ" /\ o.next = FALSE /\ o.req = r /\ o.entry = e
  /\ Owns(e, e.owner)
  /\ o.out = {To(e.owner, Msg("WB_REQ", a, Home[a], Null))}

AsksFlush(a, e, r, o) ==
  /\ r.type # "SH_REQ" /\ o.next = FALSE /\ o.req = r /\ o.entry = e
  /\ Owns(e, e.owner) /\ (r.type = "UPGRADE_REQ" => r.requester \notin e.sharers)
  /\ o.out = {To(e.owner, Msg("FLUSH_REQ", a, Home[a], Null))}

AsksInvalidate(a, e, r, o) ==
  /\ o.next = FALSE /\ o.req = r /\ o.entry = e /\ e.state = "SHARED"
  /\ r.type = "SH_REQ" => r.requester \notin e.sharers /\ ~ HasRoom(e)
  /\ \E dests \in SUBSET e.sharers, f \in Nodes \cup {NoNode} :
       /\ f # NoNode => r.type = "UPGRADE_REQ" /\ r.requester \notin e.sharers
       /\ r.type = "UPGRADE_REQ" => r.requester \notin dests
       /\ o.out = Commands(a, dests, f)

Nullified(a, e, r, o) ==
  /\ r.type = "NULLIFY_REQ" /\ o.next = TRUE /\ o.req = r
  /\ e.state = "UNCACHED" /\ o.entry = NoEntry /\ o.out = {}

IsOutcome(a, e, r, o) ==
  \/ GrantsData(a, e, r, o) \/ GrantsUpgrade(a, e, r, o)
  \/ AsksDram(a, e, r, o) \/ AsksForwarder(a, e, r, o)
  \/ AsksWriteBack(a, e, r, o) \/ AsksFlush(a, e, r, o) \/ AsksInvalidate(a, e, r, o)
  \/ Nullified(a, e, r, o)

\* The number of sharers when one is added, removed or the only one.
LEMMA SharerCount ==
  ASSUME NEW e
  PROVE  /\ e.sharers = {} => FewSharers(e)
         /\ \A n : e.sharers = {n} => FewSharers(e)
         /\ \A f, n : FewSharers(f) /\ e.sharers = f.sharers \ {n} => FewSharers(e)
         /\ \A f, n : FewSharers(f) /\ e.sharers = f.sharers \cup {n} /\ (n \in f.sharers \/ HasRoom(f))
                      => FewSharers(e)
         /\ \A f : FewSharers(f) /\ e.sharers = f.sharers => FewSharers(e)
<1>1. e.sharers = {} => FewSharers(e)
  BY FS_EmptySet DEF FewSharers
<1>2. ASSUME NEW n, e.sharers = {n} PROVE FewSharers(e)
  <2>1. IsFiniteSet({n}) /\ Cardinality({n}) = 1
    BY FS_Singleton
  <2> QED
    BY <1>2, <2>1 DEF FewSharers
<1>3. ASSUME NEW f, NEW n, FewSharers(f), e.sharers = f.sharers \ {n} PROVE FewSharers(e)
  <2>1. IsFiniteSet(e.sharers) /\ Cardinality(e.sharers) <= Cardinality(f.sharers)
    BY <1>3, FS_Subset DEF FewSharers
  <2>2. Cardinality(e.sharers) \in Nat /\ Cardinality(f.sharers) \in Nat
    BY <1>3, <2>1, FS_CardinalityType DEF FewSharers
  <2> QED
    BY <1>3, <2>1, <2>2 DEF FewSharers
<1>4. ASSUME NEW f, NEW n, FewSharers(f), e.sharers = f.sharers \cup {n}, n \in f.sharers \/ HasRoom(f)
      PROVE  FewSharers(e)
  <2>1. CASE n \in f.sharers
    <3>1. e.sharers = f.sharers
      BY <1>4, <2>1
    <3> QED
      BY <1>4, <3>1 DEF FewSharers
  <2>2. CASE n \notin f.sharers
    <3>1. /\ IsFiniteSet(e.sharers) /\ Cardinality(e.sharers) = Cardinality(f.sharers) + 1
          /\ Cardinality(f.sharers) \in Nat
      BY <1>4, <2>2, FS_AddElement, FS_CardinalityType DEF FewSharers
    <3> QED
      BY <1>4, <2>2, <3>1 DEF FewSharers, HasRoom
  <2> QED
    BY <2>1, <2>2
<1>5. ASSUME NEW f, FewSharers(f), e.sharers = f.sharers PROVE FewSharers(e)
  BY <1>5 DEF FewSharers
<1> QED
  BY <1>1, <1>2, <1>3, <1>4, <1>5

\* Data and the absence of data differ.
LEMMA NullIsNoData == Null \notin Data
  BY DEF Null, Data, Versions, Garbage

\* RetrieveDataAndSendToL2Cache, whatever the new entry g is.
LEMMA Retrieval ==
  ASSUME NEW a \in Addrs, NEW e, EntryOK(e), NEW r \in Reqs, NEW data \in Data \cup {Null},
         r.type \in RequestTypes, NEW g, Admits(e, g, r.type, r.requester),
         g.forwarder = e.forwarder,
         NEW o \in RetrieveDataAndSendToL2Cache(
                     IF g.state = "SHARED" THEN "SH_REP" ELSE "EX_REP", a, g, r, data)
  PROVE  IsOutcome(a, e, r, o)
<1>1. g \in Entries /\ e \in Entries /\ r.requester \in Nodes /\ Home[a] \in Nodes
  BY DEF Admits, EntryOK, Reqs
<1>2. CASE data # Null
  <2>1. data \in Data
    BY <1>2
  <2>2. o = Reply(IF g.state = "SHARED" THEN "SH_REP" ELSE "EX_REP", a,
                  [g EXCEPT !.forwarder = r.requester], r, data)
    BY <1>2 DEF RetrieveDataAndSendToL2Cache
  <2>3. Admits(e, [g EXCEPT !.forwarder = r.requester], r.type, r.requester)
    BY <1>1 DEF Admits, Owns, Entries
  <2>4. GrantsData(a, e, r, o)
    BY <1>1, <2>1, <2>2, <2>3 DEF GrantsData, Reply, Outcome, Entries
  <2> QED
    BY <2>4 DEF IsOutcome
<1>3. CASE data = Null
  <2>1. PICK f \in Nodes \cup {NoNode} :
          /\ f # NoNode => Variant = "mesif" /\ g.state = "SHARED" /\ r.forwardingFrom = NoNode
          /\ o = IF f # NoNode
                 THEN Command("WB_REQ", a, g, [r EXCEPT !.forwardingFrom = f], {f})
                 ELSE Command("DRAM_READ_REQ", a, g, [r EXCEPT !.waitForData = TRUE], {Home[a]})
    BY <1>1, <1>3 DEF RetrieveDataAndSendToL2Cache, Forwarders, Entries
  <2>2. CASE f = NoNode
    <3>1. AsksDram(a, e, r, o)
      BY <1>1, <2>1, <2>2 DEF AsksDram, Command, Outcome, ToAll
    <3> QED
      BY <3>1 DEF IsOutcome
  <2>3. CASE f # NoNode
    <3>1. e.state = "SHARED" /\ r.type = "SH_REQ"
      BY <2>1, <2>3 DEF Admits, Owns
    <3>2. AsksForwarder(a, e, r, o)
      BY <1>1, <2>1, <2>3, <3>1 DEF AsksForwarder, Command, Outcome, ToAll
    <3> QED
      BY <3>2 DEF IsOutcome
  <2> QED
    BY <2>2, <2>3
<1> QED
  BY <1>2, <1>3

\* The entry after TakeOwnership or addSharer.
LEMMA AdmitsOwner ==
  ASSUME NEW e, EntryOK(e), e.where # "none", e.state = "UNCACHED", NEW n \in Nodes, NEW rt,
         NEW st \in {"EXCLUSIVE", "MODIFIED", "SHARED"},
         st = "SHARED" => rt = "SH_REQ" /\ Variant = "msi",
         st = "EXCLUSIVE" => rt = "SH_REQ", st = "MODIFIED" => rt # "SH_REQ"
  PROVE  /\ Admits(e, TakeOwnership(e, n, st), rt, n)
         /\ TakeOwnership(e, n, st).forwarder = e.forwarder
         /\ TakeOwnership(e, n, st).state = st
<1>1. e \in Entries
  BY DEF EntryOK
<1>2. TakeOwnership(e, n, st) \in Entries
  BY <1>1 DEF TakeOwnership, Entries
<1> QED
  BY <1>1, <1>2 DEF TakeOwnership, Admits, Owns, Entries

\* processExReqFromL2Cache, processShReqFromL2Cache, processUpgradeReqFromL2Cache and
\* processNullifyReq have no other outcome.
LEMMA Outcomes ==
  ASSUME NEW a \in Addrs, NEW e, EntryOK(e), e.where # "none",
         NEW r \in Reqs, NEW data \in Data \cup {Null},
         NEW o \in ProcessReq(a, e, r, data)
  PROVE  IsOutcome(a, e, r, o)
<1>1. /\ e \in Entries /\ r.requester \in Nodes /\ Home[a] \in Nodes
      /\ e.state \in {"UNCACHED", "SHARED", "EXCLUSIVE", "MODIFIED"}
      /\ r.type \in RequestTypes \cup {"NULLIFY_REQ"}
      /\ e.sharers \subseteq Nodes /\ e.owner \in Nodes \cup {NoNode}
  BY DEF EntryOK, Entries, Reqs
<1>2. e.state \in {"EXCLUSIVE", "MODIFIED"} => Owns(e, e.owner) /\ e.owner \in e.sharers
  BY DEF EntryOK, Owns
<1>3. ASSUME e.state \in {"EXCLUSIVE", "MODIFIED"}, r.type # "SH_REQ",
             r.type = "UPGRADE_REQ" => r.requester \notin e.sharers,
             o = Command("FLUSH_REQ", a, e, r, {e.owner})
      PROVE  IsOutcome(a, e, r, o)
  <2>1. AsksFlush(a, e, r, o)
    BY <1>1, <1>2, <1>3 DEF AsksFlush, Command, Outcome, ToAll
  <2> QED
    BY <2>1 DEF IsOutcome
<1>4. ASSUME e.state = "SHARED", NEW dests \in SUBSET e.sharers,
             r.type = "UPGRADE_REQ" => r.requester \notin dests,
             r.type = "SH_REQ" => r.requester \notin e.sharers /\ ~ HasRoom(e),
             o = Command("INV_REQ", a, e, r, dests)
      PROVE  IsOutcome(a, e, r, o)
  <2>1. o.out = Commands(a, dests, NoNode)
    BY <1>1, <1>4, NoNodeAssumption DEF Command, Outcome, ToAll, Commands
  <2>2. AsksInvalidate(a, e, r, o)
    BY <1>4, <2>1 DEF AsksInvalidate, Command, Outcome
  <2> QED
    BY <2>2 DEF IsOutcome
<1>5. CASE r.type = "EX_REQ"
  <2>1. o \in ProcessExReq(a, e, r, data)
    BY <1>5 DEF ProcessReq
  <2>2. CASE e.state \in {"EXCLUSIVE", "MODIFIED"}
    BY <1>3, <1>5, <2>1, <2>2 DEF ProcessExReq
  <2>3. CASE e.state = "SHARED"
    BY <1>4, <1>5, <2>1, <2>3 DEF ProcessExReq
  <2>4. CASE e.state = "UNCACHED"
    <3> DEFINE g == TakeOwnership(e, r.requester, "MODIFIED")
    <3>1. Admits(e, g, r.type, r.requester) /\ g.forwarder = e.forwarder /\ g.state = "MODIFIED"
      BY <1>1, <1>5, <2>4, AdmitsOwner
    <3>2. o \in RetrieveDataAndSendToL2Cache("EX_REP", a, g, r, data)
      BY <2>1, <2>4 DEF ProcessExReq
    <3> HIDE DEF g
    <3> QED
      BY <1>5, <3>1, <3>2, Retrieval DEF RequestTypes
  <2> QED
    BY <1>1, <2>2, <2>3, <2>4
<1>6. CASE r.type = "SH_REQ"
  <2>1. o \in ProcessShReq(a, e, r, data)
    BY <1>6 DEF ProcessReq
  <2>2. CASE e.state \in {"EXCLUSIVE", "MODIFIED"}
    <3>1. o = Command("WB_REQ", a, e, r, {e.owner})
      BY <2>1, <2>2 DEF ProcessShReq
    <3>2. AsksWriteBack(a, e, r, o)
      BY <1>2, <1>6, <2>2, <3>1 DEF AsksWriteBack, Command, Outcome, ToAll
    <3> QED
      BY <3>2 DEF IsOutcome
  <2>3. CASE e.state = "SHARED" /\ r.requester \in e.sharers
    <3>1. Admits(e, e, r.type, r.requester)
      BY <1>1, <1>6, <2>3 DEF Admits
    <3>2. o \in RetrieveDataAndSendToL2Cache("SH_REP", a, e, r, data)
      BY <2>1, <2>3 DEF ProcessShReq
    <3> QED
      BY <1>6, <2>3, <3>1, <3>2, Retrieval DEF RequestTypes
  <2>4. CASE e.state = "SHARED" /\ r.requester \notin e.sharers /\ HasRoom(e)
    <3> DEFINE g == [e EXCEPT !.sharers = @ \cup {r.requester}]
    <3>1. g.state = "SHARED" /\ g.forwarder = e.forwarder
      BY <1>1, <2>4 DEF Entries
    <3>2. Admits(e, g, r.type, r.requester)
      BY <1>1, <1>6, <2>4 DEF Admits, Entries
    <3>3. o \in RetrieveDataAndSendToL2Cache("SH_REP", a, g, r, data)
      BY <2>1, <2>4 DEF ProcessShReq
    <3> HIDE DEF g
    <3> QED
      BY <1>6, <3>1, <3>2, <3>3, Retrieval DEF RequestTypes
  <2>5. CASE e.state = "SHARED" /\ r.requester \notin e.sharers /\ ~ HasRoom(e)
    <3>1. PICK n \in e.sharers : o = Command("INV_REQ", a, e, r, {n})
      BY <2>1, <2>5 DEF ProcessShReq
    <3> QED
      BY <1>4, <1>6, <2>5, <3>1
  <2>6. CASE e.state = "UNCACHED" /\ Variant = "msi"
    <3> DEFINE g == TakeOwnership(e, r.requester, "SHARED")
    <3>1. Admits(e, g, r.type, r.requester) /\ g.forwarder = e.forwarder /\ g.state = "SHARED"
      BY <1>1, <1>6, <2>6, AdmitsOwner
    <3>2. o \in RetrieveDataAndSendToL2Cache("SH_REP", a, g, r, data)
      BY <2>1, <2>6 DEF ProcessShReq
    <3> HIDE DEF g
    <3> QED
      BY <1>6, <3>1, <3>2, Retrieval DEF RequestTypes
  <2>7. CASE e.state = "UNCACHED" /\ Variant # "msi"
    <3> DEFINE g == TakeOwnership(e, r.requester, "EXCLUSIVE")
    <3>1. Admits(e, g, r.type, r.requester) /\ g.forwarder = e.forwarder /\ g.state = "EXCLUSIVE"
      BY <1>1, <1>6, <2>7, AdmitsOwner
    <3>2. o \in RetrieveDataAndSendToL2Cache("EX_REP", a, g, r, data)
      BY <2>1, <2>7 DEF ProcessShReq
    <3> HIDE DEF g
    <3> QED
      BY <1>6, <3>1, <3>2, Retrieval DEF RequestTypes
  <2> QED
    BY <1>1, <2>2, <2>3, <2>4, <2>5, <2>6, <2>7
<1>7. CASE r.type = "UPGRADE_REQ"
  <2>1. o \in ProcessUpgradeReq(a, e, r, data)
    BY <1>7 DEF ProcessReq
  <2>2. CASE e.state \in {"EXCLUSIVE", "MODIFIED"} /\ StillHasCopy(e, r.requester)
    <3>1. e.sharers = {r.requester} /\ e.owner = r.requester
      BY <2>2 DEF StillHasCopy, EntryOK
    <3>2. o = Reply("UPGRADE_REP", a, [e EXCEPT !.state = "MODIFIED"], r, Null)
      BY <2>1, <2>2 DEF ProcessUpgradeReq
    <3>3. [e EXCEPT !.state = "MODIFIED"] = [e EXCEPT !.state = "MODIFIED", !.owner = r.requester]
      BY <1>1, <3>1 DEF Entries
    <3>4. GrantsUpgrade(a, e, r, o)
      BY <1>7, <3>1, <3>2, <3>3 DEF GrantsUpgrade, Reply, Outcome
    <3> QED
      BY <3>4 DEF IsOutcome
  <2>3. CASE e.state \in {"EXCLUSIVE", "MODIFIED"} /\ ~ StillHasCopy(e, r.requester)
    BY <1>3, <1>7, <2>1, <2>3 DEF ProcessUpgradeReq, StillHasCopy
  <2>4. CASE e.state = "SHARED" /\ e.sharers = {r.requester}
    <3>1. o = Reply("UPGRADE_REP", a, TakeOwnership(e, r.requester, "MODIFIED"), r, Null)
      BY <2>1, <2>4 DEF ProcessUpgradeReq
    <3>2. TakeOwnership(e, r.requester, "MODIFIED")
            = [e EXCEPT !.state = "MODIFIED", !.owner = r.requester]
      BY <1>1, <2>4 DEF Entries, TakeOwnership
    <3>3. GrantsUpgrade(a, e, r, o)
      BY <1>7, <2>4, <3>1, <3>2 DEF GrantsUpgrade, Reply, Outcome
    <3> QED
      BY <3>3 DEF IsOutcome
  <2>5. CASE e.state = "SHARED" /\ e.sharers # {r.requester} /\ StillHasCopy(e, r.requester)
    <3>1. o = Command("INV_REQ", a, e, r, e.sharers \ {r.requester})
      BY <2>1, <2>5 DEF ProcessUpgradeReq
    <3> QED
      BY <1>4, <1>7, <2>5, <3>1
  <2>6. CASE e.state = "SHARED" /\ ~ StillHasCopy(e, r.requester)
    <3>1. r.requester \notin e.sharers
      BY <2>6 DEF StillHasCopy
    <3>2. PICK f \in e.sharers :
            o = Outcome(e, r, Commands(a, e.sharers, f), FALSE)
      BY <2>1, <2>6, <3>1 DEF ProcessUpgradeReq, Commands
    <3>3. AsksInvalidate(a, e, r, o)
      BY <1>1, <1>7, <2>6, <3>1, <3>2 DEF AsksInvalidate, Outcome
    <3> QED
      BY <3>3 DEF IsOutcome
  <2>7. CASE e.state = "UNCACHED"
    <3> DEFINE g == TakeOwnership(e, r.requester, "MODIFIED")
               d == IF data = Null THEN r.data ELSE data
    <3>1. Admits(e, g, r.type, r.requester) /\ g.forwarder = e.forwarder /\ g.state = "MODIFIED"
      BY <1>1, <1>7, <2>7, AdmitsOwner
    <3>2. o \in RetrieveDataAndSendToL2Cache("EX_REP", a, g, r, d)
      BY <2>1, <2>7 DEF ProcessUpgradeReq
    <3>3. d \in Data \cup {Null}
      BY DEF Reqs
    <3> HIDE DEF g, d
    <3> QED
      BY <1>7, <3>1, <3>2, <3>3, Retrieval DEF RequestTypes
  <2> QED
    BY <1>1, <2>2, <2>3, <2>4, <2>5, <2>6, <2>7
<1>8. CASE r.type = "NULLIFY_REQ"
  <2>1. o \in ProcessNullifyReq(a, e, r)
    BY <1>8 DEF ProcessReq
  <2>2. CASE e.state \in {"EXCLUSIVE", "MODIFIED"}
    BY <1>3, <1>8, <2>1, <2>2 DEF ProcessNullifyReq
  <2>3. CASE e.state = "SHARED"
    BY <1>4, <1>8, <2>1, <2>3 DEF ProcessNullifyReq
  <2>4. CASE e.state = "UNCACHED"
    <3>1. Nullified(a, e, r, o)
      BY <1>8, <2>1, <2>4 DEF ProcessNullifyReq, Nullified, Outcome
    <3> QED
      BY <3>1 DEF IsOutcome
  <2> QED
    BY <1>1, <2>2, <2>3, <2>4
<1> QED
  BY <1>1, <1>5, <1>6, <1>7, <1>8 DEF RequestTypes

-----------------------------------------------------------------------------
(* Messages.                                                               *)

\* The messages that carry a data buffer.
FilledTypes == {"EX_REP", "SH_REP", "FLUSH_REP", "WB_REP", "DRAM_READ_REP", "DRAM_WRITE_REQ"}

\* The messages that may be on their way to node n: requests, answers and DRAM
\* accesses go to the home of their block, commands and replies come from there.
Deliverable(n) ==
  {m \in Msgs :
     /\ m.type \in FilledTypes => m.data \in Data
     /\ m.type \in RequestTypes \cup AnswerTypes \cup DramTypes => n = Home[m.addr]
     /\ m.type \in CommandTypes \cup ReplyTypes \cup DramTypes => m.sender = Home[m.addr]}

\* out has at most one message for each receiver, and it is one that may go there.
Sendable(out) ==
  /\ \A p \in out : p.to \in Nodes /\ p.msg \in Deliverable(p.to)
  /\ \A p, q \in out : p.to = q.to => p = q

\* All messages in out are about block a.
Concerns(out, a) == \A p \in out : p.msg.addr = a

\* A single message.
LEMMA SendableOne ==
  ASSUME NEW n \in Nodes, NEW m \in Deliverable(n)
  PROVE  /\ Sendable({To(n, m)})
         /\ \A a : m.addr = a => Concerns({To(n, m)}, a)
  BY DEF Sendable, Concerns, To

\* Commands and replies of the home of block a, its DRAM requests, and what a node
\* sends home.
LEMMA MessageTypes ==
  ASSUME NEW a \in Addrs, NEW n \in Nodes
  PROVE  /\ \A t \in CommandTypes \cup {"UPGRADE_REP"} :
              Msg(t, a, Home[a], Null) \in Deliverable(n)
         /\ \A t \in {"EX_REP", "SH_REP"}, data \in Data :
              Msg(t, a, Home[a], data) \in Deliverable(n)
         /\ \A data \in Data : /\ Msg("DRAM_READ_REP", a, Home[a], data) \in Deliverable(Home[a])
                               /\ Msg("DRAM_WRITE_REQ", a, Home[a], data) \in Deliverable(Home[a])
         /\ Msg("DRAM_READ_REQ", a, Home[a], Null) \in Deliverable(Home[a])
         /\ \A t \in RequestTypes \cup {"INV_REP"} : Msg(t, a, n, Null) \in Deliverable(Home[a])
         /\ \A t \in {"FLUSH_REP", "WB_REP"}, data \in Data :
              Msg(t, a, n, data) \in Deliverable(Home[a])
<1>1. Home[a] \in Nodes
  OBVIOUS
<1>2. \A t \in MsgTypes, s \in Nodes, data \in Data \cup {Null} :
        /\ Msg(t, a, s, data) \in Msgs
        /\ Msg(t, a, s, data).type = t /\ Msg(t, a, s, data).addr = a
        /\ Msg(t, a, s, data).sender = s /\ Msg(t, a, s, data).data = data
  BY DEF Msg, Msgs
<1>3. \A t \in MsgTypes, s \in Nodes, data \in Data \cup {Null}, k \in Nodes :
        /\ t \in FilledTypes => data \in Data
        /\ t \in RequestTypes \cup AnswerTypes \cup DramTypes => k = Home[a]
        /\ t \in CommandTypes \cup ReplyTypes \cup DramTypes => s = Home[a]
        => Msg(t, a, s, data) \in Deliverable(k)
  BY <1>2 DEF Deliverable
<1> QED
  BY <1>1, <1>3 DEF MsgTypes, FilledTypes, RequestTypes, ReplyTypes, CommandTypes, AnswerTypes,
                    DramTypes

\* A set of commands.
LEMMA SendableAll ==
  ASSUME NEW a \in Addrs, NEW dests \in SUBSET Nodes, NEW f
  PROVE  Sendable(Commands(a, dests, f)) /\ Concerns(Commands(a, dests, f), a)
<1>1. \A n \in dests : Msg(IF n = f THEN "FLUSH_REQ" ELSE "INV_REQ", a, Home[a], Null)
                         \in Deliverable(n)
  BY MessageTypes DEF CommandTypes
<1> QED
  BY <1>1 DEF Commands, Sendable, Concerns, To, Msg

\* An outcome keeps the entry consistent and the request what it was, and sends what
\* may be sent.
LEMMA OutcomeOK ==
  ASSUME NEW a \in Addrs, NEW e, EntryOK(e), e.where # "none",
         NEW r \in Reqs, NEW o, IsOutcome(a, e, r, o)
  PROVE  /\ EntryOK(o.entry)
         /\ o.entry.where = IF Nullified(a, e, r, o) THEN "none" ELSE e.where
         /\ o.req \in Reqs /\ o.req.type = r.type /\ o.req.requester = r.requester
         /\ o.next \in BOOLEAN
         /\ Sendable(o.out) /\ Concerns(o.out, a)
<1> DEFINE Goal == /\ EntryOK(o.entry)
                   /\ o.entry.where = IF Nullified(a, e, r, o) THEN "none" ELSE e.where
                   /\ o.req \in Reqs /\ o.req.type = r.type /\ o.req.requester = r.requester
                   /\ o.next \in BOOLEAN
                   /\ Sendable(o.out) /\ Concerns(o.out, a)
<1>1. /\ e \in Entries /\ r.requester \in Nodes /\ Home[a] \in Nodes
      /\ e.sharers \subseteq Nodes /\ e.owner \in Nodes \cup {NoNode}
  BY DEF EntryOK, Entries, Reqs
<1>2. Admits(e, o.entry, r.type, r.requester) =>
        EntryOK(o.entry) /\ o.entry.where = e.where
  <2> SUFFICES ASSUME Admits(e, o.entry, r.type, r.requester)
               PROVE  EntryOK(o.entry) /\ o.entry.where = e.where
    OBVIOUS
  <2>1. e.state = "UNCACHED" => o.entry.sharers = {r.requester}
    BY DEF Admits, EntryOK
  <2>2. FewSharers(o.entry)
    BY <2>1, SharerCount DEF Admits, EntryOK
  <2> QED
    BY <1>1, <2>1, <2>2 DEF Admits, EntryOK, Owns
<1>3. /\ Msg("DRAM_READ_REQ", a, Home[a], Null) \in Deliverable(Home[a])
      /\ \A n \in Nodes, t \in {"UPGRADE_REP", "WB_REQ", "FLUSH_REQ"} :
           Msg(t, a, Home[a], Null) \in Deliverable(n)
      /\ \A n \in Nodes, t \in {"EX_REP", "SH_REP"}, data \in Data :
           Msg(t, a, Home[a], data) \in Deliverable(n)
  BY <1>1, MessageTypes DEF CommandTypes
<1>4. \A n, m : m.addr = a /\ n \in Nodes /\ m \in Deliverable(n) =>
                Sendable({To(n, m)}) /\ Concerns({To(n, m)}, a)
  BY SendableOne
<1>5. \A t, data : Msg(t, a, Home[a], data).addr = a
  BY DEF Msg
<1>6. CASE GrantsData(a, e, r, o)
  <2>1. PICK data \in Data, t \in {"EX_REP", "SH_REP"} :
          o.out = {To(r.requester, Msg(t, a, Home[a], data))}
    BY <1>6 DEF GrantsData
  <2>2. Sendable(o.out) /\ Concerns(o.out, a)
    BY <1>1, <1>3, <1>4, <1>5, <2>1
  <2> QED
    BY <1>2, <1>6, <2>2 DEF GrantsData, Nullified, RequestTypes
<1>7. CASE GrantsUpgrade(a, e, r, o)
  <2>0. o.out = {To(r.requester, Msg("UPGRADE_REP", a, Home[a], Null))}
    BY <1>7 DEF GrantsUpgrade
  <2>1. Sendable(o.out) /\ Concerns(o.out, a)
    BY <1>1, <1>3, <1>4, <1>5, <2>0
  <2>2. o.entry \in Entries
    BY <1>1, <1>7 DEF GrantsUpgrade, Entries
  <2>3. /\ o.entry.where = e.where /\ o.entry.sharers = {r.requester}
        /\ o.entry.owner = r.requester /\ o.entry.state = "MODIFIED"
    BY <1>1, <1>7 DEF GrantsUpgrade, Entries
  <2>4. FewSharers(o.entry)
    BY <2>3, SharerCount
  <2> QED
    BY <1>7, <2>1, <2>2, <2>3, <2>4 DEF GrantsUpgrade, Nullified, EntryOK
<1>8. CASE AsksDram(a, e, r, o)
  <2>1. Sendable(o.out) /\ Concerns(o.out, a)
    BY <1>1, <1>3, <1>4, <1>5, <1>8 DEF AsksDram
  <2>2. o.req \in Reqs /\ o.req.type = r.type /\ o.req.requester = r.requester
    BY <1>8 DEF AsksDram, Reqs
  <2> QED
    BY <1>2, <1>8, <2>1, <2>2 DEF AsksDram, Nullified, RequestTypes
<1>9. CASE AsksForwarder(a, e, r, o)
  <2>1. PICK f \in Nodes : /\ o.req = [r EXCEPT !.forwardingFrom = f]
                           /\ o.out = {To(f, Msg("WB_REQ", a, Home[a], Null))}
    BY <1>9 DEF AsksForwarder
  <2>2. Sendable(o.out) /\ Concerns(o.out, a)
    BY <1>1, <1>3, <1>4, <1>5, <2>1
  <2>3. o.req \in Reqs /\ o.req.type = r.type /\ o.req.requester = r.requester
    BY <2>1 DEF Reqs
  <2> QED
    BY <1>2, <1>9, <2>2, <2>3 DEF AsksForwarder, Nullified
<1>10. CASE AsksWriteBack(a, e, r, o)
  <2>1. e.owner \in Nodes
    BY <1>1, <1>10 DEF AsksWriteBack, EntryOK, Owns
  <2>2. Sendable(o.out) /\ Concerns(o.out, a)
    BY <1>3, <1>4, <1>5, <1>10, <2>1 DEF AsksWriteBack
  <2> QED
    BY <1>10, <2>2 DEF AsksWriteBack, Nullified
<1>11. CASE AsksFlush(a, e, r, o)
  <2>1. e.owner \in Nodes
    BY <1>1, <1>11 DEF AsksFlush, EntryOK, Owns
  <2>2. Sendable(o.out) /\ Concerns(o.out, a)
    BY <1>3, <1>4, <1>5, <1>11, <2>1 DEF AsksFlush
  <2> QED
    BY <1>11, <2>2 DEF AsksFlush, Nullified, Owns
<1>12. CASE AsksInvalidate(a, e, r, o)
  <2>1. PICK dests \in SUBSET e.sharers, f \in Nodes \cup {NoNode} : o.out = Commands(a, dests, f)
    BY <1>12 DEF AsksInvalidate
  <2>2. dests \in SUBSET Nodes
    BY <1>1
  <2>3. Sendable(o.out) /\ Concerns(o.out, a)
    BY <2>1, <2>2, SendableAll
  <2>4. o.next \in BOOLEAN /\ o.req = r /\ o.entry = e
    BY <1>12 DEF AsksInvalidate
  <2>5. ~ Nullified(a, e, r, o)
    BY <1>12 DEF AsksInvalidate, Nullified
  <2> QED
    BY <2>3, <2>4, <2>5
<1>13. CASE Nullified(a, e, r, o)
  <2>1. Sendable(o.out) /\ Concerns(o.out, a)
    BY <1>13 DEF Nullified, Sendable, Concerns
  <2>2. EntryOK(NoEntry) /\ NoEntry.where = "none"
    BY SharerCount DEF EntryOK, NoEntry, Entries
  <2> QED
    BY <1>13, <2>1, <2>2 DEF Nullified
<1> QED
  BY <1>6, <1>7, <1>8, <1>9, <1>10, <1>11, <1>12, <1>13 DEF IsOutcome

-----------------------------------------------------------------------------
(* Types, and what goes with them.                                         *)

QueuesOK(q) == q \in [Nodes -> Seq(Msgs)] /\ \A n \in Nodes : q[n] \in Seq(Deliverable(n))

EntriesOK(d) == d \in [Addrs -> Entries] /\ \A a \in Addrs : EntryOK(d[a])

\* A cache line that is there has been filled.
LinesOK(ls) ==
  /\ ls \in [Nodes -> [Addrs -> Lines]]
  /\ \A n \in Nodes, a \in Addrs : ls[n][a].state # "INVALID" => ls[n][a].data \in Data

\* The cores that wait in node n use its cache.
WaitersOf(n) == {w \in Waiters : LLC[w.core] = n}
WaitersOK(ws) ==
  /\ ws \in [Nodes -> [Addrs -> Seq(Waiters)]]
  /\ \A n \in Nodes : ws[n] \in [Addrs -> Seq(WaitersOf(n))]

\* A thread that is busy is so with a block that still has the waiters or the request,
\* which is at its home, and a woken core keeps its thread busy.
JobsOK ==
  /\ \A n \in Nodes :
       /\ job[n].at = "recv" => job[n] = Recv
       /\ job[n].at = "waiters" => job[n].addr \in Addrs /\ waiters[n][job[n].addr] # <<>>
       /\ job[n].at = "nextReq" => /\ job[n].addr \in Addrs /\ Home[job[n].addr] = n
                                   /\ reqs[job[n].addr] # <<>>
  /\ \A c \in Cores : pc[c] = "woken" => job[LLC[c]].at = "waiters"

TypeInv ==
  /\ TypeOK
  /\ QueuesOK(queue) /\ EntriesOK(dir) /\ LinesOK(line) /\ WaitersOK(waiters) /\ JobsOK

\* Taking the first message of the queue of k.
LEMMA TakeOK ==
  ASSUME NEW q, QueuesOK(q), NEW k \in Nodes, q[k] # <<>>
  PROVE  QueuesOK([q EXCEPT ![k] = Tail(@)]) /\ Head(q[k]) \in Deliverable(k)
<1>1. \A n \in Nodes : q[n] \in Seq(Deliverable(n)) /\ q[n] \in Seq(Msgs)
  BY DEF QueuesOK
<1>2. /\ Head(q[k]) \in Deliverable(k)
      /\ Tail(q[k]) \in Seq(Deliverable(k)) /\ Tail(q[k]) \in Seq(Msgs)
  BY <1>1
<1> QED
  BY <1>1, <1>2 DEF QueuesOK

\* Sending messages that may be sent.
LEMMA SendOK ==
  ASSUME NEW q, QueuesOK(q), NEW out, Sendable(out)
  PROVE  QueuesOK(Send(q, out))
<1>1. \A n \in Nodes : q[n] \in Seq(Deliverable(n)) /\ q[n] \in Seq(Msgs)
  BY DEF QueuesOK
<1>2. ASSUME NEW n \in Nodes
      PROVE  Send(q, out)[n] \in Seq(Deliverable(n)) /\ Send(q, out)[n] \in Seq(Msgs)
  <2>1. CASE \E p \in out : p.to = n
    <3> DEFINE p == CHOOSE p \in out : p.to = n
    <3>1. p \in out /\ p.to = n
      BY <2>1
    <3>2. Send(q, out)[n] = Append(q[n], p.msg)
      BY <2>1 DEF Send
    <3>3. p.msg \in Deliverable(n) /\ p.msg \in Msgs
      BY <3>1 DEF Sendable, Deliverable
    <3> HIDE DEF p
    <3> QED
      BY <1>1, <3>2, <3>3
  <2>2. CASE ~ \E p \in out : p.to = n
    BY <1>1, <2>2 DEF Send
  <2> QED
    BY <2>1, <2>2
<1>3. Send(q, out) = [n \in Nodes |-> Send(q, out)[n]]
  BY DEF Send
<1> QED
  BY <1>2, <1>3 DEF QueuesOK

\* The home thread h took a step in its directory: all is well there, and it is now
\* between two messages or completes a request.
DirEffect(h) ==
  /\ EntriesOK(dir') /\ reqs' \in [Addrs -> Seq(Reqs)] /\ mem' \in [Addrs -> Data]
  /\ QueuesOK(queue')
  /\ job[h].at # "waiters"
  /\ \E j : /\ job' = [job EXCEPT ![h] = j]
            /\ \/ j = Recv
               \/ \E a \in Addrs : Home[a] = h /\ j = Busy("nextReq", a) /\ reqs'[a] # <<>>
  /\ \A b \in Addrs : Home[b] # h => reqs'[b] = reqs[b]

\* Such a step keeps the invariant.
LEMMA DirEffectKeepsTypes ==
  ASSUME TypeInv, NEW h \in Nodes, DirEffect(h), UNCHANGED cacheVars
  PROVE  TypeInv'
<1>1. PICK j : /\ job' = [job EXCEPT ![h] = j]
               /\ \/ j = Recv
                  \/ \E a \in Addrs : Home[a] = h /\ j = Busy("nextReq", a) /\ reqs'[a] # <<>>
  BY DEF DirEffect
<1>2. job \in [Nodes -> Jobs]
  BY DEF TypeInv, TypeOK, SimThreadsTypeOK
<1>3. j \in Jobs
  BY <1>1 DEF Recv, Busy, Jobs
<1>4. TypeOK'
  BY <1>1, <1>2, <1>3 DEF TypeInv, TypeOK, SimThreadsTypeOK, DirectoryTypeOK, LastLevelCacheTypeOK,
                          DirEffect, QueuesOK, EntriesOK, cacheVars
<1>5. JobsOK'
  <2>1. ASSUME NEW n \in Nodes
        PROVE  /\ job'[n].at = "recv" => job'[n] = Recv
               /\ job'[n].at = "waiters" => job'[n].addr \in Addrs /\ waiters'[n][job'[n].addr] # <<>>
               /\ job'[n].at = "nextReq" => /\ job'[n].addr \in Addrs /\ Home[job'[n].addr] = n
                                            /\ reqs'[job'[n].addr] # <<>>
    <3>1. CASE n = h
      BY <1>1, <1>2, <3>1 DEF Recv, Busy
    <3>2. CASE n # h
      BY <1>1, <1>2, <3>2 DEF TypeInv, JobsOK, DirEffect, cacheVars
    <3> QED
      BY <3>1, <3>2
  <2>2. ASSUME NEW c \in Cores, pc'[c] = "woken" PROVE job'[LLC[c]].at = "waiters"
    <3>1. job[LLC[c]].at = "waiters"
      BY <2>2 DEF TypeInv, JobsOK, cacheVars
    <3> QED
      BY <1>1, <1>2, <3>1 DEF DirEffect
  <2> QED
    BY <2>1, <2>2 DEF JobsOK
<1> QED
  BY <1>4, <1>5 DEF TypeInv, DirEffect, cacheVars, LinesOK, WaitersOK

\* Applying an outcome is such a step.
LEMMA ApplyEffect ==
  ASSUME TypeInv, NEW a \in Addrs, job[Home[a]].at # "waiters",
         NEW d, EntriesOK(d), NEW q \in [Addrs -> Seq(Reqs)], q[a] # <<>>,
         \A b \in Addrs : Home[b] # Home[a] => q[b] = reqs[b],
         NEW s, QueuesOK(s), NEW o, EntryOK(o.entry), o.req \in Reqs, Sendable(o.out),
         Apply(a, o, d, q, s), UNCHANGED mem
  PROVE  DirEffect(Home[a])
<1>1. EntriesOK(dir')
  BY DEF Apply, EntriesOK, EntryOK
<1>2. q[a] \in Seq(Reqs) /\ <<o.req>> \o Tail(q[a]) \in Seq(Reqs) /\ <<o.req>> \o Tail(q[a]) # <<>>
  OBVIOUS
<1>3. reqs' = [q EXCEPT ![a] = <<o.req>> \o Tail(q[a])]
  BY DEF Apply
<1>4. reqs' \in [Addrs -> Seq(Reqs)] /\ reqs'[a] # <<>>
      /\ \A b \in Addrs : Home[b] # Home[a] => reqs'[b] = reqs[b]
  BY <1>2, <1>3
<1>5. QueuesOK(queue')
  BY SendOK DEF Apply
<1>6. mem' \in [Addrs -> Data]
  BY DEF TypeInv, TypeOK, DirectoryTypeOK
<1>7. job' = [job EXCEPT ![Home[a]] = IF o.next THEN Busy("nextReq", a) ELSE Recv]
  BY DEF Apply, SetJob
<1> QED
  BY <1>1, <1>4, <1>5, <1>6, <1>7 DEF DirEffect

\* The entry that getDirectoryEntry gives a block.
LEMMA FreshEntryOK ==
  ASSUME NEW a \in Addrs, EntriesOK(dir)
  PROVE  /\ EntriesOK(GetDirectoryEntry(a)) /\ EntryOK(FreshEntry)
         /\ FreshEntry.where = "resident" /\ FreshEntry.sharers = {} /\ FreshEntry.state = "UNCACHED"
         /\ \A b \in Addrs : b # a => GetDirectoryEntry(a)[b] = dir[b]
         /\ GetDirectoryEntry(a)[a] = dir[a] \/ (dir[a].where = "none" /\ GetDirectoryEntry(a)[a] = FreshEntry)
<1>1. EntryOK(FreshEntry) /\ FreshEntry.where = "resident" /\ FreshEntry.sharers = {}
      /\ FreshEntry.state = "UNCACHED"
  BY SharerCount DEF FreshEntry, NoEntry, Entries, EntryOK
<1>2. FreshEntry \in Entries
  BY <1>1 DEF EntryOK
<1>3. CASE dir[a].where = "none" /\ HasFreeEntry(a)
  <2>1. GetDirectoryEntry(a) = [dir EXCEPT ![a] = FreshEntry]
    BY <1>3 DEF GetDirectoryEntry
  <2> QED
    BY <1>1, <1>2, <1>3, <2>1 DEF EntriesOK
<1>4. CASE ~ (dir[a].where = "none" /\ HasFreeEntry(a))
  BY <1>1, <1>4 DEF GetDirectoryEntry
<1> QED
  BY <1>3, <1>4

\* The entry that another block's request takes over.
LEMMA ReplacedEntryOK ==
  ASSUME NEW e, EntryOK(e), e.where = "resident"
  PROVE  LET f == [e EXCEPT !.where = "replaced"]
         IN  /\ EntryOK(f) /\ f.where = "replaced" /\ f.state = e.state /\ f.sharers = e.sharers
             /\ f.owner = e.owner /\ f.forwarder = e.forwarder
<1> DEFINE f == [e EXCEPT !.where = "replaced"]
<1>1. /\ f \in Entries /\ f.where = "replaced" /\ f.state = e.state /\ f.sharers = e.sharers
      /\ f.owner = e.owner /\ f.forwarder = e.forwarder
  BY DEF EntryOK, Entries
<1> HIDE DEF f
<1>2. FewSharers(f)
  BY <1>1, SharerCount DEF EntryOK
<1>3. EntryOK(f)
  BY <1>1, <1>2 DEF EntryOK
<1> QED
  BY <1>1, <1>3 DEF f

\* A new request.
LEMMA ReqOK ==
  ASSUME NEW t \in RequestTypes \cup {"NULLIFY_REQ"}, NEW n \in Nodes
  PROVE  /\ Req(t, n) \in Reqs /\ Req(t, n).type = t /\ Req(t, n).requester = n
         /\ ~ Req(t, n).waitForData /\ Req(t, n).forwardingFrom = NoNode
  BY DEF Req, Reqs

\* Request r, the first of q[a], starts with an entry that a has or finds free.
StartsWith(a, r, q, s, o) ==
  /\ GetDirectoryEntry(a)[a].where # "none"
  /\ IsOutcome(a, GetDirectoryEntry(a)[a], r, o)
  /\ Apply(a, o, GetDirectoryEntry(a), q, s)

\* It starts with the entry of v, whose copies are removed: n is the outcome for v.
Replaced(e) == [e EXCEPT !.where = "replaced"]
StartsInPlaceOf(v, a, r, q, s, n, o) ==
  /\ v \in Addrs /\ v # a /\ Home[v] = Home[a]
  /\ dir[a].where = "none" /\ dir[v].where = "resident" /\ reqs[v] = <<>>
  /\ IsOutcome(v, Replaced(dir[v]), Req("NULLIFY_REQ", r.requester), n)
  /\ IsOutcome(a, FreshEntry, r, o)
  /\ Apply(a, o, [dir EXCEPT ![v] = n.entry],
           [q EXCEPT ![v] = IF n.next THEN <<>> ELSE Append(@, Req("NULLIFY_REQ", r.requester))],
           Send(s, n.out))

\* A request starts in one of these ways.
LEMMA Starting ==
  ASSUME EntriesOK(dir), NEW a \in Addrs, NEW r \in Reqs, NEW q, NEW s, StartReq(a, r, q, s)
  PROVE  \/ \E o : StartsWith(a, r, q, s, o)
         \/ \E v, n, o : StartsInPlaceOf(v, a, r, q, s, n, o)
<1>1. Null \in Data \cup {Null} /\ r.requester \in Nodes
  BY DEF Reqs
<1>2. CASE /\ GetDirectoryEntry(a)[a].where # "none"
           /\ \E o \in ProcessReq(a, GetDirectoryEntry(a)[a], r, Null) :
                Apply(a, o, GetDirectoryEntry(a), q, s)
  <2> DEFINE d == GetDirectoryEntry(a)
  <2>1. PICK o \in ProcessReq(a, d[a], r, Null) : Apply(a, o, d, q, s)
    BY <1>2
  <2>2. EntryOK(d[a]) /\ d[a].where # "none"
    BY <1>2, FreshEntryOK DEF EntriesOK
  <2> HIDE DEF d
  <2>3. IsOutcome(a, d[a], r, o)
    BY <1>1, <2>1, <2>2, Outcomes
  <2> QED
    BY <2>1, <2>2, <2>3 DEF d, StartsWith
<1>3. CASE /\ GetDirectoryEntry(a)[a].where = "none"
           /\ \E v \in ReplacementCandidates(a) :
              LET e == [dir[v] EXCEPT !.where = "replaced"]
                  nullify == Req("NULLIFY_REQ", r.requester)
              IN  \E n \in ProcessNullifyReq(v, e, nullify) :
                  \E o \in ProcessReq(a, FreshEntry, r, Null) :
                    Apply(a, o, [dir EXCEPT ![v] = n.entry],
                          [q EXCEPT ![v] = IF n.next THEN <<>> ELSE Append(@, nullify)],
                          Send(s, n.out))
  <2> DEFINE nullify == Req("NULLIFY_REQ", r.requester)
  <2>1. PICK v \in ReplacementCandidates(a) :
          \E n \in ProcessNullifyReq(v, [dir[v] EXCEPT !.where = "replaced"], nullify) :
          \E o \in ProcessReq(a, FreshEntry, r, Null) :
            Apply(a, o, [dir EXCEPT ![v] = n.entry],
                  [q EXCEPT ![v] = IF n.next THEN <<>> ELSE Append(@, nullify)],
                  Send(s, n.out))
    BY <1>3
  <2>2. v \in Addrs /\ Home[v] = Home[a] /\ dir[v].where = "resident" /\ reqs[v] = <<>>
    BY <2>1 DEF ReplacementCandidates, SameDirectory
  <2>3. v # a /\ dir[a].where = "none"
    BY <1>3, <2>2, FreshEntryOK
  <2> DEFINE e == [dir[v] EXCEPT !.where = "replaced"]
  <2>4. PICK n \in ProcessNullifyReq(v, e, nullify), o \in ProcessReq(a, FreshEntry, r, Null) :
          Apply(a, o, [dir EXCEPT ![v] = n.entry],
                [q EXCEPT ![v] = IF n.next THEN <<>> ELSE Append(@, nullify)],
                Send(s, n.out))
    BY <2>1
  <2>5. e = Replaced(dir[v]) /\ EntryOK(e) /\ e.where # "none"
    BY <2>2, ReplacedEntryOK DEF EntriesOK, Replaced
  <2>6. nullify \in Reqs /\ nullify.type = "NULLIFY_REQ"
    BY <1>1, ReqOK
  <2> HIDE DEF e, nullify
  <2>7. n \in ProcessReq(v, e, nullify, Null)
    BY <2>4, <2>6 DEF ProcessReq
  <2>8. IsOutcome(v, e, nullify, n)
    BY <1>1, <2>2, <2>5, <2>6, <2>7, Outcomes
  <2>9. IsOutcome(a, FreshEntry, r, o)
    <3>1. EntryOK(FreshEntry) /\ FreshEntry.where # "none"
      BY FreshEntryOK
    <3> QED
      BY <1>1, <2>4, <3>1, Outcomes
  <2>10. StartsInPlaceOf(v, a, r, q, s, n, o)
    BY <2>2, <2>3, <2>4, <2>5, <2>8, <2>9 DEF StartsInPlaceOf, nullify
  <2> QED
    BY <2>10
<1> QED
  BY <1>2, <1>3 DEF StartReq

\* What the two outcomes of the second way are made of.
LEMMA ReplacementOK ==
  ASSUME EntriesOK(dir), NEW a \in Addrs, NEW r \in Reqs, NEW q \in [Addrs -> Seq(Reqs)],
         NEW s, QueuesOK(s), NEW v, NEW n, NEW o, StartsInPlaceOf(v, a, r, q, s, n, o)
  PROVE  /\ EntryOK(n.entry) /\ Sendable(n.out) /\ Concerns(n.out, v)
         /\ EntryOK(o.entry) /\ o.req \in Reqs /\ Sendable(o.out) /\ Concerns(o.out, a)
         /\ EntryOK(Replaced(dir[v])) /\ Req("NULLIFY_REQ", r.requester) \in Reqs
         /\ EntriesOK([dir EXCEPT ![v] = n.entry]) /\ QueuesOK(Send(s, n.out))
<1>1. r.requester \in Nodes /\ v \in Addrs /\ dir[v].where = "resident"
  BY DEF Reqs, StartsInPlaceOf
<1>2. EntryOK(Replaced(dir[v])) /\ Replaced(dir[v]).where # "none"
  BY <1>1, ReplacedEntryOK DEF EntriesOK, Replaced
<1>3. Req("NULLIFY_REQ", r.requester) \in Reqs
  BY <1>1, ReqOK
<1>4. IsOutcome(v, Replaced(dir[v]), Req("NULLIFY_REQ", r.requester), n) /\ IsOutcome(a, FreshEntry, r, o)
  BY DEF StartsInPlaceOf
<1>5. EntryOK(n.entry) /\ Sendable(n.out) /\ Concerns(n.out, v)
  BY <1>1, <1>2, <1>3, <1>4, OutcomeOK
<1>6. EntryOK(o.entry) /\ o.req \in Reqs /\ Sendable(o.out) /\ Concerns(o.out, a)
  <2>1. EntryOK(FreshEntry) /\ FreshEntry.where # "none"
    BY FreshEntryOK
  <2> QED
    BY <1>4, <2>1, OutcomeOK
<1>7. EntriesOK([dir EXCEPT ![v] = n.entry])
  BY <1>1, <1>5 DEF EntriesOK, EntryOK
<1> QED
  BY <1>2, <1>3, <1>5, <1>6, <1>7, SendOK

\* Starting a request.
LEMMA StartEffect ==
  ASSUME TypeInv, NEW a \in Addrs, job[Home[a]].at # "waiters", NEW r \in Reqs,
         NEW q \in [Addrs -> Seq(Reqs)], q[a] # <<>>,
         \A b \in Addrs : Home[b] # Home[a] => q[b] = reqs[b],
         NEW s, QueuesOK(s), StartReq(a, r, q, s), UNCHANGED mem
  PROVE  DirEffect(Home[a])
<1>1. EntriesOK(dir)
  BY DEF TypeInv
<1>2. ASSUME NEW o, StartsWith(a, r, q, s, o) PROVE DirEffect(Home[a])
  <2> DEFINE d == GetDirectoryEntry(a)
  <2>1. EntriesOK(d) /\ EntryOK(d[a]) /\ d[a].where # "none"
    BY <1>1, <1>2, FreshEntryOK DEF EntriesOK, StartsWith
  <2>2. IsOutcome(a, d[a], r, o) /\ Apply(a, o, d, q, s)
    BY <1>2 DEF StartsWith
  <2> HIDE DEF d
  <2>3. EntryOK(o.entry) /\ o.req \in Reqs /\ Sendable(o.out)
    BY <2>1, <2>2, OutcomeOK
  <2> QED
    BY <2>1, <2>2, <2>3, ApplyEffect
<1>3. ASSUME NEW v, NEW n, NEW o, StartsInPlaceOf(v, a, r, q, s, n, o) PROVE DirEffect(Home[a])
  <2> DEFINE nullify == Req("NULLIFY_REQ", r.requester)
             d2 == [dir EXCEPT ![v] = n.entry]
             q2 == [q EXCEPT ![v] = IF n.next THEN <<>> ELSE Append(@, nullify)]
             s2 == Send(s, n.out)
  <2>1. v \in Addrs /\ v # a /\ Home[v] = Home[a] /\ Apply(a, o, d2, q2, s2)
    BY <1>3 DEF StartsInPlaceOf
  <2>2. /\ EntryOK(o.entry) /\ o.req \in Reqs /\ Sendable(o.out)
        /\ EntriesOK(d2) /\ QueuesOK(s2) /\ nullify \in Reqs
    BY <1>1, <1>3, ReplacementOK
  <2> HIDE DEF nullify
  <2>3. q2 \in [Addrs -> Seq(Reqs)] /\ q2[a] # <<>>
         /\ \A b \in Addrs : Home[b] # Home[a] => q2[b] = reqs[b]
    <3>1. (IF n.next THEN <<>> ELSE Append(q[v], nullify)) \in Seq(Reqs)
      BY <2>1, <2>2
    <3> QED
      BY <2>1, <3>1
  <2> HIDE DEF d2, q2, s2
  <2> QED
    BY <2>1, <2>2, <2>3, ApplyEffect
<1> QED
  BY <1>1, <1>2, <1>3, Starting

\* removeSharer, for a node that is one.
LEMMA RemoveSharerOK ==
  ASSUME NEW e, EntryOK(e), NEW n \in e.sharers, NEW f \in RemoveSharer(e, n)
  PROVE  /\ EntryOK(f) /\ f.where = e.where /\ e.where # "none"
         /\ f.sharers = e.sharers \ {n} /\ f.owner = e.owner
         /\ f.state = IF e.sharers = {n} THEN "UNCACHED" ELSE e.state
         /\ f.forwarder \in ForwarderWithout(e, n)
<1>1. e \in Entries /\ (e.sharers \subseteq {n} <=> e.sharers = {n})
  BY DEF EntryOK
<1>2. PICK g \in ForwarderWithout(e, n) :
        f = [[e EXCEPT !.sharers = @ \ {n},
                       !.state = IF e.sharers \subseteq {n} THEN "UNCACHED" ELSE @]
               EXCEPT !.forwarder = g]
  BY DEF RemoveSharer
<1>3. g \in Nodes \cup {NoNode, Uninit}
  BY <1>1, <1>2 DEF ForwarderWithout, Entries, EntryOK
<1>4. f \in Entries
  <2>1. [e EXCEPT !.sharers = @ \ {n},
                  !.state = IF e.sharers \subseteq {n} THEN "UNCACHED" ELSE @] \in Entries
    BY <1>1 DEF Entries
  <2> QED
    BY <1>2, <1>3, <2>1 DEF Entries
<1>5. /\ f.where = e.where /\ f.sharers = e.sharers \ {n} /\ f.owner = e.owner
      /\ f.state = IF e.sharers = {n} THEN "UNCACHED" ELSE e.state
      /\ f.forwarder = g
  BY <1>1, <1>2 DEF Entries, EntryOK
<1>6. FewSharers(f)
  BY <1>5, SharerCount DEF EntryOK
<1> QED
  BY <1>2, <1>4, <1>5, <1>6 DEF EntryOK

\* What a thread finds when it takes a message.
LEMMA ReceivedOK ==
  ASSUME TypeInv, NEW n \in Nodes, NEW T, Receives(n, T)
  PROVE  /\ Received(n) \in Deliverable(n) /\ Received(n) \in Msgs /\ Received(n).type \in T
         /\ Received(n).addr \in Addrs /\ Received(n).sender \in Nodes
         /\ Received(n).type \in RequestTypes \cup AnswerTypes \cup DramTypes =>
              Home[Received(n).addr] = n
         /\ Received(n).type \in FilledTypes => Received(n).data \in Data
         /\ QueuesOK(Consume(n)) /\ job[n] = Recv /\ job[n].at = "recv"
<1>1. QueuesOK(queue) /\ queue[n] # <<>> /\ job[n] = Recv /\ Head(queue[n]).type \in T
  BY DEF TypeInv, Receives
<1>2. QueuesOK(Consume(n)) /\ Received(n) \in Deliverable(n)
  BY <1>1, TakeOK DEF Consume, Received
<1> QED
  BY <1>1, <1>2 DEF Deliverable, Msgs, Received, Recv

\* EX_REQ, SH_REQ, UPGRADE_REQ
LEMMA HandleReqEffect ==
  ASSUME TypeInv, NEW h \in Nodes, HandleReq(h)
  PROVE  DirEffect(h)
<1> DEFINE m == Received(h)
           a == m.addr
           r == Req(m.type, m.sender)
<1>1. /\ a \in Addrs /\ Home[a] = h /\ m.type \in RequestTypes /\ m.sender \in Nodes
      /\ QueuesOK(Consume(h)) /\ job[h] = Recv /\ job[h].at = "recv"
  BY ReceivedOK DEF HandleReq
<1>2. r \in Reqs
  BY <1>1, ReqOK
<1>3. /\ reqs \in [Addrs -> Seq(Reqs)] /\ mem \in [Addrs -> Data] /\ mem' = mem
      /\ job \in [Nodes -> Jobs] /\ EntriesOK(dir)
  BY DEF TypeInv, TypeOK, SimThreadsTypeOK, DirectoryTypeOK, HandleReq
<1>4. IF reqs[a] = <<>>
      THEN StartReq(a, r, [reqs EXCEPT ![a] = <<r>>], Consume(h))
      ELSE /\ reqs' = [reqs EXCEPT ![a] = Append(@, r)]
           /\ dir' = GetDirectoryEntry(a)
           /\ queue' = Consume(h)
           /\ UNCHANGED job
  BY DEF HandleReq
<1> HIDE DEF m, a, r
<1>5. CASE reqs[a] = <<>>
  <2> DEFINE q == [reqs EXCEPT ![a] = <<r>>]
  <2>1. StartReq(a, r, q, Consume(h))
    BY <1>4, <1>5
  <2>2. q \in [Addrs -> Seq(Reqs)] /\ q[a] # <<>> /\ \A b \in Addrs : Home[b] # Home[a] => q[b] = reqs[b]
    BY <1>1, <1>2, <1>3
  <2> HIDE DEF q
  <2> QED
    BY <1>1, <1>2, <1>3, <2>1, <2>2, StartEffect
<1>6. CASE reqs[a] # <<>>
  <2>1. EntriesOK(dir')
    BY <1>1, <1>3, <1>4, <1>6, FreshEntryOK
  <2>2. Append(reqs[a], r) \in Seq(Reqs)
    BY <1>1, <1>2, <1>3
  <2>3. reqs' \in [Addrs -> Seq(Reqs)] /\ \A b \in Addrs : Home[b] # h => reqs'[b] = reqs[b]
    BY <1>1, <1>3, <1>4, <1>6, <2>2
  <2>4. job' = [job EXCEPT ![h] = Recv]
    BY <1>1, <1>3, <1>4, <1>6
  <2>5. QueuesOK(queue')
    BY <1>1, <1>4, <1>6
  <2> QED
    BY <1>1, <1>3, <2>1, <2>3, <2>4, <2>5 DEF DirEffect
<1> QED
  BY <1>5, <1>6

\* processNextReqFromL2Cache
LEMMA ProcessNextReqEffect ==
  ASSUME TypeInv, NEW h \in Nodes, ProcessNextReq(h)
  PROVE  DirEffect(h)
<1> DEFINE a == job[h].addr
           q == [reqs EXCEPT ![a] = Tail(@)]
<1>1. /\ job[h].at = "nextReq" /\ a \in Addrs /\ Home[a] = h /\ reqs[a] # <<>>
      /\ QueuesOK(queue) /\ EntriesOK(dir)
  BY DEF ProcessNextReq, TypeInv, JobsOK
<1>2. /\ reqs \in [Addrs -> Seq(Reqs)] /\ mem \in [Addrs -> Data] /\ mem' = mem
      /\ job \in [Nodes -> Jobs]
  BY DEF TypeInv, TypeOK, SimThreadsTypeOK, DirectoryTypeOK, ProcessNextReq
<1>3. Tail(reqs[a]) \in Seq(Reqs)
  BY <1>1, <1>2
<1>4. q \in [Addrs -> Seq(Reqs)] /\ \A b \in Addrs : Home[b] # Home[a] => q[b] = reqs[b]
  BY <1>1, <1>2, <1>3
<1>5. IF q[a] = <<>>
      THEN reqs' = q /\ SetJob(h, Recv) /\ UNCHANGED <<dir, queue>>
      ELSE StartReq(a, Head(q[a]), q, queue)
  BY DEF ProcessNextReq
<1> HIDE DEF q, a
<1>6. CASE q[a] = <<>>
  BY <1>1, <1>2, <1>4, <1>5, <1>6 DEF DirEffect, SetJob
<1>7. CASE q[a] # <<>>
  <2>1. Head(q[a]) \in Reqs
    BY <1>1, <1>4, <1>7
  <2> QED
    BY <1>1, <1>2, <1>4, <1>5, <1>7, <2>1, StartEffect
<1> QED
  BY <1>6, <1>7

\* INV_REP
LEMMA ProcessInvRepEffect ==
  ASSUME TypeInv, NEW h \in Nodes, ProcessInvRep(h)
  PROVE  DirEffect(h)
<1> DEFINE m == Received(h)
           a == m.addr
<1>1. /\ a \in Addrs /\ Home[a] = h /\ m.sender \in Nodes
      /\ QueuesOK(Consume(h)) /\ job[h] = Recv /\ job[h].at = "recv"
  BY ReceivedOK DEF ProcessInvRep, AnswerTypes
<1>2. /\ reqs \in [Addrs -> Seq(Reqs)] /\ mem \in [Addrs -> Data] /\ mem' = mem
      /\ job \in [Nodes -> Jobs] /\ EntriesOK(dir) /\ EntryOK(dir[a]) /\ dir \in [Addrs -> Entries]
  BY <1>1 DEF TypeInv, TypeOK, SimThreadsTypeOK, DirectoryTypeOK, ProcessInvRep, EntriesOK
<1>3. m.sender \in dir[a].sharers
  BY DEF ProcessInvRep, InvRepExpected
<1>4. PICK e \in RemoveSharer(dir[a], m.sender) :
        IF reqs[a] # <<>> /\ InvRepWakes(e, Head(reqs[a]), m.sender)
        THEN \E o \in ProcessReq(a, e, Head(reqs[a]), Null) : Apply(a, o, dir, reqs, Consume(h))
        ELSE dir' = [dir EXCEPT ![a] = e] /\ queue' = Consume(h) /\ UNCHANGED <<reqs, job>>
  BY DEF ProcessInvRep
<1> HIDE DEF m, a
<1>5. EntryOK(e) /\ e.where # "none"
  BY <1>2, <1>3, <1>4, RemoveSharerOK
<1>6. CASE reqs[a] # <<>> /\ InvRepWakes(e, Head(reqs[a]), m.sender)
  <2>1. PICK o \in ProcessReq(a, e, Head(reqs[a]), Null) : Apply(a, o, dir, reqs, Consume(h))
    BY <1>4, <1>6
  <2>2. Head(reqs[a]) \in Reqs
    BY <1>1, <1>2, <1>6
  <2>3. EntryOK(o.entry) /\ o.req \in Reqs /\ Sendable(o.out)
    BY <1>1, <1>5, <2>1, <2>2, Outcomes, OutcomeOK
  <2> QED
    BY <1>1, <1>2, <1>6, <2>1, <2>3, ApplyEffect
<1>7. CASE ~ (reqs[a] # <<>> /\ InvRepWakes(e, Head(reqs[a]), m.sender))
  <2>1. EntriesOK(dir')
    BY <1>1, <1>2, <1>4, <1>5, <1>7 DEF EntriesOK, EntryOK
  <2>2. job' = [job EXCEPT ![h] = Recv]
    BY <1>1, <1>2, <1>4, <1>7
  <2> QED
    BY <1>1, <1>2, <1>4, <1>7, <2>1, <2>2 DEF DirEffect
<1> QED
  BY <1>6, <1>7

\* The entry e without the sharer k, which has flushed its copy.
Flushed(e, k) ==
  [e EXCEPT !.sharers = @ \ {k}, !.forwarder = NoNode, !.owner = NoNode,
            !.state = IF e.sharers = {k} THEN "UNCACHED" ELSE @]

\* That entry.
LEMMA FlushedEntryOK ==
  ASSUME NEW e, EntryOK(e), NEW k \in e.sharers, e.sharers # {k} => e.state = "SHARED",
         NEW f, f = Flushed(e, k)
  PROVE  /\ EntryOK(f) /\ f.where = e.where /\ e.where # "none"
         /\ f.sharers = e.sharers \ {k} /\ f.owner = NoNode /\ f.forwarder = NoNode
         /\ f.state = IF e.sharers = {k} THEN "UNCACHED" ELSE e.state
<1>1. e \in Entries /\ e.where # "none"
  BY DEF EntryOK
<1>2. /\ f.where = e.where /\ f.sharers = e.sharers \ {k} /\ f.owner = NoNode
      /\ f.forwarder = NoNode /\ f.state = IF e.sharers = {k} THEN "UNCACHED" ELSE e.state
  BY <1>1 DEF Entries, Flushed
<1>3. f \in Entries
  BY <1>1 DEF Entries, Flushed
<1>4. FewSharers(f)
  BY <1>2, SharerCount DEF EntryOK
<1> QED
  BY <1>1, <1>2, <1>3, <1>4 DEF EntryOK

\* FLUSH_REP
LEMMA ProcessFlushRepEffect ==
  ASSUME TypeInv, NEW h \in Nodes, ProcessFlushRep(h)
  PROVE  DirEffect(h)
<1> DEFINE m == Received(h)
           a == m.addr
           e == Flushed(dir[a], m.sender)
<1>1. /\ a \in Addrs /\ Home[a] = h /\ m.sender \in Nodes /\ m.data \in Data
      /\ QueuesOK(Consume(h)) /\ job[h] = Recv /\ job[h].at = "recv"
  <2>1. Receives(h, {"FLUSH_REP"})
    BY DEF ProcessFlushRep
  <2> QED
    BY <2>1, ReceivedOK DEF AnswerTypes, FilledTypes
<1>2. /\ reqs \in [Addrs -> Seq(Reqs)] /\ mem \in [Addrs -> Data] /\ mem' = mem
      /\ job \in [Nodes -> Jobs] /\ EntriesOK(dir) /\ EntryOK(dir[a]) /\ dir \in [Addrs -> Entries]
  BY <1>1 DEF TypeInv, TypeOK, SimThreadsTypeOK, DirectoryTypeOK, ProcessFlushRep, EntriesOK
<1>3. m.sender \in dir[a].sharers /\ (dir[a].sharers # {m.sender} => dir[a].state = "SHARED")
  BY DEF ProcessFlushRep, FlushRepExpected
<1>4. \/ /\ reqs[a] = <<>>
         /\ dir' = [dir EXCEPT ![a] = e]
         /\ queue' = Send(Consume(h), DataToDram(a, m.data))
         /\ UNCHANGED <<reqs, job>>
      \/ /\ reqs[a] # <<>> /\ Head(reqs[a]).type = "UPGRADE_REQ" /\ e.sharers # {}
         /\ dir' = [dir EXCEPT ![a] = e]
         /\ reqs' = [reqs EXCEPT ![a] = <<[Head(@) EXCEPT !.data = Garbage]>> \o Tail(@)]
         /\ queue' = Consume(h)
         /\ UNCHANGED job
      \/ /\ reqs[a] # <<>> /\ (Head(reqs[a]).type = "UPGRADE_REQ" => e.sharers = {})
         /\ \E o \in ProcessReq(a, e, Head(reqs[a]), m.data) :
              Apply(a, o, dir, reqs,
                    IF Head(reqs[a]).type \in {"SH_REQ", "NULLIFY_REQ"}
                    THEN Send(Consume(h), DataToDram(a, m.data)) ELSE Consume(h))
  BY DEF ProcessFlushRep, Flushed
<1>5. EntryOK(e) /\ e.where # "none"
  <2> DEFINE d == dir[a]
             k == m.sender
  <2>1. EntryOK(d) /\ k \in d.sharers /\ (d.sharers # {k} => d.state = "SHARED") /\ e = Flushed(d, k)
    BY <1>2, <1>3
  <2> HIDE DEF d, k, e
  <2> QED
    BY <2>1, FlushedEntryOK
<1>6. QueuesOK(Send(Consume(h), DataToDram(a, m.data)))
  <2>1. Msg("DRAM_WRITE_REQ", a, Home[a], m.data) \in Deliverable(Home[a])
    BY <1>1, MessageTypes
  <2>2. Sendable(DataToDram(a, m.data))
    BY <1>1, <2>1, SendableOne DEF DataToDram
  <2> QED
    BY <1>1, <2>2, SendOK
<1> HIDE DEF m, a, e
<1>7. ASSUME dir' = [dir EXCEPT ![a] = e], QueuesOK(queue'), UNCHANGED job,
             reqs' \in [Addrs -> Seq(Reqs)], \A b \in Addrs : Home[b] # h => reqs'[b] = reqs[b]
      PROVE  DirEffect(h)
  <2>1. EntriesOK(dir')
    BY <1>1, <1>2, <1>5, <1>7 DEF EntriesOK, EntryOK
  <2>2. job' = [job EXCEPT ![h] = Recv]
    BY <1>1, <1>2, <1>7
  <2> QED
    BY <1>1, <1>2, <1>7, <2>1, <2>2 DEF DirEffect
<1>8. CASE /\ dir' = [dir EXCEPT ![a] = e]
           /\ queue' = Send(Consume(h), DataToDram(a, m.data))
           /\ UNCHANGED <<reqs, job>>
  BY <1>2, <1>6, <1>7, <1>8
<1>9. CASE /\ reqs[a] # <<>>
           /\ dir' = [dir EXCEPT ![a] = e]
           /\ reqs' = [reqs EXCEPT ![a] = <<[Head(@) EXCEPT !.data = Garbage]>> \o Tail(@)]
           /\ queue' = Consume(h)
           /\ UNCHANGED job
  <2>1. Head(reqs[a]) \in Reqs /\ Tail(reqs[a]) \in Seq(Reqs)
    BY <1>1, <1>2, <1>9
  <2>2. [Head(reqs[a]) EXCEPT !.data = Garbage] \in Reqs
    BY <2>1 DEF Reqs, Data
  <2> DEFINE r2 == [Head(reqs[a]) EXCEPT !.data = Garbage]
             l == <<r2>> \o Tail(reqs[a])
  <2>3. l \in Seq(Reqs)
    BY <2>1, <2>2
  <2>4. reqs' = [reqs EXCEPT ![a] = l]
    BY <1>9
  <2> HIDE DEF l, r2
  <2>5. reqs' \in [Addrs -> Seq(Reqs)] /\ \A b \in Addrs : Home[b] # h => reqs'[b] = reqs[b]
    BY <1>1, <1>2, <2>3, <2>4
  <2> QED
    BY <1>1, <1>7, <1>9, <2>5
<1>10. CASE /\ reqs[a] # <<>>
            /\ \E o \in ProcessReq(a, e, Head(reqs[a]), m.data) :
                 Apply(a, o, dir, reqs,
                       IF Head(reqs[a]).type \in {"SH_REQ", "NULLIFY_REQ"}
                       THEN Send(Consume(h), DataToDram(a, m.data)) ELSE Consume(h))
  <2> DEFINE s == IF Head(reqs[a]).type \in {"SH_REQ", "NULLIFY_REQ"}
                  THEN Send(Consume(h), DataToDram(a, m.data)) ELSE Consume(h)
  <2>1. PICK o \in ProcessReq(a, e, Head(reqs[a]), m.data) : Apply(a, o, dir, reqs, s)
    BY <1>10
  <2>2. Head(reqs[a]) \in Reqs
    BY <1>1, <1>2, <1>10
  <2>3. EntryOK(o.entry) /\ o.req \in Reqs /\ Sendable(o.out)
    BY <1>1, <1>5, <2>1, <2>2, Outcomes, OutcomeOK
  <2>4. QueuesOK(s)
    BY <1>1, <1>6
  <2> HIDE DEF s
  <2> QED
    BY <1>1, <1>2, <1>10, <2>1, <2>3, <2>4, ApplyEffect
<1> QED
  BY <1>4, <1>8, <1>9, <1>10

\* WB_REP
LEMMA ProcessWbRepEffect ==
  ASSUME TypeInv, NEW h \in Nodes, ProcessWbRep(h)
  PROVE  DirEffect(h)
<1> DEFINE m == Received(h)
           a == m.addr
           e == [dir[a] EXCEPT !.owner = NoNode, !.state = "SHARED"]
<1>1. /\ a \in Addrs /\ Home[a] = h /\ m.sender \in Nodes /\ m.data \in Data
      /\ QueuesOK(Consume(h)) /\ job[h].at = "recv"
  BY ReceivedOK DEF ProcessWbRep, AnswerTypes, FilledTypes
<1>2. /\ reqs \in [Addrs -> Seq(Reqs)] /\ UNCHANGED mem
      /\ EntriesOK(dir) /\ EntryOK(dir[a]) /\ dir \in [Addrs -> Entries]
  BY <1>1 DEF TypeInv, TypeOK, DirectoryTypeOK, ProcessWbRep, EntriesOK
<1>3. /\ m.sender \in dir[a].sharers /\ reqs[a] # <<>> /\ Head(reqs[a]).type = "SH_REQ"
      /\ \E o \in ProcessShReq(a, e, Head(reqs[a]), m.data) : Apply(a, o, dir, reqs, Consume(h))
  BY DEF ProcessWbRep, WbRepExpected
<1>4. EntryOK(e) /\ e.where # "none"
  <2>1. dir[a] \in Entries
    BY <1>2 DEF EntryOK
  <2>2. e \in Entries /\ e.where = dir[a].where /\ e.sharers = dir[a].sharers /\ e.state = "SHARED"
    BY <2>1 DEF Entries
  <2>3. FewSharers(e)
    BY <1>2, <2>2, SharerCount DEF EntryOK
  <2> QED
    BY <1>2, <1>3, <2>2, <2>3 DEF EntryOK
<1> HIDE DEF m, a, e
<1>5. PICK o \in ProcessShReq(a, e, Head(reqs[a]), m.data) : Apply(a, o, dir, reqs, Consume(h))
  BY <1>3
<1>6. Head(reqs[a]) \in Reqs
  BY <1>1, <1>2, <1>3
<1>7. o \in ProcessReq(a, e, Head(reqs[a]), m.data)
  BY <1>3, <1>5 DEF ProcessReq
<1>8. EntryOK(o.entry) /\ o.req \in Reqs /\ Sendable(o.out)
  BY <1>1, <1>4, <1>6, <1>7, Outcomes, OutcomeOK
<1> QED
  BY <1>1, <1>2, <1>3, <1>5, <1>8, ApplyEffect

\* DRAM_READ_REP
LEMMA ProcessDRAMReplyEffect ==
  ASSUME TypeInv, NEW h \in Nodes, ProcessDRAMReply(h)
  PROVE  DirEffect(h)
<1> DEFINE m == Received(h)
           a == m.addr
           r == Head(reqs[a])
           type == IF r.type = "SH_REQ" /\ dir[a].state = "SHARED" THEN "SH_REP" ELSE "EX_REP"
           o == Reply(type, a, dir[a], r, m.data)
<1>1. /\ a \in Addrs /\ Home[a] = h /\ m.data \in Data
      /\ QueuesOK(Consume(h)) /\ job[h].at = "recv"
  BY ReceivedOK DEF ProcessDRAMReply, DramTypes, FilledTypes
<1>2. reqs \in [Addrs -> Seq(Reqs)] /\ UNCHANGED mem /\ EntriesOK(dir) /\ EntryOK(dir[a])
  BY <1>1 DEF TypeInv, TypeOK, DirectoryTypeOK, ProcessDRAMReply, EntriesOK
<1>3. reqs[a] # <<>> /\ Apply(a, o, dir, reqs, Consume(h))
  BY DEF ProcessDRAMReply, DramReplyExpected
<1>4. r \in Reqs /\ r.requester \in Nodes
  <2>1. r \in Reqs
    BY <1>1, <1>2, <1>3
  <2> QED
    BY <2>1 DEF Reqs
<1>5. Msg(type, a, Home[a], m.data) \in Deliverable(r.requester)
  BY <1>1, <1>4, MessageTypes
<1>6. o.entry = dir[a] /\ o.req = r /\ o.out = {To(r.requester, Msg(type, a, Home[a], m.data))}
  BY DEF Reply, Outcome
<1>7. Sendable(o.out)
  <2>1. \A k \in Nodes : \A x \in Deliverable(k) : Sendable({To(k, x)})
    BY SendableOne
  <2> HIDE DEF m, a, r, type, o
  <2> QED
    BY <1>4, <1>5, <1>6, <2>1
<1> HIDE DEF m, a, r, type, o
<1> QED
  BY <1>1, <1>2, <1>3, <1>4, <1>6, <1>7, ApplyEffect

\* DRAM_READ_REQ
LEMMA GetDataFromDramEffect ==
  ASSUME TypeInv, NEW h \in Nodes, GetDataFromDram(h)
  PROVE  DirEffect(h)
<1> DEFINE m == Received(h)
           a == m.addr
<1>1. /\ a \in Addrs /\ Home[a] = h /\ m \in Deliverable(h) /\ m.type = "DRAM_READ_REQ"
      /\ QueuesOK(Consume(h)) /\ job[h] = Recv /\ job[h].at = "recv"
  BY ReceivedOK DEF GetDataFromDram, DramTypes
<1>2. m.sender = Home[a]
  BY <1>1 DEF Deliverable, DramTypes
<1>3. /\ reqs \in [Addrs -> Seq(Reqs)] /\ mem \in [Addrs -> Data] /\ EntriesOK(dir)
      /\ job \in [Nodes -> Jobs]
  BY DEF TypeInv, TypeOK, SimThreadsTypeOK, DirectoryTypeOK
<1>4. Sendable({To(m.sender, Msg("DRAM_READ_REP", a, h, mem[a]))})
  <2>1. Msg("DRAM_READ_REP", a, Home[a], mem[a]) \in Deliverable(Home[a])
    BY <1>1, <1>3, MessageTypes
  <2> QED
    BY <1>1, <1>2, <2>1, SendableOne
<1>5. /\ queue' = Send(Consume(h), {To(m.sender, Msg("DRAM_READ_REP", a, h, mem[a]))})
      /\ UNCHANGED <<job, dir, reqs, mem>>
  BY DEF GetDataFromDram
<1> HIDE DEF m, a
<1>6. QueuesOK(queue')
  BY <1>1, <1>4, <1>5, SendOK
<1>7. job' = [job EXCEPT ![h] = Recv]
  BY <1>1, <1>3, <1>5
<1> QED
  BY <1>1, <1>3, <1>5, <1>6, <1>7 DEF DirEffect

\* DRAM_WRITE_REQ
LEMMA PutDataToDramEffect ==
  ASSUME TypeInv, NEW h \in Nodes, PutDataToDram(h)
  PROVE  DirEffect(h)
<1>1. /\ Received(h).addr \in Addrs /\ Received(h).data \in Data
      /\ QueuesOK(Consume(h)) /\ job[h] = Recv /\ job[h].at = "recv"
  BY ReceivedOK DEF PutDataToDram, FilledTypes
<1>2. /\ reqs \in [Addrs -> Seq(Reqs)] /\ mem \in [Addrs -> Data] /\ EntriesOK(dir)
      /\ job \in [Nodes -> Jobs]
  BY DEF TypeInv, TypeOK, SimThreadsTypeOK, DirectoryTypeOK
<1>3. /\ queue' = Consume(h) /\ UNCHANGED <<job, dir, reqs>>
      /\ mem' = [mem EXCEPT ![Received(h).addr] = Received(h).data]
  BY DEF PutDataToDram
<1>4. job' = [job EXCEPT ![h] = Recv] /\ mem' \in [Addrs -> Data]
  BY <1>1, <1>2, <1>3
<1> QED
  BY <1>1, <1>2, <1>3, <1>4 DEF DirEffect

\* A step of the home thread.
LEMMA DirectoryStepKeepsTypes ==
  ASSUME TypeInv, NEW h \in Nodes, DirectoryStep(h), UNCHANGED cacheVars
  PROVE  TypeInv'
<1>1. DirEffect(h)
  BY HandleReqEffect, ProcessNextReqEffect, ProcessInvRepEffect, ProcessFlushRepEffect,
     ProcessWbRepEffect, ProcessDRAMReplyEffect, GetDataFromDramEffect, PutDataToDramEffect
     DEF DirectoryStep
<1> QED
  BY <1>1, DirEffectKeepsTypes

-----------------------------------------------------------------------------
(* The types and the steps of the caches.                                  *)

\* Such a step keeps the invariant if it keeps its parts.
LEMMA CacheStepTypes ==
  ASSUME TypeInv, UNCHANGED directoryVars, QueuesOK(queue'), LinesOK(line'), WaitersOK(waiters'),
         JobsOK', job' \in [Nodes -> Jobs], pc' \in [Cores -> {"idle", "waiting", "woken"}],
         ops' \in [Cores -> 0 .. MaxOps], last' \in [Addrs -> Versions]
  PROVE  TypeInv'
<1>1. DirectoryTypeOK' /\ EntriesOK(dir')
  BY DEF TypeInv, TypeOK, DirectoryTypeOK, directoryVars
<1> QED
  BY <1>1 DEF TypeInv, TypeOK, SimThreadsTypeOK, LastLevelCacheTypeOK, QueuesOK, LinesOK, WaitersOK

\* What a thread is busy with does not change.
LEMMA SameJobsOK ==
  ASSUME JobsOK, UNCHANGED <<job, reqs>>,
         \A c \in Cores : pc'[c] = "woken" => pc[c] = "woken",
         \A n \in Nodes, a \in Addrs : waiters[n][a] # <<>> => waiters'[n][a] # <<>>
  PROVE  JobsOK'
  BY DEF JobsOK

\* Changing one line.
LEMMA PutLine ==
  ASSUME NEW ls, LinesOK(ls), NEW n \in Nodes, NEW a \in Addrs, NEW l \in Lines,
         l.state # "INVALID" => l.data \in Data
  PROVE  LinesOK([ls EXCEPT ![n][a] = l])
  BY DEF LinesOK

\* Changing the state of a line that is there.
LEMMA PutState ==
  ASSUME NEW ls, LinesOK(ls), NEW n \in Nodes, NEW a \in Addrs, NEW st \in CStates,
         ls[n][a].state # "INVALID"
  PROVE  /\ LinesOK([ls EXCEPT ![n][a].state = st])
         /\ \A k \in Nodes, b \in Addrs :
              [ls EXCEPT ![n][a].state = st][k][b].state =
                IF k = n /\ b = a THEN st ELSE ls[k][b].state
<1> DEFINE l == [ls[n][a] EXCEPT !.state = st]
<1>1. ls[n][a] \in Lines /\ ls[n][a].data \in Data
  BY DEF LinesOK
<1>2. l \in Lines /\ l.data \in Data /\ l.state = st
  BY <1>1 DEF Lines
<1>3. [ls EXCEPT ![n][a].state = st] = [ls EXCEPT ![n][a] = l]
  OBVIOUS
<1> HIDE DEF l
<1>4. LinesOK([ls EXCEPT ![n][a] = l])
  BY <1>2, PutLine
<1> DEFINE f == [ls EXCEPT ![n][a].state = st]
<1>5. \A k \in Nodes, b \in Addrs : f[k][b] = IF k = n /\ b = a THEN l ELSE ls[k][b]
  BY <1>3 DEF LinesOK
<1>6. LinesOK(f)
  BY <1>3, <1>4
<1> HIDE DEF f
<1>7. \A k \in Nodes, b \in Addrs : f[k][b].state = IF k = n /\ b = a THEN st ELSE ls[k][b].state
  BY <1>2, <1>5
<1> QED
  BY <1>6, <1>7 DEF f

\* ws with the waiters s for block a of node n.
Put(ws, n, a, s) == [ws EXCEPT ![n][a] = s]

\* Changing the waiters of one block.
LEMMA PutWaiters ==
  ASSUME NEW ws, WaitersOK(ws), NEW n \in Nodes, NEW a \in Addrs, NEW s \in Seq(WaitersOf(n))
  PROVE  /\ WaitersOK(Put(ws, n, a, s))
         /\ \A k \in Nodes, b \in Addrs :
              Put(ws, n, a, s)[k][b] = IF k = n /\ b = a THEN s ELSE ws[k][b]
         /\ \A k \in Nodes : k # n => Put(ws, n, a, s)[k] = ws[k]
<1> DEFINE f == Put(ws, n, a, s)
<1>1. /\ ws \in [Nodes -> [Addrs -> Seq(Waiters)]]
      /\ \A k \in Nodes : ws[k] \in [Addrs -> Seq(WaitersOf(k))]
  BY DEF WaitersOK
<1>2. s \in Seq(Waiters)
  BY DEF WaitersOf
<1>3. f \in [Nodes -> [Addrs -> Seq(Waiters)]]
  BY <1>1, <1>2 DEF Put
<1>4. /\ \A k \in Nodes, b \in Addrs : f[k][b] = IF k = n /\ b = a THEN s ELSE ws[k][b]
      /\ \A k \in Nodes : k # n => f[k] = ws[k]
  BY <1>1 DEF Put
<1>5. ASSUME NEW k \in Nodes PROVE f[k] \in [Addrs -> Seq(WaitersOf(k))]
  BY <1>1 DEF Put
<1> QED
  BY <1>3, <1>4, <1>5 DEF WaitersOK

\* The access of a core to a line that permits it.
LEMMA AccessOK ==
  ASSUME TypeInv, NEW n \in Nodes, NEW a \in Addrs, NEW x, Access(n, a, x)
  PROVE  LinesOK(line') /\ last' \in [Addrs -> Versions]
<1>1. last \in [Addrs -> Versions] /\ LinesOK(line)
  BY DEF TypeInv, TypeOK, LastLevelCacheTypeOK
<1>2. CASE x
  <2> DEFINE v == (last[a] + 1) % NumVersions
             l == [state |-> "MODIFIED", data |-> v]
  <2>1. last[a] \in Nat /\ NumVersions \in Nat /\ NumVersions > 0
    BY <1>1 DEF Versions
  <2>2. v \in Versions
    BY <2>1 DEF Versions
  <2>3. last' = [last EXCEPT ![a] = v] /\ line' = [line EXCEPT ![n][a] = l]
    BY <1>2 DEF Access
  <2>4. v \in Data
    BY <2>2 DEF Data
  <2> HIDE DEF v
  <2>5. l \in Lines /\ l.data \in Data
    BY <2>4 DEF Lines, CStates
  <2> HIDE DEF l
  <2> QED
    BY <1>1, <2>2, <2>3, <2>5, PutLine
<1>3. CASE ~ x
  BY <1>1, <1>3 DEF Access
<1> QED
  BY <1>2, <1>3

\* A request is a message that may be sent home.
LEMMA RequestOK ==
  ASSUME NEW n \in Nodes, NEW a \in Addrs, NEW t \in RequestTypes, NEW q, QueuesOK(q)
  PROVE  QueuesOK(Send(q, Request(n, t, a)))
<1>1. Msg(t, a, n, Null) \in Deliverable(Home[a])
  BY MessageTypes
<1>2. Sendable(Request(n, t, a))
  BY <1>1, SendableOne DEF Request
<1> QED
  BY <1>2, SendOK

\* A hit of core c.
LEMMA HitTypes ==
  ASSUME TypeInv, MaxOps \in Nat, NEW c \in Cores, NEW a \in Addrs, NEW x \in BOOLEAN,
         Hit(c, a, x), UNCHANGED directoryVars
  PROVE  TypeInv'
<1>1. /\ Access(LLC[c], a, x) /\ LLC[c] \in Nodes /\ ops[c] < MaxOps
      /\ ops' = [ops EXCEPT ![c] = @ + 1] /\ UNCHANGED <<queue, job, waiters, pc>>
  BY DEF Hit
<1>2. LinesOK(line') /\ last' \in [Addrs -> Versions]
  BY <1>1, AccessOK
<1>3. /\ ops \in [Cores -> 0 .. MaxOps] /\ QueuesOK(queue) /\ WaitersOK(waiters) /\ JobsOK
      /\ job \in [Nodes -> Jobs] /\ pc \in [Cores -> {"idle", "waiting", "woken"}]
  BY DEF TypeInv, TypeOK, SimThreadsTypeOK, LastLevelCacheTypeOK
<1>4. ops' \in [Cores -> 0 .. MaxOps]
  BY <1>1, <1>3
<1>5. JobsOK'
  BY <1>1, <1>3, SameJobsOK DEF directoryVars
<1> QED
  BY <1>1, <1>2, <1>3, <1>4, <1>5, CacheStepTypes

\* A miss of core c.
LEMMA MissTypes ==
  ASSUME TypeInv, MaxOps \in Nat, NEW c \in Cores, NEW a \in Addrs, NEW x \in BOOLEAN,
         Miss(c, a, x), UNCHANGED directoryVars
  PROVE  TypeInv'
<1> DEFINE n == LLC[c]
           w == [core |-> c, exclusive |-> x]
           t == IF ~ x THEN "SH_REQ"
                ELSE IF line[n][a].state = "SHARED" THEN "UPGRADE_REQ" ELSE "EX_REQ"
           first == NobodyWaits(n, a)
<1>1. /\ n \in Nodes /\ ops[c] < MaxOps
      /\ waiters' = [waiters EXCEPT ![n][a] = Append(@, w)]
      /\ queue' = IF first THEN Send(queue, Request(n, t, a)) ELSE queue
      /\ line' = IF first /\ t = "UPGRADE_REQ"
                 THEN [line EXCEPT ![n][a].state = "SHARED_UPGRADING"] ELSE line
      /\ pc' = [pc EXCEPT ![c] = "waiting"] /\ ops' = [ops EXCEPT ![c] = @ + 1]
      /\ UNCHANGED <<job, last>>
  BY DEF Miss
<1>2. w \in WaitersOf(n) /\ w \in Waiters /\ t \in RequestTypes
  BY DEF WaitersOf, Waiters, RequestTypes
<1>3. t = "UPGRADE_REQ" => line[n][a].state = "SHARED"
  OBVIOUS
<1> HIDE DEF w, t, first
<1>4. /\ ops \in [Cores -> 0 .. MaxOps] /\ QueuesOK(queue) /\ WaitersOK(waiters) /\ LinesOK(line)
      /\ JobsOK /\ job \in [Nodes -> Jobs] /\ pc \in [Cores -> {"idle", "waiting", "woken"}]
      /\ last \in [Addrs -> Versions]
  BY DEF TypeInv, TypeOK, SimThreadsTypeOK, LastLevelCacheTypeOK
<1>5. /\ ops' \in [Cores -> 0 .. MaxOps] /\ pc' \in [Cores -> {"idle", "waiting", "woken"}]
      /\ \A d \in Cores : pc'[d] = "woken" => pc[d] = "woken"
  BY <1>1, <1>4
<1>6. QueuesOK(queue')
  BY <1>1, <1>2, <1>4, RequestOK
<1>7. LinesOK(line')
  <2>1. CASE first /\ t = "UPGRADE_REQ"
    <3>1. line[n][a].state # "INVALID" /\ "SHARED_UPGRADING" \in CStates
      BY <1>3, <2>1 DEF CStates
    <3>2. LinesOK([line EXCEPT ![n][a].state = "SHARED_UPGRADING"])
      BY <1>1, <1>4, <3>1, PutState
    <3> QED
      BY <1>1, <2>1, <3>2
  <2>2. CASE ~ (first /\ t = "UPGRADE_REQ")
    BY <1>1, <1>4, <2>2
  <2> QED
    BY <2>1, <2>2
<1> HIDE DEF n
<1>8. Append(waiters[n][a], w) \in Seq(WaitersOf(n)) /\ Append(waiters[n][a], w) # <<>>
  <2>1. waiters[n][a] \in Seq(WaitersOf(n))
    BY <1>1, <1>4 DEF WaitersOK
  <2> QED
    BY <1>2, <2>1
<1> DEFINE s == Append(waiters[n][a], w)
<1>11. /\ n \in Nodes /\ s \in Seq(WaitersOf(n)) /\ s # <<>>
       /\ WaitersOK(waiters) /\ waiters' = [waiters EXCEPT ![n][a] = s]
  BY <1>1, <1>4, <1>8
<1> HIDE DEF s
<1>9. /\ WaitersOK(waiters')
      /\ \A k \in Nodes, b \in Addrs : waiters[k][b] # <<>> => waiters'[k][b] # <<>>
  <2>1. waiters' = Put(waiters, n, a, s)
    BY <1>11 DEF Put
  <2>2. /\ WaitersOK(Put(waiters, n, a, s))
        /\ \A k \in Nodes, b \in Addrs :
             Put(waiters, n, a, s)[k][b] = IF k = n /\ b = a THEN s ELSE waiters[k][b]
    BY <1>11, PutWaiters
  <2> QED
    BY <1>11, <2>1, <2>2
<1>10. JobsOK'
  BY <1>1, <1>4, <1>5, <1>9, SameJobsOK DEF directoryVars
<1> QED
  BY <1>1, <1>4, <1>5, <1>6, <1>7, <1>9, <1>10, CacheStepTypes

\* The access of a core that was woken.
LEMMA ResumeTypes ==
  ASSUME TypeInv, NEW c \in Cores, Resume(c), UNCHANGED directoryVars
  PROVE  TypeInv'
<1> DEFINE n == LLC[c]
           a == job[n].addr
<1>1. /\ pc[c] = "woken" /\ n \in Nodes /\ Access(n, a, Head(waiters[n][a]).exclusive)
      /\ pc' = [pc EXCEPT ![c] = "idle"] /\ UNCHANGED <<queue, job, waiters, ops>>
  BY DEF Resume
<1>2. /\ QueuesOK(queue) /\ WaitersOK(waiters) /\ ops \in [Cores -> 0 .. MaxOps]
      /\ JobsOK /\ job \in [Nodes -> Jobs] /\ pc \in [Cores -> {"idle", "waiting", "woken"}]
  BY DEF TypeInv, TypeOK, SimThreadsTypeOK, LastLevelCacheTypeOK
<1>3. a \in Addrs
  BY <1>1, <1>2 DEF JobsOK
<1>4. LinesOK(line') /\ last' \in [Addrs -> Versions]
  BY <1>1, <1>3, AccessOK
<1> HIDE DEF n, a
<1>5. pc' \in [Cores -> {"idle", "waiting", "woken"}] /\ \A d \in Cores : pc'[d] = "woken" => pc[d] = "woken"
  BY <1>1, <1>2
<1>6. JobsOK'
  BY <1>1, <1>2, <1>5, SameJobsOK DEF directoryVars
<1> QED
  BY <1>1, <1>2, <1>4, <1>5, <1>6, CacheStepTypes

\* What a thread does once the line and the messages of its handler are right.
LEMMA ServeWaitersTypes ==
  ASSUME TypeInv, NEW n \in Nodes, NEW a \in Addrs, ~ StackLocked(n),
         NEW ls, LinesOK(ls), NEW ws, WaitersOK(ws), NEW q, QueuesOK(q),
         \A k \in Nodes : k # n => ws[k] = waiters[k],
         ServeWaiters(n, a, ls, ws, q), UNCHANGED <<ops, last>>, UNCHANGED directoryVars
  PROVE  TypeInv'
<1>1. /\ ops \in [Cores -> 0 .. MaxOps] /\ last \in [Addrs -> Versions]
      /\ JobsOK /\ job \in [Nodes -> Jobs] /\ pc \in [Cores -> {"idle", "waiting", "woken"}]
  BY DEF TypeInv, TypeOK, SimThreadsTypeOK, LastLevelCacheTypeOK
<1>2. waiters' = ws
  BY DEF ServeWaiters
<1>3. \A c \in Cores : LLC[c] = n => pc[c] # "woken"
  BY DEF StackLocked
<1>4. ASSUME LinesOK(line'), QueuesOK(queue'), NEW j \in Jobs, job' = [job EXCEPT ![n] = j],
             j = Recv \/ (j = Busy("waiters", a) /\ ws[n][a] # <<>>),
             pc' \in [Cores -> {"idle", "waiting", "woken"}],
             \A c \in Cores : pc'[c] = "woken" => pc[c] = "woken"
                                                  \/ (LLC[c] = n /\ j = Busy("waiters", a))
      PROVE  TypeInv'
  <2>1. job' \in [Nodes -> Jobs] /\ reqs' = reqs
    BY <1>1, <1>4 DEF directoryVars
  <2>2. ASSUME NEW k \in Nodes
        PROVE  /\ job'[k].at = "recv" => job'[k] = Recv
               /\ job'[k].at = "waiters" => job'[k].addr \in Addrs /\ waiters'[k][job'[k].addr] # <<>>
               /\ job'[k].at = "nextReq" => /\ job'[k].addr \in Addrs /\ Home[job'[k].addr] = k
                                            /\ reqs'[job'[k].addr] # <<>>
    <3>1. CASE k = n
      BY <1>1, <1>2, <1>4, <3>1 DEF Recv, Busy
    <3>2. CASE k # n
      BY <1>1, <1>2, <1>4, <2>1, <3>2 DEF JobsOK
    <3> QED
      BY <3>1, <3>2
  <2>3. ASSUME NEW c \in Cores, pc'[c] = "woken" PROVE job'[LLC[c]].at = "waiters"
    <3>1. CASE LLC[c] = n
      BY <1>1, <1>3, <1>4, <2>3, <3>1 DEF Busy
    <3>2. CASE LLC[c] # n
      BY <1>1, <1>4, <2>3, <3>2 DEF JobsOK
    <3> QED
      BY <3>1, <3>2
  <2>4. JobsOK'
    BY <2>2, <2>3 DEF JobsOK
  <2> QED
    BY <1>1, <1>2, <1>4, <2>1, <2>4, CacheStepTypes
<1>5. Recv \in Jobs /\ Busy("waiters", a) \in Jobs
  BY DEF Recv, Busy, Jobs
<1>6. CASE ws[n][a] = <<>> /\ line' = ls /\ queue' = q /\ SetJob(n, Recv) /\ UNCHANGED pc
  BY <1>1, <1>4, <1>5, <1>6 DEF SetJob
<1>7. CASE /\ NeedsUpgrade(Head(ws[n][a]), ls[n][a].state)
           /\ line' = [ls EXCEPT ![n][a].state = "SHARED_UPGRADING"]
           /\ queue' = Send(q, Request(n, "UPGRADE_REQ", a))
           /\ SetJob(n, Recv) /\ UNCHANGED pc
  <2>1. ls[n][a].state # "INVALID" /\ "SHARED_UPGRADING" \in CStates /\ "UPGRADE_REQ" \in RequestTypes
    BY <1>7 DEF NeedsUpgrade, CStates, RequestTypes
  <2>2. LinesOK(line') /\ QueuesOK(queue')
    BY <1>7, <2>1, PutState, RequestOK
  <2> QED
    BY <1>1, <1>4, <1>5, <1>7, <2>2 DEF SetJob
<1>8. CASE /\ ws[n][a] # <<>> /\ line' = ls /\ queue' = q
           /\ SetJob(n, Busy("waiters", a))
           /\ pc' = [pc EXCEPT ![Head(ws[n][a]).core] = "woken"]
  <2>1. Head(ws[n][a]) \in WaitersOf(n)
    BY <1>8 DEF WaitersOK
  <2>2. Head(ws[n][a]).core \in Cores /\ LLC[Head(ws[n][a]).core] = n
    BY <2>1 DEF WaitersOf, Waiters
  <2>3. /\ pc' \in [Cores -> {"idle", "waiting", "woken"}]
        /\ \A c \in Cores : pc'[c] = "woken" => pc[c] = "woken" \/ LLC[c] = n
    BY <1>1, <1>8, <2>2
  <2> QED
    BY <1>4, <1>5, <1>8, <2>3 DEF SetJob
<1> QED
  BY <1>6, <1>7, <1>8 DEF ServeWaiters

\* A message that tells the directory of an eviction.
LEMMA EvictOK ==
  ASSUME LinesOK(line), NEW n \in Nodes, NEW v \in Addrs
  PROVE  Sendable(Evict(n, v))
<1>1. /\ Msg("INV_REP", v, n, Null) \in Deliverable(Home[v])
      /\ \A data \in Data : Msg("FLUSH_REP", v, n, data) \in Deliverable(Home[v])
  BY MessageTypes
<1>2. line[n][v].state = "MODIFIED" => line[n][v].data \in Data
  BY DEF LinesOK
<1>3. \A m \in Deliverable(Home[v]) : Sendable({To(Home[v], m)})
  BY SendableOne
<1> QED
  BY <1>1, <1>2, <1>3 DEF Evict

\* The messages of an eviction, and the lines that stay: the victim, if there is one, is
\* another block.
LEMMA EvictionOK ==
  ASSUME TypeInv, NEW n \in Nodes, NEW a \in Addrs, line[n][a].state = "INVALID",
         NEW l \in Lines, l.data \in Data,
         NEW evicted \in Evictions(n), NEW q, QueuesOK(q)
  PROVE  /\ QueuesOK(Send(q, UNION {Evict(n, v) : v \in evicted}))
         /\ LinesOK(InsertCacheBlock(n, a, l, evicted))
         /\ evicted = {} \/ \E v \in Addrs : /\ evicted = {v} /\ v # a
                                             /\ line[n][v].state \notin {"INVALID", "SHARED_UPGRADING"}
<1>1. LinesOK(line)
  BY DEF TypeInv
<1>2. evicted = {} \/ \E v \in Addrs : /\ evicted = {v} /\ v # a
                                       /\ line[n][v].state \notin {"INVALID", "SHARED_UPGRADING"}
  BY DEF Evictions, Victims, Resident
<1>3. Sendable(UNION {Evict(n, v) : v \in evicted})
  <2>1. CASE evicted = {}
    BY <2>1 DEF Sendable
  <2>2. CASE \E v \in Addrs : evicted = {v}
    <3>1. PICK v \in Addrs : evicted = {v}
      BY <2>2
    <3>2. UNION {Evict(n, w) : w \in evicted} = Evict(n, v)
      BY <3>1
    <3> QED
      BY <1>1, <3>1, <3>2, EvictOK
  <2> QED
    BY <1>2, <2>1, <2>2
<1>4. LinesOK(InsertCacheBlock(n, a, l, evicted))
  <2> DEFINE g == [b \in Addrs |-> IF b = a THEN l ELSE IF b \in evicted THEN NoLine ELSE line[n][b]]
  <2>1. InsertCacheBlock(n, a, l, evicted) = [line EXCEPT ![n] = g]
    BY DEF InsertCacheBlock
  <2>2. NoLine \in Lines /\ NoLine.state = "INVALID"
    BY DEF NoLine, Lines, CStates
  <2>3. g \in [Addrs -> Lines] /\ \A b \in Addrs : g[b].state # "INVALID" => g[b].data \in Data
    BY <1>1, <2>2 DEF LinesOK
  <2> HIDE DEF g
  <2> QED
    BY <1>1, <2>1, <2>3 DEF LinesOK
<1> QED
  BY <1>2, <1>3, <1>4, SendOK

\* EX_REP, SH_REP
LEMMA ProcessRepTypes ==
  ASSUME TypeInv, NEW n \in Nodes, ProcessRep(n), UNCHANGED directoryVars
  PROVE  TypeInv'
<1> DEFINE m == Received(n)
           a == m.addr
           l == [state |-> IF m.type = "EX_REP" THEN "EXCLUSIVE" ELSE "SHARED", data |-> m.data]
<1>1. /\ ~ StackLocked(n) /\ UNCHANGED <<ops, last>> /\ line[n][a].state = "INVALID"
      /\ \E evicted \in Evictions(n) :
           ServeWaiters(n, a, InsertCacheBlock(n, a, l, evicted), waiters,
                        Send(Consume(n), UNION {Evict(n, v) : v \in evicted}))
  BY DEF ProcessRep
<1>2. a \in Addrs /\ m.data \in Data /\ QueuesOK(Consume(n))
  <2>1. Receives(n, {"EX_REP", "SH_REP"})
    BY DEF ProcessRep
  <2> QED
    BY <2>1, ReceivedOK DEF FilledTypes
<1>3. l \in Lines /\ l.data \in Data
  BY <1>2 DEF Lines, CStates
<1>4. WaitersOK(waiters)
  BY DEF TypeInv
<1> HIDE DEF m, a, l
<1>5. PICK evicted \in Evictions(n) :
        ServeWaiters(n, a, InsertCacheBlock(n, a, l, evicted), waiters,
                     Send(Consume(n), UNION {Evict(n, v) : v \in evicted}))
  BY <1>1
<1>6. /\ QueuesOK(Send(Consume(n), UNION {Evict(n, v) : v \in evicted}))
      /\ LinesOK(InsertCacheBlock(n, a, l, evicted))
  BY <1>1, <1>2, <1>3, EvictionOK
<1> QED
  BY <1>1, <1>2, <1>4, <1>5, <1>6, ServeWaitersTypes

\* UPGRADE_REP
LEMMA ProcessUpgradeRepTypes ==
  ASSUME TypeInv, NEW n \in Nodes, ProcessUpgradeRep(n), UNCHANGED directoryVars
  PROVE  TypeInv'
<1> DEFINE a == Received(n).addr
<1>1. /\ ~ StackLocked(n) /\ UNCHANGED <<ops, last>> /\ line[n][a].state = "SHARED_UPGRADING"
      /\ ServeWaiters(n, a, [line EXCEPT ![n][a].state = "MODIFIED"], waiters, Consume(n))
  BY DEF ProcessUpgradeRep
<1>2. a \in Addrs /\ QueuesOK(Consume(n))
  <2>1. Receives(n, {"UPGRADE_REP"})
    BY DEF ProcessUpgradeRep
  <2> QED
    BY <2>1, ReceivedOK
<1>3. WaitersOK(waiters) /\ LinesOK(line)
  BY DEF TypeInv
<1> HIDE DEF a
<1>4. LinesOK([line EXCEPT ![n][a].state = "MODIFIED"])
  <2>1. line[n][a].state # "INVALID" /\ "MODIFIED" \in CStates
    BY <1>1 DEF CStates
  <2> QED
    BY <1>2, <1>3, <2>1, PutState
<1> QED
  BY <1>1, <1>2, <1>3, <1>4, ServeWaitersTypes

\* The next waiter.
LEMMA NextWaiterTypes ==
  ASSUME TypeInv, NEW n \in Nodes, NextWaiter(n), UNCHANGED directoryVars
  PROVE  TypeInv'
<1> DEFINE a == job[n].addr
           ws == Dequeued(n, a)
<1>1. /\ job[n].at = "waiters" /\ ~ StackLocked(n) /\ UNCHANGED <<ops, last>>
      /\ ServeWaiters(n, a, line, ws, queue)
  BY DEF NextWaiter
<1>2. a \in Addrs /\ waiters[n][a] # <<>> /\ WaitersOK(waiters) /\ LinesOK(line) /\ QueuesOK(queue)
  BY <1>1 DEF TypeInv, JobsOK
<1> DEFINE s == Tail(waiters[n][a])
<1>3. s \in Seq(WaitersOf(n)) /\ ws = Put(waiters, n, a, s)
  BY <1>2 DEF WaitersOK, Dequeued, Put
<1> HIDE DEF a, s
<1>4. WaitersOK(ws) /\ \A k \in Nodes : k # n => ws[k] = waiters[k]
  <2> HIDE DEF ws
  <2> QED
    BY <1>2, <1>3, PutWaiters
<1> HIDE DEF ws
<1> QED
  BY <1>1, <1>2, <1>4, ServeWaitersTypes

\* INV_REQ, FLUSH_REQ, WB_REQ
LEMMA ProcessCommandTypes ==
  ASSUME TypeInv, NEW n \in Nodes, ProcessCommand(n), UNCHANGED directoryVars
  PROVE  TypeInv'
<1> DEFINE m == Received(n)
           a == m.addr
           l == line[n][a]
           data == IF m.type = "INV_REQ" THEN Null
                   ELSE IF m.type = "WB_REQ" /\ l.state = "SHARED_UPGRADING" THEN Garbage
                   ELSE l.data
           t == IF m.type = "INV_REQ" THEN "INV_REP"
                ELSE IF m.type = "FLUSH_REQ" THEN "FLUSH_REP" ELSE "WB_REP"
           l2 == IF m.type # "WB_REQ" THEN NoLine
                 ELSE IF l.state = "SHARED_UPGRADING" THEN l ELSE [l EXCEPT !.state = "SHARED"]
<1>1. Receives(n, CommandTypes) /\ UNCHANGED <<job, waiters, pc, ops, last>>
  BY DEF ProcessCommand
<1>2. /\ a \in Addrs /\ QueuesOK(Consume(n)) /\ m.type \in CommandTypes /\ m \in Deliverable(n)
  BY <1>1, ReceivedOK
<1>3. m.sender = Home[a]
  BY <1>2 DEF Deliverable
<1>4. IF l.state = "INVALID"
      THEN queue' = Consume(n) /\ UNCHANGED line
      ELSE /\ queue' = Send(Consume(n), {To(m.sender, Msg(t, a, n, data))})
           /\ line' = [line EXCEPT ![n][a] = l2]
  BY <1>2 DEF ProcessCommand, CommandTypes
<1>5. /\ LinesOK(line) /\ WaitersOK(waiters) /\ JobsOK
      /\ ops \in [Cores -> 0 .. MaxOps] /\ last \in [Addrs -> Versions]
      /\ job \in [Nodes -> Jobs] /\ pc \in [Cores -> {"idle", "waiting", "woken"}]
  BY DEF TypeInv, TypeOK, SimThreadsTypeOK, LastLevelCacheTypeOK
<1>6. l \in Lines /\ (l.state # "INVALID" => l.data \in Data)
  BY <1>2, <1>5 DEF LinesOK
<1>7. l.state # "INVALID" => l2 \in Lines /\ (l2.state # "INVALID" => l2.data \in Data)
  BY <1>6 DEF Lines, CStates, NoLine
<1>8. l.state # "INVALID" => Msg(t, a, n, data) \in Deliverable(Home[a])
  <2>1. /\ \A d \in Data : /\ Msg("FLUSH_REP", a, n, d) \in Deliverable(Home[a])
                           /\ Msg("WB_REP", a, n, d) \in Deliverable(Home[a])
        /\ Msg("INV_REP", a, n, Null) \in Deliverable(Home[a])
    BY <1>2, MessageTypes
  <2>2. Garbage \in Data
    BY DEF Data
  <2> QED
    BY <1>2, <1>6, <2>1, <2>2 DEF CommandTypes
<1> HIDE DEF m, a, l, data, t, l2
<1>9. QueuesOK(queue') /\ LinesOK(line')
  <2>1. CASE l.state = "INVALID"
    BY <1>2, <1>4, <1>5, <2>1
  <2>2. CASE l.state # "INVALID"
    <3>1. Sendable({To(m.sender, Msg(t, a, n, data))})
      BY <1>2, <1>3, <1>8, <2>2, SendableOne
    <3>2. QueuesOK(queue')
      BY <1>2, <1>4, <2>2, <3>1, SendOK
    <3> QED
      BY <1>2, <1>4, <1>5, <1>7, <2>2, <3>2, PutLine
  <2> QED
    BY <2>1, <2>2
<1>10. JobsOK'
  BY <1>1, <1>5, SameJobsOK DEF directoryVars
<1> QED
  BY <1>1, <1>5, <1>9, <1>10, CacheStepTypes

-----------------------------------------------------------------------------
(* The type invariant.                                                     *)

\* It holds at the start.
LEMMA InitTypes == Init => TypeInv
<1> SUFFICES ASSUME Init PROVE TypeInv
  OBVIOUS
<1> USE DEF Init, SimThreadsInit, DirectoryInit, LastLevelCacheInit
<1>1. QueuesOK(queue) /\ SimThreadsTypeOK
  BY DEF QueuesOK, SimThreadsTypeOK, Recv, Jobs
<1>2. NoEntry \in Entries /\ EntryOK(NoEntry)
  BY SharerCount DEF NoEntry, Entries, EntryOK
<1>3. EntriesOK(dir) /\ DirectoryTypeOK
  BY <1>2 DEF EntriesOK, DirectoryTypeOK, Data, Versions
<1>4. NoLine \in Lines /\ NoLine.state = "INVALID"
  BY DEF NoLine, Lines, CStates
<1>5. LinesOK(line) /\ WaitersOK(waiters)
  BY <1>4 DEF LinesOK, WaitersOK
<1>6. LastLevelCacheTypeOK
  BY <1>4, MaxOpsAssumption DEF LastLevelCacheTypeOK, Versions
<1>7. JobsOK
  BY DEF JobsOK, Recv
<1> QED
  BY <1>1, <1>3, <1>5, <1>6, <1>7 DEF TypeInv, TypeOK

\* Each step keeps it.
LEMMA StepTypes == TypeInv /\ [Next]_vars => TypeInv'
<1> SUFFICES ASSUME TypeInv, [Next]_vars PROVE TypeInv'
  OBVIOUS
<1>1. CASE UNCHANGED vars
  BY <1>1 DEF vars, simThreadVars, directoryVars, cacheVars, TypeInv, TypeOK, SimThreadsTypeOK,
              DirectoryTypeOK, LastLevelCacheTypeOK, JobsOK
<1>2. CASE \E n \in Nodes : SimThreadStep(n)
  <2>1. PICK n \in Nodes : SimThreadStep(n)
    BY <1>2
  <2>2. CASE DirectoryStep(n) /\ UNCHANGED cacheVars
    BY <2>2, DirectoryStepKeepsTypes
  <2>3. CASE CacheStep(n) /\ UNCHANGED directoryVars
    BY <2>3, ProcessRepTypes, ProcessUpgradeRepTypes, NextWaiterTypes, ProcessCommandTypes
       DEF CacheStep
  <2> QED
    BY <2>1, <2>2, <2>3 DEF SimThreadStep
<1>3. CASE \E c \in Cores : CoreRuns(c)
  BY <1>3, MaxOpsAssumption, HitTypes, MissTypes, ResumeTypes DEF CoreRuns, CoreStep
<1> QED
  BY <1>1, <1>2, <1>3 DEF Next, Done

\* Each message goes where its handler is and carries the data its type says, each entry
\* of the directory has sharers as its state says and one owner if a cache may write, and
\* no thread is at a request or a waiter that is gone.
THEOREM TypesHold == Spec => []TypeInv
<1> QED
  BY InitTypes, StepTypes, PTL DEF Spec

\* The types of the state of the whole protocol.
THEOREM CoherenceTypesHold == Spec => []TypeOK
<1>1. TypeInv => TypeOK
  BY DEF TypeInv
<1> QED
  BY <1>1, TypesHold, PTL

-----------------------------------------------------------------------------
(* The waiters of a block.                                                 *)

\* While a thread serves the waiters of a block, its line stays readable, and the core
\* that it woke is the first waiter and finds what it needs.
WaitersInv ==
  /\ \A n \in Nodes : job[n].at = "waiters" => Readable(line[n][job[n].addr].state)
  /\ WokenCoreHits

\* A thread that wakes a core, or goes on, after its handler has left the line readable.
LEMMA ServeWaitersWakes ==
  ASSUME TypeInv, WaitersInv, NEW n \in Nodes, NEW a \in Addrs, ~ StackLocked(n),
         NEW ls, LinesOK(ls), NEW ws, WaitersOK(ws), NEW q,
         \A k \in Nodes : k # n => ws[k] = waiters[k] /\ ls[k] = line[k],
         Readable(ls[n][a].state), ServeWaiters(n, a, ls, ws, q)
  PROVE  WaitersInv'
<1>1. /\ job \in [Nodes -> Jobs] /\ pc \in [Cores -> {"idle", "waiting", "woken"}]
      /\ \A c \in Cores : pc[c] = "woken" => LLC[c] # n
  BY DEF TypeInv, TypeOK, SimThreadsTypeOK, LastLevelCacheTypeOK, StackLocked
<1>2. /\ waiters' = ws
      /\ \A k \in Nodes : k # n => line'[k] = line[k]
      /\ \/ job' = [job EXCEPT ![n] = Recv] /\ pc' = pc
         \/ /\ ws[n][a] # <<>> /\ ~ NeedsUpgrade(Head(ws[n][a]), ls[n][a].state)
            /\ job' = [job EXCEPT ![n] = Busy("waiters", a)] /\ line' = ls
            /\ pc' = [pc EXCEPT ![Head(ws[n][a]).core] = "woken"]
  <2>1. \A k \in Nodes : k # n => [ls EXCEPT ![n][a].state = "SHARED_UPGRADING"][k] = ls[k]
    BY DEF LinesOK
  <2> QED
    BY <2>1 DEF ServeWaiters, SetJob
<1>3. ASSUME NEW k \in Nodes, job'[k].at = "waiters"
      PROVE  Readable(line'[k][job'[k].addr].state)
  <2>1. CASE k = n
    BY <1>1, <1>2, <1>3, <2>1 DEF Recv, Busy
  <2>2. CASE k # n
    BY <1>1, <1>2, <1>3, <2>2 DEF WaitersInv
  <2> QED
    BY <2>1, <2>2
<1>4. ASSUME NEW c \in Cores, pc'[c] = "woken"
      PROVE  LET k == LLC[c]
                 b == job'[k].addr
             IN  /\ job'[k].at = "waiters" /\ Head(waiters'[k][b]).core = c
                 /\ Hits(line'[k][b].state, Head(waiters'[k][b]).exclusive)
  <2>1. CASE LLC[c] # n
    <3>1. pc[c] = "woken"
      <4>1. ws[n][a] # <<>> => Head(ws[n][a]) \in WaitersOf(n)
        BY DEF WaitersOK
      <4> QED
        BY <1>1, <1>2, <1>4, <2>1, <4>1 DEF WaitersOf
    <3>2. job'[LLC[c]] = job[LLC[c]]
      BY <1>1, <1>2, <2>1
    <3> QED
      BY <1>2, <2>1, <3>1, <3>2 DEF WaitersInv, WokenCoreHits
  <2>2. CASE LLC[c] = n
    <3>1. /\ ws[n][a] # <<>> /\ ~ NeedsUpgrade(Head(ws[n][a]), ls[n][a].state)
          /\ job'[n] = Busy("waiters", a) /\ line' = ls
          /\ Head(ws[n][a]).core = c
      BY <1>1, <1>2, <1>4, <2>2
    <3>2. Head(ws[n][a]) \in Waiters
      BY <3>1 DEF WaitersOK
    <3>3. Hits(ls[n][a].state, Head(ws[n][a]).exclusive)
      BY <3>1, <3>2 DEF Hits, Permissible, Readable, Writable, NeedsUpgrade, Waiters
    <3> QED
      BY <1>2, <2>2, <3>1, <3>3 DEF Busy
  <2> QED
    BY <2>1, <2>2
<1> QED
  BY <1>3, <1>4 DEF WaitersInv, WokenCoreHits

\* A step that leaves the busy threads, their waiters and their lines alone.
LEMMA SameWaiters ==
  ASSUME WaitersInv,
         \A c \in Cores : pc'[c] = "woken" => pc[c] = "woken",
         \A n \in Nodes : job'[n].at = "waiters" => job'[n] = job[n],
         \A n \in Nodes : job[n].at = "waiters" =>
           LET a == job[n].addr
           IN  /\ job'[n] = job[n] /\ Head(waiters'[n][a]) = Head(waiters[n][a])
               /\ line'[n][a].state = line[n][a].state \/ line'[n][a].state = "MODIFIED"
  PROVE  WaitersInv'
<1>1. ASSUME NEW n \in Nodes, job'[n].at = "waiters"
      PROVE  Readable(line'[n][job'[n].addr].state)
  BY <1>1 DEF WaitersInv, Readable
<1>2. ASSUME NEW c \in Cores, pc'[c] = "woken"
      PROVE  LET n == LLC[c]
                 a == job'[n].addr
             IN  /\ job'[n].at = "waiters" /\ Head(waiters'[n][a]).core = c
                 /\ Hits(line'[n][a].state, Head(waiters'[n][a]).exclusive)
  <2> DEFINE n == LLC[c]
             a == job[n].addr
  <2>1. /\ n \in Nodes /\ job[n].at = "waiters" /\ Head(waiters[n][a]).core = c
        /\ Hits(line[n][a].state, Head(waiters[n][a]).exclusive)
    BY <1>2 DEF WaitersInv, WokenCoreHits
  <2>2. /\ job'[n] = job[n] /\ Head(waiters'[n][a]) = Head(waiters[n][a])
        /\ line'[n][a].state = line[n][a].state \/ line'[n][a].state = "MODIFIED"
    BY <2>1
  <2>3. \A x : Hits("MODIFIED", x)
    BY DEF Hits, Permissible, Readable, Writable
  <2> HIDE DEF a
  <2> QED
    BY <2>1, <2>2, <2>3 DEF a
<1> QED
  BY <1>1, <1>2 DEF WaitersInv, WokenCoreHits

\* A step of the home thread.
LEMMA DirectoryWakesNobody ==
  ASSUME TypeInv, WaitersInv, NEW h \in Nodes, DirectoryStep(h), UNCHANGED cacheVars
  PROVE  WaitersInv'
<1>1. DirEffect(h)
  BY HandleReqEffect, ProcessNextReqEffect, ProcessInvRepEffect, ProcessFlushRepEffect,
     ProcessWbRepEffect, ProcessDRAMReplyEffect, GetDataFromDramEffect, PutDataToDramEffect
     DEF DirectoryStep
<1>2. job \in [Nodes -> Jobs]
  BY DEF TypeInv, TypeOK, SimThreadsTypeOK
<1>3. \A n \in Nodes : /\ job'[n].at = "waiters" => job'[n] = job[n]
                       /\ job[n].at = "waiters" => job'[n] = job[n]
  BY <1>1, <1>2 DEF DirEffect, Recv, Busy
<1> QED
  BY <1>3, SameWaiters DEF cacheVars

\* Accesses: a hit or the access of a woken core leaves the line MODIFIED if it writes, and
\* a miss on a block that is being served finds waiters and joins them.
LEMMA AccessesKeepWaiters ==
  ASSUME TypeInv, WaitersInv, NEW c \in Cores, CoreStep(c)
  PROVE  WaitersInv'
<1>1. /\ job \in [Nodes -> Jobs] /\ pc \in [Cores -> {"idle", "waiting", "woken"}]
      /\ LinesOK(line) /\ WaitersOK(waiters) /\ JobsOK /\ LLC[c] \in Nodes
  BY DEF TypeInv, TypeOK, SimThreadsTypeOK, LastLevelCacheTypeOK
<1>2. ASSUME NEW n \in Nodes, NEW a \in Addrs, NEW x, Access(n, a, x)
      PROVE  \A k \in Nodes, b \in Addrs :
               line'[k][b].state = line[k][b].state \/ line'[k][b].state = "MODIFIED"
  <2>1. line' = line \/ \E v : line' = [line EXCEPT ![n][a] = [state |-> "MODIFIED", data |-> v]]
    BY <1>2 DEF Access
  <2>2. ASSUME NEW l, l.state = "MODIFIED", line' = [line EXCEPT ![n][a] = l]
        PROVE  \A k \in Nodes, b \in Addrs :
                 line'[k][b].state = line[k][b].state \/ line'[k][b].state = "MODIFIED"
    BY <1>1, <2>2 DEF LinesOK
  <2>3. \A v : [state |-> "MODIFIED", data |-> v].state = "MODIFIED"
    OBVIOUS
  <2> QED
    BY <2>1, <2>2, <2>3
<1>3. ASSUME NEW a \in Addrs, NEW x, Hit(c, a, x) PROVE WaitersInv'
  <2>1. Access(LLC[c], a, x) /\ UNCHANGED <<job, waiters, pc>>
    BY <1>3 DEF Hit
  <2>2. \A k \in Nodes, b \in Addrs :
          line'[k][b].state = line[k][b].state \/ line'[k][b].state = "MODIFIED"
    BY <1>1, <1>2, <2>1
  <2> QED
    BY <1>1, <2>1, <2>2, SameWaiters DEF JobsOK
<1>4. ASSUME Resume(c) PROVE WaitersInv'
  <2> DEFINE a == job[LLC[c]].addr
  <2>1. /\ Access(LLC[c], a, Head(waiters[LLC[c]][a]).exclusive) /\ UNCHANGED <<job, waiters>>
        /\ pc[c] = "woken" /\ pc' = [pc EXCEPT ![c] = "idle"]
    BY <1>4 DEF Resume
  <2>2. a \in Addrs
    BY <1>1, <2>1 DEF JobsOK
  <2>3. \A k \in Nodes, b \in Addrs :
          line'[k][b].state = line[k][b].state \/ line'[k][b].state = "MODIFIED"
    BY <1>1, <1>2, <2>1, <2>2
  <2>4. \A d \in Cores : pc'[d] = "woken" => pc[d] = "woken"
    BY <1>1, <2>1
  <2> QED
    BY <1>1, <2>1, <2>3, <2>4, SameWaiters DEF JobsOK
<1>5. ASSUME NEW a \in Addrs, NEW x \in BOOLEAN, Miss(c, a, x) PROVE WaitersInv'
  <2> DEFINE n == LLC[c]
             w == [core |-> c, exclusive |-> x]
             s == Append(waiters[n][a], w)
  <2>1. /\ waiters' = [waiters EXCEPT ![n][a] = s]
        /\ line' = line \/ (waiters[n][a] = <<>>
                            /\ line' = [line EXCEPT ![n][a].state = "SHARED_UPGRADING"])
        /\ pc' = [pc EXCEPT ![c] = "waiting"] /\ UNCHANGED job
    BY <1>5 DEF Miss, NobodyWaits
  <2>2. waiters[n][a] \in Seq(WaitersOf(n)) /\ w \in WaitersOf(n)
    BY <1>1 DEF WaitersOK, WaitersOf, Waiters
  <2>3. s \in Seq(WaitersOf(n)) /\ (waiters[n][a] # <<>> => Head(s) = Head(waiters[n][a]))
    BY <2>2
  <2> HIDE DEF s, w, n
  <2>4. n \in Nodes
    BY <1>1 DEF n
  <2>5. \A k \in Nodes, b \in Addrs : waiters'[k][b] = IF k = n /\ b = a THEN s ELSE waiters[k][b]
    <3>1. waiters' = Put(waiters, n, a, s)
      BY <2>1 DEF Put
    <3>2. \A k \in Nodes, b \in Addrs :
            Put(waiters, n, a, s)[k][b] = IF k = n /\ b = a THEN s ELSE waiters[k][b]
      BY <1>1, <2>3, <2>4, PutWaiters
    <3> QED
      BY <3>1, <3>2
  <2>6. \A k \in Nodes, b \in Addrs : waiters[k][b] # <<>> => line'[k][b] = line[k][b]
    <3>1. ASSUME NEW l, line' = [line EXCEPT ![n][a] = l], NEW k \in Nodes, NEW b \in Addrs,
                 k # n \/ b # a
          PROVE  line'[k][b] = line[k][b]
      BY <1>1, <2>4, <3>1 DEF LinesOK
    <3>2. line' = line \/ (waiters[n][a] = <<>> /\ \E l : line' = [line EXCEPT ![n][a] = l])
      BY <2>1
    <3> QED
      BY <3>1, <3>2
  <2>7. \A d \in Cores : pc'[d] = "woken" => pc[d] = "woken"
    BY <1>1, <2>1
  <2>8. \A k \in Nodes : job[k].at = "waiters" =>
          LET b == job[k].addr
          IN  /\ job'[k] = job[k] /\ Head(waiters'[k][b]) = Head(waiters[k][b])
              /\ line'[k][b].state = line[k][b].state
    BY <1>1, <2>1, <2>3, <2>5, <2>6 DEF JobsOK
  <2> QED
    BY <2>1, <2>7, <2>8, SameWaiters
<1> QED
  BY <1>3, <1>4, <1>5 DEF CoreStep

\* The handlers of a cache.
LEMMA CachesWake ==
  ASSUME TypeInv, WaitersInv, NEW n \in Nodes, CacheStep(n)
  PROVE  WaitersInv'
<1>1. /\ job \in [Nodes -> Jobs] /\ LinesOK(line) /\ WaitersOK(waiters) /\ JobsOK
  BY DEF TypeInv, TypeOK, SimThreadsTypeOK
<1>2. ASSUME ProcessRep(n) PROVE WaitersInv'
  <2> DEFINE m == Received(n)
             a == m.addr
             l == [state |-> IF m.type = "EX_REP" THEN "EXCLUSIVE" ELSE "SHARED", data |-> m.data]
  <2>1. /\ ~ StackLocked(n) /\ line[n][a].state = "INVALID" /\ Receives(n, {"EX_REP", "SH_REP"})
        /\ \E evicted \in Evictions(n) :
             ServeWaiters(n, a, InsertCacheBlock(n, a, l, evicted), waiters,
                          Send(Consume(n), UNION {Evict(n, v) : v \in evicted}))
    BY <1>2 DEF ProcessRep
  <2>2. a \in Addrs /\ m.data \in Data /\ QueuesOK(Consume(n))
    BY <2>1, ReceivedOK DEF FilledTypes
  <2>3. l \in Lines /\ l.data \in Data /\ Readable(l.state)
    BY <2>2 DEF Lines, CStates, Readable
  <2> HIDE DEF m, a, l
  <2>4. PICK evicted \in Evictions(n) :
          ServeWaiters(n, a, InsertCacheBlock(n, a, l, evicted), waiters,
                       Send(Consume(n), UNION {Evict(n, v) : v \in evicted}))
    BY <2>1
  <2> DEFINE ls == InsertCacheBlock(n, a, l, evicted)
  <2>5. LinesOK(ls)
    BY <2>1, <2>2, <2>3, EvictionOK
  <2>6. ls[n][a] = l /\ \A k \in Nodes : k # n => ls[k] = line[k]
    BY <1>1, <2>2 DEF InsertCacheBlock, LinesOK
  <2> HIDE DEF ls
  <2> QED
    BY <1>1, <2>1, <2>2, <2>3, <2>4, <2>5, <2>6, ServeWaitersWakes DEF ls
<1>3. ASSUME ProcessUpgradeRep(n) PROVE WaitersInv'
  <2> DEFINE a == Received(n).addr
             ls == [line EXCEPT ![n][a].state = "MODIFIED"]
  <2>1. /\ ~ StackLocked(n) /\ line[n][a].state = "SHARED_UPGRADING" /\ Receives(n, {"UPGRADE_REP"})
        /\ ServeWaiters(n, a, ls, waiters, Consume(n))
    BY <1>3 DEF ProcessUpgradeRep
  <2>2. a \in Addrs
    BY <2>1, ReceivedOK
  <2> HIDE DEF a
  <2>3. line[n][a].state # "INVALID" /\ "MODIFIED" \in CStates
    BY <2>1 DEF CStates
  <2>4. LinesOK(ls) /\ ls[n][a].state = "MODIFIED"
    BY <1>1, <2>2, <2>3, PutState
  <2>5. \A k \in Nodes : k # n => ls[k] = line[k]
    BY <1>1 DEF LinesOK
  <2>6. Readable(ls[n][a].state)
    BY <2>4 DEF Readable
  <2> HIDE DEF ls
  <2> QED
    BY <1>1, <2>1, <2>2, <2>4, <2>5, <2>6, ServeWaitersWakes
<1>4. ASSUME NextWaiter(n) PROVE WaitersInv'
  <2> DEFINE a == job[n].addr
             s == Tail(waiters[n][a])
  <2>1. /\ job[n].at = "waiters" /\ ~ StackLocked(n)
        /\ ServeWaiters(n, a, line, Dequeued(n, a), queue)
    BY <1>4 DEF NextWaiter
  <2>2. a \in Addrs /\ waiters[n][a] # <<>> /\ Readable(line[n][a].state)
    BY <1>1, <2>1 DEF JobsOK, WaitersInv
  <2>3. s \in Seq(WaitersOf(n)) /\ Dequeued(n, a) = Put(waiters, n, a, s)
    BY <1>1, <2>2 DEF WaitersOK, Dequeued, Put
  <2> HIDE DEF a, s
  <2>4. WaitersOK(Dequeued(n, a)) /\ \A k \in Nodes : k # n => Dequeued(n, a)[k] = waiters[k]
    BY <1>1, <2>2, <2>3, PutWaiters
  <2> QED
    BY <1>1, <2>1, <2>2, <2>4, ServeWaitersWakes
<1>5. ASSUME ProcessCommand(n) PROVE WaitersInv'
  <2>1. /\ job[n] = Recv /\ Recv.at # "waiters" /\ UNCHANGED <<job, waiters, pc>>
        /\ line' = line \/ \E l : line' = [line EXCEPT ![n][Received(n).addr] = l]
    BY <1>5 DEF ProcessCommand, Receives, Recv
  <2>2. \A k \in Nodes : k # n => line'[k] = line[k]
    BY <1>1, <2>1 DEF LinesOK
  <2> QED
    BY <2>1, <2>2, SameWaiters
<1> QED
  BY <1>2, <1>3, <1>4, <1>5 DEF CacheStep

\* It holds in every state.
LEMMA WaitersHold == Spec => []WaitersInv
<1>1. Init => WaitersInv
  BY DEF Init, SimThreadsInit, LastLevelCacheInit, WaitersInv, WokenCoreHits, Recv
<1>2. TypeInv /\ WaitersInv /\ [Next]_vars => WaitersInv'
  <2> SUFFICES ASSUME TypeInv, WaitersInv, [Next]_vars PROVE WaitersInv'
    OBVIOUS
  <2>1. CASE UNCHANGED vars
    BY <2>1 DEF vars, simThreadVars, cacheVars, WaitersInv, WokenCoreHits
  <2>2. CASE \E n \in Nodes : SimThreadStep(n)
    BY <2>2, DirectoryWakesNobody, CachesWake DEF SimThreadStep
  <2>3. CASE \E c \in Cores : CoreRuns(c)
    BY <2>3, AccessesKeepWaiters DEF CoreRuns
  <2> QED
    BY <2>1, <2>2, <2>3 DEF Next, Done
<1> QED
  BY <1>1, <1>2, TypesHold, PTL DEF Spec

\* A woken core finds the line in a state that permits its access: between the reply and
\* the access of each waiter neither a command nor an eviction nor another core's upgrade
\* takes the line away (processMemOpFromCore, "data is already gone").
THEOREM WokenCoresHit == Spec => []WokenCoreHits
<1>1. WaitersInv => WokenCoreHits
  BY DEF WaitersInv
<1> QED
  BY <1>1, WaitersHold, PTL
-----------------------------------------------------------------------------
(* Replaced entries and forwarders.                                        *)

\* An entry is replaced while its NULLIFY_REQ, which no request is queued before, is worked
\* on.
NullifiesReplaced(e, q, completed) ==
  /\ e.where = "replaced" <=> q # <<>> /\ Head(q).type = "NULLIFY_REQ" /\ ~ completed
  /\ \A i \in 2 .. Len(q) : q[i].type # "NULLIFY_REQ"

\* A forwarder is a sharer, unless the second sharer already finds no pointer.
ForwarderShares(e) ==
  Variant = "mesif" /\ MaxHwSharers > 1 /\ e.state = "SHARED" =>
    e.forwarder \in e.sharers \cup {NoNode}

Fits(e, q, completed) == NullifiesReplaced(e, q, completed) /\ ForwarderShares(e)

Completed(a) == job[Home[a]] = Busy("nextReq", a)
FitsInv == \A a \in Addrs : Fits(dir[a], reqs[a], Completed(a))

\* An outcome keeps to that.
LEMMA OutcomeFits ==
  ASSUME NEW a \in Addrs, NEW e, EntryOK(e), e.where # "none", NEW r \in Reqs,
         NEW o, IsOutcome(a, e, r, o),
         r.type = "NULLIFY_REQ" <=> e.where = "replaced", ForwarderShares(e)
  PROVE  /\ o.entry.where = "replaced" <=> o.req.type = "NULLIFY_REQ" /\ ~ o.next
         /\ ForwarderShares(o.entry)
<1>1. /\ e \in Entries /\ (e.state = "UNCACHED" <=> e.sharers = {})
      /\ NoEntry.where = "none" /\ NoEntry.state = "UNCACHED"
      /\ "NULLIFY_REQ" \notin RequestTypes
  BY DEF EntryOK, NoEntry, RequestTypes
<1>2. /\ o.req.type = r.type
      /\ o.entry.where = IF Nullified(a, e, r, o) THEN "none" ELSE e.where
  BY OutcomeOK
<1>3. CASE GrantsData(a, e, r, o)
  <2>1. r.type # "NULLIFY_REQ" /\ ~ Nullified(a, e, r, o)
    BY <1>1, <1>3 DEF GrantsData, Nullified
  <2>2. ForwarderShares(o.entry)
    BY <1>3 DEF GrantsData, Admits, ForwarderShares
  <2> QED
    BY <1>2, <2>1, <2>2
<1>4. CASE GrantsUpgrade(a, e, r, o)
  <2>1. r.type # "NULLIFY_REQ" /\ ~ Nullified(a, e, r, o)
    BY <1>4 DEF GrantsUpgrade, Nullified
  <2>2. o.entry.state = "MODIFIED"
    BY <1>1, <1>4 DEF GrantsUpgrade, Entries
  <2> QED
    BY <1>2, <2>1, <2>2 DEF ForwarderShares
<1>5. CASE AsksDram(a, e, r, o)
  <2>1. r.type # "NULLIFY_REQ" /\ ~ Nullified(a, e, r, o)
    BY <1>1, <1>5 DEF AsksDram, Nullified
  <2>2. ForwarderShares(o.entry)
    BY <1>5 DEF AsksDram, Admits, ForwarderShares, Owns
  <2> QED
    BY <1>2, <2>1, <2>2
<1>6. CASE AsksForwarder(a, e, r, o)
  <2>1. r.type # "NULLIFY_REQ" /\ ~ Nullified(a, e, r, o)
    BY <1>6 DEF AsksForwarder, Nullified
  <2>2. ForwarderShares(o.entry)
    BY <1>6 DEF AsksForwarder, Admits, ForwarderShares
  <2> QED
    BY <1>2, <2>1, <2>2
<1>7. CASE AsksWriteBack(a, e, r, o) \/ AsksFlush(a, e, r, o) \/ AsksInvalidate(a, e, r, o)
  <2>1. o.entry = e /\ o.next = FALSE
    BY <1>7 DEF AsksWriteBack, AsksFlush, AsksInvalidate
  <2> QED
    BY <1>2, <2>1
<1>8. CASE Nullified(a, e, r, o)
  BY <1>1, <1>2, <1>8 DEF Nullified, ForwarderShares
<1> QED
  BY <1>3, <1>4, <1>5, <1>6, <1>7, <1>8 DEF IsOutcome

\* A queue whose first request is worked on.
LEMMA NewHead ==
  ASSUME NEW q \in Seq(Reqs), q # <<>>, NEW r \in Reqs, NEW q2, q2 = <<r>> \o Tail(q)
  PROVE  /\ q2 # <<>> /\ Head(q2) = r /\ Len(q2) = Len(q)
         /\ \A i \in 2 .. Len(q) : q2[i] = q[i]
<1>1. Tail(q) \in Seq(Reqs) /\ Len(Tail(q)) = Len(q) - 1 /\ Len(q) \in Nat \ {0}
      /\ \A i \in 1 .. Len(q) - 1 : Tail(q)[i] = q[i + 1]
  OBVIOUS
<1> DEFINE t == Tail(q)
<1> HIDE DEF t
<1>2. Len(<<r>> \o t) = 1 + Len(t) /\ (<<r>> \o t)[1] = r
      /\ \A i \in 2 .. 1 + Len(t) : (<<r>> \o t)[i] = t[i - 1]
  BY <1>1 DEF t
<1> QED
  BY <1>1, <1>2 DEF t

\* The thread of the home of a is free, or has completed a request for a.
AtBlock(a) == job[Home[a]] \in {Recv, Busy("nextReq", a)}

\* Block a now has this entry and these requests, and the other blocks fit as before.
LEMMA BlockFits ==
  ASSUME TypeInv, NEW a \in Addrs, AtBlock(a), NEW next \in BOOLEAN,
         job' = [job EXCEPT ![Home[a]] = IF next THEN Busy("nextReq", a) ELSE Recv],
         Fits(dir'[a], reqs'[a], next),
         \A b \in Addrs : b # a => Fits(dir'[b], reqs'[b], Completed(b))
  PROVE  FitsInv'
<1>1. job \in [Nodes -> Jobs] /\ \A b \in Addrs : Home[b] \in Nodes
  BY DEF TypeInv, TypeOK, SimThreadsTypeOK
<1>2. ASSUME NEW b \in Addrs PROVE Fits(dir'[b], reqs'[b], Completed(b)')
  <2>1. CASE b = a
    BY <1>1, <2>1 DEF Completed, Busy, Recv
  <2>2. CASE b # a
    <3>1. Completed(b)' <=> Completed(b)
      BY <1>1, <2>2 DEF Completed, AtBlock, Busy, Recv
    <3> QED
      BY <2>2, <3>1 DEF Fits, NullifiesReplaced
  <2> QED
    BY <2>1, <2>2
<1> QED
  BY <1>2 DEF FitsInv, Completed

\* Applying an outcome that fits.
LEMMA ApplyFits ==
  ASSUME TypeInv, NEW a \in Addrs, AtBlock(a), NEW d \in [Addrs -> Entries],
         NEW q \in [Addrs -> Seq(Reqs)], q[a] # <<>>, NEW s, NEW o, Apply(a, o, d, q, s),
         o.req \in Reqs, o.next \in BOOLEAN, o.entry \in Entries,
         o.entry.where = "replaced" <=> o.req.type = "NULLIFY_REQ" /\ ~ o.next,
         ForwarderShares(o.entry),
         \A i \in 2 .. Len(q[a]) : q[a][i].type # "NULLIFY_REQ",
         \A b \in Addrs : b # a => Fits(d[b], q[b], Completed(b))
  PROVE  FitsInv'
<1> DEFINE l == <<o.req>> \o Tail(q[a])
<1>1. /\ dir' = [d EXCEPT ![a] = o.entry] /\ reqs' = [q EXCEPT ![a] = l]
      /\ job' = [job EXCEPT ![Home[a]] = IF o.next THEN Busy("nextReq", a) ELSE Recv]
  BY DEF Apply, SetJob
<1>2. l # <<>> /\ Head(l) = o.req /\ Len(l) = Len(q[a]) /\ \A i \in 2 .. Len(q[a]) : l[i] = q[a][i]
  BY NewHead
<1> HIDE DEF l
<1>3. Fits(o.entry, l, o.next)
  BY <1>2 DEF Fits, NullifiesReplaced
<1>4. dir'[a] = o.entry /\ reqs'[a] = l /\ \A b \in Addrs : b # a => dir'[b] = d[b] /\ reqs'[b] = q[b]
  BY <1>1
<1> QED
  BY <1>1, <1>3, <1>4, BlockFits

\* Applying an outcome of the first request under entry e, which is where the directory
\* has it.
LEMMA OutcomeApplied ==
  ASSUME TypeInv, FitsInv, NEW a \in Addrs, job[Home[a]] = Recv, reqs[a] # <<>>,
         NEW e, EntryOK(e), e.where # "none", e.where = dir[a].where, ForwarderShares(e),
         NEW o, IsOutcome(a, e, Head(reqs[a]), o), NEW s, Apply(a, o, dir, reqs, s)
  PROVE  FitsInv'
<1>1. /\ dir \in [Addrs -> Entries] /\ reqs \in [Addrs -> Seq(Reqs)] /\ Head(reqs[a]) \in Reqs
      /\ AtBlock(a)
  BY DEF TypeInv, TypeOK, DirectoryTypeOK, AtBlock
<1>2. ~ Completed(a) /\ \A b \in Addrs : Fits(dir[b], reqs[b], Completed(b))
  BY DEF FitsInv, Completed, Busy, Recv
<1>3. Head(reqs[a]).type = "NULLIFY_REQ" <=> e.where = "replaced"
  BY <1>2 DEF Fits, NullifiesReplaced
<1>4. /\ EntryOK(o.entry) /\ o.entry \in Entries /\ o.req \in Reqs /\ o.next \in BOOLEAN
      /\ o.entry.where = "replaced" <=> o.req.type = "NULLIFY_REQ" /\ ~ o.next
      /\ ForwarderShares(o.entry)
  BY <1>1, <1>3, OutcomeOK, OutcomeFits DEF EntryOK
<1> QED
  BY <1>1, <1>2, <1>4, ApplyFits DEF Fits, NullifiesReplaced
\* Request r, the first of q[a], starts.
LEMMA StartFits ==
  ASSUME TypeInv, FitsInv, NEW a \in Addrs, AtBlock(a), dir[a].where # "replaced",
         NEW r \in Reqs, r.type # "NULLIFY_REQ", NEW q \in [Addrs -> Seq(Reqs)], q[a] # <<>>,
         \A i \in 2 .. Len(q[a]) : q[a][i].type # "NULLIFY_REQ",
         \A b \in Addrs : b # a => q[b] = reqs[b], NEW s, QueuesOK(s), StartReq(a, r, q, s)
  PROVE  FitsInv'
<1>1. EntriesOK(dir) /\ \A b \in Addrs : Fits(dir[b], reqs[b], Completed(b))
  BY DEF TypeInv, FitsInv
<1>2. ASSUME NEW o, StartsWith(a, r, q, s, o) PROVE FitsInv'
  <2> DEFINE d == GetDirectoryEntry(a)
  <2>1. /\ EntriesOK(d) /\ EntryOK(d[a]) /\ d[a].where \notin {"none", "replaced"}
        /\ d[a] = dir[a] \/ d[a].state = "UNCACHED"
        /\ \A b \in Addrs : b # a => d[b] = dir[b]
    BY <1>1, <1>2, FreshEntryOK DEF EntriesOK, StartsWith
  <2>2. IsOutcome(a, d[a], r, o) /\ Apply(a, o, d, q, s)
    BY <1>2 DEF StartsWith
  <2> HIDE DEF d
  <2>3. ForwarderShares(d[a])
    BY <1>1, <2>1 DEF Fits, ForwarderShares
  <2>4. /\ EntryOK(o.entry) /\ o.entry \in Entries /\ o.req \in Reqs /\ o.next \in BOOLEAN
        /\ o.entry.where = "replaced" <=> o.req.type = "NULLIFY_REQ" /\ ~ o.next
        /\ ForwarderShares(o.entry)
    BY <2>1, <2>2, <2>3, OutcomeOK, OutcomeFits DEF EntryOK
  <2>5. d \in [Addrs -> Entries]
    BY <2>1 DEF EntriesOK
  <2>6. \A b \in Addrs : b # a => Fits(d[b], q[b], Completed(b))
    BY <1>1, <2>1
  <2> QED
    BY <2>2, <2>4, <2>5, <2>6, ApplyFits
<1>3. ASSUME NEW v, NEW n, NEW o, StartsInPlaceOf(v, a, r, q, s, n, o) PROVE FitsInv'
  <2> DEFINE e == Replaced(dir[v])
             nullify == Req("NULLIFY_REQ", r.requester)
             d2 == [dir EXCEPT ![v] = n.entry]
             q2 == [q EXCEPT ![v] = IF n.next THEN <<>> ELSE Append(@, nullify)]
             s2 == Send(s, n.out)
  <2>1. /\ v \in Addrs /\ v # a /\ Home[v] = Home[a] /\ reqs[v] = <<>> /\ dir[v].where = "resident"
        /\ IsOutcome(v, e, nullify, n) /\ IsOutcome(a, FreshEntry, r, o) /\ Apply(a, o, d2, q2, s2)
    BY <1>3 DEF StartsInPlaceOf
  <2>2. /\ EntryOK(o.entry) /\ o.req \in Reqs /\ EntriesOK(d2) /\ EntryOK(n.entry)
        /\ EntryOK(e) /\ nullify \in Reqs
    BY <1>1, <1>3, ReplacementOK
  <2>3. e.where = "replaced" /\ ForwarderShares(e)
    <3>1. EntryOK(dir[v]) /\ ForwarderShares(dir[v])
      BY <1>1, <2>1 DEF EntriesOK, Fits
    <3>2. /\ e.where = "replaced" /\ e.state = dir[v].state /\ e.sharers = dir[v].sharers
          /\ e.forwarder = dir[v].forwarder
      BY <2>1, <3>1, ReplacedEntryOK DEF Replaced
    <3> QED
      BY <3>1, <3>2 DEF ForwarderShares
  <2>4. nullify.type = "NULLIFY_REQ"
    BY DEF Req
  <2>5. FreshEntry.where = "resident" /\ EntryOK(FreshEntry) /\ ForwarderShares(FreshEntry)
    BY <1>1, FreshEntryOK DEF ForwarderShares
  <2> HIDE DEF nullify, e
  <2>6. /\ n.req.type = "NULLIFY_REQ" /\ n.next \in BOOLEAN
        /\ n.entry.where = "replaced" <=> ~ n.next
        /\ ForwarderShares(n.entry)
    BY <2>1, <2>2, <2>3, <2>4, OutcomeOK, OutcomeFits
  <2>7. /\ o.entry \in Entries /\ o.next \in BOOLEAN
        /\ o.entry.where = "replaced" <=> o.req.type = "NULLIFY_REQ" /\ ~ o.next
        /\ ForwarderShares(o.entry)
    BY <2>1, <2>2, <2>5, OutcomeOK, OutcomeFits DEF EntryOK
  <2>8. /\ q2 \in [Addrs -> Seq(Reqs)] /\ q2[a] = q[a]
        /\ q2[v] = IF n.next THEN <<>> ELSE <<nullify>>
        /\ \A b \in Addrs : b \notin {a, v} => q2[b] = reqs[b]
    <3>1. (IF n.next THEN <<>> ELSE Append(q[v], nullify)) \in Seq(Reqs)
      BY <2>1, <2>2
    <3>2. q[v] = <<>>
      BY <2>1
    <3> QED
      BY <2>1, <3>1, <3>2
  <2>9. ~ Completed(v)
    BY <2>1 DEF Completed, AtBlock, Busy, Recv
  <2> HIDE DEF q2
  <2>10. Fits(n.entry, q2[v], Completed(v))
    <3>1. CASE n.next
      BY <2>6, <2>8, <3>1 DEF Fits, NullifiesReplaced
    <3>2. CASE ~ n.next
      <4>1. <<nullify>> # <<>> /\ Head(<<nullify>>) = nullify /\ Len(<<nullify>>) = 1
        OBVIOUS
      <4>2. q2[v] # <<>> /\ Head(q2[v]).type = "NULLIFY_REQ" /\ Len(q2[v]) = 1
        BY <2>4, <2>8, <3>2, <4>1
      <4> QED
        BY <2>6, <2>9, <3>2, <4>2 DEF Fits, NullifiesReplaced
    <3> QED
      BY <3>1, <3>2
  <2>11. d2 \in [Addrs -> Entries] /\ d2[v] = n.entry /\ \A b \in Addrs : b # v => d2[b] = dir[b]
    BY <2>1, <2>2 DEF EntriesOK, EntryOK, TypeInv
  <2> HIDE DEF d2, s2
  <2>12. \A b \in Addrs : b # a => Fits(d2[b], q2[b], Completed(b))
    BY <1>1, <2>8, <2>10, <2>11
  <2>13. q2[a] # <<>> /\ \A i \in 2 .. Len(q2[a]) : q2[a][i].type # "NULLIFY_REQ"
    BY <2>8
  <2>14. d2 \in [Addrs -> Entries] /\ q2 \in [Addrs -> Seq(Reqs)] /\ Apply(a, o, d2, q2, s2)
    BY <2>1, <2>8, <2>11
  <2> QED
    BY <2>2, <2>7, <2>12, <2>13, <2>14, ApplyFits
<1> QED
  BY <1>1, <1>2, <1>3, Starting

\* A step that changes nothing but the data of a request, the entry of block a, or the end
\* of its queue.
LEMMA EntryFits ==
  ASSUME TypeInv, FitsInv, NEW a \in Addrs, UNCHANGED job, dir'[a].where = dir[a].where,
         ForwarderShares(dir'[a]), NullifiesReplaced(dir[a], reqs'[a], Completed(a)),
         \A b \in Addrs : b # a => dir'[b] = dir[b] /\ reqs'[b] = reqs[b]
  PROVE  FitsInv'
  BY DEF FitsInv, Completed, Fits, NullifiesReplaced

\* EX_REQ, SH_REQ, UPGRADE_REQ
LEMMA HandleReqFits ==
  ASSUME TypeInv, FitsInv, NEW h \in Nodes, HandleReq(h)
  PROVE  FitsInv'
<1> DEFINE m == Received(h)
           a == m.addr
           r == Req(m.type, m.sender)
<1>1. /\ a \in Addrs /\ Home[a] = h /\ m.type \in RequestTypes /\ m.sender \in Nodes
      /\ QueuesOK(Consume(h)) /\ job[h] = Recv
  BY ReceivedOK DEF HandleReq
<1>2. r \in Reqs /\ r.type # "NULLIFY_REQ"
  BY <1>1, ReqOK DEF RequestTypes
<1>3. /\ reqs \in [Addrs -> Seq(Reqs)] /\ EntriesOK(dir) /\ dir \in [Addrs -> Entries]
      /\ Fits(dir[a], reqs[a], Completed(a)) /\ ~ Completed(a) /\ AtBlock(a)
  BY <1>1 DEF TypeInv, TypeOK, DirectoryTypeOK, FitsInv, Completed, AtBlock, Busy, Recv
<1>4. IF reqs[a] = <<>>
      THEN StartReq(a, r, [reqs EXCEPT ![a] = <<r>>], Consume(h))
      ELSE /\ reqs' = [reqs EXCEPT ![a] = Append(@, r)]
           /\ dir' = GetDirectoryEntry(a)
           /\ UNCHANGED job
  BY DEF HandleReq
<1> HIDE DEF m, a, r
<1>5. CASE reqs[a] = <<>>
  <2> DEFINE q == [reqs EXCEPT ![a] = <<r>>]
  <2>1. StartReq(a, r, q, Consume(h))
    BY <1>4, <1>5
  <2>2. /\ q \in [Addrs -> Seq(Reqs)] /\ q[a] # <<>> /\ Len(q[a]) = 1
        /\ \A b \in Addrs : b # a => q[b] = reqs[b]
    BY <1>1, <1>2, <1>3
  <2>3. dir[a].where # "replaced"
    BY <1>3, <1>5 DEF Fits, NullifiesReplaced
  <2> HIDE DEF q
  <2>4. \A i \in 2 .. Len(q[a]) : q[a][i].type # "NULLIFY_REQ"
    BY <2>2
  <2> QED
    BY <1>1, <1>2, <1>3, <2>1, <2>2, <2>3, <2>4, StartFits
<1>6. CASE reqs[a] # <<>>
  <2> DEFINE l == Append(reqs[a], r)
  <2>1. /\ l # <<>> /\ Head(l) = Head(reqs[a])
        /\ \A i \in 2 .. Len(l) : l[i] = r \/ (i \in 2 .. Len(reqs[a]) /\ l[i] = reqs[a][i])
    <3>1. reqs[a] \in Seq(Reqs) /\ Len(reqs[a]) \in Nat \ {0}
      BY <1>1, <1>3, <1>6
    <3>2. Len(l) = Len(reqs[a]) + 1 /\ l[Len(l)] = r /\ \A i \in 1 .. Len(reqs[a]) : l[i] = reqs[a][i]
      BY <1>2, <3>1
    <3>3. l # <<>> /\ Head(l) = l[1] /\ Head(reqs[a]) = reqs[a][1]
      BY <1>2, <3>1
    <3> HIDE DEF l
    <3> QED
      BY <3>1, <3>2, <3>3
  <2> HIDE DEF l
  <2>2. reqs' = [reqs EXCEPT ![a] = l]
    BY <1>4, <1>6 DEF l
  <2>3. NullifiesReplaced(dir[a], reqs'[a], Completed(a))
    BY <1>1, <1>2, <1>3, <1>6, <2>1, <2>2 DEF Fits, NullifiesReplaced
  <2>4. /\ dir'[a] = dir[a] \/ (dir[a].where = "none" /\ dir'[a].state = "UNCACHED" /\ dir'[a].where = "resident")
        /\ \A b \in Addrs : b # a => dir'[b] = dir[b]
    BY <1>1, <1>3, <1>4, <1>6, FreshEntryOK
  <2>5. ForwarderShares(dir'[a])
    BY <1>3, <2>4 DEF Fits, ForwarderShares
  <2>6. NullifiesReplaced(dir'[a], reqs'[a], Completed(a))
    BY <2>3, <2>4 DEF NullifiesReplaced
  <2>7. /\ \A b \in Addrs : b # a => reqs'[b] = reqs[b]
        /\ UNCHANGED job
    BY <1>1, <1>3, <1>4, <1>6
  <2>8. Fits(dir'[a], reqs'[a], Completed(a))
    BY <2>5, <2>6 DEF Fits
  <2> QED
    BY <1>1, <2>4, <2>7, <2>8 DEF FitsInv, Completed
<1> QED
  BY <1>5, <1>6
\* processNextReqFromL2Cache
LEMMA ProcessNextReqFits ==
  ASSUME TypeInv, FitsInv, NEW h \in Nodes, ProcessNextReq(h)
  PROVE  FitsInv'
<1> DEFINE a == job[h].addr
           q == [reqs EXCEPT ![a] = Tail(@)]
<1>1. /\ job[h].at = "nextReq" /\ a \in Addrs /\ Home[a] = h /\ reqs[a] # <<>>
      /\ QueuesOK(queue) /\ EntriesOK(dir)
  BY DEF ProcessNextReq, TypeInv, JobsOK
<1>2. /\ reqs \in [Addrs -> Seq(Reqs)] /\ reqs[a] \in Seq(Reqs) /\ job \in [Nodes -> Jobs]
      /\ \A b \in Addrs : Fits(dir[b], reqs[b], Completed(b))
  BY <1>1 DEF TypeInv, TypeOK, SimThreadsTypeOK, DirectoryTypeOK, FitsInv
<1>3. Completed(a) /\ AtBlock(a)
  BY <1>1, <1>2 DEF Completed, AtBlock, Busy, Jobs
<1>4. dir[a].where # "replaced"
  BY <1>1, <1>2, <1>3 DEF Fits, NullifiesReplaced
<1>5. /\ Tail(reqs[a]) \in Seq(Reqs) /\ Len(Tail(reqs[a])) = Len(reqs[a]) - 1
      /\ \A i \in 1 .. Len(reqs[a]) - 1 : Tail(reqs[a])[i] = reqs[a][i + 1]
      /\ Len(reqs[a]) \in Nat \ {0}
  BY <1>1, <1>2
<1>6. /\ q \in [Addrs -> Seq(Reqs)] /\ q[a] = Tail(reqs[a])
      /\ \A b \in Addrs : b # a => q[b] = reqs[b]
  BY <1>1, <1>2, <1>5
<1>7. IF q[a] = <<>>
      THEN reqs' = q /\ SetJob(h, Recv) /\ UNCHANGED <<dir, queue>>
      ELSE StartReq(a, Head(q[a]), q, queue)
  BY DEF ProcessNextReq
<1> HIDE DEF q, a
<1>8. \A i \in 1 .. Len(q[a]) : q[a][i].type # "NULLIFY_REQ"
  <2> SUFFICES ASSUME NEW i \in 1 .. Len(q[a]) PROVE q[a][i].type # "NULLIFY_REQ"
    OBVIOUS
  <2>1. i + 1 \in 2 .. Len(reqs[a]) /\ q[a][i] = reqs[a][i + 1]
    BY <1>5, <1>6
  <2> QED
    BY <1>1, <1>2, <2>1 DEF Fits, NullifiesReplaced
<1>9. CASE q[a] = <<>>
  <2>1. /\ job' = [job EXCEPT ![Home[a]] = IF FALSE THEN Busy("nextReq", a) ELSE Recv]
        /\ dir' = dir /\ reqs' = q
    BY <1>1, <1>7, <1>9 DEF SetJob
  <2>2. Fits(dir'[a], reqs'[a], FALSE)
    BY <1>1, <1>2, <1>4, <1>8, <1>9, <2>1 DEF Fits, NullifiesReplaced
  <2> QED
    BY <1>1, <1>2, <1>3, <1>6, <2>1, <2>2, BlockFits
<1>10. CASE q[a] # <<>>
  <2>1. Head(q[a]) \in Reqs /\ Head(q[a]).type # "NULLIFY_REQ"
    <3>1. q[a] \in Seq(Reqs) /\ q[a] # <<>>
      BY <1>1, <1>6, <1>10
    <3>2. 1 \in 1 .. Len(q[a]) /\ Head(q[a]) = q[a][1] /\ Head(q[a]) \in Reqs
      BY <3>1
    <3> QED
      BY <1>8, <3>2
  <2>2. \A i \in 2 .. Len(q[a]) : q[a][i].type # "NULLIFY_REQ"
    BY <1>8
  <2> QED
    BY <1>1, <1>3, <1>4, <1>6, <1>7, <1>10, <2>1, <2>2, StartFits
<1> QED
  BY <1>9, <1>10

\* INV_REP
LEMMA ProcessInvRepFits ==
  ASSUME TypeInv, FitsInv, NEW h \in Nodes, ProcessInvRep(h)
  PROVE  FitsInv'
<1> DEFINE m == Received(h)
           a == m.addr
<1>1. /\ a \in Addrs /\ Home[a] = h /\ m.sender \in Nodes /\ job[h] = Recv
  BY ReceivedOK DEF ProcessInvRep, AnswerTypes
<1>2. /\ reqs \in [Addrs -> Seq(Reqs)] /\ EntryOK(dir[a]) /\ dir \in [Addrs -> Entries]
      /\ Fits(dir[a], reqs[a], Completed(a))
  BY <1>1 DEF TypeInv, TypeOK, DirectoryTypeOK, EntriesOK, FitsInv
<1>3. m.sender \in dir[a].sharers
  BY DEF ProcessInvRep, InvRepExpected
<1>4. PICK e \in RemoveSharer(dir[a], m.sender) :
        IF reqs[a] # <<>> /\ InvRepWakes(e, Head(reqs[a]), m.sender)
        THEN \E o \in ProcessReq(a, e, Head(reqs[a]), Null) : Apply(a, o, dir, reqs, Consume(h))
        ELSE dir' = [dir EXCEPT ![a] = e] /\ queue' = Consume(h) /\ UNCHANGED <<reqs, job>>
  BY DEF ProcessInvRep
<1> HIDE DEF m, a
<1>5. /\ EntryOK(e) /\ e.where = dir[a].where /\ e.where # "none"
      /\ e.sharers = dir[a].sharers \ {m.sender}
      /\ e.state = IF dir[a].sharers = {m.sender} THEN "UNCACHED" ELSE dir[a].state
      /\ e.forwarder \in ForwarderWithout(dir[a], m.sender)
  <2> DEFINE d == dir[a]
             k == m.sender
  <2>1. EntryOK(d) /\ k \in d.sharers /\ e \in RemoveSharer(d, k)
    BY <1>2, <1>3, <1>4
  <2> HIDE DEF d, k
  <2>2. /\ EntryOK(e) /\ e.where = d.where /\ d.where # "none"
        /\ e.sharers = d.sharers \ {k}
        /\ e.state = IF d.sharers = {k} THEN "UNCACHED" ELSE d.state
        /\ e.forwarder \in ForwarderWithout(d, k)
    BY <2>1, RemoveSharerOK
  <2> QED
    BY <2>2 DEF d, k
<1>6. ForwarderShares(e)
  BY <1>2, <1>5 DEF Fits, ForwarderShares, ForwarderWithout, EntryOK, Entries
<1>7. CASE reqs[a] # <<>> /\ InvRepWakes(e, Head(reqs[a]), m.sender)
  <2>1. PICK o \in ProcessReq(a, e, Head(reqs[a]), Null) : Apply(a, o, dir, reqs, Consume(h))
    BY <1>4, <1>7
  <2>2. Head(reqs[a]) \in Reqs
    BY <1>1, <1>2, <1>7
  <2>3. IsOutcome(a, e, Head(reqs[a]), o)
    BY <1>1, <1>5, <2>1, <2>2, Outcomes
  <2> QED
    BY <1>1, <1>5, <1>6, <1>7, <2>1, <2>3, OutcomeApplied
<1>8. CASE ~ (reqs[a] # <<>> /\ InvRepWakes(e, Head(reqs[a]), m.sender))
  <2>1. /\ dir' = [dir EXCEPT ![a] = e] /\ UNCHANGED <<reqs, job>>
    BY <1>4, <1>8
  <2> QED
    BY <1>1, <1>2, <1>5, <1>6, <2>1, EntryFits DEF Fits
<1> QED
  BY <1>7, <1>8

\* FLUSH_REP
LEMMA ProcessFlushRepFits ==
  ASSUME TypeInv, FitsInv, NEW h \in Nodes, ProcessFlushRep(h)
  PROVE  FitsInv'
<1> DEFINE m == Received(h)
           a == m.addr
           e == Flushed(dir[a], m.sender)
<1>1. /\ a \in Addrs /\ Home[a] = h /\ m.sender \in Nodes /\ m.data \in Data /\ job[h] = Recv
  <2>1. Receives(h, {"FLUSH_REP"})
    BY DEF ProcessFlushRep
  <2> QED
    BY <2>1, ReceivedOK DEF AnswerTypes, FilledTypes
<1>2. /\ reqs \in [Addrs -> Seq(Reqs)] /\ EntryOK(dir[a]) /\ dir \in [Addrs -> Entries]
      /\ Fits(dir[a], reqs[a], Completed(a))
  BY <1>1 DEF TypeInv, TypeOK, DirectoryTypeOK, EntriesOK, FitsInv
<1>3. m.sender \in dir[a].sharers /\ (dir[a].sharers # {m.sender} => dir[a].state = "SHARED")
  BY DEF ProcessFlushRep, FlushRepExpected
<1>4. \/ dir' = [dir EXCEPT ![a] = e] /\ UNCHANGED <<reqs, job>>
      \/ /\ reqs[a] # <<>> /\ dir' = [dir EXCEPT ![a] = e] /\ UNCHANGED job
         /\ reqs' = [reqs EXCEPT ![a] = <<[Head(@) EXCEPT !.data = Garbage]>> \o Tail(@)]
      \/ /\ reqs[a] # <<>>
         /\ \E s : \E o \in ProcessReq(a, e, Head(reqs[a]), m.data) : Apply(a, o, dir, reqs, s)
  BY DEF ProcessFlushRep, Flushed
<1>5. EntryOK(e) /\ e.where = dir[a].where /\ e.where # "none" /\ e.forwarder = NoNode
  <2> DEFINE d == dir[a]
             k == m.sender
  <2>1. EntryOK(d) /\ k \in d.sharers /\ (d.sharers # {k} => d.state = "SHARED") /\ e = Flushed(d, k)
    BY <1>2, <1>3
  <2> HIDE DEF d, k, e
  <2>2. EntryOK(e) /\ e.where = d.where /\ d.where # "none" /\ e.forwarder = NoNode
    BY <2>1, FlushedEntryOK
  <2> QED
    BY <2>2 DEF d
<1> HIDE DEF m, a, e
<1>6. ForwarderShares(e)
  BY <1>5 DEF ForwarderShares
<1>7. CASE dir' = [dir EXCEPT ![a] = e] /\ UNCHANGED <<reqs, job>>
  BY <1>1, <1>2, <1>5, <1>6, <1>7, EntryFits DEF Fits
<1>8. CASE /\ reqs[a] # <<>> /\ dir' = [dir EXCEPT ![a] = e] /\ UNCHANGED job
           /\ reqs' = [reqs EXCEPT ![a] = <<[Head(@) EXCEPT !.data = Garbage]>> \o Tail(@)]
  <2> DEFINE r2 == [Head(reqs[a]) EXCEPT !.data = Garbage]
             l == <<r2>> \o Tail(reqs[a])
  <2>1. r2 \in Reqs /\ r2.type = Head(reqs[a]).type
    <3>1. Head(reqs[a]) \in Reqs
      BY <1>1, <1>2, <1>8
    <3> QED
      BY <3>1 DEF Reqs, Data
  <2>2. reqs' = [reqs EXCEPT ![a] = l]
    BY <1>8
  <2> HIDE DEF r2
  <2>3. /\ l # <<>> /\ Head(l) = r2 /\ Len(l) = Len(reqs[a])
        /\ \A i \in 2 .. Len(reqs[a]) : l[i] = reqs[a][i]
    BY <1>1, <1>2, <1>8, <2>1, NewHead
  <2> HIDE DEF l
  <2>4. NullifiesReplaced(dir[a], l, Completed(a))
    BY <1>2, <1>8, <2>1, <2>3 DEF Fits, NullifiesReplaced
  <2>5. /\ dir'[a] = e /\ reqs'[a] = l /\ UNCHANGED job
        /\ \A b \in Addrs : b # a => dir'[b] = dir[b] /\ reqs'[b] = reqs[b]
    BY <1>1, <1>2, <1>8, <2>2
  <2> QED
    BY <1>1, <1>5, <1>6, <2>4, <2>5, EntryFits
<1>9. CASE /\ reqs[a] # <<>>
           /\ \E s : \E o \in ProcessReq(a, e, Head(reqs[a]), m.data) : Apply(a, o, dir, reqs, s)
  <2>0. PICK s : \E o \in ProcessReq(a, e, Head(reqs[a]), m.data) : Apply(a, o, dir, reqs, s)
    BY <1>9
  <2>1. PICK o \in ProcessReq(a, e, Head(reqs[a]), m.data) : Apply(a, o, dir, reqs, s)
    BY <2>0
  <2>2. Head(reqs[a]) \in Reqs
    BY <1>1, <1>2, <1>9
  <2>3. IsOutcome(a, e, Head(reqs[a]), o)
    BY <1>1, <1>5, <2>1, <2>2, Outcomes
  <2> QED
    BY <1>1, <1>5, <1>6, <1>9, <2>1, <2>3, OutcomeApplied
<1> QED
  BY <1>4, <1>7, <1>8, <1>9

\* WB_REP: an owner becomes the first of two sharers, for whom there is room.
LEMMA ProcessWbRepFits ==
  ASSUME TypeInv, FitsInv, NEW h \in Nodes, ProcessWbRep(h)
  PROVE  FitsInv'
<1> DEFINE m == Received(h)
           a == m.addr
           e == [dir[a] EXCEPT !.owner = NoNode, !.state = "SHARED"]
           r == Head(reqs[a])
<1>1. /\ a \in Addrs /\ Home[a] = h /\ m.sender \in Nodes /\ m.data \in Data /\ job[h] = Recv
  <2>1. Receives(h, {"WB_REP"})
    BY DEF ProcessWbRep
  <2> QED
    BY <2>1, ReceivedOK DEF AnswerTypes, FilledTypes
<1>2. /\ reqs \in [Addrs -> Seq(Reqs)] /\ EntryOK(dir[a]) /\ dir \in [Addrs -> Entries]
      /\ AtBlock(a) /\ \A b \in Addrs : Fits(dir[b], reqs[b], Completed(b))
  BY <1>1 DEF TypeInv, TypeOK, DirectoryTypeOK, EntriesOK, FitsInv, AtBlock
<1>3. /\ m.sender \in dir[a].sharers /\ reqs[a] # <<>> /\ r.type = "SH_REQ"
      /\ \E o \in ProcessShReq(a, e, r, m.data) : Apply(a, o, dir, reqs, Consume(h))
  BY DEF ProcessWbRep, WbRepExpected
<1>4. /\ EntryOK(e) /\ e.where = dir[a].where /\ e.where # "none" /\ e.state = "SHARED"
      /\ e.sharers = dir[a].sharers /\ e.forwarder = dir[a].forwarder
  <2>1. dir[a] \in Entries
    BY <1>2 DEF EntryOK
  <2>2. /\ e \in Entries /\ e.where = dir[a].where /\ e.sharers = dir[a].sharers /\ e.state = "SHARED"
        /\ e.forwarder = dir[a].forwarder
    BY <2>1 DEF Entries
  <2>3. FewSharers(e)
    BY <1>2, <2>2, SharerCount DEF EntryOK
  <2> QED
    BY <1>2, <1>3, <2>2, <2>3 DEF EntryOK
<1> HIDE DEF m, a, e
<1>5. PICK o \in ProcessShReq(a, e, r, m.data) : Apply(a, o, dir, reqs, Consume(h))
  BY <1>3
<1>6. r \in Reqs
  BY <1>1, <1>2, <1>3
<1> HIDE DEF r
<1>7. o \in ProcessReq(a, e, r, m.data)
  BY <1>3, <1>5 DEF ProcessReq
<1>8. IsOutcome(a, e, r, o)
  BY <1>1, <1>4, <1>6, <1>7, Outcomes
<1>9. /\ EntryOK(o.entry) /\ o.entry \in Entries /\ o.req \in Reqs /\ o.next \in BOOLEAN
      /\ o.req.type = r.type
      /\ o.entry.where = IF Nullified(a, e, r, o) THEN "none" ELSE e.where
  BY <1>1, <1>4, <1>6, <1>8, OutcomeOK DEF EntryOK
<1>10. dir[a].where # "replaced"
  <2>1. ~ Completed(a)
    BY <1>1 DEF Completed, Busy, Recv
  <2> QED
    BY <1>1, <1>2, <1>3, <2>1 DEF Fits, NullifiesReplaced, r
<1>11. ForwarderShares(o.entry)
  <2>1. CASE dir[a].state = "SHARED"
    <3>1. ForwarderShares(e)
      BY <1>1, <1>2, <1>4, <2>1 DEF Fits, ForwarderShares
    <3>2. e.where # "replaced" /\ r.type # "NULLIFY_REQ"
      BY <1>3, <1>4, <1>10
    <3> QED
      BY <1>1, <1>4, <1>6, <1>8, <3>1, <3>2, OutcomeFits
  <2>2. CASE dir[a].state # "SHARED" /\ MaxHwSharers > 1
    <3>1. /\ dir[a].state \in {"EXCLUSIVE", "MODIFIED"}
          /\ dir[a].sharers = {dir[a].owner}
      BY <1>1, <1>2, <1>3, <2>2 DEF EntryOK, Entries
    <3>2. HasRoom(e)
      <4> DEFINE x == dir[a].owner
      <4>0. e.sharers = {x}
        BY <1>4, <3>1
      <4> HIDE DEF x
      <4>1. Cardinality(e.sharers) = 1
        BY <4>0, FS_Singleton
      <4> QED
        BY <2>2, <4>1 DEF HasRoom
    <3>3. m.data # Null
      BY <1>1, NullIsNoData
    <3>4. \/ o = Reply("SH_REP", a, [e EXCEPT !.forwarder = r.requester], r, m.data)
             /\ r.requester \in e.sharers
          \/ o = Reply("SH_REP", a, [[e EXCEPT !.sharers = @ \cup {r.requester}]
                                        EXCEPT !.forwarder = r.requester], r, m.data)
      BY <1>4, <1>5, <3>2, <3>3 DEF ProcessShReq, RetrieveDataAndSendToL2Cache
    <3>5. o.entry.forwarder \in o.entry.sharers
      <4> DEFINE f == [e EXCEPT !.forwarder = r.requester]
                 g == [[e EXCEPT !.sharers = @ \cup {r.requester}] EXCEPT !.forwarder = r.requester]
      <4>1. e \in Entries
        BY <1>4 DEF EntryOK
      <4>2. /\ f.forwarder = r.requester /\ f.sharers = e.sharers
            /\ g.forwarder = r.requester /\ g.sharers = e.sharers \cup {r.requester}
        BY <4>1 DEF Entries
      <4>3. \A x, d : Reply("SH_REP", a, x, r, d).entry = x
        BY DEF Reply, Outcome
      <4>4. \/ o = Reply("SH_REP", a, f, r, m.data) /\ r.requester \in e.sharers
            \/ o = Reply("SH_REP", a, g, r, m.data)
        BY <3>4
      <4> HIDE DEF f, g
      <4> QED
        BY <4>2, <4>3, <4>4
    <3> QED
      BY <3>5 DEF ForwarderShares
  <2>3. CASE ~ (MaxHwSharers > 1)
    BY <2>3 DEF ForwarderShares
  <2> QED
    BY <2>1, <2>2, <2>3
<1>12. o.entry.where = "replaced" <=> o.req.type = "NULLIFY_REQ" /\ ~ o.next
  BY <1>3, <1>4, <1>9, <1>10
<1>13. /\ \A i \in 2 .. Len(reqs[a]) : reqs[a][i].type # "NULLIFY_REQ"
       /\ \A b \in Addrs : b # a => Fits(dir[b], reqs[b], Completed(b))
  BY <1>1, <1>2 DEF Fits, NullifiesReplaced
<1> QED
  BY <1>1, <1>2, <1>3, <1>5, <1>9, <1>11, <1>12, <1>13, ApplyFits

\* DRAM_READ_REP
LEMMA ProcessDRAMReplyFits ==
  ASSUME TypeInv, FitsInv, NEW h \in Nodes, ProcessDRAMReply(h)
  PROVE  FitsInv'
<1> DEFINE m == Received(h)
           a == m.addr
           r == Head(reqs[a])
           type == IF r.type = "SH_REQ" /\ dir[a].state = "SHARED" THEN "SH_REP" ELSE "EX_REP"
           o == Reply(type, a, dir[a], r, m.data)
<1>1. a \in Addrs /\ Home[a] = h /\ job[h] = Recv
  BY ReceivedOK DEF ProcessDRAMReply, DramTypes, FilledTypes
<1>2. /\ reqs \in [Addrs -> Seq(Reqs)] /\ dir \in [Addrs -> Entries]
      /\ AtBlock(a) /\ ~ Completed(a) /\ \A b \in Addrs : Fits(dir[b], reqs[b], Completed(b))
  BY <1>1 DEF TypeInv, TypeOK, DirectoryTypeOK, FitsInv, AtBlock, Completed, Busy, Recv
<1>3. reqs[a] # <<>> /\ Apply(a, o, dir, reqs, Consume(h)) /\ r.type # "NULLIFY_REQ"
  BY DEF ProcessDRAMReply, DramReplyExpected
<1>4. o.entry = dir[a] /\ o.req = r /\ o.next = TRUE
  BY DEF Reply, Outcome
<1>5. r \in Reqs
  BY <1>1, <1>2, <1>3
<1> HIDE DEF m, a, r, type, o
<1>6. /\ dir[a].where # "replaced" /\ ForwarderShares(dir[a])
      /\ \A i \in 2 .. Len(reqs[a]) : reqs[a][i].type # "NULLIFY_REQ"
  BY <1>1, <1>2, <1>3 DEF Fits, NullifiesReplaced, r
<1> QED
  BY <1>1, <1>2, <1>3, <1>4, <1>5, <1>6, ApplyFits

\* A step of a cache or of a core, whose thread does not turn to the next request.
LEMMA CachesFit ==
  ASSUME FitsInv, UNCHANGED directoryVars, NEW n, job[n].at # "nextReq",
         NEW j, j.at # "nextReq", job \in [Nodes -> Jobs], job' = [job EXCEPT ![n] = j]
  PROVE  FitsInv'
<1>1. \A a \in Addrs : Home[a] \in Nodes /\ (Completed(a)' <=> Completed(a))
  BY HomeAssumption DEF Completed, Busy
<1> QED
  BY <1>1 DEF FitsInv, Fits, NullifiesReplaced, directoryVars

LEMMA InitFits == Init => FitsInv
<1> SUFFICES ASSUME Init PROVE FitsInv
  OBVIOUS
<1>1. /\ \A a \in Addrs : Home[a] \in Nodes /\ dir[a] = NoEntry /\ reqs[a] = <<>>
      /\ \A n \in Nodes : job[n] = Recv
  BY HomeAssumption DEF Init, SimThreadsInit, DirectoryInit
<1>2. NoEntry.where = "none" /\ NoEntry.state = "UNCACHED" /\ Len(<<>>) = 0
  BY DEF NoEntry
<1> QED
  BY <1>1, <1>2 DEF FitsInv, Fits, NullifiesReplaced, ForwarderShares

LEMMA StepFits == TypeInv /\ FitsInv /\ [Next]_vars => FitsInv'
<1> SUFFICES ASSUME TypeInv, FitsInv, [Next]_vars PROVE FitsInv'
  OBVIOUS
<1>1. /\ job \in [Nodes -> Jobs] /\ Recv.at # "nextReq"
      /\ \A a : Busy("waiters", a).at # "nextReq"
  BY DEF TypeInv, TypeOK, SimThreadsTypeOK, Recv, Busy
<1>2. ASSUME UNCHANGED <<job, dir, reqs>> PROVE FitsInv'
  BY <1>2 DEF FitsInv, Completed
<1>3. ASSUME NEW n \in Nodes, DirectoryStep(n) PROVE FitsInv'
  <2>1. CASE GetDataFromDram(n) \/ PutDataToDram(n)
    BY <1>2, <2>1 DEF GetDataFromDram, PutDataToDram
  <2> QED
    BY <1>3, <2>1, HandleReqFits, ProcessNextReqFits, ProcessInvRepFits, ProcessFlushRepFits,
       ProcessWbRepFits, ProcessDRAMReplyFits DEF DirectoryStep
<1>4. ASSUME NEW n \in Nodes, NEW a, NEW ls, NEW ws, NEW q, ServeWaiters(n, a, ls, ws, q),
             job[n].at # "nextReq", UNCHANGED directoryVars
      PROVE  FitsInv'
  <2>1. job' = [job EXCEPT ![n] = Recv] \/ job' = [job EXCEPT ![n] = Busy("waiters", a)]
    BY <1>4 DEF ServeWaiters, SetJob
  <2> QED
    BY <1>1, <1>4, <2>1, CachesFit
<1>5. ASSUME NEW n \in Nodes, CacheStep(n), UNCHANGED directoryVars PROVE FitsInv'
  <2>1. CASE ProcessRep(n)
    BY <1>1, <1>4, <1>5, <2>1 DEF ProcessRep, Receives
  <2>2. CASE ProcessUpgradeRep(n)
    BY <1>1, <1>4, <1>5, <2>2 DEF ProcessUpgradeRep, Receives
  <2>3. CASE NextWaiter(n)
    BY <1>1, <1>4, <1>5, <2>3 DEF NextWaiter
  <2>4. CASE ProcessCommand(n)
    BY <1>2, <1>5, <2>4 DEF ProcessCommand, directoryVars
  <2> QED
    BY <1>5, <2>1, <2>2, <2>3, <2>4 DEF CacheStep
<1>6. ASSUME NEW c \in Cores, CoreStep(c), UNCHANGED directoryVars PROVE FitsInv'
  <2>1. UNCHANGED job
    BY <1>6 DEF CoreStep, Hit, Miss, Resume
  <2> QED
    BY <1>2, <1>6, <2>1 DEF directoryVars
<1>7. CASE UNCHANGED vars
  BY <1>2, <1>7 DEF vars, simThreadVars, directoryVars
<1>8. CASE \E n \in Nodes : SimThreadStep(n)
  BY <1>3, <1>5, <1>8 DEF SimThreadStep
<1>9. CASE \E c \in Cores : CoreRuns(c)
  BY <1>6, <1>9 DEF CoreRuns
<1> QED
  BY <1>7, <1>8, <1>9 DEF Next, Done

THEOREM FitsHolds == Spec => []FitsInv
<1>1. FitsInv /\ TypeInv /\ [Next]_vars => FitsInv'
  BY StepFits
<1> QED
  BY <1>1, InitFits, TypesHold, PTL DEF Spec

\* A replaced directory entry lives exactly as long as its NULLIFY_REQ is worked on: it is
\* nullified before another request of its block starts, whichever answers are under way
\* (processDirectoryEntryAllocationReq, processNullifyReq).
THEOREM EntriesNullified == Spec => []ReplacedEntryIsNullified
<1>1. FitsInv => ReplacedEntryIsNullified
  BY DEF FitsInv, Fits, NullifiesReplaced, Completed, ReplacedEntryIsNullified
<1> QED
  BY <1>1, FitsHolds, PTL

\* MESIF asks a cache for the data only if that cache is a sharer, whatever an unset
\* forwarder happens to hold, if the second reader of a block finds a pointer
\* (retrieveDataAndSendToL2Cache, processWbRepFromL2Cache, removeSharer).
THEOREM ForwardersShare == MaxHwSharers > 1 => (Spec => []ForwarderIsSharer)
<1> SUFFICES ASSUME MaxHwSharers > 1 PROVE Spec => []ForwarderIsSharer
  OBVIOUS
<1>1. FitsInv => ForwarderIsSharer
  BY DEF FitsInv, Fits, ForwarderShares, ForwarderIsSharer
<1> QED
  BY <1>1, FitsHolds, PTL
=============================================================================
