--------------------------- MODULE CoherenceProofs ---------------------------
(***************************************************************************)
(* The caches agree with the directory: proofs for any number of nodes,    *)
(* blocks and cores, any associativity of the caches and of the directory, *)
(* any number of hardware sharers, and the three variants of the protocol. *)
(***************************************************************************)
EXTENDS DirectoryProofs

USE HomeAssumption, NoAddrAssumption, VersionsAssumption, VariantAssumption,
    SharersAssumption, NoNodeAssumption, LLCAssumption

-----------------------------------------------------------------------------
(* Queues.                                                                 *)

\* Is something of S in queue q, something of S before something of T, and so on.
Has(q, S) == \E i \in 1 .. Len(q) : q[i] \in S
Precedes(q, S, T) == \E i, j \in 1 .. Len(q) : i < j /\ q[i] \in S /\ q[j] \in T
Precedes3(q, S, T, U) ==
  \E i, j, k \in 1 .. Len(q) : i < j /\ j < k /\ q[i] \in S /\ q[j] \in T /\ q[k] \in U

\* Messages about block a, those that node n sent, and the requests of n.
About(types, a) == {m \in Msgs : m.type \in types /\ m.addr = a}
From(types, a, n) == {m \in Msgs : m.type \in types /\ m.addr = a /\ m.sender = n}
ReqsBy(types, n) == {r \in Reqs : r.type \in types /\ r.requester = n}

Lost == {"INV_REP", "FLUSH_REP"}
DramReads == {"DRAM_READ_REQ", "DRAM_READ_REP"}
DataReplies == {"EX_REP", "SH_REP"}
Misses == {"EX_REQ", "SH_REQ"}
Writes == {"EX_REQ", "UPGRADE_REQ"}

-----------------------------------------------------------------------------
(* The inductive invariant.  It looks at one block a and one node n: e is  *)
(* the directory entry of a, cur the request the directory works on, rest  *)
(* the requests that wait for it, h the queue of the home of a, q the queue *)
(* of n, s the state of its line and c what its cores do about a.          *)

\* The directory works on no request.
NoReq == [type |-> "NONE", requester |-> NoNode, waitForData |-> FALSE,
          forwardingFrom |-> NoNode, data |-> Null]

\* Node n is a sharer already, but its data are still to be fetched.
Granted(cur, n) ==
  /\ cur.type \in RequestTypes /\ cur.requester = n
  /\ cur.waitForData \/ cur.forwardingFrom # NoNode

\* A request of n of one of these types is queued in the directory.
Asked(cur, rest, types, n) ==
  \/ cur.type \in types /\ cur.requester = n
  \/ Has(rest, ReqsBy(types, n))

\* The directory waits for n to write the block back.
AwaitsWb(e, cur, n) ==
  /\ cur.type = "SH_REQ" /\ ~ cur.waitForData
  /\ \/ Owns(e, n) /\ cur.forwardingFrom = NoNode
     \/ e.state = "SHARED" /\ cur.forwardingFrom = n

\* A sharer n is asked for the data of a requester whose copy is gone.
UpgradeFlushes(e, cur, n) ==
  cur.type = "UPGRADE_REQ" /\ cur.requester # n /\ e.state = "SHARED"

\* The directory waits for n to give its copy away.
AwaitsFlush(e, cur, n) ==
  \/ /\ Owns(e, n) /\ cur.type \in {"EX_REQ", "UPGRADE_REQ", "NULLIFY_REQ"}
     /\ cur.type = "UPGRADE_REQ" => cur.requester # n
  \/ UpgradeFlushes(e, cur, n)

\* The directory waits for n to give a copy away of which others exist.
AwaitsInv(e, cur, n) ==
  /\ e.state = "SHARED"
  /\ \/ cur.type \in {"EX_REQ", "NULLIFY_REQ"}
     \/ cur.type = "UPGRADE_REQ" /\ cur.requester # n

Awaits(e, cur, n) == AwaitsInv(e, cur, n) \/ AwaitsFlush(e, cur, n)

\* A command in queue q that will find a line.
Live(a, q, type, s) ==
  \/ s # "INVALID" /\ Has(q, About({type}, a))
  \/ Precedes(q, About(DataReplies, a), About({type}, a))

\* The requests: those that wait are as they came, and one that waits for the DRAM or
\* for a forwarder has been granted its copy.
ReqInv(a, e, cur, rest, h) ==
  /\ \A i \in 1 .. Len(rest) : rest[i] = Req(rest[i].type, rest[i].requester)
  /\ cur.waitForData =>
       \/ cur.type \in {"EX_REQ", "UPGRADE_REQ"} /\ Owns(e, cur.requester)
       \/ cur.type = "SH_REQ" /\ (e.state = "SHARED" \/ Owns(e, cur.requester))
  /\ cur.forwardingFrom # NoNode => cur.type = "SH_REQ" /\ e.state = "SHARED"
  /\ Has(h, About(DramReads, a)) => cur.waitForData
  /\ ~ Precedes(h, About(DramReads, a), About(DramReads, a))

\* The copy of n is in its cache, on its way back, on its way to it, or still to be
\* fetched, one of these at most, and n is a sharer then.
Tokens(a, n, e, cur, rest, h, q, s) ==
  /\ s # "INVALID" => /\ n \in e.sharers /\ ~ Has(h, From(Lost, a, n))
                      /\ ~ Has(q, About(DataReplies, a)) /\ ~ Granted(cur, n)
  /\ Has(h, From(Lost, a, n)) =>
       /\ n \in e.sharers /\ ~ Precedes(h, From(Lost, a, n), From(Lost, a, n))
       /\ ~ Has(q, About(DataReplies, a)) /\ ~ Granted(cur, n)
       /\ ~ Asked(cur, rest, {"SH_REQ"}, n)
  /\ Has(q, About(DataReplies, a)) => n \in e.sharers /\ ~ Granted(cur, n)
  /\ Granted(cur, n) => n \in e.sharers
  /\ ~ Precedes(h, From({"SH_REQ"}, a, n), From(Lost, a, n))

\* A cache that may write, or will be told so, is the owner; an owner whose line is
\* only SHARED has said so.
Ownership(a, n, e, cur, rest, h, q, s) ==
  /\ s \in {"EXCLUSIVE", "MODIFIED"} => Owns(e, n)
  /\ Has(q, About({"EX_REP"}, a)) => Owns(e, n)
  /\ Has(q, About({"SH_REP"}, a)) => ~ Owns(e, n)
  /\ Has(q, About({"UPGRADE_REP"}, a)) =>
       /\ Owns(e, n) /\ e.state = "MODIFIED"
       /\ ~ Has(h, From({"FLUSH_REP"}, a, n)) /\ ~ Has(h, From({"WB_REP"}, a, n))
       /\ s # "INVALID" =>
            ~ Precedes(q, About({"WB_REQ", "FLUSH_REQ"}, a), About({"UPGRADE_REP"}, a))
  /\ s = "SHARED" /\ Owns(e, n) => Has(h, From({"WB_REP"}, a, n))
  /\ Has(h, From({"UPGRADE_REQ"}, a, n)) /\ Owns(e, n) =>
       Precedes(h, From({"WB_REP"}, a, n), From({"UPGRADE_REQ"}, a, n))
  /\ Asked(cur, rest, {"UPGRADE_REQ"}, n) => ~ Owns(e, n) \/ Granted(cur, n)

\* Data are written back once, and only while the directory waits for them.
WriteBacks(a, n, e, cur, h, q, s) ==
  /\ Has(h, From({"WB_REP"}, a, n)) =>
       /\ AwaitsWb(e, cur, n)
       /\ ~ Precedes(h, From({"WB_REP"}, a, n), From({"WB_REP"}, a, n))
       /\ s \notin {"EXCLUSIVE", "MODIFIED"}
       /\ ~ Has(q, About({"EX_REP"}, a))
       /\ ~ Has(h, From({"FLUSH_REP"}, a, n))
  /\ ~ Precedes(h, From(Lost, a, n), From({"WB_REP"}, a, n))
  /\ Live(a, q, "WB_REQ", s) => AwaitsWb(e, cur, n) /\ ~ Has(h, From({"WB_REP"}, a, n))
  /\ s # "INVALID" => ~ Precedes(q, About({"WB_REQ"}, a), About({"WB_REQ"}, a))
  /\ ~ Precedes3(q, About(DataReplies, a), About({"WB_REQ"}, a), About({"WB_REQ"}, a))

\* Data are flushed by the owner, or for an upgrade whose copy is gone.
Flushes(a, n, e, cur, h, q, s) ==
  /\ Has(h, From({"FLUSH_REP"}, a, n)) => Owns(e, n) \/ UpgradeFlushes(e, cur, n)
  /\ Live(a, q, "FLUSH_REQ", s) => AwaitsFlush(e, cur, n)

\* What the cores of a node do about a block: nobody waits for it ("none"), the first
\* waiter waits to read or to write it ("reads", "writes"), it was woken and is about to
\* write ("writing"), or it was woken and reads or is done ("served").
Waits == {"reads", "writes"}

\* A node has one request for a block at most, while its cores wait for the block.
Requests(a, n, cur, rest, h, q, s, c) ==
  /\ Has(h, From(RequestTypes, a, n)) \/ Asked(cur, rest, RequestTypes, n)
       \/ Has(q, About(ReplyTypes, a)) => c \in Waits
  /\ Has(h, From(RequestTypes, a, n)) =>
       /\ ~ Asked(cur, rest, RequestTypes, n) /\ ~ Has(q, About(ReplyTypes, a))
       /\ ~ Precedes(h, From(RequestTypes, a, n), From(RequestTypes, a, n))
  /\ Asked(cur, rest, RequestTypes, n) =>
       /\ ~ Has(q, About(ReplyTypes, a))
       /\ ~ Precedes(rest, ReqsBy(RequestTypes, n), ReqsBy(RequestTypes, n))
  /\ cur.type \in RequestTypes /\ cur.requester = n => ~ Has(rest, ReqsBy(RequestTypes, n))
  /\ ~ Precedes(q, About(ReplyTypes, a), About(ReplyTypes, a))
  /\ Has(h, From(Misses, a, n)) \/ Asked(cur, rest, Misses, n) => s = "INVALID"
  /\ Has(h, From(RequestTypes, a, n)) \/ Asked(cur, rest, RequestTypes, n)
       \/ Has(q, About({"UPGRADE_REP"}, a)) => s \in {"INVALID", "SHARED_UPGRADING"}
  /\ s = "SHARED_UPGRADING" => c \in Waits

\* The nodes with a cache, and a directory that has a pointer for each of them.
Caches == {LLC[c] : c \in Cores}
FullMap == IsFiniteSet(Caches) /\ Cardinality(Caches) <= MaxHwSharers

\* Nobody waits without a request, and nobody is a sharer without a reason.
Accounts(a, n, e, cur, rest, h, q, s, c) ==
  /\ c \in Waits => \/ Has(h, From(RequestTypes, a, n)) \/ Asked(cur, rest, RequestTypes, n)
                    \/ Has(q, About(ReplyTypes, a))
  /\ c # "none" => n \in Caches
  /\ n \in e.sharers => /\ n \in Caches
                        /\ \/ s # "INVALID" \/ Has(h, From(Lost, a, n))
                           \/ Has(q, About(DataReplies, a)) \/ Granted(cur, n)
  /\ Has(h, From({"WB_REP"}, a, n)) => n \in e.sharers
  /\ Granted(cur, n) /\ Owns(e, n) =>
       e.state = IF cur.type = "SH_REQ" THEN "EXCLUSIVE" ELSE "MODIFIED"

\* With a pointer for each cache a sharer is invalidated only on behalf of a writer, and
\* a cache whose upgrade is granted still has its copy.
Invalidations(a, n, e, cur, rest, h, q, s) ==
  FullMap =>
    /\ Live(a, q, "INV_REQ", s) => AwaitsInv(e, cur, n)
    /\ cur.type \in RequestTypes /\ cur.requester = n => ~ Has(h, From(Lost, a, n))
    /\ Has(rest, ReqsBy(RequestTypes, n)) /\ Has(h, From(Lost, a, n)) => Awaits(e, cur, n)
    /\ Precedes(h, From(RequestTypes, a, n), From(Lost, a, n)) => Awaits(e, cur, n)
    /\ Has(q, About({"UPGRADE_REP"}, a)) => ~ Has(h, From(Lost, a, n))

\* What a cache has asked for is what its first waiter waits for, and the cache that
\* the directory lets write writes at once: its line is dirty when it goes, unless it
\* was written back before.
Writers(a, n, e, cur, rest, h, q, s, c) ==
  /\ Has(h, From(Writes, a, n)) \/ Asked(cur, rest, Writes, n) => c = "writes"
  /\ Owns(e, n) /\ e.state = "MODIFIED" =>
       /\ Has(q, About({"EX_REP"}, a)) => c = "writes"
       /\ s = "EXCLUSIVE" => c = "writing"
       /\ FullMap /\ Has(h, From({"INV_REP"}, a, n)) =>
            Precedes(h, From({"WB_REP"}, a, n), From({"INV_REP"}, a, n))

NodeInv(a, n, e, cur, rest, h, q, s, c) ==
  /\ Tokens(a, n, e, cur, rest, h, q, s)
  /\ Ownership(a, n, e, cur, rest, h, q, s)
  /\ WriteBacks(a, n, e, cur, h, q, s)
  /\ Flushes(a, n, e, cur, h, q, s)
  /\ Requests(a, n, cur, rest, h, q, s, c)
  /\ Accounts(a, n, e, cur, rest, h, q, s, c)
  /\ Invalidations(a, n, e, cur, rest, h, q, s)
  /\ Writers(a, n, e, cur, rest, h, q, s, c)

\* For all nodes: their queues are in q, the states of their lines in l and what their
\* cores do in c.
BlockInv(a, e, cur, rest, q, l, c) ==
  /\ ReqInv(a, e, cur, rest, q[Home[a]])
  /\ \A n \in Nodes : NodeInv(a, n, e, cur, rest, q[Home[a]], q[n], l[n], c[n])

\* The state of the specification as that invariant sees it.
Current(a) == IF reqs[a] = <<>> \/ job[Home[a]] = Busy("nextReq", a) THEN NoReq ELSE Head(reqs[a])
Waiting(a) == IF reqs[a] = <<>> THEN <<>> ELSE Tail(reqs[a])
LineStates(a) == [n \in Nodes |-> line[n][a].state]
CoreState(n, a) ==
  LET w == waiters[n][a]
  IN  IF job[n] = Busy("waiters", a)
      THEN IF Head(w).exclusive /\ pc[Head(w).core] = "woken" THEN "writing" ELSE "served"
      ELSE IF w = <<>> THEN "none" ELSE IF Head(w).exclusive THEN "writes" ELSE "reads"
CoreStates(a) == [n \in Nodes |-> CoreState(n, a)]

Coherent(a) == BlockInv(a, dir[a], Current(a), Waiting(a), queue, LineStates(a), CoreStates(a))
CoherenceInv == \A a \in Addrs : Coherent(a)

-----------------------------------------------------------------------------
(* What sending and receiving do to a queue.                               *)

\* q2 is q as far as the messages of C are concerned.
Same(q, q2, C) ==
  \A S, T, U \in SUBSET C :
    /\ Has(q2, S) <=> Has(q, S)
    /\ Precedes(q2, S, T) <=> Precedes(q, S, T)
    /\ Precedes3(q2, S, T, U) <=> Precedes3(q, S, T, U)

\* q2 is q with m at its end.
Adds(q, q2, m) ==
  \A S, T, U :
    /\ Has(q2, S) <=> Has(q, S) \/ m \in S
    /\ Precedes(q2, S, T) <=> Precedes(q, S, T) \/ (Has(q, S) /\ m \in T)
    /\ Precedes3(q2, S, T, U) <=> Precedes3(q, S, T, U) \/ (Precedes(q, S, T) /\ m \in U)

\* q2 is q without m at its head.
Drops(q, q2, m) ==
  \A S, T, U :
    /\ Has(q, S) <=> m \in S \/ Has(q2, S)
    /\ Precedes(q, S, T) <=> Precedes(q2, S, T) \/ (m \in S /\ Has(q2, T))
    /\ Precedes3(q, S, T, U) <=> Precedes3(q2, S, T, U) \/ (m \in S /\ Precedes(q2, T, U))

\* Appending a message.
LEMMA AppendAdds ==
  ASSUME NEW X, NEW q \in Seq(X), NEW m \in X
  PROVE  Adds(q, Append(q, m), m)
<1> DEFINE q2 == Append(q, m)
<1>1. Len(q2) = Len(q) + 1 /\ \A i \in 1 .. Len(q) : q2[i] = q[i]
  OBVIOUS
<1>2. q2[Len(q) + 1] = m /\ Len(q) \in Nat
  OBVIOUS
<1> HIDE DEF q2
<1>3. ASSUME NEW S PROVE Has(q2, S) <=> Has(q, S) \/ m \in S
  BY <1>1, <1>2 DEF Has
<1>4. ASSUME NEW S, NEW T
      PROVE  Precedes(q2, S, T) <=> Precedes(q, S, T) \/ (Has(q, S) /\ m \in T)
  <2>1. ASSUME Precedes(q2, S, T) PROVE Precedes(q, S, T) \/ (Has(q, S) /\ m \in T)
    <3>1. PICK i, j \in 1 .. Len(q2) : i < j /\ q2[i] \in S /\ q2[j] \in T
      BY <2>1 DEF Precedes
    <3>2. i \in 1 .. Len(q) /\ (j \in 1 .. Len(q) \/ j = Len(q) + 1)
      BY <1>1, <1>2, <3>1
    <3> QED
      BY <1>1, <1>2, <3>1, <3>2 DEF Precedes, Has
  <2>2. ASSUME Precedes(q, S, T) PROVE Precedes(q2, S, T)
    <3>1. PICK i, j \in 1 .. Len(q) : i < j /\ q[i] \in S /\ q[j] \in T
      BY <2>2 DEF Precedes
    <3> QED
      BY <1>1, <1>2, <3>1 DEF Precedes
  <2>3. ASSUME Has(q, S), m \in T PROVE Precedes(q2, S, T)
    <3>1. PICK i \in 1 .. Len(q) : q[i] \in S
      BY <2>3 DEF Has
    <3>2. i < Len(q) + 1 /\ Len(q) + 1 \in 1 .. Len(q2) /\ i \in 1 .. Len(q2)
      BY <1>1, <1>2, <3>1
    <3> QED
      BY <1>1, <1>2, <2>3, <3>1, <3>2 DEF Precedes
  <2> QED
    BY <2>1, <2>2, <2>3
<1>5. ASSUME NEW S, NEW T, NEW U
      PROVE  Precedes3(q2, S, T, U) <=> Precedes3(q, S, T, U) \/ (Precedes(q, S, T) /\ m \in U)
  <2>1. ASSUME Precedes3(q2, S, T, U)
        PROVE  Precedes3(q, S, T, U) \/ (Precedes(q, S, T) /\ m \in U)
    <3>1. PICK i, j, k \in 1 .. Len(q2) :
            i < j /\ j < k /\ q2[i] \in S /\ q2[j] \in T /\ q2[k] \in U
      BY <2>1 DEF Precedes3
    <3>2. i \in 1 .. Len(q) /\ j \in 1 .. Len(q) /\ (k \in 1 .. Len(q) \/ k = Len(q) + 1)
      BY <1>1, <1>2, <3>1
    <3> QED
      BY <1>1, <1>2, <3>1, <3>2 DEF Precedes3, Precedes
  <2>2. ASSUME Precedes3(q, S, T, U) PROVE Precedes3(q2, S, T, U)
    <3>1. PICK i, j, k \in 1 .. Len(q) :
            i < j /\ j < k /\ q[i] \in S /\ q[j] \in T /\ q[k] \in U
      BY <2>2 DEF Precedes3
    <3> QED
      BY <1>1, <1>2, <3>1 DEF Precedes3
  <2>3. ASSUME Precedes(q, S, T), m \in U PROVE Precedes3(q2, S, T, U)
    <3>1. PICK i, j \in 1 .. Len(q) : i < j /\ q[i] \in S /\ q[j] \in T
      BY <2>3 DEF Precedes
    <3>2. /\ j < Len(q) + 1 /\ Len(q) + 1 \in 1 .. Len(q2)
          /\ i \in 1 .. Len(q2) /\ j \in 1 .. Len(q2)
      BY <1>1, <1>2, <3>1
    <3> QED
      BY <1>1, <1>2, <2>3, <3>1, <3>2 DEF Precedes3
  <2> QED
    BY <2>1, <2>2, <2>3
<1> QED
  BY <1>3, <1>4, <1>5 DEF Adds, q2

\* Taking the first message.
LEMMA TailDrops ==
  ASSUME NEW X, NEW q \in Seq(X), q # <<>>
  PROVE  Drops(q, Tail(q), Head(q)) /\ Tail(q) \in Seq(X) /\ Head(q) \in X
<1> DEFINE t == Tail(q)
           m == Head(q)
<1>1. Len(t) = Len(q) - 1 /\ \A i \in 1 .. Len(t) : t[i] = q[i + 1]
  OBVIOUS
<1>2. q[1] = m /\ Len(q) \in Nat \ {0} /\ t \in Seq(X) /\ m \in X
  OBVIOUS
<1> HIDE DEF t, m
<1>3. \A i \in 1 .. Len(q) : i = 1 \/ (i - 1 \in 1 .. Len(t) /\ q[i] = t[i - 1])
  BY <1>1, <1>2
<1>4. \A i \in 1 .. Len(t) : i + 1 \in 1 .. Len(q) /\ q[i + 1] = t[i]
  BY <1>1, <1>2
<1>5. ASSUME NEW S PROVE Has(q, S) <=> m \in S \/ Has(t, S)
  <2>1. Has(q, S) => m \in S \/ Has(t, S)
    BY <1>2, <1>3 DEF Has
  <2>2. m \in S => Has(q, S)
    BY <1>2 DEF Has
  <2>3. Has(t, S) => Has(q, S)
    BY <1>4 DEF Has
  <2> QED
    BY <2>1, <2>2, <2>3
<1>6. ASSUME NEW S, NEW T
      PROVE  Precedes(q, S, T) <=> Precedes(t, S, T) \/ (m \in S /\ Has(t, T))
  <2>1. ASSUME Precedes(q, S, T) PROVE Precedes(t, S, T) \/ (m \in S /\ Has(t, T))
    <3>1. PICK i, j \in 1 .. Len(q) : i < j /\ q[i] \in S /\ q[j] \in T
      BY <2>1 DEF Precedes
    <3>2. j - 1 \in 1 .. Len(t) /\ t[j - 1] \in T
      BY <1>3, <3>1
    <3>3. i = 1 \/ (i - 1 \in 1 .. Len(t) /\ t[i - 1] \in S /\ i - 1 < j - 1)
      BY <1>3, <3>1
    <3> QED
      BY <1>2, <3>1, <3>2, <3>3 DEF Precedes, Has
  <2>2. ASSUME Precedes(t, S, T) PROVE Precedes(q, S, T)
    <3>1. PICK i, j \in 1 .. Len(t) : i < j /\ t[i] \in S /\ t[j] \in T
      BY <2>2 DEF Precedes
    <3>2. i + 1 < j + 1 /\ i + 1 \in 1 .. Len(q) /\ j + 1 \in 1 .. Len(q)
      BY <1>4, <3>1
    <3> QED
      BY <1>4, <3>1, <3>2 DEF Precedes
  <2>3. ASSUME m \in S, Has(t, T) PROVE Precedes(q, S, T)
    <3>1. PICK j \in 1 .. Len(t) : t[j] \in T
      BY <2>3 DEF Has
    <3>2. 1 < j + 1 /\ 1 \in 1 .. Len(q) /\ j + 1 \in 1 .. Len(q)
      BY <1>2, <1>4, <3>1
    <3> QED
      BY <1>2, <1>4, <2>3, <3>1, <3>2 DEF Precedes
  <2> QED
    BY <2>1, <2>2, <2>3
<1>7. ASSUME NEW S, NEW T, NEW U
      PROVE  Precedes3(q, S, T, U) <=> Precedes3(t, S, T, U) \/ (m \in S /\ Precedes(t, T, U))
  <2>1. ASSUME Precedes3(q, S, T, U)
        PROVE  Precedes3(t, S, T, U) \/ (m \in S /\ Precedes(t, T, U))
    <3>1. PICK i, j, k \in 1 .. Len(q) :
            i < j /\ j < k /\ q[i] \in S /\ q[j] \in T /\ q[k] \in U
      BY <2>1 DEF Precedes3
    <3>2. /\ j - 1 \in 1 .. Len(t) /\ t[j - 1] \in T /\ k - 1 \in 1 .. Len(t) /\ t[k - 1] \in U
          /\ j - 1 < k - 1
      BY <1>3, <3>1
    <3>3. i = 1 \/ (i - 1 \in 1 .. Len(t) /\ t[i - 1] \in S /\ i - 1 < j - 1)
      BY <1>3, <3>1
    <3> QED
      BY <1>2, <3>1, <3>2, <3>3 DEF Precedes3, Precedes
  <2>2. ASSUME Precedes3(t, S, T, U) PROVE Precedes3(q, S, T, U)
    <3>1. PICK i, j, k \in 1 .. Len(t) :
            i < j /\ j < k /\ t[i] \in S /\ t[j] \in T /\ t[k] \in U
      BY <2>2 DEF Precedes3
    <3>2. /\ i + 1 < j + 1 /\ j + 1 < k + 1
          /\ i + 1 \in 1 .. Len(q) /\ j + 1 \in 1 .. Len(q) /\ k + 1 \in 1 .. Len(q)
      BY <1>4, <3>1
    <3> QED
      BY <1>4, <3>1, <3>2 DEF Precedes3
  <2>3. ASSUME m \in S, Precedes(t, T, U) PROVE Precedes3(q, S, T, U)
    <3>1. PICK j, k \in 1 .. Len(t) : j < k /\ t[j] \in T /\ t[k] \in U
      BY <2>3 DEF Precedes
    <3>2. /\ 1 < j + 1 /\ j + 1 < k + 1
          /\ 1 \in 1 .. Len(q) /\ j + 1 \in 1 .. Len(q) /\ k + 1 \in 1 .. Len(q)
      BY <1>2, <1>4, <3>1
    <3> QED
      BY <1>2, <1>4, <2>3, <3>1, <3>2 DEF Precedes3
  <2> QED
    BY <2>1, <2>2, <2>3
<1> QED
  BY <1>2, <1>5, <1>6, <1>7 DEF Drops, t, m

\* Nothing is in an empty queue.
LEMMA EmptyHas ==
  \A S, T, U : ~ Has(<<>>, S) /\ ~ Precedes(<<>>, S, T) /\ ~ Precedes3(<<>>, S, T, U)
  BY DEF Has, Precedes, Precedes3

-----------------------------------------------------------------------------
(* The classes of messages that the invariant speaks of.                   *)

\* Membership of a class.
LEMMA Membership ==
  ASSUME NEW m \in Msgs, NEW a, NEW n
  PROVE  /\ \A T : m \in From(T, a, n) <=> m.type \in T /\ m.addr = a /\ m.sender = n
         /\ \A T : m \in About(T, a) <=> m.type \in T /\ m.addr = a
  BY DEF From, About

\* Membership of a class of requests.
LEMMA ReqMembership ==
  ASSUME NEW r \in Reqs, NEW n
  PROVE  \A T : r \in ReqsBy(T, n) <=> r.type \in T /\ r.requester = n
  BY DEF ReqsBy

\* What is in a class is in the classes that include it.
LEMMA Includes ==
  ASSUME NEW q, NEW S, NEW T
  PROVE  /\ S \subseteq T /\ Has(q, S) => Has(q, T)
         /\ Has(q, S \cup T) <=> Has(q, S) \/ Has(q, T)
         /\ Precedes(q, S, T) => Has(q, S) /\ Has(q, T)
  BY DEF Has, Precedes

\* The same for the messages of n to the home of a.
LEMMA HomeIncludes ==
  ASSUME NEW h, NEW a, NEW n
  PROVE  /\ Has(h, From({"FLUSH_REP"}, a, n)) => Has(h, From(Lost, a, n))
         /\ Has(h, From({"SH_REQ"}, a, n)) => Has(h, From(Misses, a, n))
         /\ Has(h, From(RequestTypes, a, n)) <=>
              Has(h, From(Misses, a, n)) \/ Has(h, From({"UPGRADE_REQ"}, a, n))
         /\ \A S, T : Precedes(h, S, T) => Has(h, S) /\ Has(h, T)
<1>1. From({"FLUSH_REP"}, a, n) \subseteq From(Lost, a, n)
  BY DEF From, Lost
<1>2. From({"SH_REQ"}, a, n) \subseteq From(Misses, a, n)
  BY DEF From, Misses
<1>3. From(RequestTypes, a, n) = From(Misses, a, n) \cup From({"UPGRADE_REQ"}, a, n)
  BY DEF From, RequestTypes, Misses
<1>4. \A S, T : /\ S \subseteq T /\ Has(h, S) => Has(h, T)
                /\ Has(h, S \cup T) <=> Has(h, S) \/ Has(h, T)
                /\ Precedes(h, S, T) => Has(h, S) /\ Has(h, T)
  BY Includes
<1> QED
  BY <1>1, <1>2, <1>3, <1>4

\* The same for the messages about a to a node.
LEMMA NodeIncludes ==
  ASSUME NEW q, NEW a
  PROVE  /\ Has(q, About(DataReplies, a)) <=>
              Has(q, About({"EX_REP"}, a)) \/ Has(q, About({"SH_REP"}, a))
         /\ Has(q, About(ReplyTypes, a)) <=>
              Has(q, About(DataReplies, a)) \/ Has(q, About({"UPGRADE_REP"}, a))
         /\ Has(q, About({"WB_REQ", "FLUSH_REQ"}, a)) <=>
              Has(q, About({"WB_REQ"}, a)) \/ Has(q, About({"FLUSH_REQ"}, a))
         /\ \A S, T : Precedes(q, S, T) => Has(q, S) /\ Has(q, T)
<1>1. About(DataReplies, a) = About({"EX_REP"}, a) \cup About({"SH_REP"}, a)
  BY DEF About, DataReplies
<1>2. About(ReplyTypes, a) = About(DataReplies, a) \cup About({"UPGRADE_REP"}, a)
  BY DEF About, DataReplies, ReplyTypes
<1>3. About({"WB_REQ", "FLUSH_REQ"}, a) = About({"WB_REQ"}, a) \cup About({"FLUSH_REQ"}, a)
  BY DEF About
<1>4. \A S, T : Has(q, S \cup T) <=> Has(q, S) \/ Has(q, T)
  BY Includes
<1>5. \A S, T : Precedes(q, S, T) => Has(q, S) /\ Has(q, T)
  BY Includes
<1> QED
  BY <1>1, <1>2, <1>3, <1>4, <1>5

\* The same for the requests that wait in the directory.
LEMMA AskedIncludes ==
  ASSUME NEW cur, NEW rest, NEW n
  PROVE  /\ Asked(cur, rest, {"SH_REQ"}, n) => Asked(cur, rest, Misses, n)
         /\ Asked(cur, rest, RequestTypes, n) <=>
              Asked(cur, rest, Misses, n) \/ Asked(cur, rest, {"UPGRADE_REQ"}, n)
         /\ Has(rest, ReqsBy({"SH_REQ"}, n)) => Has(rest, ReqsBy(Misses, n))
         /\ Has(rest, ReqsBy(RequestTypes, n)) <=>
              Has(rest, ReqsBy(Misses, n)) \/ Has(rest, ReqsBy({"UPGRADE_REQ"}, n))
<1>1. ReqsBy({"SH_REQ"}, n) \subseteq ReqsBy(Misses, n)
  BY DEF ReqsBy, Misses
<1>2. ReqsBy(RequestTypes, n) = ReqsBy(Misses, n) \cup ReqsBy({"UPGRADE_REQ"}, n)
  BY DEF ReqsBy, RequestTypes, Misses
<1>3. /\ Has(rest, ReqsBy({"SH_REQ"}, n)) => Has(rest, ReqsBy(Misses, n))
      /\ Has(rest, ReqsBy(RequestTypes, n)) <=>
           Has(rest, ReqsBy(Misses, n)) \/ Has(rest, ReqsBy({"UPGRADE_REQ"}, n))
  BY <1>1, <1>2, Includes
<1> QED
  BY <1>3 DEF Asked, Misses, RequestTypes

\* What a cache that asks to write has asked for, and the ways to give a copy away.
LEMMA WriterIncludes ==
  ASSUME NEW h, NEW a, NEW n, NEW cur, NEW rest
  PROVE  /\ Has(h, From({"INV_REP"}, a, n)) => Has(h, From(Lost, a, n))
         /\ Has(h, From(Writes, a, n)) => Has(h, From(RequestTypes, a, n))
         /\ Asked(cur, rest, Writes, n) => Asked(cur, rest, RequestTypes, n)
         /\ Has(rest, ReqsBy(Writes, n)) => Has(rest, ReqsBy(RequestTypes, n))
         /\ \A S, T : Precedes(h, S, T) => Has(h, S) /\ Has(h, T)
<1>1. From({"INV_REP"}, a, n) \subseteq From(Lost, a, n)
  BY DEF From, Lost
<1>2. From(Writes, a, n) \subseteq From(RequestTypes, a, n)
  BY DEF From, Writes, RequestTypes
<1>3. ReqsBy(Writes, n) \subseteq ReqsBy(RequestTypes, n)
  BY DEF ReqsBy, Writes, RequestTypes
<1>4. \A q, S, T : /\ S \subseteq T /\ Has(q, S) => Has(q, T)
                   /\ Precedes(q, S, T) => Has(q, S) /\ Has(q, T)
  BY Includes
<1>5. Writes \subseteq RequestTypes
  BY DEF Writes, RequestTypes
<1> QED
  BY <1>1, <1>2, <1>3, <1>4, <1>5 DEF Asked

\* What the invariant of n sees of the queue of the home of a, and of the queue of n.
HomeClass(a, n) == From(RequestTypes \cup AnswerTypes, a, n)
NodeClass(a) == About(ReplyTypes \cup CommandTypes, a)

\* A message outside of C makes no difference to C.
LEMMA OtherMessage ==
  ASSUME NEW q, NEW q2, NEW m, NEW C, m \notin C, Adds(q, q2, m) \/ Drops(q, q2, m)
  PROVE  Same(q, q2, C)
<1> SUFFICES ASSUME NEW S \in SUBSET C, NEW T \in SUBSET C, NEW U \in SUBSET C
             PROVE  /\ Has(q2, S) <=> Has(q, S)
                    /\ Precedes(q2, S, T) <=> Precedes(q, S, T)
                    /\ Precedes3(q2, S, T, U) <=> Precedes3(q, S, T, U)
  BY DEF Same
<1>1. m \notin S /\ m \notin T /\ m \notin U
  OBVIOUS
<1> QED
  BY <1>1 DEF Adds, Drops

\* Being the same is reflexive and transitive.
LEMMA SameTrans ==
  ASSUME NEW C, NEW q, NEW q2, NEW q3
  PROVE  Same(q, q, C) /\ (Same(q, q2, C) /\ Same(q2, q3, C) => Same(q, q3, C))
  BY DEF Same

\* The classes named in the invariant.
LEMMA Classes ==
  ASSUME NEW a, NEW n
  PROVE  /\ \A T : T \subseteq RequestTypes \cup AnswerTypes => From(T, a, n) \in SUBSET HomeClass(a, n)
         /\ \A T : T \subseteq ReplyTypes \cup CommandTypes => About(T, a) \in SUBSET NodeClass(a)
  BY DEF HomeClass, NodeClass, From, About

\* The invariant of n depends only on those messages.
LEMMA NodeFrame ==
  ASSUME NEW a, NEW n, NEW e, NEW cur, NEW rest, NEW h, NEW q, NEW s, NEW c, NEW h2, NEW q2,
         NodeInv(a, n, e, cur, rest, h, q, s, c),
         Same(h, h2, HomeClass(a, n)), Same(q, q2, NodeClass(a))
  PROVE  NodeInv(a, n, e, cur, rest, h2, q2, s, c)
<1>1. /\ From(Lost, a, n) \in SUBSET HomeClass(a, n)
      /\ From({"SH_REQ"}, a, n) \in SUBSET HomeClass(a, n)
      /\ From({"UPGRADE_REQ"}, a, n) \in SUBSET HomeClass(a, n)
      /\ From(Misses, a, n) \in SUBSET HomeClass(a, n)
      /\ From(RequestTypes, a, n) \in SUBSET HomeClass(a, n)
      /\ From({"FLUSH_REP"}, a, n) \in SUBSET HomeClass(a, n)
      /\ From({"WB_REP"}, a, n) \in SUBSET HomeClass(a, n)
      /\ From({"INV_REP"}, a, n) \in SUBSET HomeClass(a, n)
      /\ From(Writes, a, n) \in SUBSET HomeClass(a, n)
  BY Classes DEF Lost, Misses, Writes, RequestTypes, AnswerTypes
<1>2. /\ About(DataReplies, a) \in SUBSET NodeClass(a)
      /\ About({"EX_REP"}, a) \in SUBSET NodeClass(a)
      /\ About({"SH_REP"}, a) \in SUBSET NodeClass(a)
      /\ About({"UPGRADE_REP"}, a) \in SUBSET NodeClass(a)
      /\ About(ReplyTypes, a) \in SUBSET NodeClass(a)
      /\ About({"WB_REQ"}, a) \in SUBSET NodeClass(a)
      /\ About({"FLUSH_REQ"}, a) \in SUBSET NodeClass(a)
      /\ About({"INV_REQ"}, a) \in SUBSET NodeClass(a)
      /\ About({"WB_REQ", "FLUSH_REQ"}, a) \in SUBSET NodeClass(a)
  BY Classes DEF DataReplies, ReplyTypes, CommandTypes
<1>3. Tokens(a, n, e, cur, rest, h2, q2, s)
  BY <1>1, <1>2 DEF NodeInv, Tokens, Same
<1>4. Ownership(a, n, e, cur, rest, h2, q2, s)
  BY <1>1, <1>2 DEF NodeInv, Ownership, Same
<1>5. WriteBacks(a, n, e, cur, h2, q2, s)
  BY <1>1, <1>2 DEF NodeInv, WriteBacks, Live, Same
<1>6. Flushes(a, n, e, cur, h2, q2, s)
  BY <1>1, <1>2 DEF NodeInv, Flushes, Live, Same
<1>7. Requests(a, n, cur, rest, h2, q2, s, c)
  BY <1>1, <1>2 DEF NodeInv, Requests, Same
<1>8. Accounts(a, n, e, cur, rest, h2, q2, s, c)
  BY <1>1, <1>2 DEF NodeInv, Accounts, Same
<1>9. Invalidations(a, n, e, cur, rest, h2, q2, s)
  BY <1>1, <1>2 DEF NodeInv, Invalidations, Live, Same
<1>10. Writers(a, n, e, cur, rest, h2, q2, s, c)
  BY <1>1, <1>2 DEF NodeInv, Writers, Same
<1> QED
  BY <1>3, <1>4, <1>5, <1>6, <1>7, <1>8, <1>9, <1>10 DEF NodeInv

-----------------------------------------------------------------------------
(* Steps of the caches.  Each lemma is about one node n and block a; h and  *)
(* q are the queues of the home and of n before the step, h2 and q2 after.  *)

\* Node n loses its line and says so, with an INV_REP or a FLUSH_REP.
LEMMA NodeLoses ==
  ASSUME NEW a \in Addrs, NEW n \in Nodes, NEW e, NEW cur, NEW rest,
         NEW h, NEW h2, NEW q, NEW s \in CStates, NEW c, NEW m \in Msgs,
         NodeInv(a, n, e, cur, rest, h, q, s, c),
         Adds(h, h2, m), m.type \in Lost, m.addr = a, m.sender = n, s # "INVALID",
         m.type = "FLUSH_REP" =>
           /\ Owns(e, n) \/ UpgradeFlushes(e, cur, n)
           /\ ~ Has(h, From({"WB_REP"}, a, n)) /\ ~ Has(q, About({"UPGRADE_REP"}, a)),
         FullMap /\ s = "SHARED_UPGRADING" =>
           Awaits(e, cur, n) /\ ~ Has(q, About({"UPGRADE_REP"}, a)),
         FullMap /\ m.type = "INV_REP" =>
           e.state = "SHARED" \/ (c # "writing" /\ s \in {"SHARED", "EXCLUSIVE"})
  PROVE  NodeInv(a, n, e, cur, rest, h2, q, "INVALID", c)
<1>1. /\ \A T : m \in From(T, a, n) <=> m.type \in T
      /\ \A S, T : /\ Has(h2, S) <=> Has(h, S) \/ m \in S
                   /\ Precedes(h2, S, T) <=> Precedes(h, S, T) \/ (Has(h, S) /\ m \in T)
  BY Membership DEF Adds
<1>3. Tokens(a, n, e, cur, rest, h2, q, "INVALID")
  BY <1>1, HomeIncludes, AskedIncludes DEF NodeInv, Tokens, Requests, Lost, Misses
<1>4. Ownership(a, n, e, cur, rest, h2, q, "INVALID")
  BY <1>1, HomeIncludes DEF NodeInv, Ownership, Requests, Lost
<1>5. WriteBacks(a, n, e, cur, h2, q, "INVALID")
  BY <1>1, HomeIncludes, NodeIncludes DEF NodeInv, Tokens, WriteBacks, Live, Lost
<1>6. Flushes(a, n, e, cur, h2, q, "INVALID")
  BY <1>1, HomeIncludes, NodeIncludes DEF NodeInv, Tokens, Flushes, Live, Lost
<1>7. Requests(a, n, cur, rest, h2, q, "INVALID", c)
  BY <1>1, HomeIncludes DEF NodeInv, Requests, Lost, RequestTypes, Misses
<1>8. m \in From(Lost, a, n) /\ m \notin From(RequestTypes, a, n) /\ m \notin From({"WB_REP"}, a, n)
  BY <1>1 DEF Lost, RequestTypes
<1>9. Accounts(a, n, e, cur, rest, h2, q, "INVALID", c)
  BY <1>1, <1>8 DEF NodeInv, Accounts
<1>10. Invalidations(a, n, e, cur, rest, h2, q, "INVALID")
  <2> SUFFICES ASSUME FullMap PROVE Invalidations(a, n, e, cur, rest, h2, q, "INVALID")
    BY DEF Invalidations
  <2>1. ~ Has(h, From(Lost, a, n)) /\ ~ Live(a, q, "INV_REQ", "INVALID")
    BY NodeIncludes DEF NodeInv, Tokens, Live
  <2>2. \/ Has(h, From(RequestTypes, a, n)) \/ Asked(cur, rest, RequestTypes, n)
        \/ Has(q, About({"UPGRADE_REP"}, a))
        => s = "SHARED_UPGRADING"
    BY DEF NodeInv, Requests
  <2>3. cur.type \in RequestTypes /\ cur.requester = n => FALSE
    <3> SUFFICES ASSUME cur.type \in RequestTypes, cur.requester = n PROVE FALSE
      OBVIOUS
    <3>1. Asked(cur, rest, RequestTypes, n) /\ (cur.type \in Misses => Asked(cur, rest, Misses, n))
      BY DEF Asked
    <3>2. cur.type \notin Misses
      BY <3>1 DEF NodeInv, Requests
    <3> QED
      BY <2>2, <3>1, <3>2 DEF Awaits, AwaitsInv, AwaitsFlush, UpgradeFlushes, RequestTypes, Misses
  <2>4. Has(rest, ReqsBy(RequestTypes, n)) => Awaits(e, cur, n)
    BY <2>2 DEF Asked
  <2>5. Precedes(h2, From(RequestTypes, a, n), From(Lost, a, n)) => Awaits(e, cur, n)
    BY <1>1, <2>1, <2>2, HomeIncludes
  <2> QED
    BY <2>1, <2>2, <2>3, <2>4, <2>5 DEF Invalidations
<1>11. Writers(a, n, e, cur, rest, h2, q, "INVALID", c)
  <2>1. ~ Has(h, From({"INV_REP"}, a, n)) /\ ~ Has(h, From(Lost, a, n))
    BY WriterIncludes DEF NodeInv, Tokens
  <2>2. m \notin From(Writes, a, n)
    BY <1>1 DEF Writes, Lost
  <2>3. FullMap /\ m.type = "INV_REP" /\ Owns(e, n) /\ e.state = "MODIFIED" =>
          Has(h, From({"WB_REP"}, a, n))
    BY DEF NodeInv, Writers, Ownership
  <2> QED
    BY <1>1, <2>1, <2>2, <2>3 DEF NodeInv, Writers
<1> QED
  BY <1>3, <1>4, <1>5, <1>6, <1>7, <1>9, <1>10, <1>11 DEF NodeInv

\* A cache that may write its line may flush it.
LEMMA WritableMayFlush ==
  ASSUME NEW a, NEW n, NEW e, NEW cur, NEW rest, NEW h, NEW q, NEW c, NEW s,
         NodeInv(a, n, e, cur, rest, h, q, s, c), s \in {"EXCLUSIVE", "MODIFIED"}
  PROVE  /\ Owns(e, n)
         /\ ~ Has(h, From({"WB_REP"}, a, n)) /\ ~ Has(q, About({"UPGRADE_REP"}, a))
  BY DEF NodeInv, Ownership, WriteBacks, Requests

\* A cache that is told to flush its line may do so.
LEMMA CommandedMayFlush ==
  ASSUME NEW a \in Addrs, NEW n, NEW e, NEW cur, NEW rest, NEW h, NEW q, NEW q2, NEW c, NEW s,
         NEW m \in Msgs, NodeInv(a, n, e, cur, rest, h, q, s, c), s # "INVALID",
         Drops(q, q2, m), m.type = "FLUSH_REQ", m.addr = a
  PROVE  /\ Owns(e, n) \/ UpgradeFlushes(e, cur, n)
         /\ ~ Has(h, From({"WB_REP"}, a, n)) /\ ~ Has(q2, About({"UPGRADE_REP"}, a))
<1>1. \A T : m \in About(T, a) <=> m.type \in T
  BY Membership
<1>2. \A S, T : /\ Has(q, S) <=> m \in S \/ Has(q2, S)
                /\ Precedes(q, S, T) <=> Precedes(q2, S, T) \/ (m \in S /\ Has(q2, T))
  BY DEF Drops
<1>3. AwaitsFlush(e, cur, n)
  BY <1>1, <1>2 DEF NodeInv, Flushes, Live
<1>4. ~ Has(h, From({"WB_REP"}, a, n))
  BY <1>3 DEF NodeInv, WriteBacks, AwaitsWb, AwaitsFlush, UpgradeFlushes
<1>5. ~ Has(q2, About({"UPGRADE_REP"}, a))
  BY <1>1, <1>2 DEF NodeInv, Ownership
<1> QED
  BY <1>3, <1>4, <1>5 DEF AwaitsFlush

\* With a pointer for each cache, an upgrade is not granted to a node told to give its
\* copy away.
LEMMA CommandedAwaits ==
  ASSUME NEW a \in Addrs, NEW n, NEW e, NEW cur, NEW rest, NEW h, NEW q, NEW q2, NEW c, NEW s,
         NEW m \in Msgs, NodeInv(a, n, e, cur, rest, h, q, s, c), s # "INVALID", FullMap,
         Drops(q, q2, m), m.type \in {"INV_REQ", "FLUSH_REQ"}, m.addr = a
  PROVE  /\ Awaits(e, cur, n) /\ ~ Has(q2, About({"UPGRADE_REP"}, a))
         /\ m.type = "INV_REQ" => e.state = "SHARED"
<1>1. \A T : m \in About(T, a) <=> m.type \in T
  BY Membership
<1>2. \A S : Has(q, S) <=> m \in S \/ Has(q2, S)
  BY DEF Drops
<1>3. CASE m.type = "INV_REQ"
  <2>1. AwaitsInv(e, cur, n)
    BY <1>1, <1>2, <1>3 DEF NodeInv, Invalidations, Live
  <2>2. ~ Has(q, About({"UPGRADE_REP"}, a))
    BY <2>1 DEF AwaitsInv, NodeInv, Ownership
  <2> QED
    BY <1>2, <2>1, <2>2 DEF Awaits, AwaitsInv
<1>4. CASE m.type = "FLUSH_REQ"
  <2>1. AwaitsFlush(e, cur, n)
    BY <1>1, <1>2, <1>4 DEF NodeInv, Flushes, Live
  <2> QED
    BY <1>4, <2>1, CommandedMayFlush DEF Awaits
<1> QED
  BY <1>3, <1>4

\* Node n takes a command from its queue and does nothing.
LEMMA NodeForgets ==
  ASSUME NEW a, NEW n, NEW e, NEW cur, NEW rest, NEW h, NEW q, NEW q2, NEW c, NEW s, NEW m,
         NodeInv(a, n, e, cur, rest, h, q, s, c), Drops(q, q2, m), m.type \in CommandTypes
  PROVE  NodeInv(a, n, e, cur, rest, h, q2, s, c)
<1>1. \A S, T, U : /\ Has(q2, S) => Has(q, S)
                   /\ Precedes(q2, S, T) => Precedes(q, S, T)
                   /\ Precedes3(q2, S, T, U) => Precedes3(q, S, T, U)
  BY DEF Drops
<1>3. Tokens(a, n, e, cur, rest, h, q2, s)
  BY <1>1 DEF NodeInv, Tokens
<1>4. Ownership(a, n, e, cur, rest, h, q2, s)
  BY <1>1 DEF NodeInv, Ownership
<1>5. WriteBacks(a, n, e, cur, h, q2, s)
  BY <1>1 DEF NodeInv, WriteBacks, Live
<1>6. Flushes(a, n, e, cur, h, q2, s)
  BY <1>1 DEF NodeInv, Flushes, Live
<1>7. Requests(a, n, cur, rest, h, q2, s, c)
  BY <1>1 DEF NodeInv, Requests
<1>8. Accounts(a, n, e, cur, rest, h, q2, s, c)
  <2>1. m \notin About(ReplyTypes, a) /\ m \notin About(DataReplies, a)
    BY DEF About, ReplyTypes, DataReplies, CommandTypes
  <2>2. /\ Has(q2, About(ReplyTypes, a)) <=> Has(q, About(ReplyTypes, a))
        /\ Has(q2, About(DataReplies, a)) <=> Has(q, About(DataReplies, a))
    BY <2>1 DEF Drops
  <2> QED
    BY <2>2 DEF NodeInv, Accounts
<1>9. Invalidations(a, n, e, cur, rest, h, q2, s)
  BY <1>1 DEF NodeInv, Invalidations, Live
<1>10. Writers(a, n, e, cur, rest, h, q2, s, c)
  BY <1>1 DEF NodeInv, Writers
<1> QED
  BY <1>3, <1>4, <1>5, <1>6, <1>7, <1>8, <1>9, <1>10 DEF NodeInv

\* Node n writes its line back, which it keeps.
LEMMA NodeWritesBack ==
  ASSUME NEW a \in Addrs, NEW n \in Nodes, NEW e, NEW cur, NEW rest,
         NEW h, NEW h2, NEW q, NEW q2, NEW s \in CStates, NEW c, NEW m \in Msgs, NEW w \in Msgs,
         NodeInv(a, n, e, cur, rest, h, q, s, c), s # "INVALID",
         Drops(q, q2, m), m.type = "WB_REQ", m.addr = a,
         Adds(h, h2, w), w.type = "WB_REP", w.addr = a, w.sender = n,
         NEW s2, s2 = IF s = "SHARED_UPGRADING" THEN s ELSE "SHARED"
  PROVE  NodeInv(a, n, e, cur, rest, h2, q2, s2, c)
<1>1. /\ \A T : m \in About(T, a) <=> m.type \in T
      /\ \A T : w \in From(T, a, n) <=> w.type \in T
  BY Membership
<1>2. \A S, T, U :
        /\ Has(q, S) <=> m \in S \/ Has(q2, S)
        /\ Precedes(q, S, T) <=> Precedes(q2, S, T) \/ (m \in S /\ Has(q2, T))
        /\ Precedes3(q, S, T, U) <=> Precedes3(q2, S, T, U) \/ (m \in S /\ Precedes(q2, T, U))
  BY DEF Drops
<1>3. \A S, T : /\ Has(h2, S) <=> Has(h, S) \/ w \in S
                /\ Precedes(h2, S, T) <=> Precedes(h, S, T) \/ (Has(h, S) /\ w \in T)
  BY DEF Adds
<1>4. Tokens(a, n, e, cur, rest, h2, q2, s2)
  BY <1>1, <1>2, <1>3 DEF NodeInv, Tokens, Lost
<1>5. Ownership(a, n, e, cur, rest, h2, q2, s2)
  <2>1. m \in About({"WB_REQ", "FLUSH_REQ"}, a)
    BY <1>1
  <2>2. ~ Has(q2, About({"UPGRADE_REP"}, a))
    BY <1>2, <2>1 DEF NodeInv, Ownership
  <2>3. w \in From({"WB_REP"}, a, n) /\ w \notin From({"UPGRADE_REQ"}, a, n)
    BY <1>1
  <2> QED
    BY <1>2, <1>3, <2>2, <2>3 DEF NodeInv, Ownership
<1>6. WriteBacks(a, n, e, cur, h2, q2, s2)
  <2>1. m \in About({"WB_REQ"}, a) /\ w \in From({"WB_REP"}, a, n)
        /\ w \notin From(Lost, a, n) /\ w \notin From({"FLUSH_REP"}, a, n)
    BY <1>1 DEF Lost
  <2>2. AwaitsWb(e, cur, n) /\ ~ Has(h, From({"WB_REP"}, a, n))
    BY <1>2, <2>1 DEF NodeInv, WriteBacks, Live
  <2>3. ~ Has(h, From(Lost, a, n)) /\ ~ Has(q2, About(DataReplies, a))
    BY <1>2 DEF NodeInv, Tokens
  <2>4. ~ Has(q2, About({"WB_REQ"}, a))
    BY <1>2, <2>1 DEF NodeInv, WriteBacks
  <2>5. ~ Has(h, From({"FLUSH_REP"}, a, n)) /\ ~ Has(q2, About({"EX_REP"}, a))
    BY <2>3, HomeIncludes, NodeIncludes
  <2>6. ~ Live(a, q2, "WB_REQ", s2)
    BY <2>4, NodeIncludes DEF Live
  <2>7. s2 \notin {"EXCLUSIVE", "MODIFIED"}
    OBVIOUS
  <2> QED
    BY <1>2, <1>3, <2>1, <2>2, <2>3, <2>4, <2>5, <2>6, <2>7, NodeIncludes
       DEF NodeInv, WriteBacks
<1>7. Flushes(a, n, e, cur, h2, q2, s2)
  BY <1>1, <1>2, <1>3 DEF NodeInv, Flushes, Live
<1>8. Requests(a, n, cur, rest, h2, q2, s2, c)
  <2>1. w \notin From(RequestTypes, a, n) /\ w \notin From(Misses, a, n)
    BY <1>1 DEF RequestTypes, Misses
  <2>2. s2 \in {"INVALID", "SHARED_UPGRADING"} <=> s = "SHARED_UPGRADING"
    OBVIOUS
  <2> QED
    BY <1>2, <1>3, <2>1, <2>2 DEF NodeInv, Requests
<1>9. Accounts(a, n, e, cur, rest, h2, q2, s2, c)
  <2>1. m \notin About(ReplyTypes, a) /\ n \in e.sharers /\ s2 # "INVALID"
    BY <1>1 DEF ReplyTypes, NodeInv, Tokens
  <2> QED
    BY <1>2, <1>3, <2>1 DEF NodeInv, Accounts
<1>10. Invalidations(a, n, e, cur, rest, h2, q2, s2)
  <2>1. w \notin From(Lost, a, n) /\ s2 # "INVALID"
    BY <1>1 DEF Lost
  <2>2. Live(a, q2, "INV_REQ", s2) => Live(a, q, "INV_REQ", s)
    BY <1>2 DEF Live
  <2> QED
    BY <1>2, <1>3, <2>1, <2>2 DEF NodeInv, Invalidations
<1>11. Writers(a, n, e, cur, rest, h2, q2, s2, c)
  <2>1. w \notin From(Writes, a, n) /\ w \notin From({"INV_REP"}, a, n)
    BY <1>1 DEF Writes
  <2>2. s2 # "EXCLUSIVE"
    OBVIOUS
  <2> QED
    BY <1>2, <1>3, <2>1, <2>2 DEF NodeInv, Writers
<1> QED
  BY <1>4, <1>5, <1>6, <1>7, <1>8, <1>9, <1>10, <1>11 DEF NodeInv

\* Node n receives data and fills its line.
LEMMA NodeFills ==
  ASSUME NEW a \in Addrs, NEW n \in Nodes, NEW e, NEW cur, NEW rest,
         NEW h, NEW q, NEW q2, NEW c, NEW m \in Msgs,
         NodeInv(a, n, e, cur, rest, h, q, "INVALID", c),
         Drops(q, q2, m), m.type \in DataReplies, m.addr = a,
         NEW c2 \in {"served", "writing"}, m.type = "EX_REP" /\ c = "writes" => c2 = "writing",
         NEW s, s = IF m.type = "EX_REP" THEN "EXCLUSIVE" ELSE "SHARED"
  PROVE  NodeInv(a, n, e, cur, rest, h, q2, s, c2)
<1>0. c2 \notin Waits /\ c2 # "none" /\ "none" \notin Waits
  BY DEF Waits
<1>1. \A T : m \in About(T, a) <=> m.type \in T
  BY Membership
<1>2. \A S, T, U :
        /\ Has(q, S) <=> m \in S \/ Has(q2, S)
        /\ Precedes(q, S, T) <=> Precedes(q2, S, T) \/ (m \in S /\ Has(q2, T))
        /\ Precedes3(q, S, T, U) <=> Precedes3(q2, S, T, U) \/ (m \in S /\ Precedes(q2, T, U))
  BY DEF Drops
<1>3. ~ Has(q2, About(ReplyTypes, a)) /\ ~ Has(q2, About(DataReplies, a))
  <2>1. m \in About(ReplyTypes, a)
    BY <1>1 DEF DataReplies, ReplyTypes
  <2>2. ~ Has(q2, About(ReplyTypes, a))
    BY <1>2, <2>1 DEF NodeInv, Requests
  <2> QED
    BY <2>2, NodeIncludes
<1>4. Tokens(a, n, e, cur, rest, h, q2, s)
  BY <1>1, <1>2, <1>3 DEF NodeInv, Tokens
<1>5. Ownership(a, n, e, cur, rest, h, q2, s)
  BY <1>1, <1>2, <1>3, HomeIncludes, NodeIncludes DEF NodeInv, Ownership, DataReplies
<1>6. WriteBacks(a, n, e, cur, h, q2, s)
  BY <1>1, <1>2, <1>3, NodeIncludes DEF NodeInv, WriteBacks, Live, DataReplies
<1>7. Flushes(a, n, e, cur, h, q2, s)
  BY <1>1, <1>2, NodeIncludes DEF NodeInv, Flushes, Live
<1>8. Requests(a, n, cur, rest, h, q2, s, c2)
  BY <1>0, <1>1, <1>2, <1>3, HomeIncludes, NodeIncludes, AskedIncludes
     DEF NodeInv, Requests, DataReplies, ReplyTypes
<1>9. Accounts(a, n, e, cur, rest, h, q2, s, c2)
  <2>1. m \in About(ReplyTypes, a)
    BY <1>1 DEF DataReplies, ReplyTypes
  <2>2. c \in Waits /\ n \in Caches
    BY <1>0, <1>2, <2>1 DEF NodeInv, Requests, Accounts
  <2>3. s # "INVALID"
    OBVIOUS
  <2> QED
    BY <1>0, <2>2, <2>3 DEF NodeInv, Accounts
<1>10. Invalidations(a, n, e, cur, rest, h, q2, s)
  <2>1. Live(a, q2, "INV_REQ", s) => Live(a, q, "INV_REQ", "INVALID")
    BY <1>1, <1>2, <1>3, NodeIncludes DEF Live
  <2> QED
    BY <1>2, <2>1 DEF NodeInv, Invalidations
<1>11. Writers(a, n, e, cur, rest, h, q2, s, c2)
  <2>1. Has(q, About(DataReplies, a)) /\ Has(q, About(ReplyTypes, a))
    BY <1>1, <1>2, NodeIncludes
  <2>2. ~ Has(h, From(Lost, a, n)) /\ ~ Has(h, From({"INV_REP"}, a, n))
    BY <2>1, WriterIncludes DEF NodeInv, Tokens
  <2>3. ~ Has(h, From(Writes, a, n)) /\ ~ Asked(cur, rest, Writes, n)
    BY <2>1, WriterIncludes DEF NodeInv, Requests
  <2>4. m.type = "EX_REP" => Has(q, About({"EX_REP"}, a))
    BY <1>1, <1>2
  <2>5. ~ Has(q2, About({"EX_REP"}, a))
    BY <1>3, NodeIncludes
  <2>6. s = "EXCLUSIVE" => m.type = "EX_REP"
    OBVIOUS
  <2> QED
    BY <2>2, <2>3, <2>4, <2>5, <2>6 DEF NodeInv, Writers
<1> QED
  BY <1>4, <1>5, <1>6, <1>7, <1>8, <1>9, <1>10, <1>11 DEF NodeInv

\* Node n is told that its upgrade is granted.
LEMMA NodeUpgrades ==
  ASSUME NEW a \in Addrs, NEW n \in Nodes, NEW e, NEW cur, NEW rest,
         NEW h, NEW q, NEW q2, NEW c, NEW m \in Msgs,
         NodeInv(a, n, e, cur, rest, h, q, "SHARED_UPGRADING", c),
         NEW c2 \in {"served", "writing"}, Drops(q, q2, m), m.type = "UPGRADE_REP", m.addr = a
  PROVE  NodeInv(a, n, e, cur, rest, h, q2, "MODIFIED", c2)
<1>0. c2 \notin Waits /\ c2 # "none" /\ "none" \notin Waits
  BY DEF Waits
<1>1. \A T : m \in About(T, a) <=> m.type \in T
  BY Membership
<1>2. \A S, T, U :
        /\ Has(q, S) <=> m \in S \/ Has(q2, S)
        /\ Precedes(q, S, T) <=> Precedes(q2, S, T) \/ (m \in S /\ Has(q2, T))
        /\ Precedes3(q, S, T, U) <=> Precedes3(q2, S, T, U) \/ (m \in S /\ Precedes(q2, T, U))
  BY DEF Drops
<1>3. ~ Has(q2, About(ReplyTypes, a))
  BY <1>1, <1>2 DEF NodeInv, Requests, ReplyTypes
<1>4. Tokens(a, n, e, cur, rest, h, q2, "MODIFIED")
  BY <1>1, <1>2 DEF NodeInv, Tokens
<1>5. Ownership(a, n, e, cur, rest, h, q2, "MODIFIED")
  BY <1>1, <1>2, <1>3, NodeIncludes DEF NodeInv, Ownership
<1>6. WriteBacks(a, n, e, cur, h, q2, "MODIFIED")
  BY <1>1, <1>2 DEF NodeInv, WriteBacks, Ownership, Live
<1>7. Flushes(a, n, e, cur, h, q2, "MODIFIED")
  BY <1>1, <1>2 DEF NodeInv, Flushes, Live
<1>8. Requests(a, n, cur, rest, h, q2, "MODIFIED", c2)
  BY <1>0, <1>1, <1>2, <1>3, HomeIncludes, NodeIncludes, AskedIncludes
     DEF NodeInv, Requests, ReplyTypes
<1>9. Accounts(a, n, e, cur, rest, h, q2, "MODIFIED", c2)
  <2>1. c \in Waits /\ n \in Caches
    BY <1>0 DEF NodeInv, Requests, Accounts
  <2> QED
    BY <1>0, <2>1 DEF NodeInv, Accounts
<1>10. Invalidations(a, n, e, cur, rest, h, q2, "MODIFIED")
  <2>1. Live(a, q2, "INV_REQ", "MODIFIED") => Live(a, q, "INV_REQ", "SHARED_UPGRADING")
    BY <1>2 DEF Live
  <2> QED
    BY <1>2, <2>1 DEF NodeInv, Invalidations
<1>11. Writers(a, n, e, cur, rest, h, q2, "MODIFIED", c2)
  <2>1. Has(q, About(ReplyTypes, a))
    BY <1>1, <1>2 DEF ReplyTypes
  <2>2. ~ Has(h, From({"INV_REP"}, a, n))
    BY WriterIncludes DEF NodeInv, Tokens
  <2>3. ~ Has(h, From(Writes, a, n)) /\ ~ Asked(cur, rest, Writes, n)
    BY <2>1, WriterIncludes DEF NodeInv, Requests
  <2>4. ~ Has(q2, About({"EX_REP"}, a))
    BY <1>3, NodeIncludes
  <2> QED
    BY <2>2, <2>3, <2>4 DEF Writers
<1> QED
  BY <1>4, <1>5, <1>6, <1>7, <1>8, <1>9, <1>10, <1>11 DEF NodeInv

\* Node n asks for an upgrade of its line, when it has no other request.
LEMMA NodeAsksUpgrade ==
  ASSUME NEW a \in Addrs, NEW n \in Nodes, NEW e, NEW cur, NEW rest,
         NEW h, NEW h2, NEW q, NEW c, NEW m \in Msgs,
         NodeInv(a, n, e, cur, rest, h, q, "SHARED", c), c \notin Waits, n \in Caches,
         Adds(h, h2, m), m.type = "UPGRADE_REQ", m.addr = a, m.sender = n
  PROVE  NodeInv(a, n, e, cur, rest, h2, q, "SHARED_UPGRADING", "writes")
<1>0. "writes" \in Waits
  BY DEF Waits
<1>1. /\ \A T : m \in From(T, a, n) <=> m.type \in T
      /\ \A S, T : /\ Has(h2, S) <=> Has(h, S) \/ m \in S
                   /\ Precedes(h2, S, T) <=> Precedes(h, S, T) \/ (Has(h, S) /\ m \in T)
  BY Membership DEF Adds
<1>3. Tokens(a, n, e, cur, rest, h2, q, "SHARED_UPGRADING")
  BY <1>1 DEF NodeInv, Tokens, Lost
<1>4. Ownership(a, n, e, cur, rest, h2, q, "SHARED_UPGRADING")
  BY <1>1, NodeIncludes DEF NodeInv, Ownership, Requests
<1>5. WriteBacks(a, n, e, cur, h2, q, "SHARED_UPGRADING")
  BY <1>1 DEF NodeInv, WriteBacks, Live
<1>6. Flushes(a, n, e, cur, h2, q, "SHARED_UPGRADING")
  BY <1>1 DEF NodeInv, Flushes, Live
<1>7. Requests(a, n, cur, rest, h2, q, "SHARED_UPGRADING", "writes")
  BY <1>0, <1>1, HomeIncludes, NodeIncludes, AskedIncludes DEF NodeInv, Requests, RequestTypes, Misses
<1>8. m \in From(RequestTypes, a, n) /\ m \notin From(Lost, a, n) /\ m \notin From({"WB_REP"}, a, n)
  BY <1>1 DEF Lost, RequestTypes
<1>9. Accounts(a, n, e, cur, rest, h2, q, "SHARED_UPGRADING", "writes")
  BY <1>0, <1>1, <1>8 DEF NodeInv, Accounts
<1>10. Invalidations(a, n, e, cur, rest, h2, q, "SHARED_UPGRADING")
  <2>1. Live(a, q, "INV_REQ", "SHARED_UPGRADING") => Live(a, q, "INV_REQ", "SHARED")
    BY DEF Live
  <2> QED
    BY <1>1, <1>8, <2>1 DEF NodeInv, Invalidations
<1>11. Writers(a, n, e, cur, rest, h2, q, "SHARED_UPGRADING", "writes")
  <2>1. ~ Has(q, About({"EX_REP"}, a))
    BY NodeIncludes DEF NodeInv, Requests
  <2>2. ~ Has(h, From({"INV_REP"}, a, n))
    BY WriterIncludes DEF NodeInv, Tokens
  <2>3. m \notin From({"INV_REP"}, a, n)
    BY <1>1
  <2> QED
    BY <1>1, <2>1, <2>2, <2>3 DEF Writers
<1> QED
  BY <1>3, <1>4, <1>5, <1>6, <1>7, <1>9, <1>10, <1>11 DEF NodeInv

\* Node n asks for a block that it does not have.
LEMMA NodeAsks ==
  ASSUME NEW a \in Addrs, NEW n \in Nodes, NEW e, NEW cur, NEW rest,
         NEW h, NEW h2, NEW q, NEW c, NEW m \in Msgs,
         NodeInv(a, n, e, cur, rest, h, q, "INVALID", c), c \notin Waits, n \in Caches,
         Adds(h, h2, m), m.type \in Misses, m.addr = a, m.sender = n,
         NEW c2 \in Waits, m.type \in Writes => c2 = "writes"
  PROVE  NodeInv(a, n, e, cur, rest, h2, q, "INVALID", c2)
<1>0. c2 # "none"
  BY DEF Waits
<1>1. /\ \A T : m \in From(T, a, n) <=> m.type \in T
      /\ \A S, T : /\ Has(h2, S) <=> Has(h, S) \/ m \in S
                   /\ Precedes(h2, S, T) <=> Precedes(h, S, T) \/ (Has(h, S) /\ m \in T)
  BY Membership DEF Adds
<1>3. Tokens(a, n, e, cur, rest, h2, q, "INVALID")
  BY <1>1 DEF NodeInv, Tokens, Lost, Misses
<1>4. Ownership(a, n, e, cur, rest, h2, q, "INVALID")
  BY <1>1 DEF NodeInv, Ownership, Misses
<1>5. WriteBacks(a, n, e, cur, h2, q, "INVALID")
  BY <1>1 DEF NodeInv, WriteBacks, Misses
<1>6. Flushes(a, n, e, cur, h2, q, "INVALID")
  BY <1>1 DEF NodeInv, Flushes, Misses
<1>7. Requests(a, n, cur, rest, h2, q, "INVALID", c2)
  BY <1>1, HomeIncludes, NodeIncludes, AskedIncludes DEF NodeInv, Requests, RequestTypes, Misses
<1>8. m \in From(RequestTypes, a, n) /\ m \notin From(Lost, a, n) /\ m \notin From({"WB_REP"}, a, n)
  BY <1>1 DEF Lost, RequestTypes, Misses
<1>9. Accounts(a, n, e, cur, rest, h2, q, "INVALID", c2)
  BY <1>0, <1>1, <1>8 DEF NodeInv, Accounts
<1>10. Invalidations(a, n, e, cur, rest, h2, q, "INVALID")
  BY <1>1, <1>8 DEF NodeInv, Invalidations
<1>11. Writers(a, n, e, cur, rest, h2, q, "INVALID", c2)
  <2>1. ~ Has(q, About({"EX_REP"}, a))
    BY NodeIncludes DEF NodeInv, Requests
  <2>2. m \notin From({"INV_REP"}, a, n)
    BY <1>1 DEF Misses
  <2>3. ~ Has(h, From(Writes, a, n)) /\ ~ Asked(cur, rest, Writes, n)
    BY WriterIncludes DEF NodeInv, Requests
  <2> QED
    BY <1>1, <2>1, <2>2, <2>3 DEF NodeInv, Writers
<1> QED
  BY <1>3, <1>4, <1>5, <1>6, <1>7, <1>9, <1>10, <1>11 DEF NodeInv

\* A write turns an EXCLUSIVE line into a MODIFIED one.
LEMMA NodeWrites ==
  ASSUME NEW a, NEW n, NEW e, NEW cur, NEW rest, NEW h, NEW q, NEW s, NEW c,
         NodeInv(a, n, e, cur, rest, h, q, s, c), s \in {"EXCLUSIVE", "MODIFIED"},
         NEW c2, c2 = c \/ (c = "writing" /\ c2 = "served")
  PROVE  NodeInv(a, n, e, cur, rest, h, q, "MODIFIED", c2)
<1>0. /\ c2 \in Waits <=> c \in Waits
      /\ c2 # "none" <=> c # "none"
  BY DEF Waits
<1>1. Tokens(a, n, e, cur, rest, h, q, "MODIFIED")
  BY DEF NodeInv, Tokens
<1>2. Ownership(a, n, e, cur, rest, h, q, "MODIFIED")
  BY DEF NodeInv, Ownership
<1>3. WriteBacks(a, n, e, cur, h, q, "MODIFIED")
  BY DEF NodeInv, WriteBacks, Live
<1>4. Flushes(a, n, e, cur, h, q, "MODIFIED")
  BY DEF NodeInv, Flushes, Live
<1>5. Requests(a, n, cur, rest, h, q, "MODIFIED", c2)
  BY <1>0 DEF NodeInv, Requests
<1>6. Accounts(a, n, e, cur, rest, h, q, "MODIFIED", c2)
  BY <1>0 DEF NodeInv, Accounts
<1>7. Invalidations(a, n, e, cur, rest, h, q, "MODIFIED")
  BY DEF NodeInv, Invalidations, Live
<1>8. Writers(a, n, e, cur, rest, h, q, "MODIFIED", c2)
  <2>1. ~ Has(q, About({"EX_REP"}, a))
    BY NodeIncludes DEF NodeInv, Tokens
  <2> QED
    BY <2>1 DEF NodeInv, Writers
<1> QED
  BY <1>1, <1>2, <1>3, <1>4, <1>5, <1>6, <1>7, <1>8 DEF NodeInv

\* While no request is out and nobody is about to write, what the cores of n do about
\* the block does not matter.
LEMMA NodeServes ==
  ASSUME NEW a, NEW n, NEW e, NEW cur, NEW rest, NEW h, NEW q, NEW s, NEW c, NEW c2,
         NodeInv(a, n, e, cur, rest, h, q, s, c), c \notin Waits \cup {"writing"},
         c2 \notin Waits,
         c2 # "none" => n \in Caches
  PROVE  NodeInv(a, n, e, cur, rest, h, q, s, c2)
<1>1. Requests(a, n, cur, rest, h, q, s, c2)
  BY NodeIncludes DEF NodeInv, Requests
<1>2. Accounts(a, n, e, cur, rest, h, q, s, c2)
  BY DEF NodeInv, Accounts
<1>3. Writers(a, n, e, cur, rest, h, q, s, c2)
  <2>1. ~ Has(q, About({"EX_REP"}, a))
    BY NodeIncludes DEF NodeInv, Requests
  <2>2. ~ Has(h, From(Writes, a, n)) /\ ~ Asked(cur, rest, Writes, n)
    BY WriterIncludes DEF NodeInv, Requests
  <2> QED
    BY <2>1, <2>2 DEF NodeInv, Writers
<1> QED
  BY <1>1, <1>2, <1>3 DEF NodeInv

-----------------------------------------------------------------------------
(* Steps of the directory, as they look to one node n.                     *)

\* The request that the directory works on: one of the queue, or none.
CurReqs == Reqs \cup {NoReq}

\* A node is no answer to what is asked of an absent request.
LEMMA NoReqAsks ==
  ASSUME NEW n, NEW e, NEW rest
  PROVE  /\ NoReq.type \notin RequestTypes \cup {"NULLIFY_REQ"}
         /\ ~ NoReq.waitForData /\ NoReq.forwardingFrom = NoNode
         /\ ~ Granted(NoReq, n) /\ ~ AwaitsWb(e, NoReq, n) /\ ~ UpgradeFlushes(e, NoReq, n)
         /\ ~ AwaitsFlush(e, NoReq, n) /\ ~ AwaitsInv(e, NoReq, n) /\ ~ Awaits(e, NoReq, n)
         /\ \A T : T \subseteq RequestTypes =>
              (Asked(NoReq, rest, T, n) <=> Has(rest, ReqsBy(T, n)))
  BY DEF NoReq, Granted, AwaitsWb, UpgradeFlushes, AwaitsFlush, AwaitsInv, Awaits, Asked, RequestTypes

\* The directory queues a request of node k.
LEMMA HomeReceives ==
  ASSUME NEW a \in Addrs, NEW n \in Nodes, NEW e, NEW cur, NEW rest, NEW rest2,
         NEW h, NEW h2, NEW q, NEW s \in CStates, NEW c, NEW m \in Msgs, NEW r \in Reqs,
         NodeInv(a, n, e, cur, rest, h, q, s, c),
         Drops(h, h2, m), m.type \in RequestTypes, m.addr = a,
         Adds(rest, rest2, r), r.type = m.type, r.requester = m.sender
  PROVE  NodeInv(a, n, e, cur, rest2, h2, q, s, c)
<1>1. /\ \A T : m \in From(T, a, n) <=> m.type \in T /\ m.sender = n
      /\ \A T : r \in ReqsBy(T, n) <=> m.type \in T /\ m.sender = n
  BY Membership, ReqMembership
<1>2. \A S, T : /\ Has(h, S) <=> m \in S \/ Has(h2, S)
                /\ Precedes(h, S, T) <=> Precedes(h2, S, T) \/ (m \in S /\ Has(h2, T))
  BY DEF Drops
<1>3. \A S, T : /\ Has(rest2, S) <=> Has(rest, S) \/ r \in S
                /\ Precedes(rest2, S, T) <=> Precedes(rest, S, T) \/ (Has(rest, S) /\ r \in T)
  BY DEF Adds
<1>4. \A T : Asked(cur, rest2, T, n) <=>
               Asked(cur, rest, T, n) \/ (m.type \in T /\ m.sender = n)
  BY <1>1, <1>3 DEF Asked
<1>5. /\ m \notin From(Lost, a, n) /\ m \notin From({"WB_REP"}, a, n)
      /\ m \notin From({"FLUSH_REP"}, a, n)
  BY <1>1 DEF Lost, RequestTypes
<1>6. m.sender = n => m \in From(RequestTypes, a, n)
  BY <1>1
<1>7. m.sender = n => /\ ~ Asked(cur, rest, RequestTypes, n) /\ ~ Has(q, About(ReplyTypes, a))
                      /\ ~ Has(h2, From(RequestTypes, a, n)) /\ c \in Waits
  BY <1>2, <1>6 DEF NodeInv, Requests
<1>8. Tokens(a, n, e, cur, rest2, h2, q, s)
  <2>1. m.type = "SH_REQ" /\ m.sender = n => ~ Has(h2, From(Lost, a, n))
    BY <1>1, <1>2 DEF NodeInv, Tokens
  <2> QED
    BY <1>2, <1>4, <1>5, <2>1 DEF NodeInv, Tokens
<1>9. Ownership(a, n, e, cur, rest2, h2, q, s)
  <2>1. Has(h2, From({"UPGRADE_REQ"}, a, n)) => m.sender # n
    BY <1>7, HomeIncludes
  <2>2. m.type = "UPGRADE_REQ" /\ m.sender = n => ~ Owns(e, n)
    BY <1>1, <1>2, <1>5, <1>7, HomeIncludes DEF NodeInv, Ownership
  <2> QED
    BY <1>1, <1>2, <1>4, <1>5, <2>1, <2>2 DEF NodeInv, Ownership
<1>10. WriteBacks(a, n, e, cur, h2, q, s)
  BY <1>2, <1>5 DEF NodeInv, WriteBacks
<1>11. Flushes(a, n, e, cur, h2, q, s)
  BY <1>2, <1>5 DEF NodeInv, Flushes
<1>12. Requests(a, n, cur, rest2, h2, q, s, c)
  <2>1. CASE m.sender = n
    <3>1. ~ Has(rest, ReqsBy(RequestTypes, n)) /\ ~ (cur.type \in RequestTypes /\ cur.requester = n)
      BY <1>7, <2>1 DEF Asked
    <3>2. ~ Precedes(rest2, ReqsBy(RequestTypes, n), ReqsBy(RequestTypes, n))
      BY <1>3, <1>7, <3>1, Includes
    <3>3. ~ Has(h2, From(Misses, a, n))
      BY <1>7, <2>1, HomeIncludes
    <3>4. m.type \in Misses => s = "INVALID"
      BY <1>1, <1>2, <2>1 DEF NodeInv, Requests
    <3>5. s \in {"INVALID", "SHARED_UPGRADING"}
      BY <1>2, <1>6, <2>1 DEF NodeInv, Requests
    <3>6. Asked(cur, rest, Misses, n) => s = "INVALID"
      BY DEF NodeInv, Requests
    <3> QED
      BY <1>4, <1>7, <2>1, <3>1, <3>2, <3>3, <3>4, <3>5, <3>6 DEF NodeInv, Requests
  <2>2. CASE m.sender # n
    BY <1>1, <1>2, <1>3, <1>4, <2>2 DEF NodeInv, Requests
  <2> QED
    BY <2>1, <2>2
<1>13. Accounts(a, n, e, cur, rest2, h2, q, s, c)
  <2>1. m.sender # n => m \notin From(RequestTypes, a, n)
    BY <1>1
  <2> QED
    BY <1>2, <1>4, <1>5, <2>1 DEF NodeInv, Accounts
<1>14. Invalidations(a, n, e, cur, rest2, h2, q, s)
  <2>1. Has(rest2, ReqsBy(RequestTypes, n)) =>
          Has(rest, ReqsBy(RequestTypes, n)) \/ m \in From(RequestTypes, a, n)
    BY <1>1, <1>3, <1>6
  <2> QED
    BY <1>2, <2>1 DEF NodeInv, Invalidations
<1>15. Writers(a, n, e, cur, rest2, h2, q, s, c)
  <2>1. m \notin From({"WB_REP"}, a, n) /\ m \notin From({"INV_REP"}, a, n)
    BY <1>1 DEF RequestTypes
  <2>2. m.type \in Writes /\ m.sender = n => Has(h, From(Writes, a, n))
    BY <1>1, <1>2
  <2> QED
    BY <1>2, <1>4, <2>1, <2>2 DEF NodeInv, Writers
<1> QED
  BY <1>8, <1>9, <1>10, <1>11, <1>12, <1>13, <1>14, <1>15 DEF NodeInv

\* The directory starts to work on request r.
LEMMA HomeStarts ==
  ASSUME NEW a \in Addrs, NEW n \in Nodes, NEW e, NEW rest, NEW rest2,
         NEW h, NEW q, NEW s, NEW c, NEW r \in Reqs,
         NodeInv(a, n, e, NoReq, rest, h, q, s, c),
         Drops(rest, rest2, r), ~ r.waitForData, r.forwardingFrom = NoNode
  PROVE  NodeInv(a, n, e, r, rest2, h, q, s, c)
<1>1. \A T : r \in ReqsBy(T, n) <=> r.type \in T /\ r.requester = n
  BY ReqMembership
<1>2. \A S, T : /\ Has(rest, S) <=> r \in S \/ Has(rest2, S)
                /\ Precedes(rest, S, T) <=> Precedes(rest2, S, T) \/ (r \in S /\ Has(rest2, T))
  BY DEF Drops
<1>3. \A T : T \subseteq RequestTypes => (Asked(r, rest2, T, n) <=> Asked(NoReq, rest, T, n))
  BY <1>1, <1>2, NoReqAsks DEF Asked
<1>4. {"SH_REQ"} \subseteq RequestTypes /\ {"UPGRADE_REQ"} \subseteq RequestTypes
      /\ Misses \subseteq RequestTypes
  BY DEF Misses, RequestTypes
<1>5. ~ Granted(r, n) /\ ~ Granted(NoReq, n)
  BY NoReqAsks DEF Granted
<1>6. Tokens(a, n, e, r, rest2, h, q, s)
  BY <1>3, <1>4, <1>5 DEF NodeInv, Tokens
<1>7. Ownership(a, n, e, r, rest2, h, q, s)
  BY <1>3, <1>4, <1>5 DEF NodeInv, Ownership
<1>8. WriteBacks(a, n, e, r, h, q, s)
  BY NoReqAsks DEF NodeInv, WriteBacks
<1>9. Flushes(a, n, e, r, h, q, s)
  BY NoReqAsks DEF NodeInv, Flushes
<1>10. Requests(a, n, r, rest2, h, q, s, c)
  <2>1. Has(rest, ReqsBy(RequestTypes, n)) <=> Asked(NoReq, rest, RequestTypes, n)
    BY NoReqAsks
  <2>2. r.type \in RequestTypes /\ r.requester = n => ~ Has(rest2, ReqsBy(RequestTypes, n))
    BY <1>1, <1>2, <2>1 DEF NodeInv, Requests
  <2>3. Asked(NoReq, rest, RequestTypes, n) =>
          ~ Precedes(rest2, ReqsBy(RequestTypes, n), ReqsBy(RequestTypes, n))
    BY <1>2 DEF NodeInv, Requests
  <2> QED
    BY <1>3, <1>4, <2>2, <2>3 DEF NodeInv, Requests
<1>11. Accounts(a, n, e, r, rest2, h, q, s, c)
  BY <1>3, <1>5 DEF NodeInv, Accounts
<1>12. Invalidations(a, n, e, r, rest2, h, q, s)
  <2>1. Has(rest2, ReqsBy(RequestTypes, n)) => Has(rest, ReqsBy(RequestTypes, n))
    BY <1>2
  <2>2. r.type \in RequestTypes /\ r.requester = n => Has(rest, ReqsBy(RequestTypes, n))
    BY <1>1, <1>2
  <2> QED
    BY <2>1, <2>2, NoReqAsks DEF NodeInv, Invalidations
<1>13. Writers(a, n, e, r, rest2, h, q, s, c)
  <2>1. Writes \subseteq RequestTypes
    BY DEF Writes, RequestTypes
  <2> QED
    BY <1>3, <2>1 DEF NodeInv, Writers
<1> QED
  BY <1>6, <1>7, <1>8, <1>9, <1>10, <1>11, <1>12, <1>13 DEF NodeInv

\* The directory removes sharer k, whose copy is gone; a copy that is granted but not
\* fetched yet is another node's.
LEMMA HomeLoses ==
  ASSUME NEW a \in Addrs, NEW n \in Nodes, NEW k \in Nodes, NEW e, EntryOK(e), NEW e2,
         NEW cur, NEW rest, NEW h, NEW h2, NEW q, NEW s \in CStates, NEW c, NEW m \in Msgs,
         NodeInv(a, n, e, cur, rest, h, q, s, c),
         Drops(h, h2, m), m.type \in Lost, m.addr = a, m.sender = k,
         m.type = "INV_REP" => e.state # "MODIFIED", k \in e.sharers,
         e2.sharers = e.sharers \ {k},
         e2.state = IF e.sharers = {k} THEN "UNCACHED" ELSE e.state,
         cur.forwardingFrom # NoNode =>
           cur.type = "SH_REQ" /\ e.state = "SHARED" /\ cur.requester \in e.sharers \ {k}
  PROVE  NodeInv(a, n, e2, cur, rest, h2, q, s, c)
<1>1. \A T : m \in From(T, a, n) <=> m.type \in T /\ n = k
  BY Membership
<1>2. \A S, T : /\ Has(h, S) <=> m \in S \/ Has(h2, S)
                /\ Precedes(h, S, T) <=> Precedes(h2, S, T) \/ (m \in S /\ Has(h2, T))
  BY DEF Drops
<1>3. /\ e.state \in {"EXCLUSIVE", "MODIFIED"} => e.sharers = {k} /\ e.owner = k
      /\ e.state # "UNCACHED" /\ e.state \in {"SHARED", "EXCLUSIVE", "MODIFIED"}
  BY DEF EntryOK, Entries
<1>4. ~ Owns(e2, n) /\ (Owns(e, n) => n = k)
  BY <1>3 DEF Owns
<1>5. m \in From(Lost, a, n) <=> n = k
  BY <1>1
<1>6. n = k => /\ Has(h, From(Lost, a, n)) /\ ~ Has(h2, From(Lost, a, n))
               /\ ~ Has(h2, From({"FLUSH_REP"}, a, n)) /\ s = "INVALID"
               /\ ~ Has(q, About(DataReplies, a)) /\ ~ Granted(cur, n)
               /\ ~ Has(h2, From({"WB_REP"}, a, n)) /\ ~ Has(q, About({"UPGRADE_REP"}, a))
  <2> SUFFICES ASSUME n = k PROVE /\ Has(h, From(Lost, a, n)) /\ ~ Has(h2, From(Lost, a, n))
               /\ ~ Has(h2, From({"FLUSH_REP"}, a, n)) /\ s = "INVALID"
               /\ ~ Has(q, About(DataReplies, a)) /\ ~ Granted(cur, n)
               /\ ~ Has(h2, From({"WB_REP"}, a, n)) /\ ~ Has(q, About({"UPGRADE_REP"}, a))
    OBVIOUS
  <2>1. Has(h, From(Lost, a, n)) /\ ~ Has(h2, From(Lost, a, n))
    BY <1>2, <1>5 DEF NodeInv, Tokens
  <2>2. ~ Has(h2, From({"FLUSH_REP"}, a, n))
    BY <2>1, HomeIncludes
  <2>3. s = "INVALID" /\ ~ Has(q, About(DataReplies, a)) /\ ~ Granted(cur, n)
    BY <2>1 DEF NodeInv, Tokens
  <2>4. ~ Has(h2, From({"WB_REP"}, a, n))
    BY <1>2, <1>5 DEF NodeInv, WriteBacks
  <2>5. Has(q, About({"UPGRADE_REP"}, a)) => m.type # "FLUSH_REP" /\ e.state = "MODIFIED"
    BY <1>1, <1>2 DEF NodeInv, Ownership
  <2>6. ~ Has(q, About({"UPGRADE_REP"}, a))
    BY <2>5 DEF Lost
  <2> QED
    BY <2>1, <2>2, <2>3, <2>4, <2>6
<1>7. n # k => /\ ~ Owns(e, n)
               /\ n \in e.sharers => n \in e2.sharers /\ e2.state = e.state
  BY <1>4
<1>8. Tokens(a, n, e2, cur, rest, h2, q, s)
  BY <1>1, <1>2, <1>6, <1>7 DEF NodeInv, Tokens
<1>9. Ownership(a, n, e2, cur, rest, h2, q, s)
  <2>1. n # k => s \notin {"EXCLUSIVE", "MODIFIED"} /\ ~ Has(q, About({"EX_REP"}, a))
                 /\ ~ Has(q, About({"UPGRADE_REP"}, a))
    BY <1>7 DEF NodeInv, Ownership
  <2>2. n = k => ~ Has(q, About({"EX_REP"}, a))
    BY <1>6, NodeIncludes
  <2> QED
    BY <1>4, <1>6, <2>1, <2>2 DEF Ownership
<1>10. WriteBacks(a, n, e2, cur, h2, q, s)
  <2>1. n # k /\ AwaitsWb(e, cur, n) => AwaitsWb(e2, cur, n)
    BY <1>7 DEF AwaitsWb
  <2>2. n = k => ~ Live(a, q, "WB_REQ", s)
    BY <1>6, NodeIncludes DEF Live
  <2>3. n # k => m \notin From({"WB_REP"}, a, n) /\ m \notin From({"FLUSH_REP"}, a, n)
    BY <1>1
  <2> QED
    BY <1>2, <1>6, <2>1, <2>2, <2>3, HomeIncludes DEF NodeInv, WriteBacks
<1>11. Flushes(a, n, e2, cur, h2, q, s)
  <2>1. n = k => ~ Live(a, q, "FLUSH_REQ", s)
    BY <1>6, NodeIncludes DEF Live
  <2>2. n # k => m \notin From({"FLUSH_REP"}, a, n)
    BY <1>1
  <2>3. n # k /\ (Has(h, From({"FLUSH_REP"}, a, n)) \/ Live(a, q, "FLUSH_REQ", s))
          => n \in e.sharers
    BY HomeIncludes, NodeIncludes DEF NodeInv, Tokens, Live
  <2>4. n # k /\ n \in e.sharers => /\ UpgradeFlushes(e, cur, n) <=> UpgradeFlushes(e2, cur, n)
                                    /\ AwaitsFlush(e, cur, n) => AwaitsFlush(e2, cur, n)
    BY <1>7 DEF UpgradeFlushes, AwaitsFlush
  <2> QED
    BY <1>2, <1>6, <1>7, <2>1, <2>2, <2>3, <2>4 DEF NodeInv, Flushes
<1>12. Requests(a, n, cur, rest, h2, q, s, c)
  <2>1. m \notin From(RequestTypes, a, n) /\ m \notin From(Misses, a, n)
    BY <1>1 DEF RequestTypes, Misses, Lost
  <2> QED
    BY <1>2, <2>1 DEF NodeInv, Requests
<1>13. Accounts(a, n, e2, cur, rest, h2, q, s, c)
  <2>1. m \notin From(RequestTypes, a, n) /\ m \notin From({"WB_REP"}, a, n)
    BY <1>1 DEF RequestTypes, Lost
  <2>2. n = k => n \notin e2.sharers
    OBVIOUS
  <2>3. n # k => m \notin From(Lost, a, n) /\ (n \in e2.sharers <=> n \in e.sharers)
    BY <1>1
  <2> QED
    BY <1>2, <1>4, <1>6, <2>1, <2>2, <2>3 DEF NodeInv, Accounts
<1>14. Invalidations(a, n, e2, cur, rest, h2, q, s)
  <2>1. n = k => ~ Live(a, q, "INV_REQ", s)
    BY <1>6, NodeIncludes DEF Live
  <2>2. n # k /\ (Has(h2, From(Lost, a, n)) \/ Live(a, q, "INV_REQ", s)) => n \in e.sharers
    BY <1>2, NodeIncludes DEF NodeInv, Tokens, Live
  <2>3. n # k /\ n \in e.sharers => /\ AwaitsInv(e, cur, n) => AwaitsInv(e2, cur, n)
                                    /\ Awaits(e, cur, n) => Awaits(e2, cur, n)
    BY <1>7 DEF UpgradeFlushes, AwaitsFlush, AwaitsInv, Awaits
  <2>4. Precedes(h2, From(RequestTypes, a, n), From(Lost, a, n)) => Has(h2, From(Lost, a, n))
    BY HomeIncludes
  <2> QED
    BY <1>2, <1>6, <2>1, <2>2, <2>3, <2>4 DEF NodeInv, Invalidations
<1>15. Writers(a, n, e2, cur, rest, h2, q, s, c)
  <2>1. m \notin From(Writes, a, n)
    BY <1>1 DEF Writes, Lost
  <2> QED
    BY <1>2, <1>4, <2>1 DEF NodeInv, Writers
<1> QED
  BY <1>8, <1>9, <1>10, <1>11, <1>12, <1>13, <1>14, <1>15 DEF NodeInv

\* The directory takes note that node k has written its data back: no other node is to.
LEMMA HomeWrittenBack ==
  ASSUME NEW a \in Addrs, NEW n \in Nodes, NEW k \in Nodes, NEW e, EntryOK(e), NEW e2,
         NEW cur, NEW rest, NEW h, NEW h2, NEW q, NEW s \in CStates, NEW c, NEW m \in Msgs,
         NodeInv(a, n, e, cur, rest, h, q, s, c), AwaitsWb(e, cur, k),
         Drops(h, h2, m), m.type = "WB_REP", m.addr = a, m.sender = k,
         e2.sharers = e.sharers, e2.state = "SHARED"
  PROVE  /\ NodeInv(a, n, e2, cur, rest, h2, q, s, c)
         /\ ~ Has(h2, From({"WB_REP"}, a, n)) /\ ~ Live(a, q, "WB_REQ", s)
<1>1. \A T : m \in From(T, a, n) <=> m.type \in T /\ n = k
  BY Membership
<1>2. \A S, T : /\ Has(h, S) <=> m \in S \/ Has(h2, S)
                /\ Precedes(h, S, T) <=> Precedes(h2, S, T) \/ (m \in S /\ Has(h2, T))
  BY DEF Drops
<1>3. /\ m \notin From(Lost, a, n) /\ m \notin From({"FLUSH_REP"}, a, n)
      /\ m \notin From(RequestTypes, a, n) /\ m \notin From(Misses, a, n)
      /\ m \notin From({"UPGRADE_REQ"}, a, n) /\ m \notin From({"SH_REQ"}, a, n)
      /\ m \in From({"WB_REP"}, a, n) <=> n = k
  BY <1>1 DEF Lost, RequestTypes, Misses
<1>4. ~ Owns(e2, n) /\ (Owns(e, n) => n = k) /\ (AwaitsWb(e, cur, n) => n = k)
  BY DEF Owns, AwaitsWb
<1>5. /\ ~ Has(h2, From({"WB_REP"}, a, n)) /\ ~ Live(a, q, "WB_REQ", s)
      /\ n = k => Has(h, From({"WB_REP"}, a, n))
  BY <1>2, <1>3, <1>4 DEF NodeInv, WriteBacks
<1>6. Tokens(a, n, e2, cur, rest, h2, q, s)
  BY <1>2, <1>3 DEF NodeInv, Tokens
<1>7. Ownership(a, n, e2, cur, rest, h2, q, s)
  <2>1. s \notin {"EXCLUSIVE", "MODIFIED"} /\ ~ Has(q, About({"EX_REP"}, a))
        /\ ~ Has(q, About({"UPGRADE_REP"}, a))
    BY <1>4, <1>5 DEF NodeInv, Ownership, WriteBacks
  <2> QED
    BY <1>4, <2>1 DEF Ownership
<1>8. WriteBacks(a, n, e2, cur, h2, q, s)
  BY <1>2, <1>3, <1>5 DEF NodeInv, WriteBacks
<1>9. Flushes(a, n, e2, cur, h2, q, s)
  <2>1. ~ Has(h2, From({"FLUSH_REP"}, a, n))
    BY <1>2, <1>4, <1>5 DEF NodeInv, Flushes, WriteBacks, AwaitsWb, UpgradeFlushes
  <2>2. ~ Live(a, q, "FLUSH_REQ", s)
    BY DEF NodeInv, Flushes, AwaitsWb, AwaitsFlush, UpgradeFlushes
  <2> QED
    BY <2>1, <2>2 DEF Flushes
<1>10. Requests(a, n, cur, rest, h2, q, s, c)
  BY <1>2, <1>3 DEF NodeInv, Requests
<1>11. Accounts(a, n, e2, cur, rest, h2, q, s, c)
  BY <1>2, <1>3, <1>4, <1>5 DEF NodeInv, Accounts
<1>12. Invalidations(a, n, e2, cur, rest, h2, q, s)
  <2>1. ~ AwaitsInv(e, cur, n) /\ ~ Awaits(e, cur, n)
    BY DEF AwaitsWb, AwaitsFlush, UpgradeFlushes, AwaitsInv, Awaits
  <2> QED
    BY <1>2, <1>3, <2>1 DEF NodeInv, Invalidations
<1>13. Writers(a, n, e2, cur, rest, h2, q, s, c)
  <2>1. m \notin From(Writes, a, n)
    BY <1>1 DEF Writes
  <2> QED
    BY <1>2, <1>4, <2>1 DEF NodeInv, Writers
<1> QED
  BY <1>5, <1>6, <1>7, <1>8, <1>9, <1>10, <1>11, <1>12, <1>13 DEF NodeInv

\* No data of n are on their way back or are going to be.
Quiet(a, n, h, q, s) == ~ Has(h, From({"WB_REP"}, a, n)) /\ ~ Live(a, q, "WB_REQ", s)

\* The directory grants the requester of r a copy of the block, whose data r now waits
\* for.
LEMMA HomeAdmits ==
  ASSUME NEW a \in Addrs, NEW n \in Nodes, NEW e, EntryOK(e), NEW e2,
         NEW r \in Reqs, NEW r2 \in Reqs, NEW rest,
         NEW h, NEW q, NEW s \in CStates, NEW c,
         NodeInv(a, n, e, r, rest, h, q, s, c), Quiet(a, n, h, q, s),
         r.type \in RequestTypes, Admits(e, e2, r.type, r.requester),
         r2.type = r.type, r2.requester = r.requester,
         r2.waitForData \/ r2.forwardingFrom # NoNode
  PROVE  NodeInv(a, n, e2, r2, rest, h, q, s, c)
<1>1. /\ e.state = "UNCACHED" => e.sharers = {}
      /\ e.state = "UNCACHED" \/ (e.state = "SHARED" /\ r.type = "SH_REQ" /\ e2.state = "SHARED")
      /\ e2.sharers = e.sharers \cup {r.requester}
      /\ Owns(e2, n) => e.state = "UNCACHED" /\ n = r.requester
  BY DEF EntryOK, Admits, Owns
<1>2. \A T : Asked(r2, rest, T, n) <=> Asked(r, rest, T, n)
  BY DEF Asked
<1>3. n = r.requester => /\ Asked(r, rest, RequestTypes, n) /\ Granted(r2, n)
                         /\ r.type = "SH_REQ" => Asked(r, rest, {"SH_REQ"}, n)
                         /\ r.type \in Misses => Asked(r, rest, Misses, n)
  BY DEF Asked, Granted
<1>4. n # r.requester => ~ Granted(r2, n)
  BY DEF Granted
<1>5. n = r.requester => ~ Has(q, About(ReplyTypes, a)) /\ ~ Has(h, From(RequestTypes, a, n))
  BY <1>3 DEF NodeInv, Requests
<1>6. n \notin e.sharers => s = "INVALID" /\ ~ Has(h, From(Lost, a, n))
                            /\ ~ Has(q, About(DataReplies, a))
  BY DEF NodeInv, Tokens
<1>7. n = r.requester => s = "INVALID" /\ ~ Has(h, From(Lost, a, n))
                         /\ ~ Has(q, About(DataReplies, a))
  <2>1. CASE e.state = "UNCACHED"
    BY <1>1, <1>6, <2>1
  <2>2. CASE r.type = "SH_REQ"
    BY <1>3, <1>5, <2>2, NodeIncludes DEF NodeInv, Tokens, Requests, Misses
  <2> QED
    BY <1>1, <2>1, <2>2
<1>8. Tokens(a, n, e2, r2, rest, h, q, s)
  BY <1>1, <1>2, <1>4, <1>7 DEF NodeInv, Tokens
<1>9. ~ Has(q, About({"UPGRADE_REP"}, a)) /\ ~ Owns(e, n)
  BY <1>1 DEF NodeInv, Ownership, Owns
<1>10. Ownership(a, n, e2, r2, rest, h, q, s)
  <2>1. CASE Owns(e2, n)
    BY <1>1, <1>3, <1>5, <1>7, <1>9, <2>1, HomeIncludes, NodeIncludes DEF Ownership
  <2>2. CASE ~ Owns(e2, n)
    BY <1>9, <2>2 DEF NodeInv, Ownership
  <2> QED
    BY <2>1, <2>2
<1>11. WriteBacks(a, n, e2, r2, h, q, s)
  BY DEF NodeInv, WriteBacks, Quiet
<1>12. Flushes(a, n, e2, r2, h, q, s)
  <2>1. CASE e.state = "UNCACHED"
    BY <1>1, <1>6, <2>1, HomeIncludes, NodeIncludes DEF Flushes, Live
  <2>2. CASE e.state = "SHARED"
    BY <1>1, <1>9, <2>2 DEF NodeInv, Flushes, UpgradeFlushes, AwaitsFlush
  <2> QED
    BY <1>1, <2>1, <2>2
<1>13. Requests(a, n, r2, rest, h, q, s, c)
  BY <1>2 DEF NodeInv, Requests
<1>14. Accounts(a, n, e2, r2, rest, h, q, s, c)
  <2>0. "none" \notin Waits
    BY DEF Waits
  <2>1. n = r.requester => n \in Caches
    BY <1>3, <2>0 DEF NodeInv, Requests, Accounts
  <2>2. n # r.requester => ~ Granted(r, n) /\ (n \in e2.sharers <=> n \in e.sharers)
    BY <1>1 DEF Granted
  <2>3. ~ Has(h, From({"WB_REP"}, a, n))
    BY DEF Quiet
  <2>4. Owns(e2, n) => e2.state = IF r2.type = "SH_REQ" THEN "EXCLUSIVE" ELSE "MODIFIED"
    BY DEF Admits, Owns
  <2> QED
    BY <1>2, <1>3, <2>1, <2>2, <2>3, <2>4 DEF NodeInv, Accounts
<1>15. Invalidations(a, n, e2, r2, rest, h, q, s)
  <2>1. ~ AwaitsInv(e, r, n) /\ ~ Awaits(e, r, n)
    BY <1>1 DEF AwaitsInv, Awaits, AwaitsFlush, UpgradeFlushes, Owns
  <2> QED
    BY <2>1 DEF NodeInv, Invalidations
<1>16. Writers(a, n, e2, r2, rest, h, q, s, c)
  <2>1. Owns(e2, n) => /\ s = "INVALID" /\ ~ Has(h, From(Lost, a, n))
                       /\ ~ Has(q, About(DataReplies, a))
    BY <1>1, <1>7
  <2>2. Owns(e2, n) => ~ Has(h, From({"INV_REP"}, a, n)) /\ ~ Has(q, About({"EX_REP"}, a))
    BY <2>1, WriterIncludes, NodeIncludes
  <2> QED
    BY <1>2, <2>1, <2>2 DEF NodeInv, Writers
<1> QED
  BY <1>8, <1>10, <1>11, <1>12, <1>13, <1>14, <1>15, <1>16 DEF NodeInv

\* The directory sends its data to the node k that has been granted a copy, and is done.
LEMMA HomeReplies ==
  ASSUME NEW a \in Addrs, NEW n \in Nodes, NEW e, NEW r \in Reqs, NEW rest,
         NEW h, NEW q, NEW q2, NEW s \in CStates, NEW c, NEW m \in Msgs,
         NodeInv(a, n, e, r, rest, h, q, s, c), ReqInv(a, e, r, rest, h), r.waitForData,
         IF n = r.requester THEN Adds(q, q2, m) ELSE q2 = q, m.addr = a,
         m.type = IF r.type = "SH_REQ" /\ e.state = "SHARED" THEN "SH_REP" ELSE "EX_REP"
  PROVE  NodeInv(a, n, e, NoReq, rest, h, q2, s, c)
<1>1. \A T : m \in About(T, a) <=> m.type \in T
  BY Membership
<1>2. \A S, T, U :
        /\ Has(q2, S) <=> Has(q, S) \/ (n = r.requester /\ m \in S)
        /\ Precedes(q2, S, T) <=>
             Precedes(q, S, T) \/ (n = r.requester /\ Has(q, S) /\ m \in T)
        /\ Precedes3(q2, S, T, U) <=>
             Precedes3(q, S, T, U) \/ (n = r.requester /\ Precedes(q, S, T) /\ m \in U)
  BY DEF Adds
<1>3. /\ r.type \in RequestTypes
      /\ (r.type = "SH_REQ" /\ e.state = "SHARED") \/ Owns(e, r.requester)
      /\ m.type = "SH_REP" => ~ Owns(e, r.requester)
      /\ m.type = "EX_REP" => Owns(e, r.requester)
      /\ m.type \in {"EX_REP", "SH_REP"}
  BY DEF ReqInv, RequestTypes, Owns
<1>4. /\ m \in About(DataReplies, a) /\ m \in About(ReplyTypes, a)
      /\ m \notin About({"UPGRADE_REP"}, a) /\ m \notin About({"WB_REQ"}, a)
      /\ m \notin About({"FLUSH_REQ"}, a) /\ m \notin About({"WB_REQ", "FLUSH_REQ"}, a)
      /\ m \in About({"EX_REP"}, a) => Owns(e, r.requester)
      /\ m \in About({"SH_REP"}, a) => ~ Owns(e, r.requester)
  BY <1>1, <1>3 DEF DataReplies, ReplyTypes
<1>5. Granted(r, n) <=> n = r.requester
  BY <1>3 DEF Granted
<1>6. ~ Granted(NoReq, n)
      /\ \A T : T \subseteq RequestTypes =>
           (Asked(NoReq, rest, T, n) => Asked(r, rest, T, n))
  BY NoReqAsks DEF Asked
<1>7. {"SH_REQ"} \subseteq RequestTypes /\ {"UPGRADE_REQ"} \subseteq RequestTypes
      /\ Misses \subseteq RequestTypes
  BY DEF Misses, RequestTypes
<1>8. n = r.requester => /\ Asked(r, rest, RequestTypes, n) /\ ~ Has(rest, ReqsBy(RequestTypes, n))
                         /\ ~ Asked(NoReq, rest, RequestTypes, n)
  BY <1>3, NoReqAsks DEF NodeInv, Requests, Asked
<1>9. n = r.requester => /\ s = "INVALID" /\ ~ Has(h, From(Lost, a, n)) /\ n \in e.sharers
                         /\ ~ Has(q, About(ReplyTypes, a)) /\ ~ Has(h, From(RequestTypes, a, n))
                         /\ ~ Has(q, About(DataReplies, a)) /\ c \in Waits
  BY <1>5, <1>8 DEF NodeInv, Tokens, Requests
<1>10. Tokens(a, n, e, NoReq, rest, h, q2, s)
  BY <1>2, <1>5, <1>6, <1>7, <1>9 DEF NodeInv, Tokens
<1>11. Ownership(a, n, e, NoReq, rest, h, q2, s)
  <2>1. ~ Asked(NoReq, rest, {"UPGRADE_REQ"}, n) \/ (n # r.requester /\ Asked(r, rest, {"UPGRADE_REQ"}, n))
    BY <1>6, <1>7, <1>8, AskedIncludes
  <2>2. Asked(NoReq, rest, {"UPGRADE_REQ"}, n) => ~ Owns(e, n)
    BY <1>5, <2>1 DEF NodeInv, Ownership
  <2> QED
    BY <1>2, <1>4, <1>9, <2>2 DEF NodeInv, Ownership
<1>12. ~ Has(h, From({"WB_REP"}, a, n)) /\ ~ Live(a, q, "WB_REQ", s)
  BY DEF NodeInv, WriteBacks, AwaitsWb
<1>13. ~ Live(a, q2, "WB_REQ", s) /\ (Live(a, q2, "FLUSH_REQ", s) => Live(a, q, "FLUSH_REQ", s))
  BY <1>2, <1>4, <1>12 DEF Live
<1>14. WriteBacks(a, n, e, NoReq, h, q2, s)
  BY <1>2, <1>4, <1>12, <1>13 DEF NodeInv, WriteBacks
<1>15. Flushes(a, n, e, NoReq, h, q2, s)
  <2>1. ~ Live(a, q, "FLUSH_REQ", s)
    <3>1. n = r.requester => ~ Live(a, q, "FLUSH_REQ", s)
      BY <1>9, NodeIncludes DEF Live
    <3>2. n # r.requester => ~ AwaitsFlush(e, r, n)
      BY <1>3 DEF AwaitsFlush, UpgradeFlushes, Owns
    <3> QED
      BY <3>1, <3>2 DEF NodeInv, Flushes
  <2>2. ~ UpgradeFlushes(e, r, n)
    BY <1>3 DEF UpgradeFlushes, Owns
  <2> QED
    BY <1>13, <2>1, <2>2 DEF NodeInv, Flushes
<1>16. Requests(a, n, NoReq, rest, h, q2, s, c)
  <2>1. ~ (NoReq.type \in RequestTypes /\ NoReq.requester = n)
    BY NoReqAsks
  <2> QED
    BY <1>2, <1>4, <1>6, <1>7, <1>8, <1>9, <2>1 DEF NodeInv, Requests
<1>17. Accounts(a, n, e, NoReq, rest, h, q2, s, c)
  <2>1. n # r.requester => (Asked(r, rest, RequestTypes, n) => Asked(NoReq, rest, RequestTypes, n))
    BY NoReqAsks DEF Asked
  <2> QED
    BY <1>2, <1>4, <1>5, <1>6, <1>12, <2>1 DEF NodeInv, Accounts
<1>18. Invalidations(a, n, e, NoReq, rest, h, q2, s)
  <2>1. ~ AwaitsInv(e, r, n) /\ (n # r.requester => ~ Awaits(e, r, n))
    BY <1>3 DEF ReqInv, AwaitsInv, Awaits, AwaitsFlush, UpgradeFlushes, Owns
  <2>2. m \notin About({"INV_REQ"}, a)
    BY <1>1, <1>3
  <2>3. Live(a, q2, "INV_REQ", s) => Live(a, q, "INV_REQ", s)
    BY <1>2, <2>2 DEF Live
  <2>4. ~ (NoReq.type \in RequestTypes /\ NoReq.requester = n)
    BY NoReqAsks
  <2>5. Precedes(h, From(RequestTypes, a, n), From(Lost, a, n)) => Has(h, From(Lost, a, n))
    BY HomeIncludes
  <2> QED
    BY <1>2, <1>4, <1>9, <2>1, <2>3, <2>4, <2>5 DEF NodeInv, Invalidations
<1>19. Writers(a, n, e, NoReq, rest, h, q2, s, c)
  <2>1. Asked(NoReq, rest, Writes, n) => Asked(r, rest, Writes, n)
    BY <1>6 DEF Writes, RequestTypes
  <2>2. n = r.requester /\ Owns(e, n) /\ e.state = "MODIFIED" => r.type # "SH_REQ"
    BY <1>5 DEF NodeInv, Accounts
  <2>3. r.type # "SH_REQ" => r.type \in Writes
    BY <1>3 DEF Writes, RequestTypes
  <2>4. n = r.requester /\ Owns(e, n) /\ e.state = "MODIFIED" => Asked(r, rest, Writes, n)
    BY <2>2, <2>3 DEF Asked
  <2> QED
    BY <1>2, <2>1, <2>4 DEF NodeInv, Writers
<1> QED
  BY <1>10, <1>11, <1>14, <1>15, <1>16, <1>17, <1>18, <1>19 DEF NodeInv

\* The directory lets the only sharer k write the copy that it has.
LEMMA HomeUpgrades ==
  ASSUME NEW a \in Addrs, NEW n \in Nodes, NEW e, EntryOK(e), NEW e2, NEW r \in Reqs, NEW rest,
         NEW h, NEW q, NEW q2, NEW s \in CStates, NEW c, NEW m \in Msgs,
         NodeInv(a, n, e, r, rest, h, q, s, c),
         ~ r.waitForData, r.forwardingFrom = NoNode, r.type = "UPGRADE_REQ",
         e.sharers = {r.requester}, e2.sharers = e.sharers, e2.state = "MODIFIED",
         e2.owner = r.requester,
         IF n = r.requester THEN Adds(q, q2, m) ELSE q2 = q, m.addr = a, m.type = "UPGRADE_REP"
  PROVE  NodeInv(a, n, e2, NoReq, rest, h, q2, s, c)
<1>1. \A T : m \in About(T, a) <=> m.type \in T
  BY Membership
<1>2. \A S, T, U :
        /\ Has(q2, S) <=> Has(q, S) \/ (n = r.requester /\ m \in S)
        /\ Precedes(q2, S, T) <=>
             Precedes(q, S, T) \/ (n = r.requester /\ Has(q, S) /\ m \in T)
        /\ Precedes3(q2, S, T, U) <=>
             Precedes3(q, S, T, U) \/ (n = r.requester /\ Precedes(q, S, T) /\ m \in U)
  BY DEF Adds
<1>3. /\ m \notin About(DataReplies, a) /\ m \in About(ReplyTypes, a)
      /\ m \in About({"UPGRADE_REP"}, a) /\ m \notin About({"WB_REQ"}, a)
      /\ m \notin About({"FLUSH_REQ"}, a) /\ m \notin About({"WB_REQ", "FLUSH_REQ"}, a)
      /\ m \notin About({"EX_REP"}, a) /\ m \notin About({"SH_REP"}, a)
  BY <1>1 DEF DataReplies, ReplyTypes
<1>4. /\ ~ Granted(r, n) /\ ~ Granted(NoReq, n) /\ ~ AwaitsWb(e, r, n)
      /\ ~ AwaitsWb(e2, NoReq, n) /\ (Owns(e2, n) <=> n = r.requester)
      /\ n \in e.sharers <=> n = r.requester
  BY NoReqAsks DEF Granted, AwaitsWb, Owns
<1>5. \A T : T \subseteq RequestTypes => (Asked(NoReq, rest, T, n) => Asked(r, rest, T, n))
  BY NoReqAsks DEF Asked
<1>6. /\ {"SH_REQ"} \subseteq RequestTypes /\ {"UPGRADE_REQ"} \subseteq RequestTypes
      /\ Misses \subseteq RequestTypes /\ r.type \in RequestTypes
  BY DEF Misses, RequestTypes
<1>7. n = r.requester => /\ Asked(r, rest, RequestTypes, n) /\ ~ Has(rest, ReqsBy(RequestTypes, n))
                         /\ Asked(r, rest, {"UPGRADE_REQ"}, n)
                         /\ ~ Asked(NoReq, rest, RequestTypes, n)
  BY <1>6, NoReqAsks DEF NodeInv, Requests, Asked
<1>8. n = r.requester => /\ ~ Owns(e, n) /\ s \in {"INVALID", "SHARED_UPGRADING"} /\ c \in Waits
                         /\ ~ Has(q, About(ReplyTypes, a)) /\ ~ Has(h, From(RequestTypes, a, n))
  BY <1>4, <1>7 DEF NodeInv, Ownership, Requests
<1>9. n # r.requester => /\ s = "INVALID" /\ ~ Has(h, From(Lost, a, n))
                         /\ ~ Has(q, About(DataReplies, a))
  BY <1>4 DEF NodeInv, Tokens
<1>10. ~ UpgradeFlushes(e, r, n) \/ n # r.requester
  BY DEF UpgradeFlushes
<1>11. ~ Has(h, From({"FLUSH_REP"}, a, n))
  BY <1>8, <1>9, <1>10, HomeIncludes DEF NodeInv, Flushes
<1>12. ~ Live(a, q, "FLUSH_REQ", s)
  <2>1. CASE n = r.requester
    BY <1>8, <1>10, <2>1 DEF NodeInv, Flushes, AwaitsFlush
  <2>2. CASE n # r.requester
    BY <1>9, <2>2, NodeIncludes DEF Live
  <2> QED
    BY <2>1, <2>2
<1>13. ~ Has(h, From({"WB_REP"}, a, n)) /\ ~ Live(a, q, "WB_REQ", s)
  BY <1>4 DEF NodeInv, WriteBacks
<1>14. ~ Live(a, q2, "WB_REQ", s) /\ ~ Live(a, q2, "FLUSH_REQ", s)
  BY <1>2, <1>3, <1>12, <1>13 DEF Live
<1>15. Tokens(a, n, e2, NoReq, rest, h, q2, s)
  BY <1>2, <1>3, <1>4, <1>5, <1>6 DEF NodeInv, Tokens
<1>16. Ownership(a, n, e2, NoReq, rest, h, q2, s)
  <2>1. CASE n = r.requester
    <3>1. ~ Has(q, About({"SH_REP"}, a)) /\ ~ Has(q, About({"UPGRADE_REP"}, a))
          /\ ~ Has(q, About({"EX_REP"}, a)) /\ ~ Has(h, From({"UPGRADE_REQ"}, a, n))
      BY <1>8, <2>1, HomeIncludes, NodeIncludes
    <3>2. s # "INVALID" => ~ Has(q, About({"WB_REQ", "FLUSH_REQ"}, a))
      BY <1>12, <1>13, NodeIncludes DEF Live
    <3>3. ~ Asked(NoReq, rest, {"UPGRADE_REQ"}, n)
      BY <1>7, <2>1, AskedIncludes
    <3>4. s \notin {"SHARED", "EXCLUSIVE", "MODIFIED"}
      BY <1>8, <2>1
    <3>5. ~ Precedes(q, About({"WB_REQ", "FLUSH_REQ"}, a), About({"UPGRADE_REP"}, a))
      BY <3>1, NodeIncludes
    <3> QED
      BY <1>2, <1>3, <1>4, <1>11, <1>13, <2>1, <3>1, <3>2, <3>3, <3>4, <3>5 DEF Ownership
  <2>2. CASE n # r.requester
    <3>1. ~ Owns(e, n) /\ ~ Owns(e2, n)
      BY <1>4, <2>2 DEF EntryOK, Owns
    <3>2. ~ Has(q2, About({"EX_REP"}, a)) /\ ~ Has(q2, About({"UPGRADE_REP"}, a))
      BY <1>2, <2>2, <3>1 DEF NodeInv, Ownership
    <3> QED
      BY <1>9, <2>2, <3>1, <3>2 DEF Ownership
  <2> QED
    BY <2>1, <2>2
<1>17. WriteBacks(a, n, e2, NoReq, h, q2, s)
  BY <1>2, <1>3, <1>13, <1>14 DEF NodeInv, WriteBacks
<1>18. Flushes(a, n, e2, NoReq, h, q2, s)
  BY <1>11, <1>14 DEF Flushes
<1>19. Requests(a, n, NoReq, rest, h, q2, s, c)
  <2>1. ~ (NoReq.type \in RequestTypes /\ NoReq.requester = n)
    BY NoReqAsks
  <2> QED
    BY <1>2, <1>3, <1>5, <1>6, <1>7, <1>8, <2>1 DEF NodeInv, Requests
<1>20. Accounts(a, n, e2, NoReq, rest, h, q2, s, c)
  <2>1. n # r.requester => (Asked(r, rest, RequestTypes, n) => Asked(NoReq, rest, RequestTypes, n))
    BY NoReqAsks DEF Asked
  <2> QED
    BY <1>2, <1>3, <1>4, <1>13, <2>1 DEF NodeInv, Accounts
<1>21. Invalidations(a, n, e2, NoReq, rest, h, q2, s)
  <2>1. n = r.requester => ~ AwaitsInv(e, r, n)
    BY DEF AwaitsInv
  <2>2. n # r.requester => ~ Live(a, q, "INV_REQ", s)
    BY <1>9, NodeIncludes DEF Live
  <2>3. m \notin About({"INV_REQ"}, a)
    BY <1>1
  <2>4. Live(a, q2, "INV_REQ", s) => Live(a, q, "INV_REQ", s)
    BY <1>2, <2>3 DEF Live
  <2>5. ~ (NoReq.type \in RequestTypes /\ NoReq.requester = n)
    BY NoReqAsks
  <2>6. Precedes(h, From(RequestTypes, a, n), From(Lost, a, n)) =>
          Has(h, From(Lost, a, n)) /\ Has(h, From(RequestTypes, a, n))
    BY HomeIncludes
  <2>7. FullMap => ~ Has(h, From(Lost, a, n))
    BY <1>6, <1>9 DEF NodeInv, Invalidations
  <2> QED
    BY <2>1, <2>2, <2>4, <2>5, <2>6, <2>7 DEF NodeInv, Invalidations
<1>22. Writers(a, n, e2, NoReq, rest, h, q2, s, c)
  <2>1. Asked(NoReq, rest, Writes, n) => Asked(r, rest, Writes, n)
    BY <1>5 DEF Writes, RequestTypes
  <2>2. n = r.requester => s # "EXCLUSIVE" /\ ~ Has(q, About({"EX_REP"}, a))
    BY <1>8, NodeIncludes
  <2>3. FullMap /\ n = r.requester => ~ Has(h, From(Lost, a, n))
    BY <1>6 DEF NodeInv, Invalidations
  <2>4. FullMap /\ n = r.requester => ~ Has(h, From({"INV_REP"}, a, n))
    BY <2>3, WriterIncludes
  <2> QED
    BY <1>2, <1>3, <1>4, <2>1, <2>2, <2>4 DEF NodeInv, Writers
<1> QED
  BY <1>15, <1>16, <1>17, <1>18, <1>19, <1>20, <1>21, <1>22 DEF NodeInv

\* The directory sends n a command that the invariant allows.
LEMMA HomeAsks ==
  ASSUME NEW a \in Addrs, NEW n \in Nodes, NEW e, NEW cur, NEW rest,
         NEW h, NEW q, NEW q2, NEW s \in CStates, NEW c, NEW m \in Msgs,
         NodeInv(a, n, e, cur, rest, h, q, s, c),
         Adds(q, q2, m), m.type \in CommandTypes, m.addr = a,
         m.type = "WB_REQ" => Quiet(a, n, h, q, s) /\ AwaitsWb(e, cur, n),
         m.type = "FLUSH_REQ" => AwaitsFlush(e, cur, n),
         FullMap /\ m.type = "INV_REQ" => AwaitsInv(e, cur, n)
  PROVE  NodeInv(a, n, e, cur, rest, h, q2, s, c)
<1>1. \A T : m \in About(T, a) <=> m.type \in T
  BY Membership
<1>2. \A S, T, U :
        /\ Has(q2, S) <=> Has(q, S) \/ m \in S
        /\ Precedes(q2, S, T) <=> Precedes(q, S, T) \/ (Has(q, S) /\ m \in T)
        /\ Precedes3(q2, S, T, U) <=> Precedes3(q, S, T, U) \/ (Precedes(q, S, T) /\ m \in U)
  BY DEF Adds
<1>3. /\ m \notin About(DataReplies, a) /\ m \notin About(ReplyTypes, a)
      /\ m \notin About({"UPGRADE_REP"}, a)
      /\ m \notin About({"EX_REP"}, a) /\ m \notin About({"SH_REP"}, a)
      /\ m \in About({"WB_REQ"}, a) => Quiet(a, n, h, q, s) /\ AwaitsWb(e, cur, n)
      /\ m \in About({"FLUSH_REQ"}, a) => AwaitsFlush(e, cur, n)
  BY <1>1 DEF DataReplies, ReplyTypes, CommandTypes
<1>4. Tokens(a, n, e, cur, rest, h, q2, s)
  BY <1>2, <1>3 DEF NodeInv, Tokens
<1>5. Ownership(a, n, e, cur, rest, h, q2, s)
  BY <1>2, <1>3 DEF NodeInv, Ownership
<1>6. WriteBacks(a, n, e, cur, h, q2, s)
  BY <1>2, <1>3 DEF NodeInv, WriteBacks, Live, Quiet
<1>7. Flushes(a, n, e, cur, h, q2, s)
  BY <1>2, <1>3 DEF NodeInv, Flushes, Live
<1>8. Requests(a, n, cur, rest, h, q2, s, c)
  BY <1>2, <1>3 DEF NodeInv, Requests
<1>9. Accounts(a, n, e, cur, rest, h, q2, s, c)
  BY <1>2, <1>3 DEF NodeInv, Accounts
<1>10. Invalidations(a, n, e, cur, rest, h, q2, s)
  <2>1. Live(a, q2, "INV_REQ", s) => Live(a, q, "INV_REQ", s) \/ m.type = "INV_REQ"
    BY <1>1, <1>2 DEF Live
  <2> QED
    BY <1>2, <1>3, <2>1 DEF NodeInv, Invalidations
<1>11. Writers(a, n, e, cur, rest, h, q2, s, c)
  BY <1>2, <1>3 DEF NodeInv, Writers
<1> QED
  BY <1>4, <1>5, <1>6, <1>7, <1>8, <1>9, <1>10, <1>11 DEF NodeInv

\* The directory is done with removing all copies of a block that has none.
LEMMA HomeNullifies ==
  ASSUME NEW a, NEW n, NEW e, NEW e2, NEW r, NEW rest, NEW h, NEW q, NEW s, NEW c,
         NodeInv(a, n, e, r, rest, h, q, s, c), r.type = "NULLIFY_REQ",
         e.sharers = {}, e2.sharers = {}, e.state = "UNCACHED", e2.state = "UNCACHED"
  PROVE  NodeInv(a, n, e2, NoReq, rest, h, q, s, c)
<1>1. /\ ~ Granted(r, n) /\ ~ Granted(NoReq, n) /\ ~ AwaitsWb(e, r, n)
      /\ ~ Owns(e, n) /\ ~ Owns(e2, n)
      /\ ~ UpgradeFlushes(e, r, n) /\ ~ AwaitsFlush(e, r, n)
  BY NoReqAsks DEF Granted, AwaitsWb, Owns, UpgradeFlushes, AwaitsFlush, RequestTypes
<1>2. \A T : T \subseteq RequestTypes => (Asked(NoReq, rest, T, n) <=> Asked(r, rest, T, n))
  BY NoReqAsks DEF Asked, RequestTypes
<1>3. {"SH_REQ"} \subseteq RequestTypes /\ {"UPGRADE_REQ"} \subseteq RequestTypes
      /\ Misses \subseteq RequestTypes
  BY DEF Misses, RequestTypes
<1>4. Tokens(a, n, e2, NoReq, rest, h, q, s)
  BY <1>1, <1>2, <1>3 DEF NodeInv, Tokens
<1>5. Ownership(a, n, e2, NoReq, rest, h, q, s)
  BY <1>1, <1>2, <1>3 DEF NodeInv, Ownership
<1>6. WriteBacks(a, n, e2, NoReq, h, q, s)
  BY <1>1 DEF NodeInv, WriteBacks
<1>7. Flushes(a, n, e2, NoReq, h, q, s)
  BY <1>1 DEF NodeInv, Flushes
<1>8. Requests(a, n, NoReq, rest, h, q, s, c)
  BY <1>2, <1>3, NoReqAsks DEF NodeInv, Requests
<1>9. Accounts(a, n, e2, NoReq, rest, h, q, s, c)
  BY <1>1, <1>2 DEF NodeInv, Accounts
<1>10. Invalidations(a, n, e2, NoReq, rest, h, q, s)
  <2>1. ~ AwaitsInv(e, r, n) /\ ~ Awaits(e, r, n)
    BY <1>1 DEF AwaitsInv, Awaits
  <2>2. ~ (NoReq.type \in RequestTypes /\ NoReq.requester = n)
    BY NoReqAsks
  <2> QED
    BY <2>1, <2>2 DEF NodeInv, Invalidations
<1>11. Writers(a, n, e2, NoReq, rest, h, q, s, c)
  <2>1. Asked(NoReq, rest, Writes, n) => Asked(r, rest, Writes, n)
    BY <1>2 DEF Writes, RequestTypes
  <2> QED
    BY <1>1, <2>1 DEF NodeInv, Writers
<1> QED
  BY <1>4, <1>5, <1>6, <1>7, <1>8, <1>9, <1>10, <1>11 DEF NodeInv

\* Two entries with the same state, the same sharers and, if it has one, the same owner.
Alike(e, e2) ==
  /\ e2.state = e.state /\ e2.sharers = e.sharers
  /\ e.state \in {"EXCLUSIVE", "MODIFIED"} => e2.owner = e.owner

\* The invariant does not see where an entry is, nor the data of a request.
LEMMA NodeAlike ==
  ASSUME NEW a, NEW n, NEW e, NEW e2, NEW cur, NEW cur2, NEW rest, NEW h, NEW q, NEW s, NEW c,
         NodeInv(a, n, e, cur, rest, h, q, s, c), Alike(e, e2),
         cur2.type = cur.type, cur2.requester = cur.requester,
         cur2.waitForData = cur.waitForData, cur2.forwardingFrom = cur.forwardingFrom
  PROVE  NodeInv(a, n, e2, cur2, rest, h, q, s, c)
<1>1. /\ Granted(cur2, n) <=> Granted(cur, n)
      /\ Owns(e2, n) <=> Owns(e, n)
      /\ AwaitsWb(e2, cur2, n) <=> AwaitsWb(e, cur, n)
      /\ UpgradeFlushes(e2, cur2, n) <=> UpgradeFlushes(e, cur, n)
      /\ AwaitsFlush(e2, cur2, n) <=> AwaitsFlush(e, cur, n)
      /\ AwaitsInv(e2, cur2, n) <=> AwaitsInv(e, cur, n)
      /\ Awaits(e2, cur2, n) <=> Awaits(e, cur, n)
      /\ \A T : Asked(cur2, rest, T, n) <=> Asked(cur, rest, T, n)
      /\ e2.state = e.state /\ e2.sharers = e.sharers
  BY DEF Alike, Granted, Owns, AwaitsWb, UpgradeFlushes, AwaitsFlush, AwaitsInv, Awaits, Asked
<1>2. Tokens(a, n, e2, cur2, rest, h, q, s)
  BY <1>1 DEF NodeInv, Tokens
<1>3. Ownership(a, n, e2, cur2, rest, h, q, s)
  BY <1>1 DEF NodeInv, Ownership
<1>4. WriteBacks(a, n, e2, cur2, h, q, s)
  BY <1>1 DEF NodeInv, WriteBacks
<1>5. Flushes(a, n, e2, cur2, h, q, s)
  BY <1>1 DEF NodeInv, Flushes
<1>6. Requests(a, n, cur2, rest, h, q, s, c)
  BY <1>1 DEF NodeInv, Requests
<1>7. Accounts(a, n, e2, cur2, rest, h, q, s, c)
  BY <1>1 DEF NodeInv, Accounts
<1>8. Invalidations(a, n, e2, cur2, rest, h, q, s)
  BY <1>1 DEF NodeInv, Invalidations
<1>9. Writers(a, n, e2, cur2, rest, h, q, s, c)
  BY <1>1 DEF NodeInv, Writers
<1> QED
  BY <1>2, <1>3, <1>4, <1>5, <1>6, <1>7, <1>8, <1>9 DEF NodeInv

-----------------------------------------------------------------------------
(* Steps of all queues, as they look to a block.                           *)

\* q2 is q after node k has taken m from its queue.
Takes(q, q2, k, m) ==
  Drops(q[k], q2[k], m) /\ \A j \in Nodes : j # k => q2[j] = q[j]

\* q2 is q after the messages in out have been sent.
Sends(q, q2, out) ==
  \A j \in Nodes :
    /\ (\A p \in out : p.to # j) => q2[j] = q[j]
    /\ \A p \in out : p.to = j => Adds(q[j], q2[j], p.msg)

\* Consume takes the first message.
LEMMA ConsumeTakes ==
  ASSUME QueuesOK(queue), NEW k \in Nodes, queue[k] # <<>>
  PROVE  Takes(queue, Consume(k), k, Received(k))
<1>1. queue[k] \in Seq(Msgs) /\ queue \in [Nodes -> Seq(Msgs)]
  BY DEF QueuesOK
<1>2. Drops(queue[k], Tail(queue[k]), Head(queue[k]))
  BY <1>1, TailDrops
<1> QED
  BY <1>1, <1>2 DEF Takes, Consume, Received

\* Send sends.
LEMMA SendSends ==
  ASSUME NEW q, QueuesOK(q), NEW out, Sendable(out)
  PROVE  Sends(q, Send(q, out), out)
<1> SUFFICES ASSUME NEW j \in Nodes
             PROVE  /\ (\A p \in out : p.to # j) => Send(q, out)[j] = q[j]
                    /\ \A p \in out : p.to = j => Adds(q[j], Send(q, out)[j], p.msg)
  BY DEF Sends
<1>1. (\A p \in out : p.to # j) => Send(q, out)[j] = q[j]
  BY DEF Send
<1>2. ASSUME NEW p \in out, p.to = j PROVE Adds(q[j], Send(q, out)[j], p.msg)
  <2>1. (CHOOSE x \in out : x.to = j) = p
    BY <1>2 DEF Sendable
  <2>2. Send(q, out)[j] = Append(q[j], p.msg)
    BY <1>2, <2>1 DEF Send
  <2>3. q[j] \in Seq(Msgs) /\ p.msg \in Msgs
    BY DEF QueuesOK, Sendable, Deliverable
  <2> QED
    BY <2>2, <2>3, AppendAdds
<1> QED
  BY <1>1, <1>2

\* What node n and the home of a know of block a is the same in q2 as in q.
Untouched(q, q2, a, n) ==
  Same(q[Home[a]], q2[Home[a]], HomeClass(a, n)) /\ Same(q[n], q2[n], NodeClass(a))

\* So are the accesses to the DRAM.
SameReads(q, q2, a) == Same(q[Home[a]], q2[Home[a]], About(DramReads, a))

\* Whom the taking of a message touches.
LEMMA TakesUntouched ==
  ASSUME NEW a \in Addrs, NEW k \in Nodes, NEW q, NEW q2, NEW m, Takes(q, q2, k, m)
  PROVE  /\ \A n \in Nodes : m \notin HomeClass(a, n) =>
              Same(q[Home[a]], q2[Home[a]], HomeClass(a, n))
         /\ \A n \in Nodes : n # k \/ m \notin NodeClass(a) => Same(q[n], q2[n], NodeClass(a))
         /\ m \notin About(DramReads, a) => SameReads(q, q2, a)
<1>1. ASSUME NEW n \in Nodes, NEW C, n # k \/ m \notin C PROVE Same(q[n], q2[n], C)
  <2>1. CASE n # k
    BY <2>1, SameTrans DEF Takes
  <2>2. CASE n = k
    <3>1. Drops(q[n], q2[n], m) /\ m \notin C
      BY <1>1, <2>2 DEF Takes
    <3> QED
      BY <3>1, OtherMessage
  <2> QED
    BY <2>1, <2>2
<1>2. Home[a] \in Nodes
  OBVIOUS
<1> QED
  BY <1>1, <1>2 DEF SameReads

\* Whom sending touches.
LEMMA SendsUntouched ==
  ASSUME NEW a \in Addrs, NEW q, NEW q2, NEW out, Sends(q, q2, out)
  PROVE  /\ \A n \in Nodes : (\A p \in out : p.msg \notin HomeClass(a, n)) =>
              Same(q[Home[a]], q2[Home[a]], HomeClass(a, n))
         /\ \A n \in Nodes : (\A p \in out : p.to # n \/ p.msg \notin NodeClass(a)) =>
              Same(q[n], q2[n], NodeClass(a))
         /\ (\A p \in out : p.msg \notin About(DramReads, a)) => SameReads(q, q2, a)
<1>1. ASSUME NEW n \in Nodes, NEW C, \A p \in out : p.to # n \/ p.msg \notin C
      PROVE  Same(q[n], q2[n], C)
  <2>1. CASE \A p \in out : p.to # n
    BY <2>1, SameTrans DEF Sends
  <2>2. CASE \E p \in out : p.to = n
    <3>1. PICK p \in out : p.to = n
      BY <2>2
    <3>2. Adds(q[n], q2[n], p.msg) /\ p.msg \notin C
      BY <1>1, <3>1 DEF Sends
    <3> QED
      BY <3>2, OtherMessage
  <2> QED
    BY <2>1, <2>2
<1>2. Home[a] \in Nodes
  OBVIOUS
<1> QED
  BY <1>1, <1>2 DEF SameReads

\* The invariant of the requests depends only on the accesses to the DRAM.
LEMMA ReqFrame ==
  ASSUME NEW a, NEW e, NEW cur, NEW rest, NEW h, NEW h2,
         ReqInv(a, e, cur, rest, h), Same(h, h2, About(DramReads, a))
  PROVE  ReqInv(a, e, cur, rest, h2)
<1>1. /\ Has(h2, About(DramReads, a)) <=> Has(h, About(DramReads, a))
      /\ Precedes(h2, About(DramReads, a), About(DramReads, a))
           <=> Precedes(h, About(DramReads, a), About(DramReads, a))
  BY DEF Same
<1> QED
  BY <1>1 DEF ReqInv

\* The invariant of a block depends only on what is not untouched.
LEMMA BlockFrame ==
  ASSUME NEW a, NEW e, NEW cur, NEW rest, NEW q, NEW q2, NEW l, NEW l2, NEW c, NEW c2,
         BlockInv(a, e, cur, rest, q, l, c), SameReads(q, q2, a),
         \A n \in Nodes : /\ Untouched(q, q2, a, n) /\ l2[n] = l[n] /\ c2[n] = c[n]
                          \/ NodeInv(a, n, e, cur, rest, q2[Home[a]], q2[n], l2[n], c2[n])
  PROVE  BlockInv(a, e, cur, rest, q2, l2, c2)
<1>1. ReqInv(a, e, cur, rest, q2[Home[a]])
  BY ReqFrame DEF BlockInv, SameReads
<1>2. ASSUME NEW n \in Nodes PROVE NodeInv(a, n, e, cur, rest, q2[Home[a]], q2[n], l2[n], c2[n])
  <2>1. CASE Untouched(q, q2, a, n) /\ l2[n] = l[n] /\ c2[n] = c[n]
    BY <2>1, NodeFrame DEF BlockInv, Untouched
  <2> QED
    BY <2>1
<1> QED
  BY <1>1, <1>2 DEF BlockInv

\* A message that no invariant of block a looks at.
Foreign(m, a) == m.addr # a \/ m.type = "DRAM_WRITE_REQ"

\* It is in none of the classes of a.
LEMMA ForeignClasses ==
  ASSUME NEW a, NEW m, Foreign(m, a)
  PROVE  /\ \A n : m \notin HomeClass(a, n)
         /\ m \notin NodeClass(a) /\ m \notin About(DramReads, a)
  BY DEF Foreign, HomeClass, NodeClass, From, About, DramReads, RequestTypes, AnswerTypes, ReplyTypes,
         CommandTypes

\* Taking such a message leaves the block alone.
LEMMA BlockTakesForeign ==
  ASSUME NEW a \in Addrs, NEW e, NEW cur, NEW rest, NEW q, NEW q2, NEW l, NEW c,
         BlockInv(a, e, cur, rest, q, l, c), NEW k \in Nodes, NEW m, Takes(q, q2, k, m), Foreign(m, a)
  PROVE  BlockInv(a, e, cur, rest, q2, l, c)
<1>1. \A n \in Nodes : Untouched(q, q2, a, n)
  BY TakesUntouched, ForeignClasses DEF Untouched
<1>2. SameReads(q, q2, a)
  BY TakesUntouched, ForeignClasses
<1> QED
  BY <1>1, <1>2, BlockFrame

\* Sending such messages.
LEMMA BlockSendsForeign ==
  ASSUME NEW a \in Addrs, NEW e, NEW cur, NEW rest, NEW q, NEW q2, NEW l, NEW c,
         BlockInv(a, e, cur, rest, q, l, c), NEW out, Sends(q, q2, out),
         \A p \in out : Foreign(p.msg, a)
  PROVE  BlockInv(a, e, cur, rest, q2, l, c)
<1>1. \A p \in out : /\ \A n : p.msg \notin HomeClass(a, n)
                     /\ p.msg \notin NodeClass(a) /\ p.msg \notin About(DramReads, a)
  BY ForeignClasses
<1>2. \A n \in Nodes : Untouched(q, q2, a, n)
  BY <1>1, SendsUntouched DEF Untouched
<1>3. SameReads(q, q2, a)
  BY <1>1, SendsUntouched
<1> QED
  BY <1>2, <1>3, BlockFrame

\* l2 is l with s for node k.
Changes(l, l2, k, s) == l2[k] = s /\ \A j \in Nodes : j # k => l2[j] = l[j]

\* The classes of the messages that reach the home of a block, or a node, about it.
LEMMA MessageClasses ==
  ASSUME NEW m \in Msgs, NEW a
  PROVE  /\ m.type \notin RequestTypes \cup AnswerTypes => \A n : m \notin HomeClass(a, n)
         /\ \A n : m.sender # n => m \notin HomeClass(a, n)
         /\ m.type \notin ReplyTypes \cup CommandTypes => m \notin NodeClass(a)
         /\ m.type \notin DramReads => m \notin About(DramReads, a)
  BY DEF HomeClass, NodeClass, From, About

\* The kinds of message are distinct.
LEMMA TypesDiffer ==
  \A t : /\ t \in CommandTypes => t \notin RequestTypes \cup AnswerTypes \cup DramReads
         /\ t \in ReplyTypes => t \notin RequestTypes \cup AnswerTypes \cup DramReads
         /\ t \in RequestTypes \cup AnswerTypes =>
              t \notin ReplyTypes \cup CommandTypes \cup DramReads
         /\ t \in DramReads => t \notin RequestTypes \cup AnswerTypes \cup ReplyTypes \cup CommandTypes
         /\ t \in Lost => t \in AnswerTypes
  BY DEF CommandTypes, RequestTypes, AnswerTypes, ReplyTypes, DramReads, Lost

\* Node k takes a command or a reply; only what node k keeps true of the block is new.
LEMMA BlockNodeTakes ==
  ASSUME NEW a \in Addrs, NEW e, NEW cur, NEW rest, NEW q, NEW q2, NEW l, NEW l2, NEW c, NEW c2,
         BlockInv(a, e, cur, rest, q, l, c), NEW k \in Nodes, NEW m \in Msgs, Takes(q, q2, k, m),
         m.type \in CommandTypes \cup ReplyTypes,
         NEW s, NEW d, Changes(l, l2, k, s), Changes(c, c2, k, d),
         NodeInv(a, k, e, cur, rest, q[Home[a]], q2[k], s, d)
  PROVE  BlockInv(a, e, cur, rest, q2, l2, c2)
<1>1. (\A n : m \notin HomeClass(a, n)) /\ m \notin About(DramReads, a)
  BY MessageClasses, TypesDiffer
<1>2. /\ \A n \in Nodes : Same(q[Home[a]], q2[Home[a]], HomeClass(a, n))
      /\ \A n \in Nodes : n # k => Same(q[n], q2[n], NodeClass(a))
      /\ SameReads(q, q2, a)
  BY <1>1, TakesUntouched
<1>3. NodeInv(a, k, e, cur, rest, q2[Home[a]], q2[k], l2[k], c2[k])
  <2>1. Same(q2[k], q2[k], NodeClass(a))
    BY SameTrans
  <2> QED
    BY <1>2, <2>1, NodeFrame DEF Changes
<1>4. \A n \in Nodes : \/ Untouched(q, q2, a, n) /\ l2[n] = l[n] /\ c2[n] = c[n]
                       \/ NodeInv(a, n, e, cur, rest, q2[Home[a]], q2[n], l2[n], c2[n])
  BY <1>2, <1>3 DEF Changes, Untouched
<1> QED
  BY <1>2, <1>4, BlockFrame

\* Node k sends a message home; only what node k keeps true of the block is new.
LEMMA BlockNodeSends ==
  ASSUME NEW a \in Addrs, NEW e, NEW cur, NEW rest, NEW q, NEW q2, NEW l, NEW l2, NEW c, NEW c2,
         BlockInv(a, e, cur, rest, q, l, c), NEW k \in Nodes, NEW m \in Msgs,
         Sends(q, q2, {To(Home[a], m)}), m.type \in RequestTypes \cup AnswerTypes, m.sender = k,
         NEW s, NEW d, Changes(l, l2, k, s), Changes(c, c2, k, d),
         Adds(q[Home[a]], q2[Home[a]], m) => NodeInv(a, k, e, cur, rest, q2[Home[a]], q[k], s, d)
  PROVE  BlockInv(a, e, cur, rest, q2, l2, c2)
<1> DEFINE out == {To(Home[a], m)}
<1>1. /\ \A n \in Nodes : n # k => m \notin HomeClass(a, n)
      /\ m \notin NodeClass(a) /\ m \notin About(DramReads, a)
  BY MessageClasses, TypesDiffer
<1>2. \A p \in out : p.msg = m
  BY DEF To
<1>3. Sends(q, q2, out)
  OBVIOUS
<1>4. Adds(q[Home[a]], q2[Home[a]], m)
  BY <1>3 DEF Sends, To
<1> HIDE DEF out
<1>5. /\ \A n \in Nodes : n # k => Same(q[Home[a]], q2[Home[a]], HomeClass(a, n))
      /\ \A n \in Nodes : Same(q[n], q2[n], NodeClass(a))
      /\ SameReads(q, q2, a)
  BY <1>1, <1>2, <1>3, SendsUntouched
<1>6. NodeInv(a, k, e, cur, rest, q2[Home[a]], q2[k], l2[k], c2[k])
  <2>1. Same(q2[Home[a]], q2[Home[a]], HomeClass(a, k))
    BY SameTrans
  <2> QED
    BY <1>4, <1>5, <2>1, NodeFrame DEF Changes
<1>7. \A n \in Nodes : \/ Untouched(q, q2, a, n) /\ l2[n] = l[n] /\ c2[n] = c[n]
                       \/ NodeInv(a, n, e, cur, rest, q2[Home[a]], q2[n], l2[n], c2[n])
  BY <1>5, <1>6 DEF Changes, Untouched
<1> QED
  BY <1>5, <1>7, BlockFrame

-----------------------------------------------------------------------------
(* Steps of the caches, as they look to a block.                           *)

\* Nothing changes for a node.
LEMMA NoChange ==
  ASSUME NEW l, NEW k \in Nodes
  PROVE  Changes(l, l, k, l[k])
  BY DEF Changes

\* Node k takes a command and does nothing.
LEMMA BlockForgets ==
  ASSUME NEW a \in Addrs, NEW e, NEW cur, NEW rest, NEW q, NEW q2, NEW l, NEW c,
         BlockInv(a, e, cur, rest, q, l, c), NEW k \in Nodes, NEW m \in Msgs, Takes(q, q2, k, m),
         m.type \in CommandTypes
  PROVE  BlockInv(a, e, cur, rest, q2, l, c)
<1>1. NodeInv(a, k, e, cur, rest, q[Home[a]], q[k], l[k], c[k]) /\ Drops(q[k], q2[k], m)
  BY DEF BlockInv, Takes
<1>2. NodeInv(a, k, e, cur, rest, q[Home[a]], q2[k], l[k], c[k])
  BY <1>1, NodeForgets
<1> QED
  BY <1>2, NoChange, BlockNodeTakes

\* Node k loses its line and says so.
LEMMA BlockLoses ==
  ASSUME NEW a \in Addrs, NEW e, NEW cur, NEW rest, NEW q, NEW q2, NEW l, NEW l2, NEW c,
         BlockInv(a, e, cur, rest, q, l, c), NEW k \in Nodes, NEW m \in Msgs,
         Sends(q, q2, {To(Home[a], m)}), m.type \in Lost, m.addr = a, m.sender = k,
         l[k] \in CStates \ {"INVALID"}, Changes(l, l2, k, "INVALID"),
         m.type = "FLUSH_REP" =>
           /\ Owns(e, k) \/ UpgradeFlushes(e, cur, k)
           /\ ~ Has(q[Home[a]], From({"WB_REP"}, a, k)) /\ ~ Has(q[k], About({"UPGRADE_REP"}, a)),
         FullMap /\ l[k] = "SHARED_UPGRADING" =>
           Awaits(e, cur, k) /\ ~ Has(q[k], About({"UPGRADE_REP"}, a)),
         FullMap /\ m.type = "INV_REP" =>
           e.state = "SHARED" \/ (c[k] # "writing" /\ l[k] \in {"SHARED", "EXCLUSIVE"})
  PROVE  BlockInv(a, e, cur, rest, q2, l2, c)
<1>1. NodeInv(a, k, e, cur, rest, q[Home[a]], q[k], l[k], c[k])
  BY DEF BlockInv
<1>2. ASSUME Adds(q[Home[a]], q2[Home[a]], m)
      PROVE  NodeInv(a, k, e, cur, rest, q2[Home[a]], q[k], "INVALID", c[k])
  BY <1>1, <1>2, NodeLoses
<1> QED
  BY <1>2, NoChange, TypesDiffer, BlockNodeSends

\* Node k writes its line back.
LEMMA BlockWritesBack ==
  ASSUME NEW a \in Addrs, NEW e, NEW cur, NEW rest, NEW q, NEW q1, NEW q2, NEW l, NEW l2, NEW c,
         BlockInv(a, e, cur, rest, q, l, c), NEW k \in Nodes,
         NEW m \in Msgs, Takes(q, q1, k, m), m.type = "WB_REQ", m.addr = a,
         NEW w \in Msgs, Sends(q1, q2, {To(Home[a], w)}),
         w.type = "WB_REP", w.addr = a, w.sender = k, l[k] \in CStates \ {"INVALID"},
         Changes(l, l2, k, IF l[k] = "SHARED_UPGRADING" THEN l[k] ELSE "SHARED")
  PROVE  BlockInv(a, e, cur, rest, q2, l2, c)
<1>1. /\ NodeInv(a, k, e, cur, rest, q[Home[a]], q[k], l[k], c[k]) /\ Drops(q[k], q1[k], m)
      /\ BlockInv(a, e, cur, rest, q1, l, c)
  <2>1. m.type \in CommandTypes
    BY DEF CommandTypes
  <2>2. BlockInv(a, e, cur, rest, q1, l, c)
    BY <2>1, BlockForgets
  <2> QED
    BY <2>2 DEF BlockInv, Takes
<1>2. \A n \in Nodes : Same(q[Home[a]], q1[Home[a]], HomeClass(a, n))
  BY MessageClasses, TypesDiffer, TakesUntouched DEF CommandTypes
<1>3. NodeInv(a, k, e, cur, rest, q1[Home[a]], q[k], l[k], c[k])
  <2>1. Same(q[k], q[k], NodeClass(a))
    BY SameTrans
  <2> QED
    BY <1>1, <1>2, <2>1, NodeFrame
<1>4. ASSUME Adds(q1[Home[a]], q2[Home[a]], w)
      PROVE  NodeInv(a, k, e, cur, rest, q2[Home[a]], q1[k],
                     IF l[k] = "SHARED_UPGRADING" THEN l[k] ELSE "SHARED", c[k])
  BY <1>1, <1>3, <1>4, NodeWritesBack
<1>5. w.type \in RequestTypes \cup AnswerTypes
  BY DEF AnswerTypes
<1> QED
  BY <1>1, <1>4, <1>5, NoChange, BlockNodeSends

\* Node k receives data and fills its line.
LEMMA BlockFills ==
  ASSUME NEW a \in Addrs, NEW e, NEW cur, NEW rest, NEW q, NEW q2, NEW l, NEW l2, NEW c, NEW c2,
         BlockInv(a, e, cur, rest, q, l, c), NEW k \in Nodes,
         NEW m \in Msgs, Takes(q, q2, k, m), m.type \in DataReplies, m.addr = a,
         l[k] = "INVALID",
         Changes(l, l2, k, IF m.type = "EX_REP" THEN "EXCLUSIVE" ELSE "SHARED"),
         NEW d \in {"served", "writing"}, Changes(c, c2, k, d),
         m.type = "EX_REP" /\ c[k] = "writes" => d = "writing"
  PROVE  BlockInv(a, e, cur, rest, q2, l2, c2)
<1>1. NodeInv(a, k, e, cur, rest, q[Home[a]], q[k], "INVALID", c[k]) /\ Drops(q[k], q2[k], m)
  BY DEF BlockInv, Takes
<1>2. NodeInv(a, k, e, cur, rest, q[Home[a]], q2[k],
              IF m.type = "EX_REP" THEN "EXCLUSIVE" ELSE "SHARED", d)
  BY <1>1, NodeFills
<1>3. m.type \in CommandTypes \cup ReplyTypes
  BY DEF DataReplies, ReplyTypes
<1> QED
  BY <1>2, <1>3, BlockNodeTakes

\* Node k is told that its upgrade is granted.
LEMMA BlockUpgrades ==
  ASSUME NEW a \in Addrs, NEW e, NEW cur, NEW rest, NEW q, NEW q2, NEW l, NEW l2, NEW c, NEW c2,
         BlockInv(a, e, cur, rest, q, l, c), NEW k \in Nodes,
         NEW m \in Msgs, Takes(q, q2, k, m), m.type = "UPGRADE_REP", m.addr = a,
         l[k] = "SHARED_UPGRADING", Changes(l, l2, k, "MODIFIED"), Changes(c, c2, k, "served")
  PROVE  BlockInv(a, e, cur, rest, q2, l2, c2)
<1>1. NodeInv(a, k, e, cur, rest, q[Home[a]], q[k], "SHARED_UPGRADING", c[k])
      /\ Drops(q[k], q2[k], m)
  BY DEF BlockInv, Takes
<1>2. NodeInv(a, k, e, cur, rest, q[Home[a]], q2[k], "MODIFIED", "served")
  BY <1>1, NodeUpgrades
<1>3. m.type \in CommandTypes \cup ReplyTypes
  BY DEF ReplyTypes
<1> QED
  BY <1>2, <1>3, BlockNodeTakes

\* Node k asks for an upgrade of its line.
LEMMA BlockAsksUpgrade ==
  ASSUME NEW a \in Addrs, NEW e, NEW cur, NEW rest, NEW q, NEW q2, NEW l, NEW l2, NEW c, NEW c2,
         BlockInv(a, e, cur, rest, q, l, c), NEW k \in Nodes, NEW m \in Msgs,
         Sends(q, q2, {To(Home[a], m)}), m.type = "UPGRADE_REQ", m.addr = a, m.sender = k,
         l[k] = "SHARED", c[k] \notin Waits, k \in Caches,
         Changes(l, l2, k, "SHARED_UPGRADING"), Changes(c, c2, k, "writes")
  PROVE  BlockInv(a, e, cur, rest, q2, l2, c2)
<1>1. NodeInv(a, k, e, cur, rest, q[Home[a]], q[k], "SHARED", c[k])
  BY DEF BlockInv
<1>2. ASSUME Adds(q[Home[a]], q2[Home[a]], m)
      PROVE  NodeInv(a, k, e, cur, rest, q2[Home[a]], q[k], "SHARED_UPGRADING", "writes")
  BY <1>1, <1>2, NodeAsksUpgrade
<1>3. m.type \in RequestTypes \cup AnswerTypes
  BY DEF RequestTypes
<1> QED
  BY <1>2, <1>3, BlockNodeSends

\* Node k asks for a block that it does not have.
LEMMA BlockAsks ==
  ASSUME NEW a \in Addrs, NEW e, NEW cur, NEW rest, NEW q, NEW q2, NEW l, NEW c, NEW c2,
         BlockInv(a, e, cur, rest, q, l, c), NEW k \in Nodes, NEW m \in Msgs,
         Sends(q, q2, {To(Home[a], m)}), m.type \in Misses, m.addr = a, m.sender = k,
         l[k] = "INVALID", c[k] \notin Waits, k \in Caches,
         NEW d \in Waits, m.type \in Writes => d = "writes", Changes(c, c2, k, d)
  PROVE  BlockInv(a, e, cur, rest, q2, l, c2)
<1>1. NodeInv(a, k, e, cur, rest, q[Home[a]], q[k], "INVALID", c[k])
  BY DEF BlockInv
<1>2. ASSUME Adds(q[Home[a]], q2[Home[a]], m)
      PROVE  NodeInv(a, k, e, cur, rest, q2[Home[a]], q[k], "INVALID", d)
  BY <1>1, <1>2, NodeAsks
<1>3. m.type \in RequestTypes \cup AnswerTypes
  BY DEF RequestTypes, Misses
<1>4. Changes(l, l, k, "INVALID")
  BY NoChange
<1> QED
  BY <1>2, <1>3, <1>4, BlockNodeSends

\* The cores of node k do something else about the block.
LEMMA BlockServes ==
  ASSUME NEW a \in Addrs, NEW e, NEW cur, NEW rest, NEW q, NEW l, NEW c, NEW c2,
         BlockInv(a, e, cur, rest, q, l, c), NEW k \in Nodes,
         c[k] \notin Waits \cup {"writing"}, NEW d, Changes(c, c2, k, d), d \notin Waits,
         d # "none" => k \in Caches
  PROVE  BlockInv(a, e, cur, rest, q, l, c2)
<1>1. NodeInv(a, k, e, cur, rest, q[Home[a]], q[k], l[k], d)
  BY NodeServes DEF BlockInv
<1> QED
  BY <1>1 DEF BlockInv, Changes

\* A core of node k writes.
LEMMA BlockWrites ==
  ASSUME NEW a \in Addrs, NEW e, NEW cur, NEW rest, NEW q, NEW l, NEW l2, NEW c, NEW c2,
         BlockInv(a, e, cur, rest, q, l, c), NEW k \in Nodes,
         l[k] \in {"EXCLUSIVE", "MODIFIED"}, Changes(l, l2, k, "MODIFIED"),
         NEW d, d = c[k] \/ (c[k] = "writing" /\ d = "served"), Changes(c, c2, k, d)
  PROVE  BlockInv(a, e, cur, rest, q, l2, c2)
<1>1. NodeInv(a, k, e, cur, rest, q[Home[a]], q[k], l2[k], c2[k])
  BY NodeWrites DEF BlockInv, Changes
<1> QED
  BY <1>1 DEF BlockInv, Changes

-----------------------------------------------------------------------------
(* Steps of the directory, as they look to a block.                        *)

\* The home takes a request, an answer or the data of the DRAM: only its queue changes,
\* and what it keeps true of the block is new.
LEMMA BlockHomeTakes ==
  ASSUME NEW a \in Addrs, NEW e, NEW cur, NEW rest, NEW q, NEW q2, NEW l, NEW c,
         NEW m \in Msgs, Takes(q, q2, Home[a], m),
         m.type \in RequestTypes \cup AnswerTypes \cup DramReads,
         ReqInv(a, e, cur, rest, q2[Home[a]]),
         \A n \in Nodes : NodeInv(a, n, e, cur, rest, q2[Home[a]], q[n], l[n], c[n])
  PROVE  BlockInv(a, e, cur, rest, q2, l, c)
<1>1. m \notin NodeClass(a) /\ Home[a] \in Nodes
  <2>1. m.type \notin ReplyTypes \cup CommandTypes
    BY DEF RequestTypes, AnswerTypes, DramReads, ReplyTypes, CommandTypes
  <2> QED
    BY <2>1, MessageClasses
<1>2. \A n \in Nodes : Same(q[n], q2[n], NodeClass(a))
  BY <1>1, TakesUntouched
<1>3. \A n \in Nodes : NodeInv(a, n, e, cur, rest, q2[Home[a]], q2[n], l[n], c[n])
  BY <1>2, SameTrans, NodeFrame
<1> QED
  BY <1>3 DEF BlockInv

\* The home sends messages to nodes, none of them its own answers or requests: what each
\* node sees of its queue is new.
LEMMA BlockHomeSends ==
  ASSUME NEW a \in Addrs, NEW e, NEW cur, NEW rest, NEW q, NEW q2, NEW l, NEW c,
         NEW out, Sends(q, q2, out), \A p \in out : p.msg \in Msgs,
         \A p \in out : p.msg.type \in CommandTypes \cup ReplyTypes \cup DramReads,
         ReqInv(a, e, cur, rest, q2[Home[a]]),
         \A n \in Nodes : NodeInv(a, n, e, cur, rest, q[Home[a]], q2[n], l[n], c[n])
  PROVE  BlockInv(a, e, cur, rest, q2, l, c)
<1>1. \A p \in out : \A n : p.msg \notin HomeClass(a, n)
  BY MessageClasses, TypesDiffer
<1>2. \A n \in Nodes : Same(q[Home[a]], q2[Home[a]], HomeClass(a, n))
  BY <1>1, SendsUntouched
<1>3. \A n \in Nodes : NodeInv(a, n, e, cur, rest, q2[Home[a]], q2[n], l[n], c[n])
  BY <1>2, SameTrans, NodeFrame
<1> QED
  BY <1>3 DEF BlockInv

\* No data of a node are on their way back or are going to be.
AllQuiet(a, q, l) == \A n \in Nodes : Quiet(a, n, q[Home[a]], q[n], l[n])

\* So it is while the directory waits for nobody to write the block back.
LEMMA NobodyWritesBack ==
  ASSUME NEW a \in Addrs, NEW e, NEW cur, NEW rest, NEW q, NEW l, NEW c,
         BlockInv(a, e, cur, rest, q, l, c), \A n \in Nodes : ~ AwaitsWb(e, cur, n)
  PROVE  AllQuiet(a, q, l)
  BY DEF BlockInv, NodeInv, WriteBacks, Quiet, AllQuiet

\* The directory queues a request.
LEMMA BlockReceives ==
  ASSUME NEW a \in Addrs, NEW e, NEW cur, NEW rest \in Seq(Reqs), NEW q, NEW q2, NEW l, NEW c,
         BlockInv(a, e, cur, rest, q, l, c), l \in [Nodes -> CStates],
         NEW m \in Msgs, Takes(q, q2, Home[a], m), m.type \in RequestTypes, m.addr = a
  PROVE  BlockInv(a, e, cur, Append(rest, Req(m.type, m.sender)), q2, l, c)
<1> DEFINE r == Req(m.type, m.sender)
<1>1. r \in Reqs /\ r.type = m.type /\ r.requester = m.sender /\ r = Req(r.type, r.requester)
  BY ReqOK DEF Msgs
<1> HIDE DEF r
<1>2. Adds(rest, Append(rest, r), r)
  BY <1>1, AppendAdds
<1>3. Drops(q[Home[a]], q2[Home[a]], m)
  BY DEF Takes
<1>4. ReqInv(a, e, cur, Append(rest, r), q2[Home[a]])
  <2>1. ReqInv(a, e, cur, rest, q2[Home[a]])
    <3>1. m \notin About(DramReads, a)
      BY MessageClasses, TypesDiffer
    <3>2. SameReads(q, q2, a)
      BY <3>1, TakesUntouched
    <3> QED
      BY <3>2, ReqFrame DEF BlockInv, SameReads
  <2>2. \A i \in 1 .. Len(Append(rest, r)) :
          (i \in 1 .. Len(rest) /\ Append(rest, r)[i] = rest[i]) \/ Append(rest, r)[i] = r
    BY <1>1
  <2>3. \A i \in 1 .. Len(Append(rest, r)) :
          Append(rest, r)[i] = Req(Append(rest, r)[i].type, Append(rest, r)[i].requester)
    BY <1>1, <2>1, <2>2 DEF ReqInv
  <2> QED
    BY <2>1, <2>3 DEF ReqInv
<1>5. \A n \in Nodes :
        NodeInv(a, n, e, cur, Append(rest, r), q2[Home[a]], q[n], l[n], c[n])
  <2> SUFFICES ASSUME NEW n \in Nodes
               PROVE  NodeInv(a, n, e, cur, Append(rest, r), q2[Home[a]], q[n], l[n], c[n])
    OBVIOUS
  <2>1. NodeInv(a, n, e, cur, rest, q[Home[a]], q[n], l[n], c[n]) /\ l[n] \in CStates
    BY DEF BlockInv
  <2> QED
    BY <1>1, <1>2, <1>3, <2>1, HomeReceives
<1>6. BlockInv(a, e, cur, Append(rest, r), q2, l, c)
  BY <1>4, <1>5, BlockHomeTakes
<1> QED
  BY <1>6 DEF r

\* The directory starts to work on the first request that waits.
LEMMA BlockStarts ==
  ASSUME NEW a \in Addrs, NEW e, NEW rest \in Seq(Reqs), rest # <<>>, NEW q, NEW l, NEW c,
         BlockInv(a, e, NoReq, rest, q, l, c)
  PROVE  /\ BlockInv(a, e, Head(rest), Tail(rest), q, l, c)
         /\ ~ Head(rest).waitForData /\ Head(rest).forwardingFrom = NoNode
         /\ AllQuiet(a, q, l)
<1> DEFINE r == Head(rest)
           t == Tail(rest)
<1>1. Drops(rest, t, r) /\ r \in Reqs
  BY TailDrops
<1>2. /\ rest[1] = r /\ 1 \in 1 .. Len(rest)
      /\ \A i \in 1 .. Len(t) : i + 1 \in 1 .. Len(rest) /\ t[i] = rest[i + 1]
  OBVIOUS
<1>3. r = Req(r.type, r.requester)
  BY <1>2 DEF BlockInv, ReqInv
<1> HIDE DEF r, t
<1>4. ~ r.waitForData /\ r.forwardingFrom = NoNode
  <2>1. \A x, y : ~ Req(x, y).waitForData /\ Req(x, y).forwardingFrom = NoNode
    BY DEF Req
  <2> QED
    BY <1>3, <2>1
<1>5. ReqInv(a, e, r, t, q[Home[a]])
  <2>1. \A i \in 1 .. Len(t) : t[i] = Req(t[i].type, t[i].requester)
    BY <1>2 DEF BlockInv, ReqInv
  <2>2. ~ Has(q[Home[a]], About(DramReads, a))
    BY NoReqAsks DEF BlockInv, ReqInv
  <2> QED
    BY <1>4, <2>1, <2>2 DEF BlockInv, ReqInv
<1>6. ASSUME NEW n \in Nodes PROVE NodeInv(a, n, e, r, t, q[Home[a]], q[n], l[n], c[n])
  BY <1>1, <1>4, HomeStarts DEF BlockInv
<1>7. AllQuiet(a, q, l)
  BY NoReqAsks, NobodyWritesBack
<1> QED
  BY <1>4, <1>5, <1>6, <1>7 DEF BlockInv, r, t

\* The directory starts to remove the copies of a block that no request waits for.
LEMMA BlockStartsNullify ==
  ASSUME NEW a \in Addrs, NEW e, NEW q, NEW l, NEW c, BlockInv(a, e, NoReq, <<>>, q, l, c),
         NEW r \in Reqs, r.type = "NULLIFY_REQ", ~ r.waitForData, r.forwardingFrom = NoNode
  PROVE  BlockInv(a, e, r, <<>>, q, l, c) /\ AllQuiet(a, q, l)
<1>1. ReqInv(a, e, r, <<>>, q[Home[a]])
  BY NoReqAsks DEF BlockInv, ReqInv
<1>2. ASSUME NEW n \in Nodes PROVE NodeInv(a, n, e, r, <<>>, q[Home[a]], q[n], l[n], c[n])
  <2> DEFINE h == q[Home[a]]
             p == q[n]
             s == l[n]
             d == c[n]
  <2>1. NodeInv(a, n, e, NoReq, <<>>, h, p, s, d)
    BY DEF BlockInv
  <2> HIDE DEF h, p, s, d
  <2>2. /\ ~ Granted(r, n) /\ ~ Granted(NoReq, n) /\ ~ AwaitsWb(e, r, n) /\ ~ UpgradeFlushes(e, r, n)
        /\ ~ AwaitsWb(e, NoReq, n) /\ ~ UpgradeFlushes(e, NoReq, n) /\ ~ AwaitsFlush(e, NoReq, n)
        /\ ~ AwaitsInv(e, NoReq, n) /\ ~ Awaits(e, NoReq, n)
    BY NoReqAsks DEF Granted, AwaitsWb, UpgradeFlushes, RequestTypes
  <2>3. \A T : T \subseteq RequestTypes => ~ Asked(r, <<>>, T, n) /\ ~ Asked(NoReq, <<>>, T, n)
    BY EmptyHas, NoReqAsks DEF Asked, RequestTypes
  <2>4. {"SH_REQ"} \subseteq RequestTypes /\ {"UPGRADE_REQ"} \subseteq RequestTypes
        /\ Misses \subseteq RequestTypes /\ r.type \notin RequestTypes
    BY DEF Misses, RequestTypes
  <2>5. Tokens(a, n, e, r, <<>>, h, p, s)
    BY <2>1, <2>2, <2>3, <2>4 DEF NodeInv, Tokens
  <2>6. Ownership(a, n, e, r, <<>>, h, p, s)
    BY <2>1, <2>2, <2>3, <2>4 DEF NodeInv, Ownership
  <2>7. WriteBacks(a, n, e, r, h, p, s)
    BY <2>1, <2>2 DEF NodeInv, WriteBacks
  <2>8. Flushes(a, n, e, r, h, p, s)
    BY <2>1, <2>2 DEF NodeInv, Flushes
  <2>9. Requests(a, n, r, <<>>, h, p, s, d)
    BY <2>1, <2>3, <2>4 DEF NodeInv, Requests
  <2>10. Accounts(a, n, e, r, <<>>, h, p, s, d)
    BY <2>1, <2>2, <2>3 DEF NodeInv, Accounts
  <2>11. Invalidations(a, n, e, r, <<>>, h, p, s)
    BY <2>1, <2>2, <2>4 DEF NodeInv, Invalidations
  <2>12. Writers(a, n, e, r, <<>>, h, p, s, d)
    <3>1. Writes \subseteq RequestTypes
      BY DEF Writes, RequestTypes
    <3> QED
      BY <2>1, <2>3, <3>1 DEF NodeInv, Writers
  <2>13. NodeInv(a, n, e, r, <<>>, h, p, s, d)
    BY <2>5, <2>6, <2>7, <2>8, <2>9, <2>10, <2>11, <2>12 DEF NodeInv
  <2> QED
    BY <2>13 DEF h, p, s, d
<1>3. AllQuiet(a, q, l)
  BY NoReqAsks, NobodyWritesBack
<1> QED
  BY <1>1, <1>2, <1>3 DEF BlockInv

\* A node whose copy the directory learns has gone is quiet.
LEMMA LostIsQuiet ==
  ASSUME NEW a \in Addrs, NEW k \in Nodes, NEW e, NEW cur, NEW rest, NEW h, NEW h2, NEW q,
         NEW s \in CStates, NEW c, NEW m \in Msgs, NodeInv(a, k, e, cur, rest, h, q, s, c),
         Drops(h, h2, m), m.type \in Lost, m.addr = a, m.sender = k
  PROVE  Quiet(a, k, h2, q, s) /\ ~ Granted(cur, k) /\ k \in e.sharers
<1>1. m \in From(Lost, a, k)
  BY Membership
<1>2. \A S, T : /\ Has(h, S) <=> m \in S \/ Has(h2, S)
                /\ Precedes(h, S, T) <=> Precedes(h2, S, T) \/ (m \in S /\ Has(h2, T))
  BY DEF Drops
<1>3. Has(h, From(Lost, a, k))
  BY <1>1, <1>2
<1>4. s = "INVALID" /\ ~ Has(q, About(DataReplies, a)) /\ ~ Granted(cur, k) /\ k \in e.sharers
  BY <1>3 DEF NodeInv, Tokens
<1>5. ~ Has(h2, From({"WB_REP"}, a, k))
  BY <1>1, <1>2 DEF NodeInv, WriteBacks
<1> QED
  BY <1>4, <1>5, NodeIncludes DEF Quiet, Live

\* The home of block a takes message m, with which cache k gives its copy back: the
\* entry was e and is e2.
TakesCopy(a, e, e2, cur, q, q2, k, m) ==
  /\ EntryOK(e) /\ k \in Nodes /\ m \in Msgs /\ Takes(q, q2, Home[a], m)
  /\ m.type \in Lost /\ m.addr = a /\ m.sender = k
  /\ m.type = "INV_REP" => e.state # "MODIFIED"
  /\ cur.requester \in Nodes \/ cur = NoReq
  /\ e2.sharers = e.sharers \ {k}
  /\ e2.state = IF e.sharers = {k} THEN "UNCACHED" ELSE e.state

\* The directory removes sharer k, whose copy is gone.  Only the node that is asked for
\* the data of a SHARED block is not quiet then, if it is not k.
LEMMA BlockLosesSharer ==
  ASSUME NEW a \in Addrs, NEW e, NEW e2, NEW cur, NEW rest, NEW q, NEW q2,
         NEW l \in [Nodes -> CStates], NEW c, BlockInv(a, e, cur, rest, q, l, c),
         NEW k, NEW m, TakesCopy(a, e, e2, cur, q, q2, k, m)
  PROVE  /\ BlockInv(a, e2, cur, rest, q2, l, c)
         /\ e2.state \in {"SHARED", "UNCACHED"}
         /\ cur.type # "SH_REQ" => ~ cur.waitForData
         /\ cur.type # "SH_REQ" \/ e2.state = "UNCACHED" \/ cur.forwardingFrom \in {NoNode, k}
              => AllQuiet(a, q2, l)
<1>0. /\ EntryOK(e) /\ k \in Nodes /\ m \in Msgs /\ Takes(q, q2, Home[a], m)
      /\ m.type \in Lost /\ m.addr = a /\ m.sender = k
      /\ m.type = "INV_REP" => e.state # "MODIFIED"
      /\ cur.requester \in Nodes \/ cur = NoReq
      /\ e2.sharers = e.sharers \ {k}
      /\ e2.state = IF e.sharers = {k} THEN "UNCACHED" ELSE e.state
  BY DEF TakesCopy
<1> USE <1>0
<1> DEFINE h == q[Home[a]]
           h2 == q2[Home[a]]
<1>1. Drops(h, h2, m) /\ Home[a] \in Nodes
  BY DEF Takes
<1>2. ReqInv(a, e, cur, rest, h) /\ \A n \in Nodes : NodeInv(a, n, e, cur, rest, h, q[n], l[n], c[n])
  BY DEF BlockInv
<1>3. SameReads(q, q2, a)
  BY MessageClasses, TypesDiffer, TakesUntouched
<1>4. ReqInv(a, e, cur, rest, h2)
  BY <1>2, <1>3, ReqFrame DEF SameReads
<1> HIDE DEF h, h2
<1>5. \A n \in Nodes : l[n] \in CStates
  OBVIOUS
<1>6. k \in e.sharers /\ ~ Granted(cur, k)
  BY <1>1, <1>2, <1>5, LostIsQuiet
<1>7. Granted(cur, cur.requester) => cur.requester \in e.sharers \ {k}
  <2>1. CASE cur = NoReq
    BY <2>1, NoReqAsks
  <2>2. CASE cur.requester \in Nodes
    BY <1>2, <1>6, <2>2 DEF NodeInv, Tokens
  <2> QED
    BY <2>1, <2>2
<1>8. cur.forwardingFrom # NoNode =>
        cur.type = "SH_REQ" /\ e.state = "SHARED" /\ cur.requester \in e.sharers \ {k}
  BY <1>2, <1>7 DEF ReqInv, Granted, RequestTypes
<1>9. \A n \in Nodes : NodeInv(a, n, e2, cur, rest, h2, q[n], l[n], c[n])
  BY <1>1, <1>2, <1>5, <1>6, <1>8, HomeLoses
<1>10. /\ e.state \in {"EXCLUSIVE", "MODIFIED"} => e.sharers = {k} /\ e.owner = k
       /\ e.state \in {"SHARED", "EXCLUSIVE", "MODIFIED"}
  BY <1>6 DEF EntryOK, Entries
<1>11. cur.waitForData => cur.type = "SH_REQ" /\ e.state = "SHARED" /\ cur.requester \in e.sharers \ {k}
  <2>1. cur.waitForData => Granted(cur, cur.requester)
    BY <1>2 DEF ReqInv, Granted, RequestTypes
  <2>2. Owns(e, cur.requester) => cur.requester = k
    BY <1>10 DEF Owns
  <2> QED
    BY <1>2, <1>7, <2>1, <2>2 DEF ReqInv
<1>12. ReqInv(a, e2, cur, rest, h2)
  <2>1. cur.requester \in e.sharers \ {k} => e2.state = e.state
    OBVIOUS
  <2>2. cur.waitForData =>
          \/ cur.type \in {"EX_REQ", "UPGRADE_REQ"} /\ Owns(e2, cur.requester)
          \/ cur.type = "SH_REQ" /\ (e2.state = "SHARED" \/ Owns(e2, cur.requester))
    BY <1>11, <2>1
  <2>3. cur.forwardingFrom # NoNode => cur.type = "SH_REQ" /\ e2.state = "SHARED"
    BY <1>8, <2>1
  <2> QED
    BY <1>4, <2>2, <2>3 DEF ReqInv
<1>13. m.type \in RequestTypes \cup AnswerTypes \cup DramReads
  BY TypesDiffer
<1>14. BlockInv(a, e2, cur, rest, q2, l, c)
  <2>1. ReqInv(a, e2, cur, rest, q2[Home[a]])
    BY <1>12 DEF h2
  <2>2. \A n \in Nodes : NodeInv(a, n, e2, cur, rest, q2[Home[a]], q[n], l[n], c[n])
    BY <1>9 DEF h2
  <2> QED
    BY <1>13, <2>1, <2>2, BlockHomeTakes
<1>15. e2.state \in {"SHARED", "UNCACHED"}
  BY <1>10
<1>16. ASSUME cur.type # "SH_REQ" \/ e2.state = "UNCACHED" \/ cur.forwardingFrom \in {NoNode, k}
       PROVE  AllQuiet(a, q2, l)
  <2> SUFFICES ASSUME NEW n \in Nodes PROVE Quiet(a, n, q2[Home[a]], q2[n], l[n])
    BY DEF AllQuiet
  <2>1. NodeInv(a, n, e2, cur, rest, q2[Home[a]], q2[n], l[n], c[n])
    BY <1>14 DEF BlockInv
  <2>2. CASE ~ AwaitsWb(e2, cur, n)
    BY <2>1, <2>2 DEF NodeInv, WriteBacks, Quiet
  <2>3. CASE AwaitsWb(e2, cur, n)
    <3>1. n = k
      BY <1>15, <1>16, <2>3 DEF AwaitsWb, Owns
    <3>2. Quiet(a, n, q2[Home[a]], q[n], l[n])
      BY <1>1, <1>2, <1>5, <3>1, LostIsQuiet DEF h2
    <3>3. Same(q[n], q2[n], NodeClass(a))
      BY <1>13, MessageClasses, TypesDiffer, TakesUntouched
    <3>4. About({"WB_REQ"}, a) \in SUBSET NodeClass(a) /\ About(DataReplies, a) \in SUBSET NodeClass(a)
      BY Classes DEF DataReplies, ReplyTypes, CommandTypes
    <3> QED
      BY <3>2, <3>3, <3>4 DEF Quiet, Live, Same
  <2> QED
    BY <2>2, <2>3
<1> QED
  BY <1>11, <1>14, <1>15, <1>16

\* The directory takes note that a node has written its data back.
LEMMA BlockWrittenBack ==
  ASSUME NEW a \in Addrs, NEW e, EntryOK(e), NEW e2, NEW cur, NEW rest, NEW q, NEW q2,
         NEW l \in [Nodes -> CStates], NEW c, BlockInv(a, e, cur, rest, q, l, c),
         NEW m \in Msgs, Takes(q, q2, Home[a], m), m.type = "WB_REP", m.addr = a,
         e2.sharers = e.sharers, e2.state = "SHARED"
  PROVE  /\ BlockInv(a, e2, cur, rest, q2, l, c)
         /\ ~ cur.waitForData /\ AllQuiet(a, q2, l)
<1> DEFINE h == q[Home[a]]
           h2 == q2[Home[a]]
           k == m.sender
<1>1. Drops(h, h2, m) /\ Home[a] \in Nodes /\ k \in Nodes
  BY DEF Takes, Msgs
<1>2. ReqInv(a, e, cur, rest, h) /\ \A n \in Nodes : NodeInv(a, n, e, cur, rest, h, q[n], l[n], c[n])
  BY DEF BlockInv
<1>3. SameReads(q, q2, a)
  BY MessageClasses, TypesDiffer, TakesUntouched DEF AnswerTypes
<1>4. ReqInv(a, e, cur, rest, h2)
  BY <1>2, <1>3, ReqFrame DEF SameReads
<1> HIDE DEF h, h2
<1>5. \A n \in Nodes : l[n] \in CStates
  OBVIOUS
<1>6. AwaitsWb(e, cur, k)
  <2>1. m \in From({"WB_REP"}, a, k)
    BY Membership
  <2>2. Has(h, From({"WB_REP"}, a, k))
    BY <1>1, <2>1 DEF Drops
  <2> QED
    BY <1>1, <1>2, <2>2 DEF NodeInv, WriteBacks
<1>7. \A n \in Nodes : /\ NodeInv(a, n, e2, cur, rest, h2, q[n], l[n], c[n])
                       /\ ~ Has(h2, From({"WB_REP"}, a, n)) /\ ~ Live(a, q[n], "WB_REQ", l[n])
  BY <1>1, <1>2, <1>5, <1>6, HomeWrittenBack
<1>8. cur.type = "SH_REQ" /\ ~ cur.waitForData
  BY <1>6 DEF AwaitsWb
<1>9. ReqInv(a, e2, cur, rest, h2)
  BY <1>4, <1>8 DEF ReqInv
<1>10. m.type \in RequestTypes \cup AnswerTypes \cup DramReads
  BY DEF AnswerTypes
<1>11. BlockInv(a, e2, cur, rest, q2, l, c)
  <2>1. ReqInv(a, e2, cur, rest, q2[Home[a]])
    BY <1>9 DEF h2
  <2>2. \A n \in Nodes : NodeInv(a, n, e2, cur, rest, q2[Home[a]], q[n], l[n], c[n])
    BY <1>7 DEF h2
  <2> QED
    BY <1>10, <2>1, <2>2, BlockHomeTakes
<1>12. AllQuiet(a, q2, l)
  <2> SUFFICES ASSUME NEW n \in Nodes PROVE Quiet(a, n, q2[Home[a]], q2[n], l[n])
    BY DEF AllQuiet
  <2>1. Same(q[n], q2[n], NodeClass(a))
    BY <1>10, MessageClasses, TypesDiffer, TakesUntouched DEF AnswerTypes
  <2>2. About({"WB_REQ"}, a) \in SUBSET NodeClass(a) /\ About(DataReplies, a) \in SUBSET NodeClass(a)
    BY Classes DEF DataReplies, ReplyTypes, CommandTypes
  <2> QED
    BY <1>7, <2>1, <2>2 DEF Quiet, Live, Same, h2
<1> QED
  BY <1>8, <1>11, <1>12

\* The directory grants the requester of r a copy, whose data r2 waits for.
LEMMA BlockAdmits ==
  ASSUME NEW a \in Addrs, NEW e, EntryOK(e), NEW e2, NEW r \in Reqs, NEW r2 \in Reqs, NEW rest,
         NEW q, NEW l \in [Nodes -> CStates], NEW c,
         BlockInv(a, e, r, rest, q, l, c), AllQuiet(a, q, l), ~ r.waitForData,
         r.type \in RequestTypes, Admits(e, e2, r.type, r.requester),
         r2.type = r.type, r2.requester = r.requester,
         r2.waitForData \/ r2.forwardingFrom # NoNode,
         r2.forwardingFrom # NoNode => r.type = "SH_REQ" /\ e.state = "SHARED"
  PROVE  BlockInv(a, e2, r2, rest, q, l, c)
<1>1. ReqInv(a, e, r, rest, q[Home[a]])
      /\ \A n \in Nodes : NodeInv(a, n, e, r, rest, q[Home[a]], q[n], l[n], c[n])
  BY DEF BlockInv
<1>2. \A n \in Nodes : l[n] \in CStates /\ Quiet(a, n, q[Home[a]], q[n], l[n])
  BY DEF AllQuiet
<1>3. \A n \in Nodes : NodeInv(a, n, e2, r2, rest, q[Home[a]], q[n], l[n], c[n])
  BY <1>1, <1>2, HomeAdmits
<1>4. /\ e.state = "SHARED" => e2.state = "SHARED"
      /\ Owns(e2, r.requester) \/ (r.type = "SH_REQ" /\ e2.state = "SHARED")
  BY DEF Admits
<1>5. ReqInv(a, e2, r2, rest, q[Home[a]])
  BY <1>1, <1>4 DEF ReqInv, RequestTypes
<1> QED
  BY <1>3, <1>5 DEF BlockInv

\* The directory sends the data to the node that has been granted a copy.
LEMMA BlockReplies ==
  ASSUME NEW a \in Addrs, NEW e, NEW r \in Reqs, NEW rest, NEW q, NEW q2,
         NEW l \in [Nodes -> CStates], NEW c,
         BlockInv(a, e, r, rest, q, l, c), r.waitForData, ~ Has(q[Home[a]], About(DramReads, a)),
         NEW m \in Msgs, Sends(q, q2, {To(r.requester, m)}), m.addr = a,
         m.type = IF r.type = "SH_REQ" /\ e.state = "SHARED" THEN "SH_REP" ELSE "EX_REP"
  PROVE  BlockInv(a, e, NoReq, rest, q2, l, c)
<1> DEFINE out == {To(r.requester, m)}
<1>1. ReqInv(a, e, r, rest, q[Home[a]])
      /\ \A n \in Nodes : NodeInv(a, n, e, r, rest, q[Home[a]], q[n], l[n], c[n])
  BY DEF BlockInv
<1>2. \A n \in Nodes : l[n] \in CStates
  OBVIOUS
<1>3. r.requester \in Nodes /\ \A p \in out : p.to = r.requester /\ p.msg = m
  BY DEF Reqs, To
<1>4. \E p \in out : p.to = r.requester
  BY DEF To
<1>5. Sends(q, q2, out)
  OBVIOUS
<1> HIDE DEF out
<1>6. \A n \in Nodes : IF n = r.requester THEN Adds(q[n], q2[n], m) ELSE q2[n] = q[n]
  BY <1>3, <1>4, <1>5 DEF Sends
<1>7. \A n \in Nodes : NodeInv(a, n, e, NoReq, rest, q[Home[a]], q2[n], l[n], c[n])
  BY <1>1, <1>2, <1>6, HomeReplies
<1>8. m.type \in ReplyTypes
  BY DEF ReplyTypes
<1>9. ReqInv(a, e, NoReq, rest, q2[Home[a]])
  <2>1. ReqInv(a, e, NoReq, rest, q[Home[a]])
    BY <1>1, NoReqAsks DEF ReqInv
  <2>2. SameReads(q, q2, a)
    BY <1>3, <1>5, <1>8, MessageClasses, TypesDiffer, SendsUntouched
  <2> QED
    BY <2>1, <2>2, ReqFrame DEF SameReads
<1> QED
  BY <1>3, <1>5, <1>7, <1>8, <1>9, BlockHomeSends

\* The directory sends commands that the invariant allows.
LEMMA BlockCommands ==
  ASSUME NEW a \in Addrs, NEW e, NEW cur, NEW rest, NEW q, NEW q2,
         NEW l \in [Nodes -> CStates], NEW c, BlockInv(a, e, cur, rest, q, l, c), AllQuiet(a, q, l),
         NEW out, Sends(q, q2, out),
         \A p \in out : p.to \in Nodes /\ p.msg \in Msgs /\ p.msg.type \in CommandTypes /\ p.msg.addr = a,
         \A p \in out : /\ p.msg.type = "WB_REQ" => AwaitsWb(e, cur, p.to)
                        /\ p.msg.type = "FLUSH_REQ" => AwaitsFlush(e, cur, p.to)
                        /\ FullMap /\ p.msg.type = "INV_REQ" => AwaitsInv(e, cur, p.to)
  PROVE  BlockInv(a, e, cur, rest, q2, l, c)
<1>1. ASSUME NEW n \in Nodes PROVE NodeInv(a, n, e, cur, rest, q[Home[a]], q2[n], l[n], c[n])
  <2>1. NodeInv(a, n, e, cur, rest, q[Home[a]], q[n], l[n], c[n]) /\ l[n] \in CStates
        /\ Quiet(a, n, q[Home[a]], q[n], l[n])
    BY DEF BlockInv, AllQuiet
  <2>2. CASE \A p \in out : p.to # n
    BY <2>1, <2>2 DEF Sends
  <2>3. CASE \E p \in out : p.to = n
    <3>1. PICK p \in out : p.to = n
      BY <2>3
    <3>2. Adds(q[n], q2[n], p.msg)
      BY <3>1 DEF Sends
    <3> DEFINE m == p.msg
    <3>3. /\ m \in Msgs /\ m.type \in CommandTypes /\ m.addr = a /\ Adds(q[n], q2[n], m)
          /\ m.type = "WB_REQ" => AwaitsWb(e, cur, n)
          /\ m.type = "FLUSH_REQ" => AwaitsFlush(e, cur, n)
          /\ FullMap /\ m.type = "INV_REQ" => AwaitsInv(e, cur, n)
      BY <3>1, <3>2
    <3> HIDE DEF m
    <3> QED
      BY <2>1, <3>3, HomeAsks
  <2> QED
    BY <2>2, <2>3
<1>2. ReqInv(a, e, cur, rest, q2[Home[a]])
  <2>1. SameReads(q, q2, a)
    BY MessageClasses, TypesDiffer, SendsUntouched
  <2> QED
    BY <2>1, ReqFrame DEF BlockInv, SameReads
<1> QED
  BY <1>1, <1>2, BlockHomeSends

\* Data are granted and sent.
LEMMA BlockGrantsData ==
  ASSUME NEW a \in Addrs, NEW e, EntryOK(e), NEW r \in Reqs, NEW rest, NEW q, NEW q2,
         NEW l \in [Nodes -> CStates], NEW c,
         BlockInv(a, e, r, rest, q, l, c), AllQuiet(a, q, l), ~ r.waitForData,
         NEW o, GrantsData(a, e, r, o), Sends(q, q2, o.out)
  PROVE  BlockInv(a, o.entry, NoReq, rest, q2, l, c)
<1> DEFINE r2 == [r EXCEPT !.waitForData = TRUE]
<1>1. /\ r2 \in Reqs /\ r2.type = r.type /\ r2.requester = r.requester /\ r2.waitForData
      /\ r2.forwardingFrom = r.forwardingFrom
  BY DEF Reqs
<1> HIDE DEF r2
<1>2. r.forwardingFrom # NoNode => r.type = "SH_REQ" /\ e.state = "SHARED"
  BY DEF BlockInv, ReqInv
<1>3. r.type \in RequestTypes /\ Admits(e, o.entry, r.type, r.requester)
  BY DEF GrantsData
<1>4. BlockInv(a, o.entry, r2, rest, q, l, c)
  BY <1>1, <1>2, <1>3, BlockAdmits
<1>5. PICK data \in Data :
        o.out = {To(r.requester, Msg(IF o.entry.state = "SHARED" THEN "SH_REP" ELSE "EX_REP",
                                     a, Home[a], data))}
  BY DEF GrantsData
<1> DEFINE m == Msg(IF o.entry.state = "SHARED" THEN "SH_REP" ELSE "EX_REP", a, Home[a], data)
<1>6. /\ m \in Msgs /\ m.addr = a /\ o.out = {To(r2.requester, m)}
      /\ m.type = IF o.entry.state = "SHARED" THEN "SH_REP" ELSE "EX_REP"
  BY <1>1, <1>5 DEF Msg, Msgs, MsgTypes, ReplyTypes
<1> HIDE DEF m
<1>7. o.entry.state = "SHARED" => r.type = "SH_REQ"
  BY <1>3 DEF Admits, Owns
<1>8. ~ Has(q[Home[a]], About(DramReads, a))
  BY DEF BlockInv, ReqInv
<1>9. m.type = IF r2.type = "SH_REQ" /\ o.entry.state = "SHARED" THEN "SH_REP" ELSE "EX_REP"
  BY <1>1, <1>6, <1>7
<1> QED
  BY <1>1, <1>4, <1>6, <1>8, <1>9, BlockReplies

\* An upgrade is granted.
LEMMA BlockGrantsUpgrade ==
  ASSUME NEW a \in Addrs, NEW e, EntryOK(e), NEW r \in Reqs, NEW rest, NEW q, NEW q2,
         NEW l \in [Nodes -> CStates], NEW c,
         BlockInv(a, e, r, rest, q, l, c), ~ r.waitForData,
         NEW o, GrantsUpgrade(a, e, r, o), Sends(q, q2, o.out)
  PROVE  BlockInv(a, o.entry, NoReq, rest, q2, l, c)
<1> DEFINE m == Msg("UPGRADE_REP", a, Home[a], Null)
           out == {To(r.requester, m)}
           e2 == o.entry
<1>1. m \in Msgs /\ m.addr = a /\ m.type = "UPGRADE_REP" /\ r.requester \in Nodes
  BY DEF Msg, Msgs, MsgTypes, ReplyTypes, Reqs
<1>2. (\A p \in out : p.to = r.requester /\ p.msg = m) /\ (\E p \in out : p.to = r.requester)
  BY DEF To
<1>3. /\ Sends(q, q2, out) /\ r.type = "UPGRADE_REQ" /\ e.sharers = {r.requester}
      /\ e2 = [e EXCEPT !.state = "MODIFIED", !.owner = r.requester]
  BY DEF GrantsUpgrade
<1>4. e2.sharers = e.sharers /\ e2.state = "MODIFIED" /\ e2.owner = r.requester
  BY <1>3 DEF EntryOK, Entries
<1> HIDE DEF m, out, e2
<1>5. ReqInv(a, e, r, rest, q[Home[a]])
      /\ \A n \in Nodes : NodeInv(a, n, e, r, rest, q[Home[a]], q[n], l[n], c[n])
  BY DEF BlockInv
<1>6. \A n \in Nodes : l[n] \in CStates
  OBVIOUS
<1>7. \A n \in Nodes : IF n = r.requester THEN Adds(q[n], q2[n], m) ELSE q2[n] = q[n]
  BY <1>2, <1>3 DEF Sends
<1>8. r.forwardingFrom = NoNode
  BY <1>3, <1>5 DEF ReqInv
<1>9. ASSUME NEW n \in Nodes PROVE NodeInv(a, n, e2, NoReq, rest, q[Home[a]], q2[n], l[n], c[n])
  <2> DEFINE h == q[Home[a]]
             p == q[n]
             p2 == q2[n]
             s == l[n]
             d == c[n]
  <2>1. NodeInv(a, n, e, r, rest, h, p, s, d) /\ s \in CStates
        /\ IF n = r.requester THEN Adds(p, p2, m) ELSE p2 = p
    BY <1>5, <1>6, <1>7
  <2> HIDE DEF h, p, p2, s, d
  <2>2. NodeInv(a, n, e2, NoReq, rest, h, p2, s, d)
    BY <1>1, <1>3, <1>4, <1>8, <2>1, HomeUpgrades
  <2> QED
    BY <2>2 DEF h, p2, s, d
<1>10. m.type \in ReplyTypes
  BY <1>1 DEF ReplyTypes
<1>11. ReqInv(a, e2, NoReq, rest, q2[Home[a]])
  <2>1. ReqInv(a, e2, NoReq, rest, q[Home[a]])
    BY <1>5, NoReqAsks DEF ReqInv
  <2>2. SameReads(q, q2, a)
    BY <1>1, <1>2, <1>3, <1>10, MessageClasses, TypesDiffer, SendsUntouched
  <2> QED
    BY <2>1, <2>2, ReqFrame DEF SameReads
<1>12. BlockInv(a, e2, NoReq, rest, q2, l, c)
  BY <1>1, <1>2, <1>3, <1>9, <1>10, <1>11, BlockHomeSends
<1> QED
  BY <1>12 DEF e2

\* An access to the DRAM is sent, for a request that waits for it.
LEMMA BlockReads ==
  ASSUME NEW a \in Addrs, NEW e, NEW cur, NEW rest, NEW q, NEW q2, NEW l, NEW c,
         BlockInv(a, e, cur, rest, q, l, c), cur.waitForData, ~ Has(q[Home[a]], About(DramReads, a)),
         NEW m \in Msgs, Sends(q, q2, {To(Home[a], m)}), m.type \in DramReads
  PROVE  BlockInv(a, e, cur, rest, q2, l, c)
<1> DEFINE out == {To(Home[a], m)}
<1>1. \A p \in out : p.msg = m
  BY DEF To
<1>2. Sends(q, q2, out) /\ Adds(q[Home[a]], q2[Home[a]], m)
  BY DEF Sends, To
<1> HIDE DEF out
<1>3. \A n \in Nodes : Same(q[n], q2[n], NodeClass(a))
  <2>1. m.type \notin ReplyTypes \cup CommandTypes
    BY DEF DramReads, ReplyTypes, CommandTypes
  <2> QED
    BY <1>1, <1>2, <2>1, MessageClasses, SendsUntouched
<1>4. \A n \in Nodes : NodeInv(a, n, e, cur, rest, q[Home[a]], q2[n], l[n], c[n])
  BY <1>3, SameTrans, NodeFrame DEF BlockInv
<1>5. ReqInv(a, e, cur, rest, q2[Home[a]])
  BY <1>2 DEF BlockInv, ReqInv, Adds
<1> QED
  BY <1>1, <1>2, <1>4, <1>5, BlockHomeSends

\* An access to the DRAM is taken from the queue: a request waits for it, and it was the
\* only one.
LEMMA BlockReadTaken ==
  ASSUME NEW a \in Addrs, NEW e, NEW cur, NEW rest, NEW q, NEW q2, NEW l, NEW c,
         BlockInv(a, e, cur, rest, q, l, c),
         NEW m \in Msgs, Takes(q, q2, Home[a], m), m.type \in DramReads, m.addr = a
  PROVE  /\ BlockInv(a, e, cur, rest, q2, l, c)
         /\ cur.waitForData /\ ~ Has(q2[Home[a]], About(DramReads, a))
<1>1. Drops(q[Home[a]], q2[Home[a]], m) /\ Home[a] \in Nodes
  BY DEF Takes
<1>2. m \in About(DramReads, a)
  BY Membership
<1>3. ReqInv(a, e, cur, rest, q[Home[a]])
  BY DEF BlockInv
<1>4. /\ ReqInv(a, e, cur, rest, q2[Home[a]])
      /\ cur.waitForData /\ ~ Has(q2[Home[a]], About(DramReads, a))
  BY <1>1, <1>2, <1>3 DEF ReqInv, Drops
<1>5. \A n \in Nodes : Same(q[Home[a]], q2[Home[a]], HomeClass(a, n))
  BY MessageClasses, TypesDiffer, TakesUntouched
<1>6. \A n \in Nodes : NodeInv(a, n, e, cur, rest, q2[Home[a]], q[n], l[n], c[n])
  BY <1>5, SameTrans, NodeFrame DEF BlockInv
<1> QED
  BY <1>4, <1>6, BlockHomeTakes

\* Data are granted but are still to be read from the DRAM.
LEMMA BlockAsksDram ==
  ASSUME NEW a \in Addrs, NEW e, EntryOK(e), NEW r \in Reqs, NEW rest, NEW q, NEW q2,
         NEW l \in [Nodes -> CStates], NEW c,
         BlockInv(a, e, r, rest, q, l, c), AllQuiet(a, q, l), ~ r.waitForData,
         NEW o, AsksDram(a, e, r, o), Sends(q, q2, o.out)
  PROVE  BlockInv(a, o.entry, o.req, rest, q2, l, c)
<1> DEFINE r2 == o.req
           m == Msg("DRAM_READ_REQ", a, Home[a], Null)
<1>1. /\ r2 \in Reqs /\ r2.type = r.type /\ r2.requester = r.requester /\ r2.waitForData
      /\ r2.forwardingFrom = r.forwardingFrom
  BY DEF Reqs, AsksDram
<1>2. Sends(q, q2, {To(Home[a], m)}) /\ m \in Msgs /\ m.type \in DramReads
  BY DEF AsksDram, Msg, Msgs, MsgTypes, DramTypes, DramReads
<1> HIDE DEF r2, m
<1>3. r.forwardingFrom # NoNode => r.type = "SH_REQ" /\ e.state = "SHARED"
  BY DEF BlockInv, ReqInv
<1>4. r.type \in RequestTypes /\ Admits(e, o.entry, r.type, r.requester)
  BY DEF AsksDram
<1>5. BlockInv(a, o.entry, r2, rest, q, l, c)
  BY <1>1, <1>3, <1>4, BlockAdmits
<1>6. ~ Has(q[Home[a]], About(DramReads, a))
  BY DEF BlockInv, ReqInv
<1>7. BlockInv(a, o.entry, r2, rest, q2, l, c)
  BY <1>1, <1>2, <1>5, <1>6, BlockReads
<1> QED
  BY <1>7 DEF r2

\* Data are granted but are still to be fetched from a sharer.
LEMMA BlockAsksForwarder ==
  ASSUME NEW a \in Addrs, NEW e, EntryOK(e), NEW r \in Reqs, NEW rest, NEW q, NEW q2,
         NEW l \in [Nodes -> CStates], NEW c,
         BlockInv(a, e, r, rest, q, l, c), AllQuiet(a, q, l), ~ r.waitForData,
         NEW o, AsksForwarder(a, e, r, o), Sends(q, q2, o.out)
  PROVE  BlockInv(a, o.entry, o.req, rest, q2, l, c)
<1> DEFINE r2 == o.req
<1>1. PICK f \in Nodes : /\ o.req = [r EXCEPT !.forwardingFrom = f]
                         /\ o.out = {To(f, Msg("WB_REQ", a, Home[a], Null))}
  BY DEF AsksForwarder
<1>2. /\ r2 \in Reqs /\ r2.type = r.type /\ r2.requester = r.requester
      /\ r2.forwardingFrom = f /\ f # NoNode /\ ~ r2.waitForData
  BY <1>1 DEF Reqs
<1>3. \A p \in o.out : p.to = f /\ p.msg = Msg("WB_REQ", a, Home[a], Null)
  BY <1>1 DEF To
<1> HIDE DEF r2
<1>4. r.type = "SH_REQ" /\ e.state = "SHARED" /\ Admits(e, o.entry, r.type, r.requester)
  BY DEF AsksForwarder
<1>5. BlockInv(a, o.entry, r2, rest, q, l, c)
  <2>1. r.type \in RequestTypes
    BY <1>4 DEF RequestTypes
  <2> QED
    BY <1>2, <1>4, <2>1, BlockAdmits
<1>6. o.entry.state = "SHARED"
  BY <1>4 DEF Admits
<1>7. AwaitsWb(o.entry, r2, f)
  BY <1>2, <1>4, <1>6 DEF AwaitsWb
<1>8. \A p \in o.out : /\ p.to \in Nodes /\ p.msg \in Msgs /\ p.msg.type \in CommandTypes
                       /\ p.msg.addr = a /\ p.msg.type = "WB_REQ" /\ p.to = f
  BY <1>3 DEF Msg, Msgs, MsgTypes, CommandTypes
<1>9. BlockInv(a, o.entry, r2, rest, q2, l, c)
  BY <1>5, <1>7, <1>8, BlockCommands
<1> QED
  BY <1>9 DEF r2

\* With a pointer for each cache there is one for the cache that asks for a copy.
LEMMA RoomForRequester ==
  ASSUME NEW a, NEW e, EntryOK(e), NEW r \in Reqs, NEW rest, NEW q, NEW l, NEW c,
         BlockInv(a, e, r, rest, q, l, c), r.type \in RequestTypes,
         r.requester \notin e.sharers, FullMap
  PROVE  HasRoom(e)
<1>1. e.sharers \subseteq Nodes /\ r.requester \in Nodes
  BY DEF EntryOK, Entries, Reqs
<1>2. \A n \in e.sharers : n \in Caches
  BY <1>1 DEF BlockInv, NodeInv, Accounts
<1>3. r.requester \in Caches
  <2> DEFINE n == r.requester
  <2>1. NodeInv(a, n, e, r, rest, q[Home[a]], q[n], l[n], c[n]) /\ Asked(r, rest, RequestTypes, n)
    BY <1>1 DEF BlockInv, Asked
  <2>2. c[n] \in Waits /\ "none" \notin Waits
    BY <2>1 DEF NodeInv, Requests, Waits
  <2> QED
    BY <2>1, <2>2 DEF NodeInv, Accounts
<1>4. IsFiniteSet(e.sharers) /\ Cardinality(e.sharers) \in Nat
  BY FS_CardinalityType DEF EntryOK, FewSharers
<1> DEFINE S == e.sharers \cup {r.requester}
<1>5. IsFiniteSet(S) /\ Cardinality(S) = Cardinality(e.sharers) + 1
  BY <1>4, FS_AddElement
<1>6. S \subseteq Caches
  BY <1>2, <1>3
<1>7. IsFiniteSet(Caches) /\ Cardinality(Caches) <= MaxHwSharers
  BY DEF FullMap
<1>8. Cardinality(S) <= Cardinality(Caches) /\ Cardinality(Caches) \in Nat
  BY <1>6, <1>7, FS_Subset, FS_CardinalityType
<1> HIDE DEF S
<1> QED
  BY <1>4, <1>5, <1>7, <1>8 DEF HasRoom

\* The directory asks caches to give their copies away or to write them back.
LEMMA BlockAsksCaches ==
  ASSUME NEW a \in Addrs, NEW e, EntryOK(e), NEW r \in Reqs, NEW rest, NEW q, NEW q2,
         NEW l \in [Nodes -> CStates], NEW c,
         BlockInv(a, e, r, rest, q, l, c), AllQuiet(a, q, l), ~ r.waitForData,
         NEW o, AsksWriteBack(a, e, r, o) \/ AsksFlush(a, e, r, o) \/ AsksInvalidate(a, e, r, o),
         Sends(q, q2, o.out)
  PROVE  BlockInv(a, o.entry, o.req, rest, q2, l, c)
<1>1. o.entry = e /\ o.req = r /\ e.owner \in Nodes \cup {NoNode} /\ e.sharers \subseteq Nodes
  BY DEF AsksWriteBack, AsksFlush, AsksInvalidate, EntryOK, Entries
<1>2. \A t, n : t \in CommandTypes =>
        LET m == Msg(t, a, Home[a], Null)
        IN  m \in Msgs /\ m.type = t /\ m.addr = a /\ To(n, m).to = n /\ To(n, m).msg = m
  BY DEF Msg, Msgs, MsgTypes, To
<1>3. "WB_REQ" \in CommandTypes /\ "FLUSH_REQ" \in CommandTypes /\ "INV_REQ" \in CommandTypes
  BY DEF CommandTypes
<1>4. e.state \in {"EXCLUSIVE", "MODIFIED"} => e.owner \in Nodes /\ e.sharers = {e.owner}
  BY <1>1 DEF EntryOK
<1>5. CASE AsksWriteBack(a, e, r, o)
  <2>1. r.forwardingFrom = NoNode /\ e.owner \in Nodes
    BY <1>4, <1>5 DEF AsksWriteBack, Owns, BlockInv, ReqInv
  <2>2. AwaitsWb(e, r, e.owner)
    BY <1>5, <2>1 DEF AsksWriteBack, AwaitsWb
  <2> DEFINE m == Msg("WB_REQ", a, Home[a], Null)
  <2>3. \A p \in o.out : p.to = e.owner /\ p.msg = m
    BY <1>5 DEF AsksWriteBack, To
  <2>4. m \in Msgs /\ m.type = "WB_REQ" /\ m.type \in CommandTypes /\ m.addr = a
    BY <1>3 DEF Msg, Msgs, MsgTypes
  <2> HIDE DEF m
  <2>5. \A p \in o.out : /\ p.to \in Nodes /\ p.msg \in Msgs /\ p.msg.type \in CommandTypes
                         /\ p.msg.addr = a /\ p.msg.type = "WB_REQ" /\ p.to = e.owner
    BY <2>1, <2>3, <2>4
  <2> QED
    BY <1>1, <2>2, <2>5, BlockCommands
<1>6. CASE AsksFlush(a, e, r, o)
  <2>1. Owns(e, e.owner) /\ e.owner \in Nodes /\ e.sharers = {e.owner}
    BY <1>4, <1>6 DEF AsksFlush, Owns
  <2>2. AwaitsFlush(e, r, e.owner)
    <3>1. r.type \in {"EX_REQ", "UPGRADE_REQ", "NULLIFY_REQ"}
      BY <1>6 DEF AsksFlush, Reqs, RequestTypes
    <3>2. r.type = "UPGRADE_REQ" => r.requester # e.owner
      BY <1>6, <2>1 DEF AsksFlush
    <3> QED
      BY <2>1, <3>1, <3>2 DEF AwaitsFlush
  <2> DEFINE m == Msg("FLUSH_REQ", a, Home[a], Null)
  <2>3. \A p \in o.out : p.to = e.owner /\ p.msg = m
    BY <1>6 DEF AsksFlush, To
  <2>4. m \in Msgs /\ m.type = "FLUSH_REQ" /\ m.type \in CommandTypes /\ m.addr = a
    BY <1>3 DEF Msg, Msgs, MsgTypes
  <2> HIDE DEF m
  <2>5. \A p \in o.out : /\ p.to \in Nodes /\ p.msg \in Msgs /\ p.msg.type \in CommandTypes
                         /\ p.msg.addr = a /\ p.msg.type = "FLUSH_REQ" /\ p.to = e.owner
    BY <2>1, <2>3, <2>4
  <2> QED
    BY <1>1, <2>2, <2>5, BlockCommands
<1>7. CASE AsksInvalidate(a, e, r, o)
  <2>1. PICK dests \in SUBSET e.sharers, f \in Nodes \cup {NoNode} :
          /\ f # NoNode => r.type = "UPGRADE_REQ" /\ r.requester \notin e.sharers
          /\ r.type = "UPGRADE_REQ" => r.requester \notin dests
          /\ o.out = Commands(a, dests, f)
    BY <1>7 DEF AsksInvalidate
  <2>2. ASSUME NEW p \in o.out
        PROVE  /\ p.to \in Nodes /\ p.to \in dests /\ p.msg \in Msgs /\ p.msg.type \in CommandTypes
               /\ p.msg.addr = a /\ p.msg.type = IF p.to = f THEN "FLUSH_REQ" ELSE "INV_REQ"
    <3>1. PICK n \in dests :
            p = To(n, Msg(IF n = f THEN "FLUSH_REQ" ELSE "INV_REQ", a, Home[a], Null))
      BY <2>1 DEF Commands
    <3> QED
      BY <1>1, <1>2, <1>3, <2>1, <3>1
  <2>3. \A p \in o.out : p.msg.type = "FLUSH_REQ" => AwaitsFlush(e, r, p.to)
    <3> SUFFICES ASSUME NEW p \in o.out, p.msg.type = "FLUSH_REQ" PROVE UpgradeFlushes(e, r, p.to)
      BY DEF AwaitsFlush
    <3>1. p.to = f /\ f \in Nodes /\ f \in dests
      BY <2>2
    <3>2. f # NoNode
      BY <3>1
    <3> QED
      BY <1>7, <2>1, <3>1, <3>2 DEF AsksInvalidate, UpgradeFlushes
  <2>4. \A p \in o.out : p.msg.type # "WB_REQ"
    BY <2>2
  <2>5. ASSUME FullMap, NEW p \in o.out PROVE AwaitsInv(e, r, p.to)
    <3>1. r.type # "SH_REQ"
      BY <1>7, <2>5, RoomForRequester DEF AsksInvalidate, RequestTypes
    <3>2. r.type \in {"EX_REQ", "UPGRADE_REQ", "NULLIFY_REQ"}
      BY <3>1 DEF Reqs, RequestTypes
    <3>3. p.to \in dests /\ e.state = "SHARED"
      BY <1>7, <2>2, <2>5 DEF AsksInvalidate
    <3> QED
      BY <2>1, <3>2, <3>3 DEF AwaitsInv
  <2> QED
    BY <1>1, <2>2, <2>3, <2>4, <2>5, BlockCommands
<1> QED
  BY <1>5, <1>6, <1>7

\* All copies are gone and the entry is given up.
LEMMA BlockNullified ==
  ASSUME NEW a \in Addrs, NEW e, EntryOK(e), NEW r \in Reqs, NEW rest, NEW q, NEW q2,
         NEW l, NEW c, BlockInv(a, e, r, rest, q, l, c),
         NEW o, Nullified(a, e, r, o), Sends(q, q2, o.out)
  PROVE  BlockInv(a, o.entry, NoReq, rest, q2, l, c)
<1>1. /\ r.type = "NULLIFY_REQ" /\ e.state = "UNCACHED" /\ e.sharers = {} /\ o.out = {}
      /\ o.entry.state = "UNCACHED" /\ o.entry.sharers = {}
  BY DEF Nullified, NoEntry, EntryOK
<1>2. \A n \in Nodes : NodeInv(a, n, o.entry, NoReq, rest, q[Home[a]], q[n], l[n], c[n])
  BY <1>1, HomeNullifies DEF BlockInv
<1>3. ReqInv(a, o.entry, NoReq, rest, q[Home[a]])
  <2>1. ~ Has(q[Home[a]], About(DramReads, a))
    BY <1>1 DEF BlockInv, ReqInv
  <2> QED
    BY <2>1, NoReqAsks DEF BlockInv, ReqInv
<1>4. BlockInv(a, o.entry, NoReq, rest, q, l, c)
  BY <1>2, <1>3 DEF BlockInv
<1> QED
  BY <1>1, <1>4, BlockSendsForeign

\* Whatever comes of a request that the directory processes.
LEMMA BlockOutcome ==
  ASSUME NEW a \in Addrs, NEW e, EntryOK(e), NEW r \in Reqs, NEW rest, NEW q, NEW q2,
         NEW l \in [Nodes -> CStates], NEW c,
         BlockInv(a, e, r, rest, q, l, c), AllQuiet(a, q, l), ~ r.waitForData,
         NEW o, IsOutcome(a, e, r, o), Sends(q, q2, o.out)
  PROVE  BlockInv(a, o.entry, IF o.next THEN NoReq ELSE o.req, rest, q2, l, c)
<1>1. CASE GrantsData(a, e, r, o) \/ GrantsUpgrade(a, e, r, o) \/ Nullified(a, e, r, o)
  <2>1. BlockInv(a, o.entry, NoReq, rest, q2, l, c)
    BY <1>1, BlockGrantsData, BlockGrantsUpgrade, BlockNullified
  <2>2. o.next = TRUE
    BY <1>1 DEF GrantsData, GrantsUpgrade, Nullified
  <2> QED
    BY <2>1, <2>2
<1>2. CASE \/ AsksDram(a, e, r, o) \/ AsksForwarder(a, e, r, o) \/ AsksWriteBack(a, e, r, o)
           \/ AsksFlush(a, e, r, o) \/ AsksInvalidate(a, e, r, o)
  <2>1. BlockInv(a, o.entry, o.req, rest, q2, l, c)
    BY <1>2, BlockAsksDram, BlockAsksForwarder, BlockAsksCaches
  <2>2. o.next = FALSE
    BY <1>2 DEF AsksDram, AsksForwarder, AsksWriteBack, AsksFlush, AsksInvalidate
  <2> QED
    BY <2>1, <2>2
<1> QED
  BY <1>1, <1>2 DEF IsOutcome

\* The invariant does not see where the entry is, nor the data of the request.
LEMMA BlockAlike ==
  ASSUME NEW a, NEW e, NEW e2, NEW cur, NEW cur2, NEW rest, NEW q, NEW l, NEW c,
         BlockInv(a, e, cur, rest, q, l, c), Alike(e, e2),
         cur2.type = cur.type, cur2.requester = cur.requester,
         cur2.waitForData = cur.waitForData, cur2.forwardingFrom = cur.forwardingFrom
  PROVE  BlockInv(a, e2, cur2, rest, q, l, c)
<1>1. \A n \in Nodes : NodeInv(a, n, e2, cur2, rest, q[Home[a]], q[n], l[n], c[n])
  BY NodeAlike DEF BlockInv
<1>2. ReqInv(a, e2, cur2, rest, q[Home[a]])
  BY DEF BlockInv, ReqInv, Alike, Owns
<1> QED
  BY <1>1, <1>2 DEF BlockInv

-----------------------------------------------------------------------------
(* Steps of the directory.                                                 *)

\* No data of a node are on their way back still, when messages about other blocks are
\* sent.
LEMMA QuietSendsForeign ==
  ASSUME NEW a \in Addrs, NEW q, NEW q2, NEW l, AllQuiet(a, q, l), NEW out, Sends(q, q2, out),
         \A p \in out : Foreign(p.msg, a)
  PROVE  AllQuiet(a, q2, l)
<1> SUFFICES ASSUME NEW n \in Nodes PROVE Quiet(a, n, q2[Home[a]], q2[n], l[n])
  BY DEF AllQuiet
<1>1. \A p \in out : p.msg \notin HomeClass(a, n) /\ p.msg \notin NodeClass(a)
  BY ForeignClasses
<1>2. Same(q[Home[a]], q2[Home[a]], HomeClass(a, n)) /\ Same(q[n], q2[n], NodeClass(a))
  BY <1>1, SendsUntouched
<1>3. /\ About({"WB_REQ"}, a) \in SUBSET NodeClass(a) /\ About(DataReplies, a) \in SUBSET NodeClass(a)
      /\ From({"WB_REP"}, a, n) \in SUBSET HomeClass(a, n)
  BY Classes DEF DataReplies, ReplyTypes, CommandTypes, AnswerTypes
<1>4. Quiet(a, n, q[Home[a]], q[n], l[n])
  BY DEF AllQuiet
<1> QED
  BY <1>2, <1>3, <1>4 DEF Quiet, Live, Same

\* Messages about one block are foreign to the others.
LEMMA OthersForeign ==
  ASSUME NEW a, NEW b, a # b, NEW out, Concerns(out, a)
  PROVE  \A p \in out : Foreign(p.msg, b)
  BY DEF Concerns, Foreign

\* The thread of h goes on in its directory: job is what it is about to do.
DirectoryMoves(h) ==
  /\ UNCHANGED cacheVars
  /\ job[h].at # "waiters"
  /\ \E j \in Jobs : j.at # "waiters" /\ job' = [job EXCEPT ![h] = j]

\* Then the caches and their cores are as they were.
LEMMA DirectoryKeepsCaches ==
  ASSUME TypeInv, NEW h \in Nodes, DirectoryMoves(h), NEW b \in Addrs
  PROVE  LineStates(b)' = LineStates(b) /\ CoreStates(b)' = CoreStates(b)
<1>1. job \in [Nodes -> Jobs]
  BY DEF TypeInv, TypeOK, SimThreadsTypeOK
<1>2. PICK j \in Jobs : j.at # "waiters" /\ job' = [job EXCEPT ![h] = j]
  BY DEF DirectoryMoves
<1>3. Busy("waiters", b).at = "waiters"
  BY DEF Busy
<1>4. \A n \in Nodes : job'[n] = Busy("waiters", b) <=> job[n] = Busy("waiters", b)
  BY <1>1, <1>2, <1>3 DEF DirectoryMoves
<1>5. line' = line /\ waiters' = waiters /\ pc' = pc
  BY DEF DirectoryMoves, cacheVars
<1>6. LineStates(b)' = LineStates(b)
  BY <1>5 DEF LineStates
<1>7. CoreStates(b)' = CoreStates(b)
  BY <1>4, <1>5 DEF CoreStates, CoreState
<1> QED
  BY <1>6, <1>7

\* The states of the lines are states.
LEMMA LineStatesOK ==
  ASSUME TypeInv, NEW b \in Addrs
  PROVE  LineStates(b) \in [Nodes -> CStates] /\ \A n \in Nodes : LineStates(b)[n] = line[n][b].state
  BY DEF TypeInv, LinesOK, Lines, LineStates

\* A step at one block leaves another block alone.
LEMMA DirectoryElsewhere ==
  ASSUME TypeInv, NEW h \in Nodes, DirectoryMoves(h), NEW b \in Addrs,
         dir'[b] = dir[b], reqs'[b] = reqs[b],
         job[h] # Busy("nextReq", b), job'[h] # Busy("nextReq", b),
         BlockInv(b, dir[b], Current(b), Waiting(b), queue', LineStates(b), CoreStates(b))
  PROVE  Coherent(b)'
<1>1. LineStates(b)' = LineStates(b) /\ CoreStates(b)' = CoreStates(b)
  BY DirectoryKeepsCaches
<1>2. job \in [Nodes -> Jobs] /\ Home[b] \in Nodes
  BY DEF TypeInv, TypeOK, SimThreadsTypeOK
<1>3. job'[Home[b]] = Busy("nextReq", b) <=> job[Home[b]] = Busy("nextReq", b)
  BY <1>2 DEF DirectoryMoves
<1>4. Current(b)' = Current(b) /\ Waiting(b)' = Waiting(b)
  BY <1>3 DEF Current, Waiting
<1> QED
  BY <1>1, <1>4 DEF Coherent

\* The outcome o of request r of block a, whose entry is e, is about to be applied.
Applying(a, e, r, o, d, q, s) ==
  /\ EntryOK(e) /\ e.where # "none" /\ r \in Reqs /\ IsOutcome(a, e, r, o)
  /\ DOMAIN d = Addrs /\ q \in [Addrs -> Seq(Reqs)] /\ q[a] # <<>> /\ QueuesOK(s)
  /\ Apply(a, o, d, q, s)
  /\ BlockInv(a, e, r, Tail(q[a]), s, LineStates(a), CoreStates(a))
  /\ AllQuiet(a, s, LineStates(a)) /\ ~ r.waitForData

\* Then its block stays as the invariant has it, and the others see the messages only.
LEMMA ApplyCoherent ==
  ASSUME TypeInv, UNCHANGED cacheVars, NEW a \in Addrs, job[Home[a]].at # "waiters",
         NEW e, NEW r, NEW o, NEW d, NEW q, NEW s, Applying(a, e, r, o, d, q, s)
  PROVE  /\ Coherent(a)' /\ DirectoryMoves(Home[a])
         /\ Sends(s, queue', o.out) /\ Concerns(o.out, a)
         /\ \A b \in Addrs : b # a => /\ dir'[b] = d[b] /\ reqs'[b] = q[b]
                                      /\ job'[Home[a]] # Busy("nextReq", b)
<1>0. /\ EntryOK(e) /\ e.where # "none" /\ r \in Reqs /\ IsOutcome(a, e, r, o)
      /\ DOMAIN d = Addrs /\ q \in [Addrs -> Seq(Reqs)] /\ q[a] # <<>> /\ QueuesOK(s)
      /\ Apply(a, o, d, q, s)
      /\ BlockInv(a, e, r, Tail(q[a]), s, LineStates(a), CoreStates(a))
      /\ AllQuiet(a, s, LineStates(a)) /\ ~ r.waitForData
  BY DEF Applying
<1>1. EntryOK(o.entry) /\ o.req \in Reqs /\ o.next \in BOOLEAN /\ Sendable(o.out) /\ Concerns(o.out, a)
  BY <1>0, OutcomeOK
<1>2. /\ dir' = [d EXCEPT ![a] = o.entry] /\ reqs' = [q EXCEPT ![a] = <<o.req>> \o Tail(@)]
      /\ queue' = Send(s, o.out)
      /\ job' = [job EXCEPT ![Home[a]] = IF o.next THEN Busy("nextReq", a) ELSE Recv]
  BY <1>0 DEF Apply, SetJob
<1>3. job \in [Nodes -> Jobs] /\ Home[a] \in Nodes
  BY DEF TypeInv, TypeOK, SimThreadsTypeOK
<1>4. /\ Busy("nextReq", a) \in Jobs /\ Busy("nextReq", a).at # "waiters"
      /\ Recv \in Jobs /\ Recv.at # "waiters"
      /\ \A b : Recv # Busy("nextReq", b) /\ (b # a => Busy("nextReq", a) # Busy("nextReq", b))
  BY DEF Busy, Recv, Jobs
<1>5. DirectoryMoves(Home[a])
  BY <1>2, <1>4 DEF DirectoryMoves
<1>6. Sends(s, queue', o.out)
  BY <1>0, <1>1, <1>2, SendSends
<1>7. BlockInv(a, o.entry, IF o.next THEN NoReq ELSE o.req, Tail(q[a]), queue',
               LineStates(a), CoreStates(a))
  BY <1>0, <1>6, LineStatesOK, BlockOutcome
<1>8. reqs'[a] # <<>> /\ Head(reqs'[a]) = o.req /\ Tail(reqs'[a]) = Tail(q[a])
  <2> DEFINE t == Tail(q[a])
  <2>1. t \in Seq(Reqs) /\ q[a] \in Seq(Reqs)
    BY <1>0
  <2>2. reqs'[a] = <<o.req>> \o t
    BY <1>0, <1>2
  <2> HIDE DEF t
  <2>3. (<<o.req>> \o t) # <<>> /\ Head(<<o.req>> \o t) = o.req /\ Tail(<<o.req>> \o t) = t
    BY <1>1, <2>1
  <2> QED
    BY <2>2, <2>3 DEF t
<1>9. job'[Home[a]] = IF o.next THEN Busy("nextReq", a) ELSE Recv
  BY <1>2, <1>3
<1>10. Current(a)' = (IF o.next THEN NoReq ELSE o.req) /\ Waiting(a)' = Tail(q[a])
  BY <1>1, <1>4, <1>8, <1>9 DEF Current, Waiting
<1>11. LineStates(a)' = LineStates(a) /\ CoreStates(a)' = CoreStates(a)
  BY <1>3, <1>5, DirectoryKeepsCaches
<1>12. dir'[a] = o.entry
  BY <1>0, <1>2
<1>13. Coherent(a)'
  BY <1>7, <1>10, <1>11, <1>12 DEF Coherent
<1>14. \A b \in Addrs : b # a => /\ dir'[b] = d[b] /\ reqs'[b] = q[b]
                                 /\ job'[Home[a]] # Busy("nextReq", b)
  BY <1>0, <1>2, <1>4, <1>9
<1> QED
  BY <1>1, <1>5, <1>6, <1>13, <1>14

\* An entry that has just been taken is like the absence of one.
LEMMA FreshAlike ==
  ASSUME EntriesOK(dir), NEW a \in Addrs
  PROVE  /\ Alike(dir[a], GetDirectoryEntry(a)[a])
         /\ dir[a].where = "none" => Alike(dir[a], FreshEntry)
         /\ Alike(dir[a], Replaced(dir[a]))
<1>1. EntryOK(dir[a])
  BY DEF EntriesOK
<1>2. dir[a].where = "none" => Alike(dir[a], FreshEntry)
  BY <1>1, FreshEntryOK DEF EntryOK, Alike
<1>3. Alike(dir[a], dir[a])
  BY DEF Alike
<1>4. Alike(dir[a], Replaced(dir[a]))
  BY <1>1 DEF EntryOK, Entries, Replaced, Alike
<1> QED
  BY <1>2, <1>3, <1>4, FreshEntryOK

\* The entry of a block whose copies are being removed: n is the outcome.
LEMMA BlockReplaced ==
  ASSUME NEW v \in Addrs, NEW e, EntryOK(e), NEW f, EntryOK(f), Alike(e, f),
         NEW r \in Reqs, r.type = "NULLIFY_REQ", ~ r.waitForData, r.forwardingFrom = NoNode,
         NEW s, NEW s2, NEW l \in [Nodes -> CStates], NEW c, BlockInv(v, e, NoReq, <<>>, s, l, c),
         NEW n, IsOutcome(v, f, r, n), Sends(s, s2, n.out)
  PROVE  BlockInv(v, n.entry, IF n.next THEN NoReq ELSE r, <<>>, s2, l, c)
<1>1. BlockInv(v, f, NoReq, <<>>, s, l, c)
  BY BlockAlike
<1>2. BlockInv(v, f, r, <<>>, s, l, c) /\ AllQuiet(v, s, l)
  BY <1>1, BlockStartsNullify
<1>3. BlockInv(v, n.entry, IF n.next THEN NoReq ELSE n.req, <<>>, s2, l, c)
  BY <1>2, BlockOutcome
<1>4. n.req = r
  BY DEF IsOutcome, GrantsData, GrantsUpgrade, AsksDram, AsksForwarder, AsksWriteBack, AsksFlush,
         AsksInvalidate, Nullified, RequestTypes
<1> QED
  BY <1>3, <1>4

\* The directory starts to work on request r of block a.
LEMMA StartCoherent ==
  ASSUME TypeInv, UNCHANGED cacheVars, NEW a \in Addrs, job[Home[a]].at # "waiters",
         NEW r \in Reqs, NEW q \in [Addrs -> Seq(Reqs)], q[a] # <<>>,
         NEW s, QueuesOK(s), StartReq(a, r, q, s),
         \A b \in Addrs : b # a => /\ q[b] = reqs[b] /\ job[Home[a]] # Busy("nextReq", b)
                                   /\ BlockInv(b, dir[b], Current(b), Waiting(b), s,
                                               LineStates(b), CoreStates(b)),
         BlockInv(a, dir[a], r, Tail(q[a]), s, LineStates(a), CoreStates(a)),
         AllQuiet(a, s, LineStates(a)), ~ r.waitForData
  PROVE  CoherenceInv'
<1>1. EntriesOK(dir) /\ dir \in [Addrs -> Entries] /\ \A b \in Addrs : EntryOK(dir[b])
  BY DEF TypeInv, EntriesOK
<1>2. ASSUME NEW o, StartsWith(a, r, q, s, o) PROVE CoherenceInv'
  <2> DEFINE d == GetDirectoryEntry(a)
  <2>1. /\ EntriesOK(d) /\ EntryOK(d[a]) /\ DOMAIN d = Addrs
        /\ \A b \in Addrs : b # a => d[b] = dir[b]
    BY <1>1, FreshEntryOK DEF EntriesOK
  <2>2. d[a].where # "none" /\ IsOutcome(a, d[a], r, o) /\ Apply(a, o, d, q, s)
    BY <1>2 DEF StartsWith
  <2>3. Alike(dir[a], d[a])
    BY <1>1, FreshAlike
  <2> HIDE DEF d
  <2>4. BlockInv(a, d[a], r, Tail(q[a]), s, LineStates(a), CoreStates(a))
    BY <2>3, BlockAlike
  <2>5. /\ Coherent(a)' /\ DirectoryMoves(Home[a])
        /\ Sends(s, queue', o.out) /\ Concerns(o.out, a)
        /\ \A b \in Addrs : b # a => /\ dir'[b] = d[b] /\ reqs'[b] = q[b]
                                     /\ job'[Home[a]] # Busy("nextReq", b)
    <3>1. Applying(a, d[a], r, o, d, q, s)
      BY <2>1, <2>2, <2>4 DEF Applying
    <3> QED
      BY <3>1, ApplyCoherent
  <2>6. ASSUME NEW b \in Addrs, b # a PROVE Coherent(b)'
    <3>1. BlockInv(b, dir[b], Current(b), Waiting(b), queue', LineStates(b), CoreStates(b))
      BY <2>5, <2>6, OthersForeign, BlockSendsForeign
    <3>2. dir'[b] = dir[b] /\ reqs'[b] = reqs[b]
      BY <2>1, <2>5, <2>6
    <3> QED
      BY <2>5, <2>6, <3>1, <3>2, DirectoryElsewhere
  <2> QED
    BY <2>5, <2>6 DEF CoherenceInv
<1>3. ASSUME NEW v, NEW n, NEW o, StartsInPlaceOf(v, a, r, q, s, n, o) PROVE CoherenceInv'
  <2> DEFINE nullify == Req("NULLIFY_REQ", r.requester)
             d2 == [dir EXCEPT ![v] = n.entry]
             q2 == [q EXCEPT ![v] = IF n.next THEN <<>> ELSE Append(@, nullify)]
             s2 == Send(s, n.out)
             f == Replaced(dir[v])
  <2>1. /\ v \in Addrs /\ v # a /\ Home[v] = Home[a]
        /\ dir[a].where = "none" /\ dir[v].where = "resident" /\ reqs[v] = <<>>
        /\ IsOutcome(v, f, nullify, n) /\ IsOutcome(a, FreshEntry, r, o) /\ Apply(a, o, d2, q2, s2)
    BY <1>3 DEF StartsInPlaceOf
  <2>2. /\ EntryOK(n.entry) /\ Sendable(n.out) /\ Concerns(n.out, v)
        /\ EntryOK(f) /\ nullify \in Reqs /\ EntriesOK(d2) /\ QueuesOK(s2)
    BY <1>1, <1>3, ReplacementOK
  <2>3. nullify.type = "NULLIFY_REQ" /\ ~ nullify.waitForData /\ nullify.forwardingFrom = NoNode
    BY DEF Req
  <2>4. Alike(dir[a], FreshEntry) /\ Alike(dir[v], f) /\ EntryOK(FreshEntry) /\ FreshEntry.where # "none"
    BY <1>1, <2>1, FreshAlike, FreshEntryOK
  <2>5. q[v] = <<>> /\ v \in Addrs
    BY <2>1
  <2> HIDE DEF nullify, f
  <2>6. /\ q2 \in [Addrs -> Seq(Reqs)] /\ q2[a] = q[a]
        /\ \A b \in Addrs : b # a /\ b # v => q2[b] = reqs[b]
        /\ q2[v] = IF n.next THEN <<>> ELSE <<nullify>>
    <3>1. (IF n.next THEN <<>> ELSE Append(q[v], nullify)) \in Seq(Reqs)
      BY <2>2, <2>5
    <3> QED
      BY <2>1, <2>5, <3>1
  <2>7. Sends(s, s2, n.out)
    BY <2>2, SendSends
  <2>8. DOMAIN d2 = Addrs /\ d2[v] = n.entry /\ \A b \in Addrs : b # v => d2[b] = dir[b]
    BY <1>1, <2>1
  <2> HIDE DEF d2, q2, s2
  <2>9. BlockInv(a, FreshEntry, r, Tail(q2[a]), s2, LineStates(a), CoreStates(a))
        /\ AllQuiet(a, s2, LineStates(a))
    <3>1. BlockInv(a, FreshEntry, r, Tail(q2[a]), s, LineStates(a), CoreStates(a))
      BY <2>4, <2>6, BlockAlike
    <3>2. \A p \in n.out : Foreign(p.msg, a)
      BY <2>1, <2>2, OthersForeign
    <3> QED
      BY <2>7, <3>1, <3>2, BlockSendsForeign, QuietSendsForeign
  <2>10. /\ Coherent(a)' /\ DirectoryMoves(Home[a])
         /\ Sends(s2, queue', o.out) /\ Concerns(o.out, a)
         /\ \A b \in Addrs : b # a => /\ dir'[b] = d2[b] /\ reqs'[b] = q2[b]
                                      /\ job'[Home[a]] # Busy("nextReq", b)
    <3>1. Applying(a, FreshEntry, r, o, d2, q2, s2)
      BY <2>1, <2>2, <2>4, <2>6, <2>8, <2>9 DEF Applying
    <3> QED
      BY <3>1, ApplyCoherent
  <2>11. Coherent(v)'
    <3>1. BlockInv(v, dir[v], NoReq, <<>>, s, LineStates(v), CoreStates(v))
      BY <2>1 DEF Current, Waiting
    <3>2. BlockInv(v, n.entry, IF n.next THEN NoReq ELSE nullify, <<>>, s2, LineStates(v), CoreStates(v))
      BY <1>1, <2>1, <2>2, <2>3, <2>4, <2>7, <3>1, LineStatesOK, BlockReplaced
    <3>3. BlockInv(v, n.entry, IF n.next THEN NoReq ELSE nullify, <<>>, queue', LineStates(v), CoreStates(v))
      BY <2>1, <2>10, <3>2, OthersForeign, BlockSendsForeign
    <3>4. dir'[v] = n.entry /\ reqs'[v] = (IF n.next THEN <<>> ELSE <<nullify>>)
          /\ job'[Home[v]] # Busy("nextReq", v)
      BY <2>1, <2>6, <2>8, <2>10
    <3>5. Current(v)' = (IF n.next THEN NoReq ELSE nullify) /\ Waiting(v)' = <<>>
      <4>1. <<nullify>> # <<>> /\ Head(<<nullify>>) = nullify /\ Tail(<<nullify>>) = <<>>
        OBVIOUS
      <4> QED
        BY <3>4, <4>1 DEF Current, Waiting
    <3>6. LineStates(v)' = LineStates(v) /\ CoreStates(v)' = CoreStates(v)
      BY <2>1, <2>10, DirectoryKeepsCaches
    <3> QED
      BY <3>3, <3>4, <3>5, <3>6 DEF Coherent
  <2>12. ASSUME NEW b \in Addrs, b # a, b # v PROVE Coherent(b)'
    <3>1. BlockInv(b, dir[b], Current(b), Waiting(b), s2, LineStates(b), CoreStates(b))
      BY <2>2, <2>7, <2>12, OthersForeign, BlockSendsForeign
    <3>2. BlockInv(b, dir[b], Current(b), Waiting(b), queue', LineStates(b), CoreStates(b))
      BY <2>10, <2>12, <3>1, OthersForeign, BlockSendsForeign
    <3>3. dir'[b] = dir[b] /\ reqs'[b] = reqs[b]
      BY <2>6, <2>8, <2>10, <2>12
    <3> QED
      BY <2>10, <2>12, <3>2, <3>3, DirectoryElsewhere
  <2> QED
    BY <2>10, <2>11, <2>12 DEF CoherenceInv
<1> QED
  BY <1>1, <1>2, <1>3, Starting

\* The home of block a is about to handle a message about it.
HomeReceivesOf(a, h, T) ==
  /\ Receives(h, T) /\ Received(h).addr = a
  /\ T \subseteq RequestTypes \cup AnswerTypes \cup DramTypes

\* What it finds: the other blocks do not care, and the directory works on the first
\* request of the block.
LEMMA HomeFinds ==
  ASSUME TypeInv, CoherenceInv, NEW h \in Nodes, NEW a, NEW T, HomeReceivesOf(a, h, T)
  PROVE  /\ a \in Addrs /\ Home[a] = h /\ job[h] = Recv /\ job[h].at # "waiters"
         /\ Received(h) \in Msgs /\ Received(h) \in Deliverable(h)
         /\ Received(h).type \in T /\ Received(h).sender \in Nodes
         /\ Received(h).type \in FilledTypes => Received(h).data \in Data
         /\ QueuesOK(Consume(h)) /\ Takes(queue, Consume(h), Home[a], Received(h))
         /\ EntryOK(dir[a]) /\ reqs \in [Addrs -> Seq(Reqs)]
         /\ (reqs[a] = <<>> => Current(a) = NoReq /\ Waiting(a) = <<>>)
         /\ (reqs[a] # <<>> => /\ Head(reqs[a]) \in Reqs /\ Tail(reqs[a]) \in Seq(Reqs)
                               /\ Current(a) = Head(reqs[a]) /\ Waiting(a) = Tail(reqs[a]))
         /\ \A b : job[h] # Busy("nextReq", b)
<1>1. /\ Received(h) \in Msgs /\ Received(h) \in Deliverable(h) /\ Received(h).type \in T
      /\ Received(h).addr \in Addrs /\ Received(h).sender \in Nodes
      /\ Received(h).type \in FilledTypes => Received(h).data \in Data
      /\ QueuesOK(Consume(h)) /\ job[h] = Recv /\ job[h].at = "recv"
  BY ReceivedOK DEF HomeReceivesOf
<1>2. Home[Received(h).addr] = h /\ Received(h).addr = a
  BY <1>1 DEF Deliverable, HomeReceivesOf
<1>3. QueuesOK(queue) /\ queue[h] # <<>>
  BY DEF TypeInv, HomeReceivesOf, Receives
<1>4. Takes(queue, Consume(h), Home[a], Received(h))
  BY <1>2, <1>3, ConsumeTakes
<1>5. EntryOK(dir[a]) /\ reqs \in [Addrs -> Seq(Reqs)]
  BY <1>1, <1>2 DEF TypeInv, TypeOK, DirectoryTypeOK, EntriesOK
<1>6. \A b : job[h] # Busy("nextReq", b)
  BY <1>1 DEF Busy, Recv
<1>7. a \in Addrs /\ Home[a] = h
  BY <1>1, <1>2
<1>8. reqs[a] # <<>> => Head(reqs[a]) \in Reqs /\ Tail(reqs[a]) \in Seq(Reqs)
  BY <1>5, <1>7
<1>9. (reqs[a] = <<>> => Current(a) = NoReq /\ Waiting(a) = <<>>)
      /\ (reqs[a] # <<>> => Current(a) = Head(reqs[a]) /\ Waiting(a) = Tail(reqs[a]))
  BY <1>6, <1>7 DEF Current, Waiting
<1> QED
  BY <1>1, <1>4, <1>5, <1>6, <1>7, <1>8, <1>9

\* The messages about the other blocks are where they were.
OthersIn(a, s) ==
  \A b \in Addrs : b # a => BlockInv(b, dir[b], Current(b), Waiting(b), s, LineStates(b), CoreStates(b))

\* Taking a message of block a.
LEMMA OthersTake ==
  ASSUME CoherenceInv, NEW k \in Nodes, NEW s, Takes(queue, s, k, Received(k))
  PROVE  OthersIn(Received(k).addr, s)
<1> SUFFICES ASSUME NEW b \in Addrs, b # Received(k).addr
             PROVE  BlockInv(b, dir[b], Current(b), Waiting(b), s, LineStates(b), CoreStates(b))
  BY DEF OthersIn
<1>1. Foreign(Received(k), b)
  BY DEF Foreign
<1>2. BlockInv(b, dir[b], Current(b), Waiting(b), queue, LineStates(b), CoreStates(b))
  BY DEF CoherenceInv, Coherent
<1> QED
  BY <1>1, <1>2, BlockTakesForeign

\* Sending messages about block a.
LEMMA OthersSend ==
  ASSUME NEW a, NEW s, NEW s2, NEW out, OthersIn(a, s), Sends(s, s2, out), Concerns(out, a)
  PROVE  OthersIn(a, s2)
<1> SUFFICES ASSUME NEW b \in Addrs, b # a
             PROVE  BlockInv(b, dir[b], Current(b), Waiting(b), s2, LineStates(b), CoreStates(b))
  BY DEF OthersIn
<1>1. \A p \in out : Foreign(p.msg, b)
  BY OthersForeign
<1>2. BlockInv(b, dir[b], Current(b), Waiting(b), s, LineStates(b), CoreStates(b))
  BY DEF OthersIn
<1> QED
  BY <1>1, <1>2, BlockSendsForeign

\* An outcome for the first request of a keeps all blocks coherent.
LEMMA AppliesCoherent ==
  ASSUME TypeInv, UNCHANGED cacheVars, NEW a \in Addrs, job[Home[a]].at # "waiters",
         \A b : job[Home[a]] # Busy("nextReq", b),
         NEW e, NEW r, NEW o, NEW s, Applying(a, e, r, o, dir, reqs, s), OthersIn(a, s)
  PROVE  CoherenceInv'
<1>1. /\ Coherent(a)' /\ DirectoryMoves(Home[a])
      /\ Sends(s, queue', o.out) /\ Concerns(o.out, a)
      /\ \A b \in Addrs : b # a => /\ dir'[b] = dir[b] /\ reqs'[b] = reqs[b]
                                   /\ job'[Home[a]] # Busy("nextReq", b)
  BY ApplyCoherent
<1>2. OthersIn(a, queue')
  BY <1>1, OthersSend
<1>3. ASSUME NEW b \in Addrs, b # a PROVE Coherent(b)'
  BY <1>1, <1>2, <1>3, DirectoryElsewhere DEF OthersIn
<1> QED
  BY <1>1, <1>3 DEF CoherenceInv

\* So does a step of the directory that starts no request.
LEMMA StaysCoherent ==
  ASSUME TypeInv, UNCHANGED cacheVars, UNCHANGED job, NEW a \in Addrs,
         \A b \in Addrs : b # a => dir'[b] = dir[b] /\ reqs'[b] = reqs[b],
         OthersIn(a, queue'),
         BlockInv(a, dir'[a], Current(a)', Waiting(a)', queue', LineStates(a), CoreStates(a))
  PROVE  CoherenceInv'
<1>1. \A b \in Addrs : LineStates(b)' = LineStates(b) /\ CoreStates(b)' = CoreStates(b)
  BY DEF cacheVars, LineStates, CoreStates, CoreState
<1>2. Coherent(a)'
  BY <1>1 DEF Coherent
<1>3. ASSUME NEW b \in Addrs, b # a PROVE Coherent(b)'
  <2>1. Current(b)' = Current(b) /\ Waiting(b)' = Waiting(b)
    BY <1>3 DEF Current, Waiting
  <2> QED
    BY <1>1, <1>3, <2>1 DEF Coherent, OthersIn
<1> QED
  BY <1>2, <1>3 DEF CoherenceInv

\* EX_REQ, SH_REQ, UPGRADE_REQ
LEMMA HandleReqCoherent ==
  ASSUME TypeInv, CoherenceInv, UNCHANGED cacheVars, NEW h \in Nodes, HandleReq(h)
  PROVE  CoherenceInv'
<1> DEFINE m == Received(h)
           r == Req(m.type, m.sender)
           s == Consume(h)
<1>0. PICK a : a = m.addr
  OBVIOUS
<1>1. HomeReceivesOf(a, h, RequestTypes)
  BY <1>0 DEF HomeReceivesOf, HandleReq
<1>2. /\ a \in Addrs /\ Home[a] = h /\ job[h] = Recv /\ job[h].at # "waiters"
      /\ m \in Msgs /\ m.type \in RequestTypes /\ m.sender \in Nodes /\ m.addr = a
      /\ QueuesOK(s) /\ Takes(queue, s, Home[a], m)
      /\ EntryOK(dir[a]) /\ reqs \in [Addrs -> Seq(Reqs)]
      /\ (reqs[a] = <<>> => Current(a) = NoReq /\ Waiting(a) = <<>>)
      /\ (reqs[a] # <<>> => /\ Head(reqs[a]) \in Reqs /\ Tail(reqs[a]) \in Seq(Reqs)
                            /\ Current(a) = Head(reqs[a]) /\ Waiting(a) = Tail(reqs[a]))
      /\ \A b : job[h] # Busy("nextReq", b)
  BY <1>0, <1>1, HomeFinds
<1>3. OthersIn(a, s)
  BY <1>0, <1>2, OthersTake
<1>4. LineStates(a) \in [Nodes -> CStates] /\ Waiting(a) \in Seq(Reqs)
  <2>1. <<>> \in Seq(Reqs)
    OBVIOUS
  <2>2. LineStates(a) \in [Nodes -> CStates]
    BY <1>2, LineStatesOK
  <2> QED
    BY <1>2, <2>1, <2>2
<1>5. BlockInv(a, dir[a], Current(a), Waiting(a), queue, LineStates(a), CoreStates(a))
  BY <1>2 DEF CoherenceInv, Coherent
<1>6. r \in Reqs
  BY <1>2, ReqOK
<1>7. IF reqs[a] = <<>>
      THEN StartReq(a, r, [reqs EXCEPT ![a] = <<r>>], s)
      ELSE /\ reqs' = [reqs EXCEPT ![a] = Append(@, r)]
           /\ dir' = GetDirectoryEntry(a)
           /\ queue' = s
           /\ UNCHANGED job
  BY <1>0 DEF HandleReq
<1> HIDE DEF m, s
<1>8. BlockInv(a, dir[a], Current(a), Append(Waiting(a), r), s, LineStates(a), CoreStates(a))
  BY <1>2, <1>4, <1>5, BlockReceives
<1> HIDE DEF r
<1>9. CASE reqs[a] = <<>>
  <2> DEFINE t == <<r>>
             q == [reqs EXCEPT ![a] = t]
  <2>1. t \in Seq(Reqs) /\ t # <<>> /\ Head(t) = r /\ Tail(t) = <<>> /\ Append(Waiting(a), r) = t
    BY <1>2, <1>6, <1>9
  <2>2. StartReq(a, r, q, s)
    BY <1>7, <1>9
  <2> HIDE DEF t
  <2>3. q \in [Addrs -> Seq(Reqs)] /\ q[a] = t /\ \A b \in Addrs : b # a => q[b] = reqs[b]
    BY <1>2, <2>1
  <2>4. BlockInv(a, dir[a], NoReq, t, s, LineStates(a), CoreStates(a))
    BY <1>2, <1>8, <1>9, <2>1
  <2>5. /\ BlockInv(a, dir[a], r, Tail(t), s, LineStates(a), CoreStates(a))
        /\ ~ r.waitForData /\ AllQuiet(a, s, LineStates(a))
    BY <1>2, <2>1, <2>4, BlockStarts
  <2> HIDE DEF q
  <2>6. \A b \in Addrs : b # a => /\ q[b] = reqs[b] /\ job[Home[a]] # Busy("nextReq", b)
                                  /\ BlockInv(b, dir[b], Current(b), Waiting(b), s,
                                              LineStates(b), CoreStates(b))
    BY <1>2, <1>3, <2>3 DEF OthersIn
  <2>7. /\ q[a] # <<>> /\ BlockInv(a, dir[a], r, Tail(q[a]), s, LineStates(a), CoreStates(a))
        /\ job[Home[a]].at # "waiters"
    BY <1>2, <2>1, <2>3, <2>5
  <2> QED
    BY <1>2, <1>6, <2>2, <2>3, <2>5, <2>6, <2>7, StartCoherent
<1>10. CASE reqs[a] # <<>>
  <2>1. reqs' = [reqs EXCEPT ![a] = Append(@, r)] /\ dir' = GetDirectoryEntry(a) /\ queue' = s /\ UNCHANGED job
    BY <1>7, <1>10
  <2>2. EntriesOK(dir)
    BY DEF TypeInv
  <2>3. Alike(dir[a], dir'[a])
    BY <1>2, <2>1, <2>2, FreshAlike
  <2>4. \A b \in Addrs : b # a => dir'[b] = dir[b] /\ reqs'[b] = reqs[b]
    BY <1>2, <2>1, <2>2, FreshEntryOK
  <2>5. Current(a)' = Current(a) /\ Waiting(a)' = Append(Waiting(a), r)
    <3> DEFINE t == reqs[a]
    <3>1. t \in Seq(Reqs) /\ t # <<>> /\ reqs'[a] = Append(t, r)
      BY <1>2, <1>10, <2>1
    <3> HIDE DEF t
    <3>2. Append(t, r) # <<>> /\ Head(Append(t, r)) = Head(t) /\ Tail(Append(t, r)) = Append(Tail(t), r)
      BY <1>6, <3>1
    <3>3. \A b : job'[h] # Busy("nextReq", b)
      BY <1>2, <2>1
    <3>4. Current(a)' = Head(t) /\ Waiting(a)' = Append(Tail(t), r)
      BY <1>2, <3>1, <3>2, <3>3 DEF Current, Waiting
    <3> QED
      BY <1>2, <1>10, <3>4 DEF t
  <2>6. BlockInv(a, dir'[a], Current(a)', Waiting(a)', queue', LineStates(a), CoreStates(a))
    <3>1. BlockInv(a, dir'[a], Current(a), Append(Waiting(a), r), s, LineStates(a), CoreStates(a))
      BY <1>8, <2>3, BlockAlike
    <3> QED
      BY <2>1, <2>5, <3>1
  <2>7. OthersIn(a, queue')
    BY <1>3, <2>1
  <2> QED
    BY <1>2, <2>1, <2>4, <2>6, <2>7, StaysCoherent
<1> QED
  BY <1>9, <1>10

\* processNextReqFromL2Cache
LEMMA ProcessNextReqCoherent ==
  ASSUME TypeInv, CoherenceInv, UNCHANGED cacheVars, NEW h \in Nodes, ProcessNextReq(h)
  PROVE  CoherenceInv'
<1>0. PICK a : a = job[h].addr
  OBVIOUS
<1> DEFINE t == Tail(reqs[a])
           q == [reqs EXCEPT ![a] = t]
<1>1. /\ job[h].at = "nextReq" /\ a \in Addrs /\ Home[a] = h /\ reqs[a] # <<>>
      /\ QueuesOK(queue) /\ EntriesOK(dir)
  BY <1>0 DEF ProcessNextReq, TypeInv, JobsOK
<1>2. reqs \in [Addrs -> Seq(Reqs)] /\ job \in [Nodes -> Jobs]
  BY DEF TypeInv, TypeOK, SimThreadsTypeOK, DirectoryTypeOK
<1>3. job[h] = Busy("nextReq", a) /\ \A b : b # a => job[h] # Busy("nextReq", b)
  BY <1>0, <1>1, <1>2 DEF Jobs, Busy
<1>4. t \in Seq(Reqs)
  BY <1>1, <1>2
<1>5. q \in [Addrs -> Seq(Reqs)] /\ q[a] = t /\ \A b \in Addrs : b # a => q[b] = reqs[b]
  BY <1>1, <1>2, <1>4
<1>6. IF q[a] = <<>>
      THEN reqs' = q /\ SetJob(h, Recv) /\ UNCHANGED <<dir, queue>>
      ELSE StartReq(a, Head(q[a]), q, queue)
  BY <1>0 DEF ProcessNextReq
<1>7. \A b \in Addrs : BlockInv(b, dir[b], Current(b), Waiting(b), queue, LineStates(b), CoreStates(b))
  BY DEF CoherenceInv, Coherent
<1>8. Current(a) = NoReq /\ Waiting(a) = t
  BY <1>1, <1>3 DEF Current, Waiting
<1> HIDE DEF t, q
<1>9. BlockInv(a, dir[a], NoReq, t, queue, LineStates(a), CoreStates(a))
  BY <1>1, <1>7, <1>8
<1>10. CASE t = <<>>
  <2>1. reqs' = q /\ job' = [job EXCEPT ![h] = Recv] /\ UNCHANGED <<dir, queue>>
    BY <1>5, <1>6, <1>10 DEF SetJob
  <2>2. Recv.at # "waiters" /\ Recv \in Jobs /\ \A b : Recv # Busy("nextReq", b)
    BY DEF Recv, Jobs, Busy
  <2>3. DirectoryMoves(h)
    BY <1>1, <2>1, <2>2 DEF DirectoryMoves
  <2>4. job'[h] = Recv
    BY <1>2, <2>1
  <2>5. Coherent(a)'
    <3>1. Current(a)' = NoReq /\ Waiting(a)' = <<>>
      BY <1>5, <1>10, <2>1 DEF Current, Waiting
    <3> QED
      BY <1>1, <1>9, <1>10, <2>1, <2>3, <3>1, DirectoryKeepsCaches DEF Coherent
  <2>6. ASSUME NEW b \in Addrs, b # a PROVE Coherent(b)'
    <3>1. dir'[b] = dir[b] /\ reqs'[b] = reqs[b] /\ queue' = queue
      BY <1>5, <2>1, <2>6
    <3>2. job[h] # Busy("nextReq", b) /\ job'[h] # Busy("nextReq", b)
      BY <1>3, <2>2, <2>4, <2>6
    <3>3. BlockInv(b, dir[b], Current(b), Waiting(b), queue', LineStates(b), CoreStates(b))
      BY <1>7, <3>1
    <3> QED
      BY <2>3, <3>1, <3>2, <3>3, DirectoryElsewhere
  <2> QED
    BY <2>5, <2>6 DEF CoherenceInv
<1>11. CASE t # <<>>
  <2> DEFINE r == Head(t)
  <2>1. r \in Reqs
    BY <1>4, <1>11
  <2>2. StartReq(a, r, q, queue)
    BY <1>5, <1>6, <1>11
  <2> HIDE DEF r
  <2>3. /\ BlockInv(a, dir[a], r, Tail(q[a]), queue, LineStates(a), CoreStates(a))
        /\ ~ r.waitForData /\ AllQuiet(a, queue, LineStates(a))
    BY <1>1, <1>4, <1>5, <1>9, <1>11, BlockStarts DEF r
  <2>4. \A b \in Addrs : b # a => /\ q[b] = reqs[b] /\ job[Home[a]] # Busy("nextReq", b)
                                  /\ BlockInv(b, dir[b], Current(b), Waiting(b), queue,
                                              LineStates(b), CoreStates(b))
    BY <1>1, <1>3, <1>5, <1>7
  <2>5. q[a] # <<>> /\ job[Home[a]].at # "waiters"
    BY <1>1, <1>5, <1>11
  <2> QED
    BY <1>1, <1>5, <2>1, <2>2, <2>3, <2>4, <2>5, StartCoherent
<1> QED
  BY <1>10, <1>11

\* INV_REP
LEMMA ProcessInvRepCoherent ==
  ASSUME TypeInv, CoherenceInv, UNCHANGED cacheVars, NEW h \in Nodes, ProcessInvRep(h)
  PROVE  CoherenceInv'
<1> DEFINE m == Received(h)
           s == Consume(h)
<1>1. PICK a, k : a = m.addr /\ k = m.sender
  OBVIOUS
<1>2. HomeReceivesOf(a, h, {"INV_REP"})
  BY <1>1 DEF HomeReceivesOf, ProcessInvRep, AnswerTypes
<1>3. /\ a \in Addrs /\ Home[a] = h /\ job[h].at # "waiters"
      /\ m \in Msgs /\ m.type = "INV_REP" /\ k \in Nodes
      /\ QueuesOK(s) /\ Takes(queue, s, Home[a], m)
      /\ EntryOK(dir[a]) /\ reqs \in [Addrs -> Seq(Reqs)]
      /\ (reqs[a] = <<>> => Current(a) = NoReq /\ Waiting(a) = <<>>)
      /\ (reqs[a] # <<>> => /\ Head(reqs[a]) \in Reqs /\ Tail(reqs[a]) \in Seq(Reqs)
                            /\ Current(a) = Head(reqs[a]) /\ Waiting(a) = Tail(reqs[a]))
      /\ \A b : job[h] # Busy("nextReq", b)
  <2>1. m.type \in {"INV_REP"}
    BY <1>2, HomeFinds
  <2> QED
    BY <1>1, <1>2, <2>1, HomeFinds
<1>4. OthersIn(a, s)
  BY <1>1, <1>3, OthersTake
<1>5. dir[a].state # "MODIFIED" /\ k \in dir[a].sharers
  BY <1>1 DEF ProcessInvRep, InvRepExpected
<1>6. PICK e \in RemoveSharer(dir[a], k) :
        IF reqs[a] # <<>> /\ InvRepWakes(e, Head(reqs[a]), k)
        THEN \E o \in ProcessReq(a, e, Head(reqs[a]), Null) : Apply(a, o, dir, reqs, s)
        ELSE dir' = [dir EXCEPT ![a] = e] /\ queue' = s /\ UNCHANGED <<reqs, job>>
  BY <1>1 DEF ProcessInvRep
<1>7. /\ EntryOK(e) /\ e.where # "none"
      /\ e.sharers = dir[a].sharers \ {k}
      /\ e.state = IF dir[a].sharers = {k} THEN "UNCACHED" ELSE dir[a].state
  <2>1. EntryOK(dir[a]) /\ k \in dir[a].sharers /\ e \in RemoveSharer(dir[a], k)
    BY <1>3, <1>5, <1>6
  <2> QED
    BY <2>1, RemoveSharerOK
<1>8. LineStates(a) \in [Nodes -> CStates]
  BY <1>3, LineStatesOK
<1>9. BlockInv(a, dir[a], Current(a), Waiting(a), queue, LineStates(a), CoreStates(a))
  BY <1>3 DEF CoherenceInv, Coherent
<1>10. Current(a).requester \in Nodes \/ Current(a) = NoReq
  <2>1. \A r \in Reqs : r.requester \in Nodes
    BY DEF Reqs
  <2> QED
    BY <1>3, <2>1
<1>11. m.type \in Lost /\ m.addr = a /\ m.sender = k
  BY <1>1, <1>3 DEF Lost
<1> HIDE DEF m, s
<1>12. /\ BlockInv(a, e, Current(a), Waiting(a), s, LineStates(a), CoreStates(a))
       /\ Current(a).type # "SH_REQ" => ~ Current(a).waitForData
       /\ Current(a).type # "SH_REQ" \/ e.state = "UNCACHED" \/ Current(a).forwardingFrom \in {NoNode, k}
            => AllQuiet(a, s, LineStates(a))
  <2>1. TakesCopy(a, dir[a], e, Current(a), queue, s, k, m)
    BY <1>3, <1>5, <1>7, <1>10, <1>11 DEF TakesCopy
  <2> QED
    BY <1>3, <1>8, <1>9, <2>1, BlockLosesSharer
<1>13. CASE reqs[a] # <<>> /\ InvRepWakes(e, Head(reqs[a]), k)
  <2> DEFINE r == Head(reqs[a])
  <2>1. PICK o \in ProcessReq(a, e, r, Null) : Apply(a, o, dir, reqs, s)
    BY <1>6, <1>13
  <2>2. r \in Reqs /\ Current(a) = r /\ Waiting(a) = Tail(reqs[a])
    BY <1>3, <1>13
  <2> HIDE DEF r
  <2>3. IsOutcome(a, e, r, o)
    BY <1>3, <1>7, <2>1, <2>2, Outcomes
  <2>4. r.type = "SH_REQ" => ~ r.waitForData /\ r.forwardingFrom \in {NoNode, k}
    BY <1>13 DEF InvRepWakes, r
  <2>5. ~ r.waitForData /\ AllQuiet(a, s, LineStates(a))
    BY <1>12, <2>2, <2>4
  <2>6. DOMAIN dir = Addrs
    BY DEF TypeInv, TypeOK, DirectoryTypeOK
  <2>7. Applying(a, e, r, o, dir, reqs, s)
    BY <1>3, <1>7, <1>12, <1>13, <2>1, <2>2, <2>3, <2>5, <2>6 DEF Applying
  <2> QED
    BY <1>3, <1>4, <2>7, AppliesCoherent
<1>14. CASE ~ (reqs[a] # <<>> /\ InvRepWakes(e, Head(reqs[a]), k))
  <2>1. dir' = [dir EXCEPT ![a] = e] /\ queue' = s /\ UNCHANGED <<reqs, job>>
    BY <1>6, <1>14
  <2>2. DOMAIN dir = Addrs
    BY DEF TypeInv, TypeOK, DirectoryTypeOK
  <2>3. \A b \in Addrs : b # a => dir'[b] = dir[b] /\ reqs'[b] = reqs[b]
    BY <2>1
  <2>4. Current(a)' = Current(a) /\ Waiting(a)' = Waiting(a) /\ dir'[a] = e
    BY <1>3, <2>1, <2>2 DEF Current, Waiting
  <2> QED
    BY <1>3, <1>4, <1>12, <2>1, <2>3, <2>4, StaysCoherent
<1> QED
  BY <1>13, <1>14

\* WB_REP
LEMMA ProcessWbRepCoherent ==
  ASSUME TypeInv, CoherenceInv, UNCHANGED cacheVars, NEW h \in Nodes, ProcessWbRep(h)
  PROVE  CoherenceInv'
<1> DEFINE m == Received(h)
           s == Consume(h)
<1>1. PICK a, e, data : /\ a = m.addr /\ data = m.data
                        /\ e = [dir[a] EXCEPT !.owner = NoNode, !.state = "SHARED"]
  OBVIOUS
<1>2. HomeReceivesOf(a, h, {"WB_REP"})
  BY <1>1 DEF HomeReceivesOf, ProcessWbRep, AnswerTypes
<1>3. /\ a \in Addrs /\ Home[a] = h /\ job[h].at # "waiters"
      /\ m \in Msgs /\ m.type = "WB_REP" /\ m.addr = a
      /\ data \in Data
      /\ QueuesOK(s) /\ Takes(queue, s, Home[a], m)
      /\ EntryOK(dir[a]) /\ reqs \in [Addrs -> Seq(Reqs)]
      /\ (reqs[a] # <<>> => /\ Head(reqs[a]) \in Reqs /\ Tail(reqs[a]) \in Seq(Reqs)
                            /\ Current(a) = Head(reqs[a]) /\ Waiting(a) = Tail(reqs[a]))
      /\ \A b : job[h] # Busy("nextReq", b)
  <2>1. m.type \in {"WB_REP"} /\ (m.type \in FilledTypes => m.data \in Data)
    BY <1>2, HomeFinds
  <2>2. m.type = "WB_REP" /\ data \in Data
    BY <1>1, <2>1 DEF FilledTypes
  <2> QED
    BY <1>1, <1>2, <2>2, HomeFinds
<1>4. OthersIn(a, s)
  BY <1>1, <1>3, OthersTake
<1>5. /\ m.sender \in dir[a].sharers /\ reqs[a] # <<>> /\ Head(reqs[a]).type = "SH_REQ"
      /\ \E o \in ProcessShReq(a, e, Head(reqs[a]), data) : Apply(a, o, dir, reqs, s)
  BY <1>1 DEF ProcessWbRep, WbRepExpected
<1>6. EntryOK(e) /\ e.where # "none" /\ e.sharers = dir[a].sharers /\ e.state = "SHARED"
  <2>1. dir[a] \in Entries
    BY <1>3 DEF EntryOK
  <2>2. e \in Entries /\ e.where = dir[a].where /\ e.sharers = dir[a].sharers /\ e.state = "SHARED"
    BY <1>1, <2>1 DEF Entries
  <2>3. FewSharers(e)
    BY <1>3, <2>2, SharerCount DEF EntryOK
  <2> QED
    BY <1>3, <1>5, <2>2, <2>3 DEF EntryOK
<1>7. LineStates(a) \in [Nodes -> CStates]
  BY <1>3, LineStatesOK
<1>8. BlockInv(a, dir[a], Current(a), Waiting(a), queue, LineStates(a), CoreStates(a))
  BY <1>3 DEF CoherenceInv, Coherent
<1> HIDE DEF m, s
<1>9. /\ BlockInv(a, e, Current(a), Waiting(a), s, LineStates(a), CoreStates(a))
      /\ ~ Current(a).waitForData /\ AllQuiet(a, s, LineStates(a))
  BY <1>3, <1>6, <1>7, <1>8, BlockWrittenBack
<1> DEFINE r == Head(reqs[a])
<1>10. PICK o \in ProcessShReq(a, e, r, data) : Apply(a, o, dir, reqs, s)
  BY <1>5
<1>11. r \in Reqs /\ Current(a) = r /\ Waiting(a) = Tail(reqs[a]) /\ r.type = "SH_REQ"
  BY <1>3, <1>5
<1> HIDE DEF r
<1>12. o \in ProcessReq(a, e, r, data)
  BY <1>10, <1>11 DEF ProcessReq
<1>13. IsOutcome(a, e, r, o)
  BY <1>3, <1>6, <1>11, <1>12, Outcomes
<1>14. DOMAIN dir = Addrs
  BY DEF TypeInv, TypeOK, DirectoryTypeOK
<1>15. Applying(a, e, r, o, dir, reqs, s)
  BY <1>3, <1>5, <1>6, <1>9, <1>10, <1>11, <1>13, <1>14 DEF Applying
<1> QED
  BY <1>3, <1>4, <1>15, AppliesCoherent

\* The data of a block are sent to its DRAM: for the directory nothing changes.
LEMMA DataToDramSent ==
  ASSUME NEW a \in Addrs, NEW data \in Data, NEW s, QueuesOK(s), OthersIn(a, s),
         NEW s2, s2 = Send(s, DataToDram(a, data))
  PROVE  /\ QueuesOK(s2) /\ OthersIn(a, s2)
         /\ \A e, cur, rest, l, c : BlockInv(a, e, cur, rest, s, l, c) => BlockInv(a, e, cur, rest, s2, l, c)
         /\ \A l : AllQuiet(a, s, l) => AllQuiet(a, s2, l)
<1> DEFINE out == DataToDram(a, data)
<1>1. Sendable(out)
  <2>1. Msg("DRAM_WRITE_REQ", a, Home[a], data) \in Deliverable(Home[a])
    BY MessageTypes
  <2> QED
    BY <2>1, SendableOne DEF DataToDram
<1>2. Concerns(out, a) /\ \A p \in out : Foreign(p.msg, a)
  BY DEF DataToDram, To, Msg, Concerns, Foreign
<1> HIDE DEF out
<1>3. QueuesOK(s2) /\ Sends(s, s2, out)
  BY <1>1, SendOK, SendSends DEF out
<1>4. OthersIn(a, s2)
  BY <1>2, <1>3, OthersSend
<1>5. ASSUME NEW e, NEW cur, NEW rest, NEW l, NEW c, BlockInv(a, e, cur, rest, s, l, c)
      PROVE  BlockInv(a, e, cur, rest, s2, l, c)
  BY <1>2, <1>3, <1>5, BlockSendsForeign
<1>6. ASSUME NEW l, AllQuiet(a, s, l) PROVE AllQuiet(a, s2, l)
  BY <1>2, <1>3, <1>6, QuietSendsForeign
<1> QED
  BY <1>3, <1>4, <1>5, <1>6

\* FLUSH_REP
LEMMA ProcessFlushRepCoherent ==
  ASSUME TypeInv, CoherenceInv, UNCHANGED cacheVars, NEW h \in Nodes, ProcessFlushRep(h)
  PROVE  CoherenceInv'
<1> DEFINE m == Received(h)
           s == Consume(h)
<1>1. PICK a, k, data, e : /\ a = m.addr /\ k = m.sender /\ data = m.data
                           /\ e = Flushed(dir[a], k)
  OBVIOUS
<1>2. HomeReceivesOf(a, h, {"FLUSH_REP"})
  BY <1>1 DEF HomeReceivesOf, ProcessFlushRep, AnswerTypes
<1>3. /\ a \in Addrs /\ Home[a] = h /\ job[h].at # "waiters"
      /\ m \in Msgs /\ m.type = "FLUSH_REP" /\ k \in Nodes /\ data \in Data
      /\ QueuesOK(s) /\ Takes(queue, s, Home[a], m)
      /\ EntryOK(dir[a]) /\ reqs \in [Addrs -> Seq(Reqs)]
      /\ (reqs[a] = <<>> => Current(a) = NoReq /\ Waiting(a) = <<>>)
      /\ (reqs[a] # <<>> => /\ Head(reqs[a]) \in Reqs /\ Tail(reqs[a]) \in Seq(Reqs)
                            /\ Current(a) = Head(reqs[a]) /\ Waiting(a) = Tail(reqs[a]))
      /\ \A b : job[h] # Busy("nextReq", b)
  <2>1. m.type \in {"FLUSH_REP"} /\ (m.type \in FilledTypes => m.data \in Data)
    BY <1>2, HomeFinds
  <2>2. m.type = "FLUSH_REP" /\ data \in Data
    BY <1>1, <2>1 DEF FilledTypes
  <2> QED
    BY <1>1, <1>2, <2>2, HomeFinds
<1>4. OthersIn(a, s)
  <2>1. Takes(queue, Consume(h), h, Received(h))
    BY <1>3
  <2>2. OthersIn(Received(h).addr, Consume(h))
    BY <2>1, OthersTake
  <2> QED
    BY <1>1, <2>2
<1>5. k \in dir[a].sharers /\ (dir[a].sharers # {k} => dir[a].state = "SHARED")
  BY <1>1 DEF ProcessFlushRep, FlushRepExpected
<1>6. \/ /\ reqs[a] = <<>>
         /\ dir' = [dir EXCEPT ![a] = e]
         /\ queue' = Send(s, DataToDram(a, data))
         /\ UNCHANGED <<reqs, job>>
      \/ /\ reqs[a] # <<>>
         /\ dir' = [dir EXCEPT ![a] = e]
         /\ reqs' = [reqs EXCEPT ![a] = <<[Head(@) EXCEPT !.data = Garbage]>> \o Tail(@)]
         /\ queue' = s
         /\ UNCHANGED job
      \/ /\ reqs[a] # <<>> /\ (Head(reqs[a]).type = "UPGRADE_REQ" => e.sharers = {})
         /\ \E o \in ProcessReq(a, e, Head(reqs[a]), data) :
              Apply(a, o, dir, reqs,
                    IF Head(reqs[a]).type \in {"SH_REQ", "NULLIFY_REQ"}
                    THEN Send(s, DataToDram(a, data)) ELSE s)
  BY <1>1 DEF ProcessFlushRep, Flushed
<1>7. /\ EntryOK(e) /\ e.where # "none"
      /\ e.sharers = dir[a].sharers \ {k}
      /\ e.state = IF dir[a].sharers = {k} THEN "UNCACHED" ELSE dir[a].state
  <2> DEFINE d == dir[a]
  <2>1. EntryOK(d) /\ k \in d.sharers /\ (d.sharers # {k} => d.state = "SHARED") /\ e = Flushed(d, k)
    BY <1>1, <1>3, <1>5
  <2> HIDE DEF d
  <2>2. /\ EntryOK(e) /\ e.where # "none" /\ e.sharers = d.sharers \ {k}
        /\ e.state = IF d.sharers = {k} THEN "UNCACHED" ELSE d.state
    BY <2>1, FlushedEntryOK
  <2> QED
    BY <2>2 DEF d
<1>8. LineStates(a) \in [Nodes -> CStates] /\ DOMAIN dir = Addrs
  BY <1>3, LineStatesOK DEF TypeInv, TypeOK, DirectoryTypeOK
<1>9. BlockInv(a, dir[a], Current(a), Waiting(a), queue, LineStates(a), CoreStates(a))
  BY <1>3 DEF CoherenceInv, Coherent
<1>10. Current(a).requester \in Nodes \/ Current(a) = NoReq
  <2>1. \A r \in Reqs : r.requester \in Nodes
    BY DEF Reqs
  <2> QED
    BY <1>3, <2>1
<1>11. m.type \in Lost /\ m.addr = a /\ m.sender = k
  BY <1>1, <1>3 DEF Lost
<1> HIDE DEF m, s
<1>12. /\ BlockInv(a, e, Current(a), Waiting(a), s, LineStates(a), CoreStates(a))
       /\ Current(a).type # "SH_REQ" => ~ Current(a).waitForData
       /\ Current(a).type # "SH_REQ" \/ e.state = "UNCACHED" => AllQuiet(a, s, LineStates(a))
  <2>1. TakesCopy(a, dir[a], e, Current(a), queue, s, k, m)
    BY <1>3, <1>7, <1>10, <1>11 DEF TakesCopy
  <2> QED
    BY <1>3, <1>8, <1>9, <2>1, BlockLosesSharer
<1>13. PICK s2 : s2 = Send(s, DataToDram(a, data))
  OBVIOUS
<1>14. /\ QueuesOK(s2) /\ OthersIn(a, s2)
       /\ BlockInv(a, e, Current(a), Waiting(a), s2, LineStates(a), CoreStates(a))
       /\ AllQuiet(a, s, LineStates(a)) => AllQuiet(a, s2, LineStates(a))
  BY <1>3, <1>4, <1>12, <1>13, DataToDramSent
<1>15. CASE /\ reqs[a] = <<>>
            /\ dir' = [dir EXCEPT ![a] = e]
            /\ queue' = Send(s, DataToDram(a, data))
            /\ UNCHANGED <<reqs, job>>
  <2>1. \A b \in Addrs : b # a => dir'[b] = dir[b] /\ reqs'[b] = reqs[b]
    BY <1>15
  <2>2. Current(a)' = Current(a) /\ Waiting(a)' = Waiting(a) /\ dir'[a] = e /\ queue' = s2
    BY <1>3, <1>8, <1>13, <1>15 DEF Current, Waiting
  <2> QED
    BY <1>3, <1>14, <1>15, <2>1, <2>2, StaysCoherent
<1>16. CASE /\ reqs[a] # <<>>
            /\ dir' = [dir EXCEPT ![a] = e]
            /\ reqs' = [reqs EXCEPT ![a] = <<[Head(@) EXCEPT !.data = Garbage]>> \o Tail(@)]
            /\ queue' = s
            /\ UNCHANGED job
  <2> DEFINE t == Tail(reqs[a])
             r == Head(reqs[a])
             r2 == [r EXCEPT !.data = Garbage]
  <2>1. \A b \in Addrs : b # a => dir'[b] = dir[b] /\ reqs'[b] = reqs[b]
    BY <1>16
  <2>2. /\ r2 \in Reqs /\ r2.type = r.type /\ r2.requester = r.requester
        /\ r2.waitForData = r.waitForData /\ r2.forwardingFrom = r.forwardingFrom
    BY <1>3, <1>16 DEF Reqs, Data
  <2>3. t \in Seq(Reqs) /\ reqs'[a] = <<r2>> \o t
    BY <1>3, <1>16
  <2>4. Current(a) = r /\ Waiting(a) = t
    BY <1>3, <1>16
  <2> HIDE DEF r2, t, r
  <2>5. <<r2>> \o t # <<>> /\ Head(<<r2>> \o t) = r2 /\ Tail(<<r2>> \o t) = t
    BY <2>2, <2>3
  <2>6. \A b : job'[h] # Busy("nextReq", b)
    BY <1>3, <1>16
  <2>7. Current(a)' = r2 /\ Waiting(a)' = t
    BY <1>3, <2>3, <2>5, <2>6 DEF Current, Waiting
  <2>8. Alike(e, e)
    BY DEF Alike
  <2>9. BlockInv(a, e, r, t, s, LineStates(a), CoreStates(a))
    BY <1>12, <2>4
  <2>10. BlockInv(a, e, r2, t, s, LineStates(a), CoreStates(a))
    BY <2>2, <2>8, <2>9, BlockAlike
  <2>11. dir'[a] = e /\ queue' = s
    BY <1>3, <1>8, <1>16
  <2> QED
    BY <1>3, <1>4, <1>16, <2>1, <2>7, <2>10, <2>11, StaysCoherent
<1>17. CASE /\ reqs[a] # <<>> /\ (Head(reqs[a]).type = "UPGRADE_REQ" => e.sharers = {})
            /\ \E o \in ProcessReq(a, e, Head(reqs[a]), data) :
                 Apply(a, o, dir, reqs,
                       IF Head(reqs[a]).type \in {"SH_REQ", "NULLIFY_REQ"}
                       THEN Send(s, DataToDram(a, data)) ELSE s)
  <2> DEFINE r == Head(reqs[a])
             s3 == IF r.type \in {"SH_REQ", "NULLIFY_REQ"} THEN s2 ELSE s
  <2>1. PICK o \in ProcessReq(a, e, r, data) : Apply(a, o, dir, reqs, s3)
    BY <1>13, <1>17
  <2>2. r \in Reqs /\ Current(a) = r /\ Waiting(a) = Tail(reqs[a])
    BY <1>3, <1>17
  <2>3. s3 = s \/ s3 = s2
    OBVIOUS
  <2> HIDE DEF r, s3
  <2>4. IsOutcome(a, e, r, o)
    BY <1>3, <1>7, <2>1, <2>2, Outcomes
  <2>5. r.type = "SH_REQ" => e.state = "UNCACHED"
    <3>1. Has(queue[Home[a]], From({"FLUSH_REP"}, a, k))
      <4>1. m \in From({"FLUSH_REP"}, a, k)
        BY <1>3, <1>11 DEF From
      <4>2. Drops(queue[Home[a]], s[Home[a]], m)
        BY <1>3 DEF Takes
      <4> QED
        BY <4>1, <4>2 DEF Drops
    <3>2. Owns(dir[a], k) \/ UpgradeFlushes(dir[a], r, k)
      BY <1>3, <1>9, <2>2, <3>1 DEF BlockInv, NodeInv, Flushes
    <3>3. r.type = "SH_REQ" => Owns(dir[a], k)
      BY <3>2 DEF UpgradeFlushes
    <3>4. Owns(dir[a], k) => dir[a].sharers = {k}
      BY <1>3 DEF Owns, EntryOK
    <3> QED
      BY <1>7, <3>3, <3>4
  <2>6. ~ r.waitForData
    <3>1. r.type = "SH_REQ" => ~ Owns(e, r.requester)
      BY <2>5 DEF Owns
    <3>2. ReqInv(a, e, r, Waiting(a), s[Home[a]])
      BY <1>12, <2>2 DEF BlockInv
    <3> QED
      BY <1>12, <2>2, <2>5, <3>1, <3>2 DEF ReqInv
  <2>7. AllQuiet(a, s, LineStates(a))
    BY <1>12, <2>2, <2>5
  <2>8. /\ QueuesOK(s3) /\ OthersIn(a, s3) /\ AllQuiet(a, s3, LineStates(a))
        /\ BlockInv(a, e, r, Tail(reqs[a]), s3, LineStates(a), CoreStates(a))
    BY <1>3, <1>4, <1>12, <1>14, <2>2, <2>3, <2>7
  <2>9. Applying(a, e, r, o, dir, reqs, s3)
    BY <1>3, <1>7, <1>8, <1>17, <2>1, <2>2, <2>4, <2>6, <2>8 DEF Applying
  <2> QED
    BY <1>3, <2>8, <2>9, AppliesCoherent
<1> QED
  BY <1>6, <1>15, <1>16, <1>17

\* DRAM_READ_REP
LEMMA ProcessDRAMReplyCoherent ==
  ASSUME TypeInv, CoherenceInv, UNCHANGED cacheVars, NEW h \in Nodes, ProcessDRAMReply(h)
  PROVE  CoherenceInv'
<1> DEFINE m == Received(h)
           s == Consume(h)
<1>1. PICK a, r, data, type :
        /\ a = m.addr /\ data = m.data /\ r = Head(reqs[a])
        /\ type = IF r.type = "SH_REQ" /\ dir[a].state = "SHARED" THEN "SH_REP" ELSE "EX_REP"
  OBVIOUS
<1>2. HomeReceivesOf(a, h, {"DRAM_READ_REP"})
  BY <1>1 DEF HomeReceivesOf, ProcessDRAMReply, DramTypes
<1>3. /\ a \in Addrs /\ Home[a] = h /\ job[h].at # "waiters"
      /\ m \in Msgs /\ m.type = "DRAM_READ_REP" /\ m.addr = a /\ data \in Data
      /\ QueuesOK(s) /\ Takes(queue, s, Home[a], m)
      /\ EntryOK(dir[a]) /\ reqs \in [Addrs -> Seq(Reqs)]
      /\ (reqs[a] # <<>> => /\ r \in Reqs /\ Tail(reqs[a]) \in Seq(Reqs)
                            /\ Current(a) = r /\ Waiting(a) = Tail(reqs[a]))
  <2>1. m.type \in {"DRAM_READ_REP"} /\ (m.type \in FilledTypes => m.data \in Data)
    BY <1>2, HomeFinds
  <2>2. m.type = "DRAM_READ_REP" /\ data \in Data
    BY <1>1, <2>1 DEF FilledTypes
  <2> QED
    BY <1>1, <1>2, <2>2, HomeFinds
<1>4. OthersIn(a, s)
  BY <1>1, <1>3, OthersTake
<1>5. reqs[a] # <<>> /\ Apply(a, Reply(type, a, dir[a], r, data), dir, reqs, s)
  BY <1>1 DEF ProcessDRAMReply, DramReplyExpected
<1>6. LineStates(a) \in [Nodes -> CStates] /\ dir \in [Addrs -> Entries] /\ job \in [Nodes -> Jobs]
  BY <1>3, LineStatesOK DEF TypeInv, TypeOK, DirectoryTypeOK, SimThreadsTypeOK
<1>7. BlockInv(a, dir[a], r, Tail(reqs[a]), queue, LineStates(a), CoreStates(a))
  BY <1>3, <1>5 DEF CoherenceInv, Coherent
<1> HIDE DEF m, s
<1>8. /\ BlockInv(a, dir[a], r, Tail(reqs[a]), s, LineStates(a), CoreStates(a))
      /\ r.waitForData /\ ~ Has(s[Home[a]], About(DramReads, a))
  <2>1. m.type \in DramReads
    BY <1>3 DEF DramReads
  <2> QED
    BY <1>3, <1>7, <2>1, BlockReadTaken
<1> DEFINE x == Msg(type, a, Home[a], data)
           out == {To(r.requester, x)}
<1>9. x \in Msgs /\ x.addr = a /\ x.type = type /\ Sendable(out) /\ Concerns(out, a)
  <2>1. r.requester \in Nodes
    BY <1>3, <1>5 DEF Reqs
  <2>2. type \in {"SH_REP", "EX_REP"}
    BY <1>1
  <2>3. x \in Deliverable(r.requester)
    BY <1>3, <2>1, <2>2, MessageTypes
  <2>4. x.addr = a /\ x.type = type
    BY DEF Msg
  <2> HIDE DEF x
  <2>5. Sendable(out)
    BY <2>1, <2>3, SendableOne
  <2> QED
    BY <2>3, <2>4, <2>5 DEF Deliverable, Concerns, To
<1>10. /\ dir' = [dir EXCEPT ![a] = dir[a]]
       /\ reqs' = [reqs EXCEPT ![a] = <<r>> \o Tail(reqs[a])]
       /\ queue' = Send(s, out)
       /\ job' = [job EXCEPT ![Home[a]] = Busy("nextReq", a)]
  BY <1>5 DEF Apply, Reply, Outcome, SetJob
<1> HIDE DEF x
<1>11. Sends(s, queue', out)
  BY <1>3, <1>9, <1>10, SendSends
<1> HIDE DEF out
<1>12. BlockInv(a, dir[a], NoReq, Tail(reqs[a]), queue', LineStates(a), CoreStates(a))
  <2>1. Sends(s, queue', {To(r.requester, x)})
    BY <1>11 DEF out
  <2>2. x.type = IF r.type = "SH_REQ" /\ dir[a].state = "SHARED" THEN "SH_REP" ELSE "EX_REP"
    BY <1>1, <1>9
  <2>3. r \in Reqs /\ x \in Msgs /\ x.addr = a
    BY <1>3, <1>5, <1>9
  <2> QED
    BY <1>3, <1>6, <1>8, <2>1, <2>2, <2>3, BlockReplies
<1>13. /\ Busy("nextReq", a) \in Jobs /\ Busy("nextReq", a).at # "waiters"
       /\ \A b : b # a => Busy("nextReq", a) # Busy("nextReq", b)
  BY <1>3 DEF Busy, Jobs
<1>14. DirectoryMoves(h) /\ job'[h] = Busy("nextReq", a)
  BY <1>3, <1>6, <1>10, <1>13 DEF DirectoryMoves
<1>15. Coherent(a)'
  <2> DEFINE t == Tail(reqs[a])
  <2>1. r \in Reqs /\ t \in Seq(Reqs) /\ reqs'[a] = <<r>> \o t /\ dir'[a] = dir[a]
    BY <1>3, <1>5, <1>6, <1>10
  <2> HIDE DEF t
  <2>2. <<r>> \o t # <<>> /\ Tail(<<r>> \o t) = t
    BY <2>1
  <2>3. Current(a)' = NoReq /\ Waiting(a)' = t
    BY <1>3, <1>14, <2>1, <2>2 DEF Current, Waiting
  <2>4. BlockInv(a, dir'[a], NoReq, t, queue', LineStates(a), CoreStates(a))
    BY <1>12, <2>1 DEF t
  <2>5. LineStates(a)' = LineStates(a) /\ CoreStates(a)' = CoreStates(a)
    BY <1>3, <1>14, DirectoryKeepsCaches
  <2> QED
    BY <2>3, <2>4, <2>5 DEF Coherent
<1>16. ASSUME NEW b \in Addrs, b # a PROVE Coherent(b)'
  <2>1. dir'[b] = dir[b] /\ reqs'[b] = reqs[b]
    BY <1>10, <1>16
  <2>2. job[h] # Busy("nextReq", b) /\ job'[h] # Busy("nextReq", b)
    BY <1>2, <1>13, <1>14, <1>16, HomeFinds
  <2>3. OthersIn(a, queue')
    BY <1>4, <1>9, <1>11, OthersSend
  <2>4. BlockInv(b, dir[b], Current(b), Waiting(b), queue', LineStates(b), CoreStates(b))
    BY <1>16, <2>3 DEF OthersIn
  <2> QED
    BY <1>14, <2>1, <2>2, <2>4, DirectoryElsewhere
<1> QED
  BY <1>15, <1>16 DEF CoherenceInv

\* DRAM_READ_REQ
LEMMA GetDataFromDramCoherent ==
  ASSUME TypeInv, CoherenceInv, UNCHANGED cacheVars, NEW h \in Nodes, GetDataFromDram(h)
  PROVE  CoherenceInv'
<1> DEFINE m == Received(h)
           s == Consume(h)
<1>1. PICK a : a = m.addr
  OBVIOUS
<1>2. HomeReceivesOf(a, h, {"DRAM_READ_REQ"})
  BY <1>1 DEF HomeReceivesOf, GetDataFromDram, DramTypes
<1>3. /\ a \in Addrs /\ Home[a] = h /\ m.addr = a
      /\ m \in Msgs /\ m \in Deliverable(h) /\ m.type = "DRAM_READ_REQ"
      /\ QueuesOK(s) /\ Takes(queue, s, Home[a], m)
  <2>1. m.type \in {"DRAM_READ_REQ"}
    BY <1>2, HomeFinds
  <2> QED
    BY <1>1, <1>2, <2>1, HomeFinds
<1>4. OthersIn(a, s)
  BY <1>1, <1>3, OthersTake
<1>5. m.sender = Home[a] /\ m.type \in DramReads
  BY <1>3 DEF Deliverable, DramTypes, DramReads
<1>6. mem[a] \in Data
  BY <1>3 DEF TypeInv, TypeOK, DirectoryTypeOK
<1>7. PICK x : x = Msg("DRAM_READ_REP", a, Home[a], mem[a])
  OBVIOUS
<1>8. queue' = Send(s, {To(Home[a], x)}) /\ UNCHANGED <<job, dir, reqs, mem>>
  BY <1>1, <1>3, <1>5, <1>7 DEF GetDataFromDram
<1>9. x \in Msgs /\ x.addr = a /\ x.type \in DramReads /\ Sendable({To(Home[a], x)}) /\ Concerns({To(Home[a], x)}, a)
  <2>1. Msg("DRAM_READ_REP", a, Home[a], mem[a]) \in Deliverable(Home[a])
    BY <1>3, <1>6, MessageTypes
  <2>2. x.addr = a /\ x.type = "DRAM_READ_REP"
    BY <1>7 DEF Msg
  <2>3. x \in Deliverable(Home[a]) /\ Home[a] \in Nodes
    BY <1>3, <1>7, <2>1
  <2>4. Sendable({To(Home[a], x)})
    BY <2>3, SendableOne
  <2> QED
    BY <2>2, <2>3, <2>4 DEF Deliverable, DramReads, Concerns, To
<1>10. BlockInv(a, dir[a], Current(a), Waiting(a), queue, LineStates(a), CoreStates(a))
  BY <1>3 DEF CoherenceInv, Coherent
<1> HIDE DEF m, s
<1>11. Sends(s, queue', {To(Home[a], x)})
  BY <1>3, <1>8, <1>9, SendSends
<1>12. /\ BlockInv(a, dir[a], Current(a), Waiting(a), s, LineStates(a), CoreStates(a))
       /\ Current(a).waitForData /\ ~ Has(s[Home[a]], About(DramReads, a))
  BY <1>3, <1>5, <1>10, BlockReadTaken
<1>13. BlockInv(a, dir[a], Current(a), Waiting(a), queue', LineStates(a), CoreStates(a))
  BY <1>3, <1>9, <1>11, <1>12, BlockReads
<1>14. OthersIn(a, queue')
  BY <1>4, <1>9, <1>11, OthersSend
<1>15. dir' = dir /\ reqs' = reqs /\ job' = job
  BY <1>8
<1>16. Current(a)' = Current(a) /\ Waiting(a)' = Waiting(a)
  BY <1>15 DEF Current, Waiting
<1> QED
  BY <1>3, <1>13, <1>14, <1>15, <1>16, StaysCoherent

\* DRAM_WRITE_REQ
LEMMA PutDataToDramCoherent ==
  ASSUME TypeInv, CoherenceInv, UNCHANGED cacheVars, NEW h \in Nodes, PutDataToDram(h)
  PROVE  CoherenceInv'
<1> DEFINE m == Received(h)
           s == Consume(h)
<1>1. PICK a : a = m.addr
  OBVIOUS
<1>2. HomeReceivesOf(a, h, {"DRAM_WRITE_REQ"})
  BY <1>1 DEF HomeReceivesOf, PutDataToDram, DramTypes
<1>3. a \in Addrs /\ m.type = "DRAM_WRITE_REQ" /\ Takes(queue, s, h, m)
  <2>1. m.type \in {"DRAM_WRITE_REQ"} /\ Home[a] = h
    BY <1>2, HomeFinds
  <2> QED
    BY <1>2, <2>1, HomeFinds
<1>4. OthersIn(a, s)
  BY <1>1, <1>3, OthersTake
<1>5. queue' = s /\ dir' = dir /\ reqs' = reqs /\ job' = job
  BY DEF PutDataToDram
<1>6. BlockInv(a, dir[a], Current(a), Waiting(a), queue, LineStates(a), CoreStates(a))
  BY <1>3 DEF CoherenceInv, Coherent
<1>7. Foreign(m, a)
  BY <1>3 DEF Foreign
<1> HIDE DEF m, s
<1>8. BlockInv(a, dir[a], Current(a), Waiting(a), s, LineStates(a), CoreStates(a))
  BY <1>3, <1>6, <1>7, BlockTakesForeign
<1>9. Current(a)' = Current(a) /\ Waiting(a)' = Waiting(a)
  BY <1>5 DEF Current, Waiting
<1> QED
  BY <1>3, <1>4, <1>5, <1>8, <1>9, StaysCoherent

\* A step of the home thread.
LEMMA DirectoryStepCoherent ==
  ASSUME TypeInv, CoherenceInv, UNCHANGED cacheVars, NEW h \in Nodes, DirectoryStep(h)
  PROVE  CoherenceInv'
  BY HandleReqCoherent, ProcessNextReqCoherent, ProcessInvRepCoherent, ProcessFlushRepCoherent,
     ProcessWbRepCoherent, ProcessDRAMReplyCoherent, GetDataFromDramCoherent, PutDataToDramCoherent
  DEF DirectoryStep

-----------------------------------------------------------------------------
(* Steps of the caches and of their cores.                                 *)

\* The states of the lines ls of block a.
States(ls, a) == [n \in Nodes |-> ls[n][a].state]

\* The line of n for block a gets state st.
SetState(ls, n, a, st) == [ls EXCEPT ![n][a].state = st]

\* In terms of states.
LEMMA StateSet ==
  ASSUME NEW ls, LinesOK(ls), NEW n \in Nodes, NEW a \in Addrs, NEW st \in CStates,
         ls[n][a].state # "INVALID"
  PROVE  /\ LinesOK(SetState(ls, n, a, st))
         /\ Changes(States(ls, a), States(SetState(ls, n, a, st), a), n, st)
         /\ \A b \in Addrs : b # a => States(SetState(ls, n, a, st), b) = States(ls, b)
<1> DEFINE f == SetState(ls, n, a, st)
<1>1. LinesOK(f) /\ \A k \in Nodes, b \in Addrs :
                      f[k][b].state = IF k = n /\ b = a THEN st ELSE ls[k][b].state
  BY PutState DEF SetState
<1> HIDE DEF f
<1>2. Changes(States(ls, a), States(f, a), n, st) /\ \A b \in Addrs : b # a => States(f, b) = States(ls, b)
  BY <1>1 DEF States, Changes
<1> QED
  BY <1>1, <1>2 DEF f

\* The thread of n goes on in its cache, or nothing happens to it: the directory does not
\* notice.
CacheMoves(n) ==
  /\ UNCHANGED directoryVars
  /\ \/ UNCHANGED job
     \/ job[n].at # "nextReq" /\ \E j : j.at # "nextReq" /\ job' = [job EXCEPT ![n] = j]

\* Block a is as the invariant says: its messages are in q, its lines in states l and its
\* cores in states c.
Seen(a, q, l, c) == BlockInv(a, dir[a], Current(a), Waiting(a), q, l, c)

\* Such a step keeps a block coherent if it does so in the cache.
LEMMA CacheKeepsDirectory ==
  ASSUME TypeInv, NEW n \in Nodes, CacheMoves(n), NEW b \in Addrs
  PROVE  Seen(b, queue', LineStates(b)', CoreStates(b)') => Coherent(b)'
<1>1. job \in [Nodes -> Jobs] /\ Home[b] \in Nodes
  BY DEF TypeInv, TypeOK, SimThreadsTypeOK
<1>2. Busy("nextReq", b).at = "nextReq"
  BY DEF Busy
<1>3. job'[Home[b]] = Busy("nextReq", b) <=> job[Home[b]] = Busy("nextReq", b)
  BY <1>1, <1>2 DEF CacheMoves
<1>4. dir' = dir /\ reqs' = reqs
  BY DEF CacheMoves, directoryVars
<1>5. Current(b)' = Current(b) /\ Waiting(b)' = Waiting(b)
  BY <1>3, <1>4 DEF Current, Waiting
<1> QED
  BY <1>4, <1>5 DEF Coherent, Seen

\* What the cores of k do about b stays the same.
LEMMA SameCoreState ==
  ASSUME NEW k \in Nodes, NEW b \in Addrs,
         Head(waiters'[k][b]) = Head(waiters[k][b]), waiters'[k][b] = <<>> <=> waiters[k][b] = <<>>,
         job'[k] = Busy("waiters", b) <=> job[k] = Busy("waiters", b),
         job[k] = Busy("waiters", b) =>
           (pc'[Head(waiters[k][b]).core] = "woken" <=> pc[Head(waiters[k][b]).core] = "woken")
  PROVE  CoreStates(b)'[k] = CoreStates(b)[k]
<1> DEFINE w == Head(waiters[k][b])
           none == waiters[k][b] = <<>>
           busy == job[k] = Busy("waiters", b)
           woken == pc[w.core] = "woken"
<1>1. CoreStates(b)[k] = IF busy THEN IF w.exclusive /\ woken THEN "writing" ELSE "served"
                         ELSE IF none THEN "none" ELSE IF w.exclusive THEN "writes" ELSE "reads"
  BY DEF CoreStates, CoreState
<1>2. CoreStates(b)'[k] = IF busy' THEN IF w'.exclusive /\ woken' THEN "writing" ELSE "served"
                          ELSE IF none' THEN "none" ELSE IF w'.exclusive THEN "writes" ELSE "reads"
  BY DEF CoreStates, CoreState
<1>3. w' = w /\ (none' <=> none) /\ (busy' <=> busy) /\ (busy => (woken' <=> woken))
  OBVIOUS
<1> HIDE DEF w, none, busy, woken
<1> QED
  BY <1>1, <1>2, <1>3


\* A thread that serves waiters has one, a core of its node.
LEMMA ServedCore ==
  ASSUME TypeInv, NEW k \in Nodes, NEW b \in Addrs, job[k] = Busy("waiters", b)
  PROVE  /\ waiters[k][b] # <<>> /\ Head(waiters[k][b]) \in Waiters
         /\ Head(waiters[k][b]).core \in Cores /\ LLC[Head(waiters[k][b]).core] = k
<1>1. Busy("waiters", b).at = "waiters" /\ Busy("waiters", b).addr = b
  BY DEF Busy
<1>2. waiters[k][b] # <<>> /\ waiters[k][b] \in Seq(WaitersOf(k))
  BY <1>1 DEF TypeInv, JobsOK, WaitersOK
<1>3. Head(waiters[k][b]) \in WaitersOf(k)
  BY <1>2
<1> QED
  BY <1>2, <1>3 DEF WaitersOf, Waiters

\* A thread that may take its stack lock has let no core write.
LEMMA NobodyWrites ==
  ASSUME TypeInv, NEW n \in Nodes, ~ StackLocked(n), NEW b \in Addrs
  PROVE  CoreStates(b)[n] # "writing"
<1>1. CASE job[n] = Busy("waiters", b)
  <2>1. pc[Head(waiters[n][b]).core] # "woken"
    BY <1>1, ServedCore DEF StackLocked
  <2> QED
    BY <1>1, <2>1 DEF CoreStates, CoreState
<1>2. CASE job[n] # Busy("waiters", b)
  BY <1>2 DEF CoreStates, CoreState
<1> QED
  BY <1>1, <1>2

\* What is serving the waiters of block a in node n about to do?  The lines are ls, the
\* waiters ws and the messages q, the cores of n are being served and write next if the
\* block came for that.
Serving(n, a, ls, ws, q, c) ==
  /\ ServeWaiters(n, a, ls, ws, q) /\ UNCHANGED directoryVars
  /\ job[n] = Recv \/ job[n] = Busy("waiters", a)
  /\ LinesOK(ls) /\ QueuesOK(q) /\ ws[n][a] \in Seq(WaitersOf(n))
  /\ \A k \in Nodes, b \in Addrs : k # n \/ b # a => ws[k][b] = waiters[k][b]
  /\ \A b \in Addrs : b # a => Seen(b, q, States(ls, b), CoreStates(b))
  /\ c[n] \in {"served", "writing"} /\ Changes(CoreStates(a), c, n, c[n])
  /\ c[n] = "writing" => /\ ws[n][a] # <<>> /\ Head(ws[n][a]).exclusive
                         /\ ls[n][a].state # "SHARED"
  /\ Seen(a, q, States(ls, a), c)

\* The thread of n goes on with its next message, or waits for the core it woke, the first
\* of the waiters ws for block a.
Turns(n, a, ws, j) ==
  /\ job' = [job EXCEPT ![n] = j]
  /\ \/ j = Recv /\ pc' = pc
     \/ /\ j = Busy("waiters", a) /\ ws[n][a] # <<>>
        /\ pc' = [pc EXCEPT ![Head(ws[n][a]).core] = "woken"]

\* The other blocks are not touched.
LEMMA ServingElsewhere ==
  ASSUME TypeInv, NEW n \in Nodes, NEW a \in Addrs, NEW ls, NEW ws, NEW q, NEW c,
         Serving(n, a, ls, ws, q, c), NEW j, Turns(n, a, ws, j)
  PROVE  /\ CacheMoves(n)
         /\ \A b \in Addrs : b # a => CoreStates(b)' = CoreStates(b)
         /\ \A k \in Nodes : k # n => CoreStates(a)'[k] = c[k]
         /\ CoreStates(a)'[n] =
              IF j = Recv
              THEN IF ws[n][a] = <<>> THEN "none"
                   ELSE IF Head(ws[n][a]).exclusive THEN "writes" ELSE "reads"
              ELSE IF Head(ws[n][a]).exclusive THEN "writing" ELSE "served"
<1>1. job \in [Nodes -> Jobs] /\ pc \in [Cores -> {"idle", "waiting", "woken"}]
  BY DEF TypeInv, TypeOK, SimThreadsTypeOK, LastLevelCacheTypeOK
<1>2. /\ job[n] = Recv \/ job[n] = Busy("waiters", a)
      /\ waiters' = ws /\ UNCHANGED directoryVars
      /\ \A k \in Nodes, b \in Addrs : k # n \/ b # a => ws[k][b] = waiters[k][b]
      /\ Changes(CoreStates(a), c, n, c[n]) /\ ws[n][a] \in Seq(WaitersOf(n))
      /\ j = Recv \/ j = Busy("waiters", a)
      /\ job' = [job EXCEPT ![n] = j]
  BY DEF Serving, ServeWaiters, Turns
<1>3. /\ Recv.at # "nextReq" /\ Busy("waiters", a).at # "nextReq"
      /\ \A b : Recv # Busy("waiters", b) /\ (b # a => Busy("waiters", a) # Busy("waiters", b))
  BY DEF Recv, Busy
<1>4. CacheMoves(n)
  <2>1. j.at # "nextReq" /\ job[n].at # "nextReq"
    BY <1>2, <1>3
  <2> QED
    BY <1>2, <2>1 DEF CacheMoves
<1> DEFINE w == Head(ws[n][a])
<1>5. ws[n][a] # <<>> => w \in WaitersOf(n)
  BY <1>2
<1>6. /\ j = Recv => pc' = pc
      /\ j # Recv => /\ w.core \in Cores /\ LLC[w.core] = n /\ pc'[w.core] = "woken"
                     /\ \A i \in Cores : i # w.core => pc'[i] = pc[i]
  <2>1. j # Recv => ws[n][a] # <<>> /\ pc' = [pc EXCEPT ![w.core] = "woken"]
    BY <1>2, <1>3 DEF Turns
  <2>2. j # Recv => w.core \in Cores /\ LLC[w.core] = n
    BY <1>5, <2>1 DEF WaitersOf, Waiters
  <2>3. j = Recv => pc' = pc
    BY <1>3 DEF Turns
  <2> HIDE DEF w
  <2> QED
    BY <1>1, <2>1, <2>2, <2>3
<1> HIDE DEF w
<1>7. ASSUME NEW k \in Nodes, NEW b \in Addrs, k # n \/ b # a
      PROVE  CoreStates(b)'[k] = CoreStates(b)[k]
  <2>1. waiters'[k][b] = waiters[k][b]
    BY <1>2, <1>7
  <2>2. job'[k] = Busy("waiters", b) <=> job[k] = Busy("waiters", b)
    BY <1>1, <1>2, <1>3, <1>7
  <2>3. ASSUME job[k] = Busy("waiters", b)
        PROVE  pc'[Head(waiters[k][b]).core] = pc[Head(waiters[k][b]).core]
    <3>1. k # n
      BY <1>2, <1>3, <1>7, <2>3
    <3>2. Head(waiters[k][b]).core \in Cores /\ LLC[Head(waiters[k][b]).core] = k
      BY <2>3, ServedCore
    <3> QED
      BY <1>6, <3>1, <3>2
  <2> QED
    BY <2>1, <2>2, <2>3, SameCoreState
<1>8. \A b \in Addrs : b # a => CoreStates(b)' = CoreStates(b)
  BY <1>7 DEF CoreStates
<1>9. \A k \in Nodes : k # n => CoreStates(a)'[k] = c[k]
  BY <1>2, <1>7 DEF Changes
<1>10. CoreStates(a)'[n] = IF j = Recv
                           THEN IF ws[n][a] = <<>> THEN "none"
                                ELSE IF w.exclusive THEN "writes" ELSE "reads"
                           ELSE IF w.exclusive THEN "writing" ELSE "served"
  <2>1. waiters'[n][a] = ws[n][a] /\ job'[n] = j /\ (j = Busy("waiters", a) <=> j # Recv)
    BY <1>1, <1>2, <1>3
  <2>2. CoreStates(a)'[n] =
          IF job'[n] = Busy("waiters", a)
          THEN IF Head(waiters'[n][a]).exclusive /\ pc'[Head(waiters'[n][a]).core] = "woken"
               THEN "writing" ELSE "served"
          ELSE IF waiters'[n][a] = <<>> THEN "none"
          ELSE IF Head(waiters'[n][a]).exclusive THEN "writes" ELSE "reads"
    BY DEF CoreStates, CoreState
  <2>3. Head(waiters'[n][a]) = w
    BY <2>1 DEF w
  <2> QED
    BY <1>6, <2>1, <2>2, <2>3
<1> QED
  BY <1>4, <1>8, <1>9, <1>10 DEF w

\* Serving the waiters keeps all blocks coherent.
LEMMA ServingCoherent ==
  ASSUME TypeInv, NEW n \in Nodes, NEW a \in Addrs, NEW ls, NEW ws, NEW q, NEW c,
         Serving(n, a, ls, ws, q, c)
  PROVE  CoherenceInv'
<1>1. /\ LinesOK(ls) /\ QueuesOK(q)
      /\ \A b \in Addrs : b # a => Seen(b, q, States(ls, b), CoreStates(b))
      /\ c[n] \in {"served", "writing"} /\ Seen(a, q, States(ls, a), c)
      /\ c[n] = "writing" => /\ ws[n][a] # <<>> /\ Head(ws[n][a]).exclusive
                             /\ ls[n][a].state # "SHARED"
  BY DEF Serving
<1>2. c[n] # "none" /\ n \in Caches
  <2>1. c[n] # "none"
    BY <1>1
  <2>2. \E e, cur, rest, h, p, s : Accounts(a, n, e, cur, rest, h, p, s, c[n])
    BY <1>1 DEF Seen, BlockInv, NodeInv
  <2> QED
    BY <2>1, <2>2 DEF Accounts
<1>3. ASSUME NEW j, Turns(n, a, ws, j), line' = ls, queue' = q,
             j # Recv \/ ws[n][a] = <<>>
      PROVE  CoherenceInv'
  <2>1. /\ CacheMoves(n)
        /\ \A b \in Addrs : b # a => CoreStates(b)' = CoreStates(b)
        /\ \A k \in Nodes : k # n => CoreStates(a)'[k] = c[k]
        /\ CoreStates(a)'[n] \in {"none", "served", "writing"}
        /\ c[n] = "writing" => CoreStates(a)'[n] = c[n]
    BY <1>1, <1>3, ServingElsewhere
  <2>2. \A b \in Addrs : LineStates(b)' = States(ls, b)
    BY <1>3 DEF LineStates, States
  <2>3. Changes(c, CoreStates(a)', n, CoreStates(a)'[n])
    BY <2>1 DEF Changes
  <2>4. Seen(a, q, States(ls, a), CoreStates(a)')
    <3>1. CASE c[n] = "writing"
      <4>1. \A k \in Nodes : CoreStates(a)'[k] = c[k]
        BY <2>1, <3>1
      <4> QED
        BY <1>1, <4>1 DEF Seen, BlockInv
    <3>2. CASE c[n] = "served"
      <4>1. c[n] \notin Waits \cup {"writing"} /\ CoreStates(a)'[n] \notin Waits
        BY <2>1, <3>2 DEF Waits
      <4> QED
        BY <1>1, <1>2, <2>3, <4>1, BlockServes DEF Seen
    <3> QED
      BY <1>1, <3>1, <3>2
  <2>5. \A b \in Addrs : Seen(b, queue', LineStates(b)', CoreStates(b)')
    BY <1>1, <1>3, <2>1, <2>2, <2>4
  <2>6. \A b \in Addrs : Coherent(b)'
    BY <2>1, <2>5, CacheKeepsDirectory
  <2> QED
    BY <2>6 DEF CoherenceInv
<1>4. CASE ws[n][a] = <<>> /\ line' = ls /\ queue' = q /\ SetJob(n, Recv) /\ UNCHANGED pc
  <2>1. Turns(n, a, ws, Recv)
    BY <1>4 DEF SetJob, Turns
  <2> QED
    BY <1>3, <1>4, <2>1
<1>5. CASE /\ ws[n][a] # <<>> /\ line' = ls /\ queue' = q /\ SetJob(n, Busy("waiters", a))
           /\ pc' = [pc EXCEPT ![Head(ws[n][a]).core] = "woken"]
  <2>1. Turns(n, a, ws, Busy("waiters", a)) /\ Busy("waiters", a) # Recv
    BY <1>5 DEF SetJob, Turns, Recv, Busy
  <2> QED
    BY <1>3, <1>5, <2>1
<1>6. CASE /\ ws[n][a] # <<>> /\ NeedsUpgrade(Head(ws[n][a]), ls[n][a].state)
           /\ line' = [ls EXCEPT ![n][a].state = "SHARED_UPGRADING"]
           /\ queue' = Send(q, Request(n, "UPGRADE_REQ", a))
           /\ SetJob(n, Recv) /\ UNCHANGED pc
  <2>1. Turns(n, a, ws, Recv) /\ Head(ws[n][a]).exclusive
    BY <1>6 DEF SetJob, Turns, NeedsUpgrade
  <2>2. /\ CacheMoves(n)
        /\ \A b \in Addrs : b # a => CoreStates(b)' = CoreStates(b)
        /\ \A k \in Nodes : k # n => CoreStates(a)'[k] = c[k]
        /\ CoreStates(a)'[n] = "writes"
    BY <1>6, <2>1, ServingElsewhere
  <2>3. ls[n][a].state = "SHARED" /\ "SHARED_UPGRADING" \in CStates
    BY <1>6 DEF NeedsUpgrade, CStates
  <2>4. line' = SetState(ls, n, a, "SHARED_UPGRADING")
    BY <1>6 DEF SetState
  <2>5. \A b \in Addrs : LineStates(b)' = States(line', b)
    BY DEF LineStates, States
  <2>6. /\ Changes(States(ls, a), LineStates(a)', n, "SHARED_UPGRADING") /\ States(ls, a)[n] = "SHARED"
        /\ \A b \in Addrs : b # a => LineStates(b)' = States(ls, b)
    <3>1. ls[n][a].state # "INVALID" /\ States(ls, a)[n] = "SHARED"
      BY <2>3 DEF States
    <3> QED
      BY <1>1, <2>3, <2>4, <2>5, <3>1, StateSet
  <2>7. Changes(c, CoreStates(a)', n, "writes")
    BY <2>2 DEF Changes
  <2>8. PICK x : x = Msg("UPGRADE_REQ", a, n, Null)
    OBVIOUS
  <2>9. x \in Deliverable(Home[a]) /\ x \in Msgs /\ x.type = "UPGRADE_REQ" /\ x.addr = a /\ x.sender = n
    <3>1. Msg("UPGRADE_REQ", a, n, Null) \in Deliverable(Home[a])
      BY MessageTypes DEF RequestTypes
    <3> QED
      BY <2>8, <3>1 DEF Deliverable, Msg
  <2>10. queue' = Send(q, {To(Home[a], x)})
    BY <1>6, <2>8 DEF Request
  <2>11. Sendable({To(Home[a], x)}) /\ Concerns({To(Home[a], x)}, a)
    BY <2>9, SendableOne
  <2>12. Sends(q, queue', {To(Home[a], x)})
    BY <1>1, <2>10, <2>11, SendSends
  <2>13. Seen(a, queue', LineStates(a)', CoreStates(a)')
    <3>1. c[n] \notin Waits
      BY <1>1 DEF Waits
    <3> QED
      BY <1>1, <1>2, <2>6, <2>7, <2>9, <2>12, <3>1, BlockAsksUpgrade DEF Seen
  <2>14. ASSUME NEW b \in Addrs, b # a PROVE Seen(b, queue', LineStates(b)', CoreStates(b)')
    <3>1. Seen(b, q, LineStates(b)', CoreStates(b)')
      BY <1>1, <2>2, <2>6, <2>14
    <3> QED
      BY <2>11, <2>12, <2>14, <3>1, OthersForeign, BlockSendsForeign DEF Seen
  <2>15. \A b \in Addrs : Coherent(b)'
    BY <2>2, <2>13, <2>14, CacheKeepsDirectory
  <2> QED
    BY <2>15 DEF CoherenceInv
<1> QED
  BY <1>4, <1>5, <1>6 DEF Serving, ServeWaiters

\* A node takes a message about block a: the home of the block sent it.
LEMMA CacheFinds ==
  ASSUME TypeInv, CoherenceInv, NEW n \in Nodes, NEW T, Receives(n, T), T \subseteq CommandTypes \cup ReplyTypes
  PROVE  /\ Received(n) \in Msgs /\ Received(n).type \in T
         /\ Received(n).addr \in Addrs /\ Received(n).sender = Home[Received(n).addr]
         /\ Received(n).type \in FilledTypes => Received(n).data \in Data
         /\ QueuesOK(Consume(n)) /\ Takes(queue, Consume(n), n, Received(n))
         /\ \A b \in Addrs : Seen(b, queue, LineStates(b), CoreStates(b))
         /\ \A b \in Addrs : b # Received(n).addr => Seen(b, Consume(n), LineStates(b), CoreStates(b))
         /\ job[n] = Recv
<1>1. /\ Received(n) \in Deliverable(n) /\ Received(n) \in Msgs /\ Received(n).type \in T
      /\ Received(n).addr \in Addrs /\ QueuesOK(Consume(n)) /\ job[n] = Recv
      /\ Received(n).type \in FilledTypes => Received(n).data \in Data
  BY ReceivedOK
<1>2. Received(n).sender = Home[Received(n).addr]
  BY <1>1 DEF Deliverable
<1>3. QueuesOK(queue) /\ queue[n] # <<>>
  BY DEF TypeInv, Receives
<1>4. Takes(queue, Consume(n), n, Received(n))
  BY <1>3, ConsumeTakes
<1>5. OthersIn(Received(n).addr, Consume(n))
  BY <1>4, OthersTake
<1> QED
  BY <1>1, <1>2, <1>4, <1>5 DEF OthersIn, Seen, CoherenceInv, Coherent

\* UPGRADE_REP
LEMMA ProcessUpgradeRepCoherent ==
  ASSUME TypeInv, CoherenceInv, UNCHANGED directoryVars, NEW n \in Nodes, ProcessUpgradeRep(n)
  PROVE  CoherenceInv'
<1> DEFINE m == Received(n)
           s == Consume(n)
<1>1. PICK a, ls, c : /\ a = m.addr /\ ls = SetState(line, n, a, "MODIFIED")
                      /\ c = [CoreStates(a) EXCEPT ![n] = "served"]
  OBVIOUS
<1>2. Receives(n, {"UPGRADE_REP"}) /\ line[n][a].state = "SHARED_UPGRADING"
      /\ ServeWaiters(n, a, ls, waiters, s)
  BY <1>1 DEF ProcessUpgradeRep, SetState
<1>3. /\ m \in Msgs /\ m.type = "UPGRADE_REP" /\ a \in Addrs /\ m.addr = a
      /\ QueuesOK(s) /\ Takes(queue, s, n, m) /\ job[n] = Recv
      /\ \A b \in Addrs : Seen(b, queue, LineStates(b), CoreStates(b))
      /\ \A b \in Addrs : b # a => Seen(b, s, LineStates(b), CoreStates(b))
  <2>1. m.type \in {"UPGRADE_REP"}
    BY <1>2, CacheFinds DEF ReplyTypes
  <2> QED
    BY <1>1, <1>2, <2>1, CacheFinds DEF ReplyTypes
<1>4. LinesOK(line) /\ "MODIFIED" \in CStates
  BY DEF TypeInv, CStates
<1>5. /\ LinesOK(ls) /\ Changes(LineStates(a), States(ls, a), n, "MODIFIED")
      /\ \A b \in Addrs : b # a => States(ls, b) = LineStates(b)
  <2>1. \A b : LineStates(b) = States(line, b)
    BY DEF LineStates, States
  <2>2. line[n][a].state # "INVALID"
    BY <1>2
  <2> QED
    BY <1>1, <1>3, <1>4, <2>1, <2>2, StateSet
<1>6. Changes(CoreStates(a), c, n, "served")
  BY <1>1 DEF Changes, CoreStates
<1>10. waiters[n][a] \in Seq(WaitersOf(n))
  BY <1>3 DEF TypeInv, WaitersOK
<1>7. LineStates(a)[n] = "SHARED_UPGRADING"
  BY <1>2 DEF LineStates
<1> HIDE DEF m, s
<1>8. Seen(a, s, States(ls, a), c)
  BY <1>3, <1>5, <1>6, <1>7, BlockUpgrades DEF Seen
<1>9. Serving(n, a, ls, waiters, s, c)
  <2>1. c[n] = "served" /\ Changes(CoreStates(a), c, n, c[n])
    BY <1>6 DEF Changes
  <2> QED
    BY <1>2, <1>3, <1>5, <1>8, <1>10, <2>1 DEF Serving
<1> QED
  BY <1>3, <1>9, ServingCoherent

\* The next waiter.
LEMMA NextWaiterCoherent ==
  ASSUME TypeInv, CoherenceInv, UNCHANGED directoryVars, NEW n \in Nodes, NextWaiter(n)
  PROVE  CoherenceInv'
<1>1. PICK a, ws : a = job[n].addr /\ ws = Dequeued(n, a)
  OBVIOUS
<1>2. job[n].at = "waiters" /\ ~ StackLocked(n) /\ ServeWaiters(n, a, line, ws, queue)
  BY <1>1 DEF NextWaiter
<1>3. /\ a \in Addrs /\ waiters \in [Nodes -> [Addrs -> Seq(Waiters)]]
      /\ LinesOK(line) /\ QueuesOK(queue) /\ job \in [Nodes -> Jobs]
  BY <1>1, <1>2 DEF TypeInv, JobsOK, WaitersOK, TypeOK, SimThreadsTypeOK
<1>4. job[n] = Busy("waiters", a)
  BY <1>1, <1>2, <1>3 DEF Jobs, Busy
<1>5. \A k \in Nodes, b \in Addrs : k # n \/ b # a => ws[k][b] = waiters[k][b]
  BY <1>1, <1>3 DEF Dequeued
<1>6. \A b : States(line, b) = LineStates(b)
  BY DEF LineStates, States
<1>7. CoreStates(a)[n] = "served"
  <2>1. CoreStates(a)[n] # "writing"
    BY <1>2, <1>3, NobodyWrites
  <2> QED
    BY <1>4, <2>1 DEF CoreStates, CoreState
<1>8. Changes(CoreStates(a), CoreStates(a), n, CoreStates(a)[n])
  BY DEF Changes
<1>11. ws[n][a] \in Seq(WaitersOf(n))
  <2>1. waiters[n][a] # <<>> /\ waiters[n][a] \in Seq(WaitersOf(n))
    BY <1>3, <1>4, ServedCore DEF TypeInv, WaitersOK
  <2>2. ws[n][a] = Tail(waiters[n][a])
    BY <1>1, <1>3 DEF Dequeued
  <2> QED
    BY <2>1, <2>2
<1>9. \A b \in Addrs : Seen(b, queue, States(line, b), CoreStates(b))
  BY <1>6 DEF CoherenceInv, Coherent, Seen
<1>10. Serving(n, a, line, ws, queue, CoreStates(a))
  BY <1>2, <1>3, <1>4, <1>5, <1>7, <1>8, <1>9, <1>11 DEF Serving
<1> QED
  BY <1>3, <1>10, ServingCoherent

\* Line l for block a replaces the evicted lines of node n, which gives the lines ls.
Inserting(n, a, l, evicted, ls) == a \notin evicted /\ ls = InsertCacheBlock(n, a, l, evicted)

\* In terms of states: block a came, the evicted blocks went.
LEMMA InsertedStates ==
  ASSUME LinesOK(line), NEW n \in Nodes, NEW a \in Addrs, NEW l, NEW evicted, NEW ls,
         Inserting(n, a, l, evicted, ls)
  PROVE  /\ Changes(LineStates(a), States(ls, a), n, l.state)
         /\ \A b \in Addrs : b # a /\ b \notin evicted => States(ls, b) = LineStates(b)
         /\ \A b \in evicted : b \in Addrs => Changes(LineStates(b), States(ls, b), n, "INVALID")
<1> DEFINE g == [b \in Addrs |-> IF b = a THEN l ELSE IF b \in evicted THEN NoLine ELSE line[n][b]]
<1>1. ls = [line EXCEPT ![n] = g] /\ a \notin evicted
  BY DEF Inserting, InsertCacheBlock
<1>2. /\ g[a] = l /\ \A b \in Addrs : b # a /\ b \notin evicted => g[b] = line[n][b]
      /\ \A b \in evicted : b \in Addrs => g[b] = NoLine
  BY <1>1
<1> HIDE DEF g
<1>3. ls[n] = g /\ \A k \in Nodes : k # n => ls[k] = line[k]
  BY <1>1 DEF LinesOK
<1>4. NoLine.state = "INVALID"
  BY DEF NoLine
<1>5. Changes(LineStates(a), States(ls, a), n, l.state)
  BY <1>2, <1>3 DEF Changes, LineStates, States
<1>6. ASSUME NEW b \in Addrs, b # a, b \notin evicted PROVE States(ls, b) = LineStates(b)
  BY <1>2, <1>3, <1>6 DEF LineStates, States
<1>7. ASSUME NEW b \in evicted, b \in Addrs PROVE Changes(LineStates(b), States(ls, b), n, "INVALID")
  BY <1>2, <1>3, <1>4, <1>7 DEF Changes, LineStates, States
<1> QED
  BY <1>5, <1>6, <1>7

\* The message with which node n evicts block v.
LEMMA EvictMessage ==
  ASSUME TypeInv, NEW n \in Nodes, NEW v \in Addrs
  PROVE  \E w \in Msgs : /\ Evict(n, v) = {To(Home[v], w)} /\ w.addr = v /\ w.sender = n
                         /\ w.type = IF line[n][v].state = "MODIFIED" THEN "FLUSH_REP" ELSE "INV_REP"
<1>1. /\ Msg("INV_REP", v, n, Null) \in Deliverable(Home[v])
      /\ \A data \in Data : Msg("FLUSH_REP", v, n, data) \in Deliverable(Home[v])
  BY MessageTypes
<1>2. line[n][v].state = "MODIFIED" => line[n][v].data \in Data
  BY DEF TypeInv, LinesOK
<1>3. PICK w : w = IF line[n][v].state = "MODIFIED" THEN Msg("FLUSH_REP", v, n, line[n][v].data)
                   ELSE Msg("INV_REP", v, n, Null)
  OBVIOUS
<1>4. Evict(n, v) = {To(Home[v], w)}
  BY <1>3 DEF Evict
<1>5. w \in Deliverable(Home[v])
  BY <1>1, <1>2, <1>3
<1>6. w.addr = v /\ w.sender = n /\ w.type = IF line[n][v].state = "MODIFIED" THEN "FLUSH_REP" ELSE "INV_REP"
  BY <1>3 DEF Msg
<1> QED
  BY <1>4, <1>5, <1>6 DEF Deliverable

\* Block v, which nothing happens to but its eviction.
LEMMA BlockEvicted ==
  ASSUME TypeInv, NEW n \in Nodes, ~ StackLocked(n), NEW v \in Addrs,
         line[n][v].state \in CStates \ {"INVALID", "SHARED_UPGRADING"},
         NEW s, NEW q, Sends(s, q, Evict(n, v)), NEW l2, Changes(LineStates(v), l2, n, "INVALID"),
         Seen(v, s, LineStates(v), CoreStates(v))
  PROVE  Seen(v, q, l2, CoreStates(v))
<1>1. PICK w \in Msgs : /\ Evict(n, v) = {To(Home[v], w)} /\ w.addr = v /\ w.sender = n
                        /\ w.type = IF line[n][v].state = "MODIFIED" THEN "FLUSH_REP" ELSE "INV_REP"
  BY EvictMessage
<1> DEFINE l == LineStates(v)
           c == CoreStates(v)
           e == dir[v]
           cur == Current(v)
           rest == Waiting(v)
<1>2. l[n] = line[n][v].state
  BY DEF LineStates
<1>3. BlockInv(v, e, cur, rest, s, l, c)
  BY DEF Seen
<1>4. Changes(l, l2, n, "INVALID") /\ l[n] \in CStates \ {"INVALID", "SHARED_UPGRADING"}
  BY <1>2
<1>5. Seen(v, q, l2, c) <=> BlockInv(v, e, cur, rest, q, l2, c)
  BY DEF Seen
<1>6. w.type = "FLUSH_REP" => l[n] = "MODIFIED"
  BY <1>1, <1>2
<1>10. w.type = "INV_REP" => c[n] # "writing" /\ l[n] \in {"SHARED", "EXCLUSIVE"}
  <2>1. w.type = "INV_REP" => l[n] \in {"SHARED", "EXCLUSIVE"}
    BY <1>1, <1>2 DEF CStates
  <2> QED
    BY <2>1, NobodyWrites
<1> HIDE DEF l, c, e, cur, rest
<1>7. w.type = "FLUSH_REP" => /\ Owns(e, n) \/ UpgradeFlushes(e, cur, n)
                              /\ ~ Has(s[Home[v]], From({"WB_REP"}, v, n))
                              /\ ~ Has(s[n], About({"UPGRADE_REP"}, v))
  BY <1>3, <1>6, WritableMayFlush DEF BlockInv
<1>8. w.type \in Lost
  BY <1>1 DEF Lost
<1>9. BlockInv(v, e, cur, rest, q, l2, c)
  BY <1>1, <1>3, <1>4, <1>7, <1>8, <1>10, BlockLoses
<1> QED
  BY <1>5, <1>9 DEF c

\* Node n evicts these blocks, one at most, after it took a message from its queue in s.
Evicting(n, evicted, s, q) ==
  /\ QueuesOK(s) /\ q = Send(s, UNION {Evict(n, v) : v \in evicted})
  /\ evicted = {} \/ \E v \in Addrs : /\ evicted = {v}
                                      /\ line[n][v].state \notin {"INVALID", "SHARED_UPGRADING"}

\* What the eviction of a set of lines tells the directory, and the blocks it leaves alone.
LEMMA EvictionsSent ==
  ASSUME TypeInv, NEW n \in Nodes, ~ StackLocked(n), NEW evicted, NEW s, NEW q, Evicting(n, evicted, s, q)
  PROVE  /\ \A b \in Addrs : \A l, c : b \notin evicted /\ Seen(b, s, l, c) => Seen(b, q, l, c)
         /\ \A v \in evicted : \A l : /\ Seen(v, s, LineStates(v), CoreStates(v))
                                      /\ Changes(LineStates(v), l, n, "INVALID")
                                      => Seen(v, q, l, CoreStates(v))
<1> USE DEF Evicting
<1>1. CASE evicted = {}
  <2>1. UNION {Evict(n, v) : v \in evicted} = {}
    BY <1>1
  <2>2. Sendable({}) /\ q = Send(s, {})
    BY <2>1 DEF Sendable
  <2>3. Sends(s, q, {})
    BY <2>2, SendSends
  <2>4. \A b \in Addrs : \A l, c : Seen(b, s, l, c) => Seen(b, q, l, c)
    BY <2>3, BlockSendsForeign DEF Seen
  <2> QED
    BY <1>1, <2>4
<1>2. CASE evicted # {}
  <2>1. PICK v \in Addrs : evicted = {v} /\ line[n][v].state \notin {"INVALID", "SHARED_UPGRADING"}
    BY <1>2
  <2>2. UNION {Evict(n, w) : w \in evicted} = Evict(n, v)
    BY <2>1
  <2>3. LinesOK(line) /\ line[n][v].state \in CStates \ {"INVALID", "SHARED_UPGRADING"}
    BY <2>1 DEF TypeInv, LinesOK, Lines
  <2>4. PICK w \in Msgs : Evict(n, v) = {To(Home[v], w)} /\ w.addr = v
    BY EvictMessage
  <2>5. Sendable(Evict(n, v))
    BY <2>1, <2>3, EvictOK
  <2>6. Sends(s, q, Evict(n, v))
    BY <2>2, <2>5, SendSends
  <2>7. \A b \in Addrs : b # v => \A p \in Evict(n, v) : Foreign(p.msg, b)
    BY <2>4 DEF Foreign, To
  <2>8. ASSUME NEW b \in Addrs, NEW l, NEW c, b \notin evicted, Seen(b, s, l, c)
        PROVE  Seen(b, q, l, c)
    BY <2>1, <2>6, <2>7, <2>8, BlockSendsForeign DEF Seen
  <2>9. ASSUME NEW l, Seen(v, s, LineStates(v), CoreStates(v)), Changes(LineStates(v), l, n, "INVALID")
        PROVE  Seen(v, q, l, CoreStates(v))
    BY <2>3, <2>6, <2>9, BlockEvicted
  <2> QED
    BY <2>1, <2>8, <2>9
<1> QED
  BY <1>1, <1>2

\* EX_REP, SH_REP
LEMMA ProcessRepCoherent ==
  ASSUME TypeInv, CoherenceInv, UNCHANGED directoryVars, NEW n \in Nodes, ProcessRep(n)
  PROVE  CoherenceInv'
<1>1. PICK m, s : m = Received(n) /\ s = Consume(n)
  OBVIOUS
<1>2. PICK a, l, d, c :
        /\ a = m.addr
        /\ l = [state |-> IF m.type = "EX_REP" THEN "EXCLUSIVE" ELSE "SHARED", data |-> m.data]
        /\ d = IF m.type = "EX_REP" /\ CoreStates(a)[n] = "writes" THEN "writing" ELSE "served"
        /\ c = [CoreStates(a) EXCEPT ![n] = d]
  OBVIOUS
<1>3. /\ Receives(n, {"EX_REP", "SH_REP"}) /\ ~ StackLocked(n) /\ line[n][a].state = "INVALID"
      /\ \E evicted \in Evictions(n) :
           ServeWaiters(n, a, InsertCacheBlock(n, a, l, evicted), waiters,
                        Send(s, UNION {Evict(n, v) : v \in evicted}))
  BY <1>1, <1>2 DEF ProcessRep
<1>4. PICK evicted \in Evictions(n) :
        ServeWaiters(n, a, InsertCacheBlock(n, a, l, evicted), waiters,
                     Send(s, UNION {Evict(n, v) : v \in evicted}))
  BY <1>3
<1>5. PICK ls, q : /\ ls = InsertCacheBlock(n, a, l, evicted)
                   /\ q = Send(s, UNION {Evict(n, v) : v \in evicted})
  OBVIOUS
<1>6. ServeWaiters(n, a, ls, waiters, q)
  BY <1>4, <1>5
<1>7. /\ m \in Msgs /\ m.type \in {"EX_REP", "SH_REP"} /\ a \in Addrs /\ m.addr = a /\ m.data \in Data
      /\ QueuesOK(s) /\ Takes(queue, s, n, m) /\ job[n] = Recv
      /\ \A b \in Addrs : Seen(b, queue, LineStates(b), CoreStates(b))
      /\ \A b \in Addrs : b # a => Seen(b, s, LineStates(b), CoreStates(b))
  <2>1. m.type \in {"EX_REP", "SH_REP"}
    BY <1>1, <1>3, CacheFinds DEF ReplyTypes
  <2> QED
    BY <1>1, <1>2, <1>3, <2>1, CacheFinds DEF ReplyTypes, FilledTypes
<1>8. l \in Lines /\ l.data \in Data /\ l.state = IF m.type = "EX_REP" THEN "EXCLUSIVE" ELSE "SHARED"
  BY <1>2, <1>7 DEF Lines, CStates
<1>9. /\ QueuesOK(q) /\ LinesOK(ls)
      /\ evicted = {} \/ \E v \in Addrs : /\ evicted = {v} /\ v # a
                                          /\ line[n][v].state \notin {"INVALID", "SHARED_UPGRADING"}
  BY <1>3, <1>4, <1>5, <1>7, <1>8, EvictionOK
<1>10. a \notin evicted /\ evicted \subseteq Addrs
  BY <1>9
<1>11. LinesOK(line)
  BY DEF TypeInv
<1>12. /\ Changes(LineStates(a), States(ls, a), n, l.state)
       /\ \A b \in Addrs : b # a /\ b \notin evicted => States(ls, b) = LineStates(b)
       /\ \A b \in evicted : b \in Addrs => Changes(LineStates(b), States(ls, b), n, "INVALID")
  <2>1. Inserting(n, a, l, evicted, ls)
    BY <1>5, <1>10 DEF Inserting
  <2> QED
    BY <1>7, <1>11, <2>1, InsertedStates
<1>13. /\ Changes(CoreStates(a), c, n, d) /\ d \in {"served", "writing"} /\ c[n] = d
       /\ m.type = "EX_REP" /\ CoreStates(a)[n] = "writes" => d = "writing"
  BY <1>2 DEF Changes, CoreStates
<1>20. d = "writing" => waiters[n][a] # <<>> /\ Head(waiters[n][a]).exclusive /\ l.state = "EXCLUSIVE"
  BY <1>2, <1>7, <1>8 DEF CoreStates, CoreState
<1>21. ls[n][a].state = l.state /\ waiters[n][a] \in Seq(WaitersOf(n))
  BY <1>7, <1>12 DEF Changes, States, TypeInv, WaitersOK
<1>14. LineStates(a)[n] = "INVALID"
  BY <1>3 DEF LineStates
<1>15. Seen(a, s, States(ls, a), c)
  BY <1>7, <1>8, <1>12, <1>13, <1>14, BlockFills DEF Seen, DataReplies
<1>16. /\ \A b \in Addrs : \A k, g : b \notin evicted /\ Seen(b, s, k, g) => Seen(b, q, k, g)
       /\ \A v \in evicted : \A k : /\ Seen(v, s, LineStates(v), CoreStates(v))
                                    /\ Changes(LineStates(v), k, n, "INVALID")
                                    => Seen(v, q, k, CoreStates(v))
  <2>1. Evicting(n, evicted, s, q)
    BY <1>5, <1>7, <1>9 DEF Evicting
  <2> QED
    BY <1>3, <2>1, EvictionsSent
<1>17. Seen(a, q, States(ls, a), c)
  BY <1>7, <1>10, <1>15, <1>16
<1>18. ASSUME NEW b \in Addrs, b # a PROVE Seen(b, q, States(ls, b), CoreStates(b))
  <2>1. Seen(b, s, LineStates(b), CoreStates(b))
    BY <1>7, <1>18
  <2>2. CASE b \notin evicted
    BY <1>12, <1>16, <1>18, <2>1, <2>2
  <2>3. CASE b \in evicted
    BY <1>12, <1>16, <2>1, <2>3
  <2> QED
    BY <2>2, <2>3
<1>19. Serving(n, a, ls, waiters, q, c)
  <2>1. c[n] = "writing" => /\ waiters[n][a] # <<>> /\ Head(waiters[n][a]).exclusive
                            /\ ls[n][a].state # "SHARED"
    BY <1>13, <1>20, <1>21
  <2> QED
    BY <1>6, <1>7, <1>9, <1>13, <1>17, <1>18, <1>21, <2>1 DEF Serving
<1> QED
  BY <1>7, <1>19, ServingCoherent

\* Node k takes command m about block a from the queues q, and answers it with w.
Answering(a, k, m, w, q, q1, q2, l, l2) ==
  /\ m \in Msgs /\ m.addr = a /\ Takes(q, q1, k, m)
  /\ w \in Msgs /\ w.addr = a /\ w.sender = k /\ Sends(q1, q2, {To(Home[a], w)})
  /\ l[k] \in CStates \ {"INVALID"}
  /\ \/ /\ m.type = "INV_REQ" /\ w.type = "INV_REP" /\ Changes(l, l2, k, "INVALID")
     \/ /\ m.type = "FLUSH_REQ" /\ w.type = "FLUSH_REP" /\ Changes(l, l2, k, "INVALID")
     \/ /\ m.type = "WB_REQ" /\ w.type = "WB_REP"
        /\ Changes(l, l2, k, IF l[k] = "SHARED_UPGRADING" THEN l[k] ELSE "SHARED")

\* The invariant of that block.
LEMMA BlockAnswers ==
  ASSUME NEW a \in Addrs, NEW e, NEW cur, NEW rest, NEW q, NEW q1, NEW q2, NEW l, NEW l2, NEW c,
         BlockInv(a, e, cur, rest, q, l, c), NEW k \in Nodes, NEW m, NEW w,
         Answering(a, k, m, w, q, q1, q2, l, l2)
  PROVE  BlockInv(a, e, cur, rest, q2, l2, c)
<1>1. /\ m \in Msgs /\ m.addr = a /\ Takes(q, q1, k, m)
      /\ w \in Msgs /\ w.addr = a /\ w.sender = k /\ Sends(q1, q2, {To(Home[a], w)})
      /\ l[k] \in CStates \ {"INVALID"}
  BY DEF Answering
<1>2. BlockInv(a, e, cur, rest, q1, l, c)
  <2>1. m.type \in CommandTypes
    BY DEF Answering, CommandTypes
  <2> QED
    BY <1>1, <2>1, BlockForgets
<1>6. FullMap /\ m.type \in {"INV_REQ", "FLUSH_REQ"} =>
        /\ Awaits(e, cur, k) /\ ~ Has(q1[k], About({"UPGRADE_REP"}, a))
        /\ m.type = "INV_REQ" => e.state = "SHARED"
  <2>1. NodeInv(a, k, e, cur, rest, q[Home[a]], q[k], l[k], c[k]) /\ Drops(q[k], q1[k], m)
    BY <1>1 DEF BlockInv, Takes
  <2> QED
    BY <1>1, <2>1, CommandedAwaits
<1>3. CASE m.type = "INV_REQ" /\ w.type = "INV_REP" /\ Changes(l, l2, k, "INVALID")
  <2>1. w.type \in Lost
    BY <1>3 DEF Lost
  <2> QED
    BY <1>1, <1>2, <1>3, <1>6, <2>1, BlockLoses
<1>4. CASE m.type = "FLUSH_REQ" /\ w.type = "FLUSH_REP" /\ Changes(l, l2, k, "INVALID")
  <2>1. NodeInv(a, k, e, cur, rest, q[Home[a]], q[k], l[k], c[k]) /\ Drops(q[k], q1[k], m)
    BY <1>1 DEF BlockInv, Takes
  <2>2. /\ Owns(e, k) \/ UpgradeFlushes(e, cur, k)
        /\ ~ Has(q[Home[a]], From({"WB_REP"}, a, k)) /\ ~ Has(q1[k], About({"UPGRADE_REP"}, a))
    BY <1>1, <1>4, <2>1, CommandedMayFlush
  <2>3. ~ Has(q1[Home[a]], From({"WB_REP"}, a, k))
    <3>1. q1[Home[a]] = q[Home[a]] \/ Drops(q[Home[a]], q1[Home[a]], m)
      BY <1>1 DEF Takes
    <3> QED
      BY <2>2, <3>1 DEF Drops
  <2>4. w.type \in Lost
    BY <1>4 DEF Lost
  <2> QED
    BY <1>1, <1>2, <1>4, <1>6, <2>2, <2>3, <2>4, BlockLoses
<1>5. CASE /\ m.type = "WB_REQ" /\ w.type = "WB_REP"
           /\ Changes(l, l2, k, IF l[k] = "SHARED_UPGRADING" THEN l[k] ELSE "SHARED")
  BY <1>1, <1>5, BlockWritesBack
<1> QED
  BY <1>3, <1>4, <1>5 DEF Answering

\* INV_REQ, FLUSH_REQ and WB_REQ
LEMMA ProcessCommandCoherent ==
  ASSUME TypeInv, CoherenceInv, UNCHANGED directoryVars, NEW n \in Nodes, ProcessCommand(n)
  PROVE  CoherenceInv'
<1>1. PICK m, s : m = Received(n) /\ s = Consume(n)
  OBVIOUS
<1>2. PICK a, l : a = m.addr /\ l = line[n][a]
  OBVIOUS
<1>3. /\ m \in Msgs /\ m.type \in CommandTypes /\ a \in Addrs /\ m.addr = a /\ m.sender = Home[a]
      /\ QueuesOK(s) /\ Takes(queue, s, n, m) /\ job[n] = Recv
      /\ \A b \in Addrs : Seen(b, queue, LineStates(b), CoreStates(b))
      /\ \A b \in Addrs : b # a => Seen(b, s, LineStates(b), CoreStates(b))
  <2>1. Receives(n, CommandTypes)
    BY DEF ProcessCommand
  <2> QED
    BY <1>1, <1>2, <2>1, CacheFinds
<1>4. LinesOK(line) /\ l \in Lines /\ (l.state # "INVALID" => l.data \in Data) /\ l.state \in CStates
  BY <1>2, <1>3 DEF TypeInv, LinesOK, Lines
<1>5. CacheMoves(n) /\ \A b : CoreStates(b)' = CoreStates(b)
  BY DEF ProcessCommand, CacheMoves, CoreStates, CoreState
<1>6. CASE l.state = "INVALID"
  <2>1. queue' = s /\ line' = line
    BY <1>1, <1>2, <1>6 DEF ProcessCommand
  <2>2. \A b : LineStates(b)' = LineStates(b)
    BY <2>1 DEF LineStates
  <2>3. Seen(a, s, LineStates(a), CoreStates(a))
    BY <1>3, BlockForgets DEF Seen
  <2>4. \A b \in Addrs : Seen(b, queue', LineStates(b)', CoreStates(b)')
    BY <1>3, <1>5, <2>1, <2>2, <2>3
  <2>5. \A b \in Addrs : Coherent(b)'
    BY <1>5, <2>4, CacheKeepsDirectory
  <2> QED
    BY <2>5 DEF CoherenceInv
<1>7. CASE l.state # "INVALID"
  <2>1. PICK w, l2 :
          /\ w = CASE m.type = "INV_REQ"   -> Msg("INV_REP", a, n, Null)
                   [] m.type = "FLUSH_REQ" -> Msg("FLUSH_REP", a, n, l.data)
                   [] m.type = "WB_REQ"    ->
                        Msg("WB_REP", a, n, IF l.state = "SHARED_UPGRADING" THEN Garbage ELSE l.data)
          /\ l2 = IF m.type # "WB_REQ" THEN NoLine
                  ELSE IF l.state = "SHARED_UPGRADING" THEN l ELSE [l EXCEPT !.state = "SHARED"]
    OBVIOUS
  <2>2. queue' = Send(s, {To(Home[a], w)}) /\ line' = [line EXCEPT ![n][a] = l2]
    BY <1>1, <1>2, <1>3, <1>7, <2>1 DEF ProcessCommand
  <2>3. w \in Deliverable(Home[a])
    <3>1. Garbage \in Data
      BY DEF Data
    <3>2. /\ Msg("INV_REP", a, n, Null) \in Deliverable(Home[a])
          /\ \A d \in Data : /\ Msg("FLUSH_REP", a, n, d) \in Deliverable(Home[a])
                             /\ Msg("WB_REP", a, n, d) \in Deliverable(Home[a])
      BY <1>3, MessageTypes
    <3> QED
      BY <1>3, <1>4, <1>7, <2>1, <3>1, <3>2 DEF CommandTypes
  <2>4. /\ w \in Msgs /\ w.addr = a /\ w.sender = n
        /\ \/ m.type = "INV_REQ" /\ w.type = "INV_REP" /\ l2.state = "INVALID"
           \/ m.type = "FLUSH_REQ" /\ w.type = "FLUSH_REP" /\ l2.state = "INVALID"
           \/ /\ m.type = "WB_REQ" /\ w.type = "WB_REP"
              /\ l2.state = IF l.state = "SHARED_UPGRADING" THEN l.state ELSE "SHARED"
    <3>1. w \in Msgs
      BY <2>3 DEF Deliverable
    <3>2. \A t, d : Msg(t, a, n, d).type = t /\ Msg(t, a, n, d).addr = a /\ Msg(t, a, n, d).sender = n
      BY DEF Msg
    <3>3. NoLine.state = "INVALID"
      BY DEF NoLine
    <3>4. [l EXCEPT !.state = "SHARED"].state = "SHARED"
      BY <1>4 DEF Lines
    <3> QED
      <4>1. m.type = "INV_REQ" \/ m.type = "FLUSH_REQ" \/ m.type = "WB_REQ"
        BY <1>3 DEF CommandTypes
      <4>2. CASE m.type = "INV_REQ"
        <5>1. w = Msg("INV_REP", a, n, Null) /\ l2.state = "INVALID"
          BY <2>1, <3>3, <4>2
        <5> QED
          BY <3>1, <3>2, <4>2, <5>1
      <4>3. CASE m.type = "FLUSH_REQ"
        <5>1. w = Msg("FLUSH_REP", a, n, l.data) /\ l2.state = "INVALID"
          BY <2>1, <3>3, <4>3
        <5> QED
          BY <3>1, <3>2, <4>3, <5>1
      <4>4. CASE m.type = "WB_REQ"
        <5>1. /\ w = Msg("WB_REP", a, n, IF l.state = "SHARED_UPGRADING" THEN Garbage ELSE l.data)
              /\ l2.state = IF l.state = "SHARED_UPGRADING" THEN l.state ELSE "SHARED"
          BY <2>1, <3>4, <4>4
        <5> QED
          BY <3>1, <3>2, <4>4, <5>1
      <4> QED
        BY <4>1, <4>2, <4>3, <4>4
  <2>5. Sends(s, queue', {To(Home[a], w)}) /\ Concerns({To(Home[a], w)}, a)
    BY <1>3, <2>2, <2>3, <2>4, SendableOne, SendSends
  <2>6. /\ Changes(LineStates(a), LineStates(a)', n, l2.state)
        /\ \A b \in Addrs : b # a => LineStates(b)' = LineStates(b)
    <3>1. \A k \in Nodes, b \in Addrs : line'[k][b] = IF k = n /\ b = a THEN l2 ELSE line[k][b]
      BY <1>3, <1>4, <2>2 DEF LinesOK
    <3> QED
      BY <1>3, <3>1 DEF LineStates, Changes
  <2>7. LineStates(a)[n] = l.state
    BY <1>2 DEF LineStates
  <2>8. Answering(a, n, m, w, queue, s, queue', LineStates(a), LineStates(a)')
    BY <1>3, <1>4, <1>7, <2>4, <2>5, <2>6, <2>7 DEF Answering
  <2>9. Seen(a, queue', LineStates(a)', CoreStates(a))
    BY <1>3, <2>8, BlockAnswers DEF Seen
  <2>10. ASSUME NEW b \in Addrs, b # a PROVE Seen(b, queue', LineStates(b)', CoreStates(b))
    BY <1>3, <2>5, <2>6, <2>10, OthersForeign, BlockSendsForeign DEF Seen
  <2>11. \A b \in Addrs : Coherent(b)'
    BY <1>5, <2>9, <2>10, CacheKeepsDirectory
  <2> QED
    BY <2>11 DEF CoherenceInv
<1> QED
  BY <1>6, <1>7

-----------------------------------------------------------------------------
(* The accesses of the cores.                                              *)

\* What the cores do after an access of n to block a, which is a write if x: the woken
\* core that wrote has been served then.
AfterAccess(n, a, x, d) ==
  /\ \A b \in Addrs : b # a => CoreStates(b)' = CoreStates(b)
  /\ Changes(CoreStates(a), CoreStates(a)', n, d)
  /\ \/ d = CoreStates(a)[n]
     \/ x /\ CoreStates(a)[n] = "writing" /\ d = "served"

\* The access of a core whose line permits it.
LEMMA AccessCoherent ==
  ASSUME TypeInv, CoherenceInv, UNCHANGED directoryVars, queue' = queue, job' = job,
         NEW n \in Nodes, NEW a \in Addrs, NEW x \in BOOLEAN,
         Hits(line[n][a].state, x), Access(n, a, x),
         NEW d, AfterAccess(n, a, x, d)
  PROVE  CoherenceInv'
<1>1. CacheMoves(n)
  BY DEF CacheMoves
<1>6. /\ \A b \in Addrs : b # a => CoreStates(b)' = CoreStates(b)
      /\ Changes(CoreStates(a), CoreStates(a)', n, d)
      /\ d = CoreStates(a)[n] \/ (x /\ CoreStates(a)[n] = "writing" /\ d = "served")
  BY DEF AfterAccess
<1>2. LinesOK(line)
  BY DEF TypeInv
<1>3. \A b \in Addrs : Seen(b, queue, LineStates(b), CoreStates(b))
  BY DEF CoherenceInv, Coherent, Seen
<1>4. CASE x
  <2>1. LineStates(a)[n] \in {"EXCLUSIVE", "MODIFIED"}
    BY <1>4 DEF Hits, Permissible, Writable, LineStates
  <2>2. PICK l : l.state = "MODIFIED" /\ line' = [line EXCEPT ![n][a] = l]
    <3>1. \A v : [state |-> "MODIFIED", data |-> v].state = "MODIFIED"
      OBVIOUS
    <3> QED
      BY <1>4, <3>1 DEF Access
  <2>3. \A k \in Nodes, b \in Addrs : line'[k][b] = IF k = n /\ b = a THEN l ELSE line[k][b]
    BY <1>2, <2>2 DEF LinesOK
  <2>4. /\ Changes(LineStates(a), LineStates(a)', n, "MODIFIED")
        /\ \A b \in Addrs : b # a => LineStates(b)' = LineStates(b)
    BY <2>2, <2>3 DEF LineStates, Changes
  <2>5. Seen(a, queue, LineStates(a)', CoreStates(a)')
    BY <1>3, <1>6, <2>1, <2>4, BlockWrites DEF Seen
  <2>6. \A b \in Addrs : Seen(b, queue', LineStates(b)', CoreStates(b)')
    BY <1>1, <1>3, <1>6, <2>4, <2>5
  <2>7. \A b \in Addrs : Coherent(b)'
    BY <1>1, <2>6, CacheKeepsDirectory
  <2> QED
    BY <2>7 DEF CoherenceInv
<1>5. CASE ~ x
  <2>1. \A b : LineStates(b)' = LineStates(b)
    BY <1>5 DEF Access, LineStates
  <2>4. \A k \in Nodes : CoreStates(a)'[k] = CoreStates(a)[k]
    BY <1>5, <1>6 DEF Changes
  <2>2. \A b \in Addrs : Seen(b, queue', LineStates(b)', CoreStates(b)')
    BY <1>1, <1>3, <1>6, <2>1, <2>4 DEF Seen, BlockInv
  <2>3. \A b \in Addrs : Coherent(b)'
    BY <1>1, <2>2, CacheKeepsDirectory
  <2> QED
    BY <2>3 DEF CoherenceInv
<1> QED
  BY <1>4, <1>5

\* A woken core that writes has been served; nobody else notices.
LEMMA ResumedStates ==
  ASSUME TypeInv, NEW c \in Cores, pc[c] = "woken", pc' = [pc EXCEPT ![c] = "idle"],
         job' = job, waiters' = waiters, NEW n, n = LLC[c], NEW a \in Addrs,
         job[n] = Busy("waiters", a)
  PROVE  \E d : AfterAccess(n, a, Head(waiters[n][a]).exclusive, d)
<1>1. n \in Nodes /\ pc \in [Cores -> {"idle", "waiting", "woken"}]
  BY DEF TypeInv, TypeOK, LastLevelCacheTypeOK
<1>2. ASSUME NEW k \in Nodes, NEW b \in Addrs, k # n \/ b # a
      PROVE  CoreStates(b)'[k] = CoreStates(b)[k]
  <2>1. ASSUME job[k] = Busy("waiters", b)
        PROVE  pc'[Head(waiters[k][b]).core] = pc[Head(waiters[k][b]).core]
    <3>1. k # n
      BY <1>2, <2>1 DEF Busy
    <3>2. Head(waiters[k][b]).core \in Cores /\ LLC[Head(waiters[k][b]).core] = k
      BY <2>1, ServedCore
    <3> QED
      BY <1>1, <3>1, <3>2
  <2> QED
    BY <2>1, SameCoreState
<1>3. \A b \in Addrs : b # a => CoreStates(b)' = CoreStates(b)
  BY <1>2 DEF CoreStates
<1>4. Changes(CoreStates(a), CoreStates(a)', n, CoreStates(a)'[n])
  BY <1>2 DEF Changes
<1> DEFINE w == Head(waiters[n][a])
           x == w.exclusive
<1>5. /\ CoreStates(a)[n] = IF x /\ pc[w.core] = "woken" THEN "writing" ELSE "served"
      /\ CoreStates(a)'[n] = IF x /\ pc'[w.core] = "woken" THEN "writing" ELSE "served"
  BY <1>1 DEF CoreStates, CoreState
<1>6. w.core \in Cores
  BY <1>1, ServedCore
<1>7. pc'[w.core] = IF w.core = c THEN "idle" ELSE pc[w.core]
  BY <1>1, <1>6
<1> HIDE DEF w, x
<1>8. \/ CoreStates(a)'[n] = CoreStates(a)[n]
      \/ x /\ CoreStates(a)[n] = "writing" /\ CoreStates(a)'[n] = "served"
  BY <1>5, <1>7
<1> QED
  <2>1. AfterAccess(n, a, x, CoreStates(a)'[n])
    BY <1>3, <1>4, <1>8 DEF AfterAccess
  <2> QED
    BY <2>1 DEF w, x

\* The access of a woken core.
LEMMA ResumeCoherent ==
  ASSUME TypeInv, CoherenceInv, UNCHANGED directoryVars, NEW c \in Cores, Resume(c)
  PROVE  CoherenceInv'
<1> DEFINE n == LLC[c]
           a == job[n].addr
           w == Head(waiters[n][a])
<1>1. /\ pc[c] = "woken" /\ pc' = [pc EXCEPT ![c] = "idle"]
      /\ queue' = queue /\ job' = job /\ waiters' = waiters
  BY DEF Resume
<1>2. Hits(line[n][a].state, w.exclusive) /\ Access(n, a, w.exclusive)
  BY Zenon DEF Resume
<1>3. n = LLC[c] /\ n \in Nodes /\ job[n].at = "waiters" /\ job[n] \in Jobs /\ a = job[n].addr
  BY <1>1 DEF TypeInv, JobsOK, TypeOK, SimThreadsTypeOK
<1>4. a \in Addrs
  BY <1>3 DEF TypeInv, JobsOK
<1> HIDE DEF n, a
<1>5. job[n] = Busy("waiters", a)
  BY <1>3 DEF Jobs, Busy
<1>6. PICK d : AfterAccess(n, a, w.exclusive, d)
  BY <1>1, <1>3, <1>4, <1>5, ResumedStates, Zenon
<1>7. w.exclusive \in BOOLEAN
  BY <1>3, <1>4, <1>5, ServedCore DEF Waiters
<1> DEFINE x == w.exclusive
<1>8. Hits(line[n][a].state, x) /\ Access(n, a, x) /\ x \in BOOLEAN /\ AfterAccess(n, a, x, d)
  BY <1>2, <1>6, <1>7, Zenon
<1> HIDE DEF x
<1> QED
  BY <1>1, <1>3, <1>4, <1>8, AccessCoherent

\* The access that hits, and the access of a woken core.
LEMMA HitCoherent ==
  ASSUME TypeInv, CoherenceInv, UNCHANGED directoryVars, NEW c \in Cores,
         (\E a \in Addrs, x \in BOOLEAN : Hit(c, a, x)) \/ Resume(c)
  PROVE  CoherenceInv'
<1>1. LLC[c] \in Nodes
  OBVIOUS
<1>2. ASSUME NEW a \in Addrs, NEW x \in BOOLEAN, Hit(c, a, x) PROVE CoherenceInv'
  <2>1. /\ Hits(line[LLC[c]][a].state, x) /\ Access(LLC[c], a, x)
        /\ queue' = queue /\ job' = job /\ waiters' = waiters /\ pc' = pc
    BY <1>2 DEF Hit
  <2>2. \A b \in Addrs : CoreStates(b)' = CoreStates(b)
    BY <2>1 DEF CoreStates, CoreState
  <2>3. Changes(CoreStates(a), CoreStates(a)', LLC[c], CoreStates(a)[LLC[c]])
    BY <2>2 DEF Changes
  <2>4. AfterAccess(LLC[c], a, x, CoreStates(a)[LLC[c]])
    BY <2>2, <2>3 DEF AfterAccess
  <2> QED
    BY <1>1, <2>1, <2>4, AccessCoherent
<1>3. ASSUME Resume(c) PROVE CoherenceInv'
  BY <1>3, ResumeCoherent
<1> QED
  BY <1>2, <1>3

\* The waiters after a core has joined them.
LEMMA JoinedStates ==
  ASSUME TypeInv, NEW n \in Nodes, NEW a \in Addrs, NEW w \in WaitersOf(n), UNCHANGED job,
         pc[w.core] = "idle", pc' = [pc EXCEPT ![w.core] = "waiting"],
         waiters' = [waiters EXCEPT ![n][a] = Append(@, w)]
  PROVE  /\ \A b \in Addrs : b # a => CoreStates(b)' = CoreStates(b)
         /\ waiters[n][a] # <<>> => CoreStates(a)' = CoreStates(a)
         /\ waiters[n][a] = <<>> =>
              /\ CoreStates(a)[n] = "none"
              /\ Changes(CoreStates(a), CoreStates(a)', n, IF w.exclusive THEN "writes" ELSE "reads")
<1>1. waiters \in [Nodes -> [Addrs -> Seq(Waiters)]] /\ Busy("waiters", a).at = "waiters"
      /\ Busy("waiters", a).addr = a
  BY DEF TypeInv, TypeOK, LastLevelCacheTypeOK, Busy
<1>2. waiters[n][a] = <<>> => job[n] # Busy("waiters", a)
  BY <1>1 DEF TypeInv, JobsOK
<1>3. PICK s : s = Append(waiters[n][a], w)
  OBVIOUS
<1>4. s # <<>>
  <2>1. \A q \in Seq(Waiters) : Append(q, w) # <<>>
    BY DEF WaitersOf
  <2>2. waiters[n][a] \in Seq(Waiters)
    BY <1>1
  <2> QED
    BY <1>3, <2>1, <2>2
<1>5. waiters' = [waiters EXCEPT ![n][a] = s]
  BY <1>3
<1>6. \A k \in Nodes, b \in Addrs : waiters'[k][b] = IF k = n /\ b = a THEN s ELSE waiters[k][b]
  <2>1. waiters' = Put(waiters, n, a, s)
    BY <1>5 DEF Put
  <2>2. WaitersOK(waiters) /\ s \in Seq(WaitersOf(n))
    <3>1. waiters[n][a] \in Seq(WaitersOf(n))
      BY DEF TypeInv, WaitersOK
    <3> QED
      BY <1>3, <3>1 DEF TypeInv
  <2>3. PICK f : f = Put(waiters, n, a, s)
    OBVIOUS
  <2>4. \A k \in Nodes, b \in Addrs : f[k][b] = IF k = n /\ b = a THEN s ELSE waiters[k][b]
    BY <2>2, <2>3, PutWaiters
  <2>5. waiters' = f
    BY <2>1, <2>3
  <2>6. ASSUME NEW k \in Nodes, NEW b \in Addrs
        PROVE  waiters'[k][b] = IF k = n /\ b = a THEN s ELSE waiters[k][b]
    <3>1. waiters'[k][b] = f[k][b]
      BY <2>5
    <3>2. f[k][b] = IF k = n /\ b = a THEN s ELSE waiters[k][b]
      BY <2>4
    <3> QED
      BY <3>1, <3>2
  <2> QED
    BY <2>6
<1>7. job' = job /\ pc \in [Cores -> {"idle", "waiting", "woken"}]
  BY DEF TypeInv, TypeOK, LastLevelCacheTypeOK
<1>8. ASSUME NEW k \in Nodes, NEW b \in Addrs, k # n \/ b # a \/ waiters[n][a] # <<>>
      PROVE  CoreStates(b)'[k] = CoreStates(b)[k]
  <2>1. waiters'[k][b] = IF k = n /\ b = a THEN s ELSE waiters[k][b]
    BY <1>6
  <2>2. Head(waiters'[k][b]) = Head(waiters[k][b]) /\ (waiters'[k][b] = <<>> <=> waiters[k][b] = <<>>)
    <3>1. CASE k = n /\ b = a
      <4>1. waiters[n][a] \in Seq(Waiters) /\ waiters[n][a] # <<>>
        BY <1>1, <1>8, <3>1
      <4>2. Head(s) = Head(waiters[n][a])
        BY <1>3, <4>1
      <4> QED
        BY <1>4, <2>1, <3>1, <4>1, <4>2
    <3>2. CASE ~ (k = n /\ b = a)
      BY <2>1, <3>2
    <3> QED
      BY <3>1, <3>2
  <2>3. ASSUME job[k] = Busy("waiters", b)
        PROVE  pc'[Head(waiters[k][b]).core] = "woken" <=> pc[Head(waiters[k][b]).core] = "woken"
    <3>1. Head(waiters[k][b]).core \in Cores
      BY <2>3, ServedCore
    <3> QED
      BY <1>7, <3>1
  <2> QED
    BY <1>7, <2>2, <2>3, SameCoreState
<1>9. \A b \in Addrs : b # a => CoreStates(b)' = CoreStates(b)
  BY <1>8 DEF CoreStates
<1>10. waiters[n][a] # <<>> => CoreStates(a)' = CoreStates(a)
  BY <1>8 DEF CoreStates
<1>11. ASSUME waiters[n][a] = <<>>
       PROVE  /\ CoreStates(a)[n] = "none"
              /\ Changes(CoreStates(a), CoreStates(a)', n, IF w.exclusive THEN "writes" ELSE "reads")
  <2>1. CoreStates(a)[n] = "none"
    BY <1>2, <1>11 DEF CoreStates, CoreState
  <2>2. waiters'[n][a] = s /\ Head(s) = w
    <3>1. waiters'[n][a] = s
      BY <1>6
    <3>2. s = Append(<<>>, w)
      BY <1>3, <1>11
    <3> QED
      BY <3>1, <3>2
  <2>3. CoreStates(a)'[n] =
          IF job'[n] = Busy("waiters", a)
          THEN IF Head(waiters'[n][a]).exclusive /\ pc'[Head(waiters'[n][a]).core] = "woken"
               THEN "writing" ELSE "served"
          ELSE IF waiters'[n][a] = <<>> THEN "none"
          ELSE IF Head(waiters'[n][a]).exclusive THEN "writes" ELSE "reads"
    BY DEF CoreStates, CoreState
  <2>4. CoreStates(a)'[n] = IF w.exclusive THEN "writes" ELSE "reads"
    BY <1>2, <1>4, <1>7, <1>11, <2>2, <2>3
  <2>5. \A k \in Nodes : k # n => CoreStates(a)'[k] = CoreStates(a)[k]
    BY <1>8
  <2> QED
    BY <2>1, <2>4, <2>5 DEF Changes
<1> QED
  BY <1>9, <1>10, <1>11


\* The access that misses.
LEMMA MissCoherent ==
  ASSUME TypeInv, CoherenceInv, UNCHANGED directoryVars, NEW c \in Cores,
         NEW a \in Addrs, NEW x \in BOOLEAN, Miss(c, a, x)
  PROVE  CoherenceInv'
<1>1. PICK n, w, t : /\ n = LLC[c] /\ w = [core |-> c, exclusive |-> x]
                     /\ t = IF ~ x THEN "SH_REQ"
                            ELSE IF line[n][a].state = "SHARED" THEN "UPGRADE_REQ" ELSE "EX_REQ"
  OBVIOUS
<1> DEFINE d == IF x THEN "writes" ELSE "reads"
<1>2. /\ n \in Nodes /\ w \in WaitersOf(n) /\ t \in RequestTypes
      /\ t = "UPGRADE_REQ" \/ t \in Misses
  BY <1>1 DEF Waiters, WaitersOf, RequestTypes, Misses
<1>3. /\ ~ Hits(line[n][a].state, x)
      /\ waiters' = [waiters EXCEPT ![n][a] = Append(@, w)]
      /\ queue' = IF waiters[n][a] = <<>> THEN Send(queue, Request(n, t, a)) ELSE queue
      /\ line' = IF waiters[n][a] = <<>> /\ t = "UPGRADE_REQ"
                 THEN SetState(line, n, a, "SHARED_UPGRADING") ELSE line
      /\ UNCHANGED job
      /\ pc[w.core] = "idle" /\ pc' = [pc EXCEPT ![w.core] = "waiting"]
  BY <1>1 DEF Miss, NobodyWaits, SetState
<1>4. /\ \A b \in Addrs : b # a => CoreStates(b)' = CoreStates(b)
      /\ waiters[n][a] # <<>> => CoreStates(a)' = CoreStates(a)
      /\ waiters[n][a] = <<>> =>
           CoreStates(a)[n] = "none" /\ Changes(CoreStates(a), CoreStates(a)', n, d)
  <2>1. w.exclusive = x
    BY <1>1
  <2> HIDE DEF d
  <2>2. waiters[n][a] = <<>> =>
           /\ CoreStates(a)[n] = "none"
           /\ Changes(CoreStates(a), CoreStates(a)', n, IF w.exclusive THEN "writes" ELSE "reads")
    BY <1>2, <1>3, JoinedStates
  <2>3. /\ \A b \in Addrs : b # a => CoreStates(b)' = CoreStates(b)
        /\ waiters[n][a] # <<>> => CoreStates(a)' = CoreStates(a)
    BY <1>2, <1>3, JoinedStates, ZenonT(20)
  <2> QED
    BY <2>1, <2>2, <2>3 DEF d
<1>10. d \in Waits /\ (t \in Writes => d = "writes") /\ (t = "UPGRADE_REQ" => d = "writes")
       /\ "none" \notin Waits
  BY <1>1 DEF Waits, Writes
<1> HIDE DEF d
<1>5. LinesOK(line) /\ QueuesOK(queue) /\ CacheMoves(n) /\ line[n][a].state \in CStates
  BY <1>2, <1>3 DEF TypeInv, CacheMoves, LinesOK, Lines
<1>6. /\ \A b \in Addrs : Seen(b, queue, LineStates(b), CoreStates(b))
      /\ \A b : LineStates(b) = States(line, b) /\ LineStates(b)' = States(line', b)
  BY DEF CoherenceInv, Coherent, Seen, LineStates, States
<1>9. n \in Caches
  BY <1>1 DEF Caches
<1>7. CASE waiters[n][a] # <<>>
  <2>1. \A b \in Addrs : Seen(b, queue', LineStates(b)', CoreStates(b)')
    BY <1>3, <1>4, <1>6, <1>7
  <2>2. \A b \in Addrs : Coherent(b)'
    BY <1>2, <1>5, <2>1, CacheKeepsDirectory
  <2> QED
    BY <2>2 DEF CoherenceInv
<1>8. CASE waiters[n][a] = <<>>
  <2>1. CoreStates(a)[n] = "none" /\ Changes(CoreStates(a), CoreStates(a)', n, d)
    BY <1>4, <1>8
  <2>2. PICK m : m = Msg(t, a, n, Null)
    OBVIOUS
  <2>3. m \in Deliverable(Home[a]) /\ m \in Msgs /\ m.type = t /\ m.addr = a /\ m.sender = n
    <3>1. m \in Deliverable(Home[a])
      BY <1>2, <2>2, MessageTypes
    <3> QED
      BY <2>2, <3>1 DEF Deliverable, Msg
  <2>4. Sends(queue, queue', {To(Home[a], m)}) /\ Concerns({To(Home[a], m)}, a)
    <3>1. queue' = Send(queue, {To(Home[a], m)})
      BY <1>3, <1>8, <2>2 DEF Request
    <3> QED
      BY <1>5, <2>3, <3>1, SendableOne, SendSends
  <2>5. LineStates(a)[n] # "SHARED_UPGRADING"
    <3>1. \E e, cur, rest, h, q : Requests(a, n, cur, rest, h, q, LineStates(a)[n], CoreStates(a)[n])
      BY <1>2, <1>6 DEF Seen, BlockInv, NodeInv
    <3> QED
      BY <1>10, <2>1, <3>1 DEF Requests
  <2>6. LineStates(a)[n] = line[n][a].state
    BY <1>2 DEF LineStates
  <2>7. CASE t = "UPGRADE_REQ"
    <3>1. line[n][a].state = "SHARED" /\ "SHARED_UPGRADING" \in CStates
      BY <1>1, <2>7 DEF CStates
    <3>2. line[n][a].state # "INVALID"
      BY <3>1
    <3>3. line' = SetState(line, n, a, "SHARED_UPGRADING")
      BY <1>3, <1>8, <2>7
    <3>4. /\ Changes(LineStates(a), LineStates(a)', n, "SHARED_UPGRADING")
          /\ \A b \in Addrs : b # a => LineStates(b)' = LineStates(b)
      BY <1>2, <1>5, <1>6, <3>1, <3>2, <3>3, StateSet
    <3>5. Seen(a, queue', LineStates(a)', CoreStates(a)')
      <4>1. CoreStates(a)[n] \notin Waits /\ LineStates(a)[n] = "SHARED" /\ d = "writes"
        BY <1>10, <2>1, <2>6, <2>7, <3>1
      <4> QED
        BY <1>2, <1>6, <1>9, <2>1, <2>3, <2>4, <2>7, <3>4, <4>1, BlockAsksUpgrade DEF Seen
    <3>6. ASSUME NEW b \in Addrs, b # a PROVE Seen(b, queue', LineStates(b)', CoreStates(b)')
      <4>1. Seen(b, queue, LineStates(b)', CoreStates(b)')
        BY <1>4, <1>6, <3>4, <3>6
      <4> QED
        BY <2>4, <3>6, <4>1, OthersForeign, BlockSendsForeign DEF Seen
    <3>7. \A b \in Addrs : Coherent(b)'
      BY <1>2, <1>5, <3>5, <3>6, CacheKeepsDirectory
    <3> QED
      BY <3>7 DEF CoherenceInv
  <2>8. CASE t \in Misses
    <3>1. line' = line
      BY <1>3, <2>8 DEF Misses
    <3>2. \A b : LineStates(b)' = LineStates(b)
      BY <3>1 DEF LineStates
    <3>3. LineStates(a)[n] = "INVALID"
      <4>1. line[n][a].state # "SHARED" \/ ~ x
        BY <1>1, <2>8 DEF Misses
      <4> QED
        BY <1>3, <1>5, <2>5, <2>6, <4>1 DEF Hits, Permissible, Readable, Writable, CStates
    <3>4. Seen(a, queue', LineStates(a)', CoreStates(a)')
      <4>1. /\ CoreStates(a)[n] \notin Waits /\ m.type \in Misses
            /\ d \in Waits /\ (m.type \in Writes => d = "writes")
        BY <1>10, <2>1, <2>3, <2>8
      <4>2. Seen(a, queue', LineStates(a), CoreStates(a)')
        BY <1>2, <1>6, <1>9, <2>1, <2>3, <2>4, <3>3, <4>1, BlockAsks DEF Seen
      <4> QED
        BY <3>2, <4>2
    <3>5. ASSUME NEW b \in Addrs, b # a PROVE Seen(b, queue', LineStates(b)', CoreStates(b)')
      <4>1. Seen(b, queue, LineStates(b)', CoreStates(b)')
        BY <1>4, <1>6, <3>2, <3>5
      <4> QED
        BY <2>4, <3>5, <4>1, OthersForeign, BlockSendsForeign DEF Seen
    <3>6. \A b \in Addrs : Coherent(b)'
      BY <1>2, <1>5, <3>4, <3>5, CacheKeepsDirectory
    <3> QED
      BY <3>6 DEF CoherenceInv
  <2> QED
    BY <1>2, <2>7, <2>8
<1> QED
  BY <1>7, <1>8

-----------------------------------------------------------------------------
(* The invariant holds in every state.                                     *)

\* At the start there is nothing under way and nobody has a copy.
LEMMA InitCoherent == Init => CoherenceInv
<1> SUFFICES ASSUME Init, NEW a \in Addrs PROVE Coherent(a)
  BY DEF CoherenceInv
<1>1. /\ \A n \in Nodes : /\ queue[n] = <<>> /\ job[n] = Recv
                          /\ line[n][a] = NoLine /\ waiters[n][a] = <<>>
      /\ dir[a] = NoEntry /\ reqs[a] = <<>>
  BY DEF Init, SimThreadsInit, DirectoryInit, LastLevelCacheInit
<1>2. /\ Current(a) = NoReq /\ Waiting(a) = <<>>
      /\ \A n \in Nodes : LineStates(a)[n] = "INVALID" /\ CoreStates(a)[n] = "none"
  BY <1>1 DEF Current, Waiting, LineStates, CoreStates, CoreState, NoLine, Recv, Busy
<1>3. NoEntry.state = "UNCACHED"
  BY DEF NoEntry
<1>4. \A S, T, U : ~ Has(<<>>, S) /\ ~ Precedes(<<>>, S, T) /\ ~ Precedes3(<<>>, S, T, U)
  BY EmptyHas
<1>5. ReqInv(a, NoEntry, NoReq, <<>>, <<>>)
  BY <1>4, NoReqAsks DEF ReqInv
<1>6. ASSUME NEW n \in Nodes PROVE NodeInv(a, n, NoEntry, NoReq, <<>>, <<>>, <<>>, "INVALID", "none")
  <2>1. /\ ~ Granted(NoReq, n) /\ \A T : ~ Asked(NoReq, <<>>, T, n)
        /\ NoReq.type \notin RequestTypes /\ \A t : ~ Live(a, <<>>, t, "INVALID")
    BY <1>4, NoReqAsks DEF Asked, NoReq, Live
  <2> QED
    BY <1>4, <2>1, <1>3 DEF NodeInv, Tokens, Ownership, WriteBacks, Flushes, Requests, Accounts,
       Invalidations, Writers, Owns, Waits, NoEntry
<1> QED
  BY <1>1, <1>2, <1>5, <1>6 DEF Coherent, BlockInv

\* Every step keeps it.
LEMMA StepCoherent == TypeInv /\ CoherenceInv /\ [Next]_vars => CoherenceInv'
<1> SUFFICES ASSUME TypeInv, CoherenceInv, [Next]_vars PROVE CoherenceInv'
  OBVIOUS
<1>1. CASE UNCHANGED vars
  <2>1. /\ queue' = queue /\ job' = job /\ dir' = dir /\ reqs' = reqs
        /\ line' = line /\ waiters' = waiters /\ pc' = pc
    BY <1>1 DEF vars, simThreadVars, directoryVars, cacheVars
  <2> QED
    BY <2>1 DEF CoherenceInv, Coherent, Current, Waiting, LineStates, CoreStates, CoreState
<1>2. CASE \E n \in Nodes : SimThreadStep(n)
  <2>1. PICK n \in Nodes : SimThreadStep(n)
    BY <1>2
  <2>2. CASE DirectoryStep(n) /\ UNCHANGED cacheVars
    BY <2>2, DirectoryStepCoherent
  <2>3. CASE CacheStep(n) /\ UNCHANGED directoryVars
    BY <2>3, ProcessRepCoherent, ProcessUpgradeRepCoherent, NextWaiterCoherent,
       ProcessCommandCoherent DEF CacheStep
  <2> QED
    BY <2>1, <2>2, <2>3 DEF SimThreadStep
<1>3. CASE \E c \in Cores : CoreRuns(c)
  BY <1>3, HitCoherent, MissCoherent DEF CoreRuns, CoreStep
<1> QED
  BY <1>1, <1>2, <1>3 DEF Next, Done

\* For each block and each node, the copy is in one place at most (a cache, a message, a
\* request that is being worked on) and its node a sharer then, a cache that may write is
\* the owner, and write-backs, flushes and requests are under way only while the directory
\* or the cores wait for them: what the directory knows and what the caches do agree.
THEOREM CoherenceHolds == Spec => []CoherenceInv
<1> QED
  BY InitCoherent, StepCoherent, TypesHold, PTL DEF Spec

\* What the invariant says of the line of a node.
LEMMA LineAgrees ==
  ASSUME TypeInv, CoherenceInv, NEW a \in Addrs, NEW n \in Nodes
  PROVE  /\ Cached(n, a) => n \in dir[a].sharers
         /\ line[n][a].state \in {"MODIFIED", "EXCLUSIVE"}
              => /\ dir[a].owner = n /\ dir[a].state \in {"MODIFIED", "EXCLUSIVE"}
                 /\ dir[a].sharers = {n}
<1>1. LineStates(a)[n] = line[n][a].state
  BY DEF LineStates
<1>2. \E cur, rest, h, q, c : NodeInv(a, n, dir[a], cur, rest, h, q, LineStates(a)[n], c)
  BY DEF CoherenceInv, Coherent, BlockInv
<1>3. EntryOK(dir[a])
  BY DEF TypeInv, EntriesOK
<1>4. Cached(n, a) => n \in dir[a].sharers
  BY <1>1, <1>2 DEF NodeInv, Tokens, Cached
<1>5. line[n][a].state \in {"MODIFIED", "EXCLUSIVE"} => Owns(dir[a], n)
  BY <1>1, <1>2 DEF NodeInv, Ownership
<1> QED
  BY <1>3, <1>4, <1>5 DEF Owns, EntryOK

\* Single writer: while one cache holds a block MODIFIED or EXCLUSIVE, no other cache holds
\* the block, whatever messages cross, in every configuration.
THEOREM WriterIsAlone == Spec => []SingleWriter
<1>1. TypeInv /\ CoherenceInv => SingleWriter
  <2> SUFFICES ASSUME TypeInv, CoherenceInv, NEW a \in Addrs, NEW m \in Nodes, NEW n \in Nodes,
                      line[m][a].state \in {"MODIFIED", "EXCLUSIVE"}, m # n
               PROVE  ~ Cached(n, a)
    BY DEF SingleWriter
  <2>1. dir[a].sharers = {m} /\ (Cached(n, a) => n \in dir[a].sharers)
    BY LineAgrees
  <2> QED
    BY <2>1
<1> QED
  BY <1>1, TypesHold, CoherenceHolds, PTL

\* The directory never loses a copy, and knows the owner of each copy that may be written.
THEOREM DirectoryKnowsCopies == Spec => []DirectoryCoversCaches
<1>1. TypeInv /\ CoherenceInv => DirectoryCoversCaches
  BY LineAgrees DEF DirectoryCoversCaches
<1> QED
  BY <1>1, TypesHold, CoherenceHolds, PTL

\* max_hw_sharers bounds the copies of a block in the caches, and not only the pointers of
\* its directory entry.
THEOREM CopiesStayLimited == Spec => []CopiesAreLimited
<1>1. TypeInv /\ CoherenceInv => CopiesAreLimited
  <2> SUFFICES ASSUME TypeInv, CoherenceInv, NEW a \in Addrs
               PROVE  Cardinality({n \in Nodes : Cached(n, a)}) <= MaxHwSharers
    BY DEF CopiesAreLimited
  <2> DEFINE S == {n \in Nodes : Cached(n, a)}
             T == dir[a].sharers
  <2>1. S \subseteq T
    BY LineAgrees
  <2>2. IsFiniteSet(T) /\ Cardinality(T) <= MaxHwSharers
    BY DEF TypeInv, EntriesOK, EntryOK, FewSharers
  <2> HIDE DEF S, T
  <2>3. /\ IsFiniteSet(S) /\ Cardinality(S) <= Cardinality(T)
        /\ Cardinality(S) \in Nat /\ Cardinality(T) \in Nat
    BY <2>1, <2>2, FS_Subset, FS_CardinalityType
  <2>4. Cardinality(S) <= MaxHwSharers
    BY <2>2, <2>3
  <2> QED
    BY <2>4 DEF S
<1> QED
  BY <1>1, TypesHold, CoherenceHolds, PTL

-----------------------------------------------------------------------------
(* Requests and replies.                                                   *)

\* The invariant for one node.
LEMMA NodeHolds ==
  ASSUME CoherenceInv, NEW a \in Addrs, NEW n \in Nodes
  PROVE  NodeInv(a, n, dir[a], Current(a), Waiting(a), queue[Home[a]], queue[n],
                 line[n][a].state, CoreStates(a)[n])
<1>1. LineStates(a)[n] = line[n][a].state
  BY DEF LineStates
<1> QED
  BY <1>1 DEF CoherenceInv, Coherent, BlockInv

\* What is in the queues, as the properties say it.
LEMMA InFlightHas ==
  ASSUME TypeInv, NEW a \in Addrs, NEW n \in Nodes
  PROVE  /\ \A T : InFlight(n, a, T) = {i \in 1 .. Len(queue[n]) : queue[n][i] \in About(T, a)}
         /\ \A T : InFlightFrom(n, Home[a], a, T)
                     = {i \in 1 .. Len(queue[Home[a]]) : queue[Home[a]][i] \in From(T, a, n)}
<1>1. queue[n] \in Seq(Msgs) /\ queue[Home[a]] \in Seq(Msgs)
  BY DEF TypeInv, QueuesOK
<1>2. ASSUME NEW T
      PROVE  InFlight(n, a, T) = {i \in 1 .. Len(queue[n]) : queue[n][i] \in About(T, a)}
  BY <1>1 DEF InFlight, About
<1>3. ASSUME NEW T
      PROVE  InFlightFrom(n, Home[a], a, T)
               = {i \in 1 .. Len(queue[Home[a]]) : queue[Home[a]][i] \in From(T, a, n)}
  <2>1. \A i \in 1 .. Len(queue[Home[a]]) : queue[Home[a]][i] \in Msgs
    BY <1>1
  <2> QED
    BY <2>1 DEF InFlightFrom, InFlight, From
<1> QED
  BY <1>2, <1>3

\* A set of indices none of which is less than another has one element at most.
LEMMA AtMostOne ==
  ASSUME NEW k \in Nat, NEW S \in SUBSET (1 .. k), \A i, j \in S : ~ i < j
  PROVE  Cardinality(S) = IF S = {} THEN 0 ELSE 1
<1>1. CASE S = {}
  BY <1>1, FS_EmptySet
<1>2. CASE S # {}
  <2>1. PICK i \in S : TRUE
    BY <1>2
  <2>2. \A j \in S : j = i
    <3> SUFFICES ASSUME NEW j \in S PROVE j = i
      OBVIOUS
    <3>1. i \in Nat /\ j \in Nat /\ ~ i < j /\ ~ j < i
      BY <2>1
    <3> QED
      BY <3>1
  <2>3. S = {i}
    BY <2>1, <2>2
  <2> QED
    BY <1>2, <2>3, FS_Singleton
<1> QED
  BY <1>1, <1>2

\* What is in queue q once at most.
LEMMA OnceInQueue ==
  ASSUME NEW X, NEW q \in Seq(X), NEW C, ~ Precedes(q, C, C)
  PROVE  Cardinality({i \in 1 .. Len(q) : q[i] \in C}) = IF Has(q, C) THEN 1 ELSE 0
<1> DEFINE S == {i \in 1 .. Len(q) : q[i] \in C}
<1>1. Len(q) \in Nat /\ S \in SUBSET (1 .. Len(q))
  OBVIOUS
<1>2. \A i, j \in S : ~ i < j
  BY DEF Precedes
<1>3. S = {} <=> ~ Has(q, C)
  BY DEF Has
<1> HIDE DEF S
<1>4. Cardinality(S) = IF S = {} THEN 0 ELSE 1
  BY <1>1, <1>2, AtMostOne
<1> QED
  BY <1>3, <1>4 DEF S

\* The directory works on the first of the requests, if on any.
LEMMA CurrentIs ==
  ASSUME TypeInv, NEW a \in Addrs
  PROVE  /\ reqs[a] \in Seq(Reqs) /\ Waiting(a) \in Seq(Reqs)
         /\ Current(a).type \in RequestTypes =>
              reqs[a] # <<>> /\ job[Home[a]] # Busy("nextReq", a) /\ Current(a) = Head(reqs[a])
<1>1. reqs[a] \in Seq(Reqs)
  BY DEF TypeInv, TypeOK, DirectoryTypeOK
<1>2. Waiting(a) \in Seq(Reqs)
  BY <1>1 DEF Waiting
<1>3. NoReq.type \notin RequestTypes
  BY NoReqAsks
<1> QED
  BY <1>1, <1>2, <1>3 DEF Current

\* Nobody is waited for in vain: each sharer has a copy, or has given it back, or gets one,
\* in every configuration.
THEOREM SharersAreAccountedFor == Spec => []SharersAccountedFor
<1>1. TypeInv /\ CoherenceInv => SharersAccountedFor
  <2> SUFFICES ASSUME TypeInv, CoherenceInv, NEW a \in Addrs, NEW n \in dir[a].sharers
               PROVE  \/ Cached(n, a)
                      \/ InFlightFrom(n, Home[a], a, Lost) # {}
                      \/ InFlight(n, a, ReplyTypes) # {}
                      \/ reqs[a] # <<>> /\ Head(reqs[a]).requester = n
    BY DEF SharersAccountedFor, Lost
  <2>1. n \in Nodes
    BY DEF TypeInv, EntriesOK, Entries
  <2>2. \/ line[n][a].state # "INVALID" \/ Has(queue[Home[a]], From(Lost, a, n))
        \/ Has(queue[n], About(DataReplies, a)) \/ Granted(Current(a), n)
    BY <2>1, NodeHolds DEF NodeInv, Accounts
  <2>3. Has(queue[Home[a]], From(Lost, a, n)) => InFlightFrom(n, Home[a], a, Lost) # {}
    BY <2>1, InFlightHas DEF Has
  <2>4. Has(queue[n], About(DataReplies, a)) => InFlight(n, a, ReplyTypes) # {}
    <3>1. About(DataReplies, a) \subseteq About(ReplyTypes, a)
      BY DEF About, DataReplies, ReplyTypes
    <3>2. InFlight(n, a, ReplyTypes)
            = {i \in 1 .. Len(queue[n]) : queue[n][i] \in About(ReplyTypes, a)}
      BY <2>1, InFlightHas
    <3> QED
      BY <3>1, <3>2 DEF Has
  <2>5. Granted(Current(a), n) => reqs[a] # <<>> /\ Head(reqs[a]).requester = n
    BY CurrentIs DEF Granted
  <2> QED
    BY <2>2, <2>3, <2>4, <2>5 DEF Cached
<1> QED
  BY <1>1, TypesHold, CoherenceHolds, PTL

\* The requests of n in the directory are counted by the invariant's view of them.
LEMMA QueuedOnce ==
  ASSUME TypeInv, CoherenceInv, NEW a \in Addrs, NEW n \in Nodes
  PROVE  Cardinality({i \in 1 .. Len(reqs[a]) :
                        /\ reqs[a][i].type # "NULLIFY_REQ" /\ reqs[a][i].requester = n
                        /\ ~ (i = 1 /\ job[Home[a]] = Busy("nextReq", a))})
           = IF Asked(Current(a), Waiting(a), RequestTypes, n) THEN 1 ELSE 0
<1> DEFINE r == reqs[a]
           w == Waiting(a)
           C == ReqsBy(RequestTypes, n)
           S == {i \in 1 .. Len(r) : /\ r[i].type # "NULLIFY_REQ" /\ r[i].requester = n
                                     /\ ~ (i = 1 /\ job[Home[a]] = Busy("nextReq", a))}
<1>1. /\ r \in Seq(Reqs) /\ Len(r) \in Nat /\ S \in SUBSET (1 .. Len(r))
      /\ \A i \in 1 .. Len(r) : r[i] \in Reqs
  BY CurrentIs
<1>2. \A x \in Reqs : x.type # "NULLIFY_REQ" /\ x.requester = n <=> x \in C
  BY DEF Reqs, ReqsBy, RequestTypes
<1>3. /\ ~ Precedes(w, C, C) \/ ~ Asked(Current(a), w, RequestTypes, n)
      /\ Current(a).type \in RequestTypes /\ Current(a).requester = n => ~ Has(w, C)
  BY NodeHolds DEF NodeInv, Requests
<1>4. /\ \A i \in 1 .. Len(w) : i + 1 \in 1 .. Len(r) /\ w[i] = r[i + 1]
      /\ \A i \in 1 .. Len(r) : i = 1 \/ (i - 1 \in 1 .. Len(w) /\ r[i] = w[i - 1])
  BY <1>1 DEF Waiting
<1>5. 1 \in S <=> Current(a).type \in RequestTypes /\ Current(a).requester = n
  <2>1. CASE 1 \in 1 .. Len(r) /\ job[Home[a]] # Busy("nextReq", a)
    <3>1. Current(a) = r[1] /\ r[1] \in Reqs
      BY <1>1, <2>1 DEF Current
    <3> QED
      BY <2>1, <3>1 DEF Reqs, RequestTypes
  <2>2. CASE ~ (1 \in 1 .. Len(r) /\ job[Home[a]] # Busy("nextReq", a))
    <3>1. Current(a).type \in RequestTypes => r # <<>> /\ job[Home[a]] # Busy("nextReq", a)
      BY CurrentIs
    <3> QED
      BY <1>1, <2>2, <3>1
  <2> QED
    BY <2>1, <2>2
<1>6. /\ \A i \in S : i = 1 \/ (i - 1 \in 1 .. Len(w) /\ w[i - 1] \in C)
      /\ \A i \in 1 .. Len(w) : w[i] \in C => i + 1 \in S
  BY <1>1, <1>2, <1>4
<1> HIDE DEF r, S, C, w
<1>7. S = {} <=> ~ Asked(Current(a), w, RequestTypes, n)
  BY <1>5, <1>6 DEF Asked, Has, C
<1>8. ASSUME NEW i \in S, NEW j \in S, i < j PROVE FALSE
  <2>1. i \in Nat /\ j \in Nat /\ j # 1
    BY <1>1, <1>8
  <2>2. j - 1 \in 1 .. Len(w) /\ w[j - 1] \in C
    BY <1>6, <2>1
  <2>3. i # 1
    BY <1>3, <1>5, <2>2 DEF Has
  <2>4. i - 1 \in 1 .. Len(w) /\ w[i - 1] \in C
    BY <1>6, <2>3
  <2>5. Precedes(w, C, C)
    BY <1>8, <2>1, <2>2, <2>4 DEF Precedes
  <2> QED
    BY <1>3, <1>7, <1>8, <2>5
<1>9. Cardinality(S) = IF S = {} THEN 0 ELSE 1
  BY <1>1, <1>8, AtMostOne
<1> QED
  BY <1>7, <1>9 DEF S, r, w

\* A block that cores of a node wait for is requested exactly once, in every configuration:
\* no access waits without a request, and no node has two.
THEOREM BlocksRequestedOnce == Spec => []OneRequestPerBlock
<1>1. TypeInv /\ CoherenceInv => OneRequestPerBlock
  <2> SUFFICES ASSUME TypeInv, CoherenceInv, NEW n \in Nodes, NEW a \in Addrs
               PROVE  Outstanding(n, a) = IF waiters[n][a] # <<>> THEN 1 ELSE 0
    BY DEF OneRequestPerBlock
  <2> DEFINE F == Has(queue[Home[a]], From(RequestTypes, a, n))
             Q == Asked(Current(a), Waiting(a), RequestTypes, n)
             R == Has(queue[n], About(ReplyTypes, a))
             B == job[n] = Busy("waiters", a)
             c == CoreStates(a)[n]
  <2>1. queue[n] \in Seq(Msgs) /\ queue[Home[a]] \in Seq(Msgs)
    BY DEF TypeInv, QueuesOK
  <2>2. /\ F \/ Q \/ R <=> c \in Waits
        /\ F => ~ Q /\ ~ R
        /\ Q => ~ R
        /\ ~ F \/ ~ Precedes(queue[Home[a]], From(RequestTypes, a, n), From(RequestTypes, a, n))
        /\ ~ Precedes(queue[n], About(ReplyTypes, a), About(ReplyTypes, a))
    BY NodeHolds DEF NodeInv, Requests, Accounts
  <2>3. ~ Precedes(queue[Home[a]], From(RequestTypes, a, n), From(RequestTypes, a, n))
    BY <2>2, Includes
  <2>4. Cardinality(InFlightFrom(n, Home[a], a, RequestTypes)) = IF F THEN 1 ELSE 0
    <3>1. InFlightFrom(n, Home[a], a, RequestTypes)
            = {i \in 1 .. Len(queue[Home[a]]) : queue[Home[a]][i] \in From(RequestTypes, a, n)}
      BY InFlightHas
    <3> QED
      BY <2>1, <2>3, <3>1, OnceInQueue
  <2>5. Cardinality(InFlight(n, a, ReplyTypes)) = IF R THEN 1 ELSE 0
    <3>1. InFlight(n, a, ReplyTypes)
            = {i \in 1 .. Len(queue[n]) : queue[n][i] \in About(ReplyTypes, a)}
      BY InFlightHas
    <3> QED
      BY <2>1, <2>2, <3>1, OnceInQueue
  <2>6. Outstanding(n, a) = (IF F THEN 1 ELSE 0) + (IF Q THEN 1 ELSE 0)
                            + (IF R THEN 1 ELSE 0) + (IF B THEN 1 ELSE 0)
    BY <2>4, <2>5, QueuedOnce DEF Outstanding
  <2>7. c \in Waits <=> ~ B /\ waiters[n][a] # <<>>
    BY DEF CoreStates, CoreState, Waits
  <2>8. B => waiters[n][a] # <<>>
    BY DEF TypeInv, JobsOK, Busy
  <2> HIDE DEF F, Q, R, B, c
  <2> QED
    BY <2>2, <2>6, <2>7, <2>8
<1> QED
  BY <1>1, TypesHold, CoherenceHolds, PTL

\* What the invariant says when the first message of a queue is a reply.
LEMMA FirstReply ==
  ASSUME TypeInv, CoherenceInv, FullMap, NEW n \in Nodes, queue[n] # <<>>,
         Received(n).type \in ReplyTypes
  PROVE  /\ waiters[n][Received(n).addr] # <<>>
         /\ line[n][Received(n).addr].state =
              IF Received(n).type = "UPGRADE_REP" THEN "SHARED_UPGRADING" ELSE "INVALID"
<1>1. PICK m, a, q2 : m = Received(n) /\ a = m.addr /\ q2 = Tail(queue[n])
  OBVIOUS
<1>2. queue[n] \in Seq(Msgs)
  BY DEF TypeInv, QueuesOK
<1>3. Drops(queue[n], q2, m) /\ m \in Msgs /\ a \in Addrs /\ m.type \in ReplyTypes
  <2>1. Drops(queue[n], q2, m) /\ m \in Msgs
    BY <1>1, <1>2, TailDrops DEF Received
  <2> QED
    BY <1>1, <2>1 DEF Msgs
<1>4. \A T : m \in About(T, a) <=> m.type \in T
  BY <1>1, <1>3, Membership
<1>5. \A T : m.type \in T => Has(queue[n], About(T, a))
  BY <1>3, <1>4 DEF Drops
<1> DEFINE e == dir[a]
           cur == Current(a)
           rest == Waiting(a)
           h == queue[Home[a]]
           q == queue[n]
           s == line[n][a].state
           c == CoreStates(a)[n]
<1>6. NodeInv(a, n, e, cur, rest, h, q, s, c)
  BY <1>3, NodeHolds
<1>7. Has(q, About(ReplyTypes, a)) /\ c \in Waits
  BY <1>3, <1>5, <1>6 DEF NodeInv, Requests
<1>8. waiters[n][a] # <<>>
  <2>1. c \in {"reads", "writes"}
    BY <1>7 DEF Waits
  <2>2. c = CoreState(n, a)
    BY DEF CoreStates
  <2>3. job[n] = Busy("waiters", a) => c \in {"served", "writing"}
    BY <2>2 DEF CoreState
  <2> HIDE DEF c
  <2> QED
    BY <2>1, <2>2, <2>3 DEF CoreState
<1>9. CASE m.type \in DataReplies
  <2>1. s = "INVALID"
    BY <1>5, <1>6, <1>9 DEF NodeInv, Tokens
  <2> QED
    BY <1>1, <1>8, <1>9, <2>1 DEF DataReplies
<1>10. CASE m.type = "UPGRADE_REP"
  <2>1. Has(q, About({"UPGRADE_REP"}, a))
    BY <1>5, <1>10
  <2>2. Owns(e, n) /\ s \in {"INVALID", "SHARED_UPGRADING"}
    BY <1>6, <2>1 DEF NodeInv, Ownership, Requests
  <2>3. EntryOK(e)
    BY <1>3 DEF TypeInv, EntriesOK
  <2>4. n \in e.sharers
    BY <2>2, <2>3 DEF EntryOK, Owns
  <2>5. ~ Has(h, From(Lost, a, n))
    BY <1>6, <2>1 DEF NodeInv, Invalidations
  <2>6. ~ Has(q, About(DataReplies, a))
    <3>1. ASSUME Has(q, About(DataReplies, a)) PROVE FALSE
      <4>1. m \notin About(DataReplies, a)
        BY <1>4, <1>10 DEF DataReplies
      <4>2. Has(q2, About(DataReplies, a))
        BY <1>3, <3>1, <4>1 DEF Drops
      <4>3. Has(q2, About(ReplyTypes, a))
        BY <4>2 DEF Has, About, DataReplies, ReplyTypes
      <4>4. Precedes(q, About(ReplyTypes, a), About(ReplyTypes, a))
        BY <1>3, <1>4, <4>3 DEF Drops
      <4> QED
        BY <1>6, <4>4 DEF NodeInv, Requests
    <3> QED
      BY <3>1
  <2>7. ~ Granted(cur, n)
    BY <1>6, <1>7 DEF NodeInv, Requests, Granted, Asked
  <2>8. s # "INVALID"
    BY <1>6, <2>4, <2>5, <2>6, <2>7 DEF NodeInv, Accounts
  <2> QED
    BY <1>1, <1>8, <1>10, <2>2, <2>8
<1> QED
  BY <1>3, <1>9, <1>10 DEF ReplyTypes, DataReplies

\* With a directory pointer for each cache, a reply finds a core that waits and the line as
\* the request left it: no eviction and no invalidation takes a line away while its upgrade
\* is granted.  With fewer pointers one that makes room for a sharer may.
THEOREM RepliesAwaited == FullMap => (Spec => []RepliesAreExpected)
<1> SUFFICES ASSUME FullMap PROVE Spec => []RepliesAreExpected
  OBVIOUS
<1>1. TypeInv /\ CoherenceInv => RepliesAreExpected
  BY FirstReply DEF RepliesAreExpected
<1> QED
  BY <1>1, TypesHold, CoherenceHolds, PTL

\* What the invariant says when the first message of a home's queue is an answer.
LEMMA FirstAnswer ==
  ASSUME TypeInv, CoherenceInv, FullMap, NEW h \in Nodes, job[h] = Recv, queue[h] # <<>>,
         NEW m, m = Received(h), m.type \in AnswerTypes
  PROVE  /\ m.type = "INV_REP" => InvRepExpected(m.addr, m.sender)
         /\ m.type = "FLUSH_REP" => FlushRepExpected(m.addr, m.sender)
         /\ m.type = "WB_REP" => WbRepExpected(m.addr, m.sender)
<1>1. PICK a, n, q2 : a = m.addr /\ n = m.sender /\ q2 = Tail(queue[h])
  OBVIOUS
<1>2. /\ queue[h] \in Seq(Msgs) /\ queue[h] \in Seq(Deliverable(h))
  BY DEF TypeInv, QueuesOK
<1>3. Drops(queue[h], q2, m) /\ m \in Msgs /\ m \in Deliverable(h)
  <2>1. Drops(queue[h], q2, m) /\ m \in Msgs
    BY <1>1, <1>2, TailDrops DEF Received
  <2>2. Head(queue[h]) \in Deliverable(h)
    BY <1>2
  <2> QED
    BY <2>1, <2>2 DEF Received
<1>4. a \in Addrs /\ n \in Nodes /\ Home[a] = h
  BY <1>1, <1>3 DEF Msgs, Deliverable
<1>5. \A T : m.type \in T => m \in From(T, a, n) /\ Has(queue[h], From(T, a, n))
  BY <1>1, <1>3 DEF From, Drops
<1> DEFINE e == dir[a]
           cur == Current(a)
           q == queue[h]
           s == line[n][a].state
<1>6. /\ \E rest : Tokens(a, n, e, cur, rest, q, queue[n], s)
      /\ WriteBacks(a, n, e, cur, q, queue[n], s) /\ Flushes(a, n, e, cur, q, queue[n], s)
      /\ \E rest, c : Accounts(a, n, e, cur, rest, q, queue[n], s, c)
      /\ \E rest, c : Writers(a, n, e, cur, rest, q, queue[n], s, c)
  BY <1>4, NodeHolds DEF NodeInv
<1>7. EntryOK(e) /\ e.state \in {"UNCACHED", "SHARED", "EXCLUSIVE", "MODIFIED"}
  BY <1>4 DEF TypeInv, EntriesOK, EntryOK, Entries
<1>8. reqs[a] # <<>> => cur = Head(reqs[a])
  BY <1>4 DEF Current, Recv, Busy
<1>9. cur.type \in RequestTypes => reqs[a] # <<>>
  BY <1>4, CurrentIs
<1>10. m.type \in Lost => n \in e.sharers
  BY <1>5, <1>6 DEF Tokens
<1>11. n \in e.sharers => e.state # "UNCACHED"
                          /\ (e.state # "SHARED" => e.sharers = {n} /\ Owns(e, n))
  BY <1>7 DEF EntryOK, Owns
<1> HIDE DEF e, cur, q, s
<1>12. ASSUME m.type = "INV_REP" PROVE InvRepExpected(a, n)
  <2>1. n \in e.sharers /\ m \in From(Lost, a, n)
    BY <1>5, <1>10, <1>12 DEF Lost
  <2>2. ASSUME e.state = "MODIFIED" PROVE FALSE
    <3>1. Owns(e, n)
      BY <1>11, <2>1, <2>2
    <3>2. Precedes(q, From({"WB_REP"}, a, n), From({"INV_REP"}, a, n))
      BY <1>5, <1>6, <1>12, <2>2, <3>1 DEF Writers, q
    <3>3. m \notin From({"WB_REP"}, a, n)
      BY <1>12 DEF From
    <3>4. Drops(q, q2, m)
      BY <1>3 DEF q
    <3>5. Precedes(q2, From({"WB_REP"}, a, n), From({"INV_REP"}, a, n))
      BY <3>2, <3>3, <3>4 DEF Drops
    <3>6. Has(q2, From({"WB_REP"}, a, n))
      BY <3>5 DEF Has, Precedes
    <3>7. Precedes(q, From(Lost, a, n), From({"WB_REP"}, a, n))
      BY <2>1, <3>4, <3>6 DEF Drops
    <3> QED
      BY <1>6, <3>7 DEF WriteBacks
  <2>3. e.state \in {"SHARED", "EXCLUSIVE"}
    BY <1>7, <1>11, <2>1, <2>2
  <2> QED
    BY <2>1, <2>3 DEF InvRepExpected, e
<1>13. ASSUME m.type = "FLUSH_REP" PROVE FlushRepExpected(a, n)
  <2>1. n \in e.sharers
    BY <1>10, <1>13 DEF Lost
  <2>2. Owns(e, n) \/ UpgradeFlushes(e, cur, n)
    BY <1>5, <1>6, <1>13 DEF Flushes, q
  <2>3. Owns(e, n) => e.sharers = {n}
    BY <1>7 DEF EntryOK, Owns
  <2>4. reqs[a] # <<>> /\ Head(reqs[a]).type = "EX_REQ" => e.sharers = {n}
    BY <1>8, <2>2, <2>3 DEF UpgradeFlushes
  <2> QED
    BY <1>11, <2>1, <2>4 DEF FlushRepExpected, e
<1>14. ASSUME m.type = "WB_REP" PROVE WbRepExpected(a, n)
  <2>1. n \in e.sharers
    BY <1>5, <1>6, <1>14 DEF Accounts, q
  <2>2. cur.type = "SH_REQ"
    BY <1>5, <1>6, <1>14 DEF WriteBacks, AwaitsWb, q
  <2> QED
    BY <1>8, <1>9, <2>1, <2>2 DEF WbRepExpected, RequestTypes, e
<1> QED
  BY <1>1, <1>12, <1>13, <1>14

\* What the invariant says when it is data of the DRAM.
LEMMA FirstData ==
  ASSUME TypeInv, CoherenceInv, NEW h \in Nodes, job[h] = Recv, queue[h] # <<>>,
         NEW m, m = Received(h), m.type = "DRAM_READ_REP"
  PROVE  DramReplyExpected(m.addr)
<1>1. PICK a : a = m.addr
  OBVIOUS
<1>2. queue[h] \in Seq(Msgs) /\ queue[h] \in Seq(Deliverable(h))
  BY DEF TypeInv, QueuesOK
<1>3. m \in Msgs /\ m \in Deliverable(h) /\ Has(queue[h], {m})
  <2>1. Drops(queue[h], Tail(queue[h]), m) /\ m \in Msgs
    BY <1>2, TailDrops DEF Received
  <2>2. Head(queue[h]) \in Deliverable(h)
    BY <1>2
  <2> QED
    BY <2>1, <2>2 DEF Received, Drops
<1>4. a \in Addrs /\ Home[a] = h
  BY <1>1, <1>3 DEF Msgs, Deliverable, DramTypes
<1>5. Has(queue[Home[a]], About(DramReads, a))
  BY <1>1, <1>3, <1>4 DEF Has, About, DramReads
<1> DEFINE e == dir[a]
           cur == Current(a)
           r == cur.requester
<1>6. /\ cur.waitForData
      /\ \/ cur.type \in {"EX_REQ", "UPGRADE_REQ"} /\ Owns(e, r)
         \/ cur.type = "SH_REQ" /\ (e.state = "SHARED" \/ Owns(e, r))
  BY <1>4, <1>5 DEF CoherenceInv, Coherent, BlockInv, ReqInv
<1>7. reqs[a] # <<>> /\ cur = Head(reqs[a]) /\ cur \in Reqs
  <2>1. cur.type \in RequestTypes
    BY <1>6 DEF RequestTypes
  <2>2. reqs[a] \in Seq(Reqs) /\ reqs[a] # <<>> /\ cur = Head(reqs[a])
    BY <1>4, <2>1, CurrentIs
  <2> QED
    BY <2>2
<1>8. r \in Nodes
  BY <1>6, <1>7 DEF Reqs
<1>9. \E rest, q, h2, s, c : Accounts(a, r, e, cur, rest, h2, q, s, c)
  BY <1>4, <1>8, NodeHolds DEF NodeInv
<1> HIDE DEF e, cur, r
<1>10. Granted(cur, r)
  BY <1>6 DEF Granted, RequestTypes, r
<1>11. cur.type = "EX_REQ" => e.state = "MODIFIED"
  BY <1>6, <1>9, <1>10 DEF Accounts
<1>12. cur.type = "SH_REQ" => e.state \in {"SHARED", "EXCLUSIVE"}
  BY <1>6, <1>9, <1>10 DEF Accounts
<1> QED
  BY <1>1, <1>6, <1>7, <1>11, <1>12 DEF DramReplyExpected, e

\* With a directory pointer for each cache, an answer finds the directory in a state in
\* which it is expected: no cache says that it gave a dirty line away without its data, and
\* data come back from a sharer only, while the directory still waits for them.  With fewer
\* pointers an invalidation that makes room for a sharer may meet an upgrade.
THEOREM AnswersAwaited == FullMap => (Spec => []AnswersAreExpected)
<1> SUFFICES ASSUME FullMap PROVE Spec => []AnswersAreExpected
  OBVIOUS
<1>1. TypeInv /\ CoherenceInv => AnswersAreExpected
  <2>1. {"INV_REP", "FLUSH_REP", "WB_REP"} \subseteq AnswerTypes
    BY DEF AnswerTypes
  <2> QED
    BY <2>1, FirstAnswer, FirstData DEF AnswersAreExpected
<1> QED
  BY <1>1, TypesHold, CoherenceHolds, PTL
=============================================================================
