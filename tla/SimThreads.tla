------------------------------ MODULE SimThreads ------------------------------
(***************************************************************************)
(* Messages between the simulated nodes.  The transport keeps one FIFO     *)
(* queue per node (transport/smtransport.cc); one simulation thread per    *)
(* node takes the messages of its queue one at a time and runs the handler *)
(* of the component they are for (system/sim_thread.cc, network.cc,        *)
(* MemoryManager::handleMsgFromNetwork).  A handler that has to wait, or   *)
(* that goes on to the next queued request, keeps its node's thread busy.  *)
(***************************************************************************)
EXTENDS Integers, Sequences, FiniteSets

CONSTANTS Nodes,        \* cores that own a last-level cache, a directory or DRAM
          Addrs,        \* cache blocks, all of one set
          Home,         \* Home[a]: the node with the directory and the DRAM of a
          NoAddr,       \* the thread is at no block
          NumVersions   \* bound: contents of a block that are told apart

ASSUME HomeAssumption == Home \in [Addrs -> Nodes]
ASSUME NoAddrAssumption == NoAddr \notin Addrs
ASSUME VersionsAssumption == NumVersions \in Nat \ {0}

VARIABLES queue,   \* queue[n]: the messages on their way to node n
          job      \* job[n]: what the simulation thread of node n is in the middle of

Versions == 0 .. NumVersions - 1
Null == -1         \* no data buffer
Garbage == -2      \* a buffer that was never filled, or was freed
Data == Versions \cup {Garbage}

RequestTypes == {"EX_REQ", "SH_REQ", "UPGRADE_REQ"}
ReplyTypes == {"EX_REP", "SH_REP", "UPGRADE_REP"}
CommandTypes == {"INV_REQ", "FLUSH_REQ", "WB_REQ"}
AnswerTypes == {"INV_REP", "FLUSH_REP", "WB_REP"}
DramTypes == {"DRAM_READ_REQ", "DRAM_WRITE_REQ", "DRAM_READ_REP"}
MsgTypes == RequestTypes \cup ReplyTypes \cup CommandTypes \cup AnswerTypes \cup DramTypes

Msgs == [type : MsgTypes, addr : Addrs, sender : Nodes, data : Data \cup {Null}]

Msg(type, a, sender, data) ==
  [type |-> type, addr |-> a, sender |-> sender, data |-> data]

\* "recv": between two messages; "waiters": woke the first waiter of a block and
\* waits for it; "nextReq": completed the first request of a block.
Jobs == [at : {"recv", "waiters", "nextReq"}, addr : Addrs \cup {NoAddr}]
Recv == [at |-> "recv", addr |-> NoAddr]
Busy(at, a) == [at |-> at, addr |-> a]

SetJob(n, j) == job' = [job EXCEPT ![n] = j]

\* The thread of n is about to handle a message of one of these types.
Receives(n, types) ==
  /\ job[n] = Recv
  /\ queue[n] # <<>>
  /\ Head(queue[n]).type \in types

Received(n) == Head(queue[n])
Consume(n) == [queue EXCEPT ![n] = Tail(@)]

\* Send the messages in out, records [to, msg] with one message per receiver.
Send(q, out) ==
  [n \in Nodes |-> IF \E p \in out : p.to = n
                   THEN Append(q[n], (CHOOSE p \in out : p.to = n).msg)
                   ELSE q[n]]

To(n, msg) == [to |-> n, msg |-> msg]
ToAll(dests, msg) == {To(n, msg) : n \in dests}

SimThreadsTypeOK ==
  /\ queue \in [Nodes -> Seq(Msgs)]
  /\ job \in [Nodes -> Jobs]

SimThreadsInit ==
  /\ queue = [n \in Nodes |-> <<>>]
  /\ job = [n \in Nodes |-> Recv]

simThreadVars == <<queue, job>>
=============================================================================
