--------------------------- MODULE ReaderWriterLock ---------------------------
(***************************************************************************)
(* What the "Lock design" comment of cache_cntlr.cc asks of the lock that  *)
(* guards one set of a cache stack: first-level transactions of several    *)
(* cores share it, everything else owns it alone, an upgrade gives the     *)
(* shared lock up before it waits for the exclusive one, a downgrade never *)
(* gives it up, and the network thread may pass it on to a user thread.    *)
(* There is no source line for this module: it is the abstract             *)
(* specification that SetLock is shown to implement.                       *)
(***************************************************************************)
CONSTANTS Sharers,   \* the cores whose first-level caches share the stack
          Network,   \* the network thread of the last-level cache
          Nobody     \* no thread

VARIABLES readers,   \* the cores inside a first-level transaction
          writer     \* the thread that owns the whole stack, or Nobody

rwvars == <<readers, writer>>

Threads == Sharers \cup {Network}

RWInit == readers = {} /\ writer = Nobody

ReadLock(c) ==
  /\ writer = Nobody
  /\ readers' = readers \cup {c}
  /\ UNCHANGED writer

ReadUnlock(c) ==
  /\ c \in readers
  /\ readers' = readers \ {c}
  /\ UNCHANGED writer

WriteLock(t) ==
  /\ writer = Nobody /\ readers = {}
  /\ writer' = t
  /\ UNCHANGED readers

WriteUnlock ==
  /\ writer' = Nobody
  /\ UNCHANGED readers

Downgrade(c) ==
  /\ writer = c
  /\ writer' = Nobody
  /\ readers' = {c}

PassOn(c) ==
  /\ writer = Network
  /\ writer' = c
  /\ UNCHANGED readers

RWNext ==
  \/ \E c \in Sharers : ReadLock(c) \/ ReadUnlock(c) \/ Downgrade(c) \/ PassOn(c)
  \/ \E t \in Threads : WriteLock(t)
  \/ WriteUnlock

RWSpec == RWInit /\ [][RWNext]_rwvars
=============================================================================
