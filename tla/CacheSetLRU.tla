------------------------------ MODULE CacheSetLRU ------------------------------
(***************************************************************************)
(* One set of a last-level cache with the LRU policy                       *)
(* (cache/cache_set.cc, cache/cache_set_lru.cc, base.cfg                   *)
(* "replacement_policy = lru", one attempt), and what the cache controllers *)
(* do to it under the set lock.  A line whose upgrade request is on its way *)
(* must not be evicted: its reply carries no data.  PIC operations, which  *)
(* name ways to avoid, are off.                                            *)
(***************************************************************************)
EXTENDS Integers, FiniteSets

CONSTANTS Associativity,   \* m_associativity
          Tags,            \* blocks that map to the set
          NoTag,           \* the tag ~0 of a line that is not valid
          MaxPending       \* cores that share the cache: each waits for one reply

ASSUME AssociativityAssumption == Associativity \in Nat \ {0}
ASSUME NoTagAssumption == NoTag \notin Tags
ASSUME MaxPendingAssumption == MaxPending \in Nat

VARIABLES tag,         \* tag[w]: the block in way w
          upgrading,   \* the ways whose line is SHARED_UPGRADING
          pending,     \* the blocks that a request is out for
          lru_bits     \* m_lru_bits

vars == <<tag, upgrading, pending, lru_bits>>

Ways == 0 .. Associativity - 1

TypeOK ==
  /\ tag \in [Ways -> Tags \cup {NoTag}]
  /\ upgrading \subseteq Ways
  /\ pending \subseteq Tags
  /\ lru_bits \in [Ways -> Ways]

Init ==
  /\ tag = [w \in Ways |-> NoTag]
  /\ upgrading = {}
  /\ pending = {}
  /\ lru_bits = [w \in Ways |-> w]

Present(t) == \E w \in Ways : tag[w] = t
Valid(w) == tag[w] # NoTag
IsValidReplacement(w) == w \notin upgrading

-----------------------------------------------------------------------------
(* The replacement policy.                                                 *)

\* Mutant: the way itself keeps its bits.
MoveOthers(w) ==
  [v \in Ways |-> IF lru_bits[v] < lru_bits[w] THEN lru_bits[v] + 1 ELSE lru_bits[v]]

MoveToMRU(w) ==
  [v \in Ways |-> IF v = w THEN 0
                  ELSE IF lru_bits[v] < lru_bits[w] THEN lru_bits[v] + 1
                  ELSE lru_bits[v]]

FreeWays == {w \in Ways : ~ Valid(w)}
Lowest(S) == CHOOSE w \in S : \A v \in S : w <= v

\* Mutant: a line that is being upgraded is as good as any other.
AnyCandidate == {w \in Ways : lru_bits[w] > 0}

\* The search starts with max_bits = 0: it never finds the way used last.
Candidates == {w \in Ways : lru_bits[w] > 0 /\ IsValidReplacement(w)}

\* Mutant: the candidate used last goes first.
MostRecent ==
  IF Candidates = {} THEN 0
  ELSE CHOOSE w \in Candidates : \A v \in Candidates : lru_bits[w] <= lru_bits[v]

\* The victim of a full set; without a candidate it is way 0, whatever its state.
LeastRecent ==
  IF Candidates = {} THEN 0
  ELSE CHOOSE w \in Candidates : \A v \in Candidates : lru_bits[v] <= lru_bits[w]

ReplacementIndex == IF FreeWays # {} THEN Lowest(FreeWays) ELSE LeastRecent

-----------------------------------------------------------------------------
(* What happens to the set.                                                *)

MayWait == Cardinality(pending) < MaxPending

\* A miss: EX_REQ or SH_REQ.
Request(t) ==
  /\ MayWait
  /\ t \notin pending /\ ~ Present(t)
  /\ pending' = pending \cup {t}
  /\ UNCHANGED <<tag, upgrading, lru_bits>>

\* A write to a SHARED line: UPGRADE_REQ.
StartUpgrade(w) ==
  /\ MayWait
  /\ Valid(w) /\ tag[w] \notin pending
  /\ pending' = pending \cup {tag[w]}
  /\ upgrading' = upgrading \cup {w}
  /\ UNCHANGED <<tag, lru_bits>>

\* UPGRADE_REP
FinishUpgrade(w) ==
  /\ w \in upgrading
  /\ pending' = pending \ {tag[w]}
  /\ upgrading' = upgrading \ {w}
  /\ UNCHANGED <<tag, lru_bits>>

\* INV_REQ, FLUSH_REQ: a request for the line, if any, stays out.
Invalidate(w) ==
  /\ Valid(w)
  /\ tag' = [tag EXCEPT ![w] = NoTag]
  /\ upgrading' = upgrading \ {w}
  /\ UNCHANGED <<pending, lru_bits>>

\* A hit, which is never on a line that is being upgraded.
Access(w) ==
  /\ Valid(w) /\ w \notin upgrading
  /\ lru_bits' = MoveToMRU(w)
  /\ UNCHANGED <<tag, upgrading, pending>>

\* EX_REP, SH_REP: insert the line, and evict the one in its way, which
\* insertCacheBlock asserts to be SHARED, EXCLUSIVE or MODIFIED.
Insert(t) ==
  /\ t \in pending /\ ~ Present(t)
  /\ ReplacementIndex \notin upgrading
  /\ tag' = [tag EXCEPT ![ReplacementIndex] = t]
  /\ lru_bits' = MoveToMRU(ReplacementIndex)
  /\ pending' = pending \ {t}
  /\ UNCHANGED upgrading

Next ==
  \/ \E t \in Tags : Request(t) \/ Insert(t)
  \/ \E w \in Ways : StartUpgrade(w) \/ FinishUpgrade(w) \/ Invalidate(w) \/ Access(w)

Spec == Init /\ [][Next]_vars

-----------------------------------------------------------------------------
(* Properties.                                                             *)

\* However hits, fills, upgrades and invalidations alternate, no two ways have the
\* same age: the victim is determined and one pass over the bits finds it.
AgesDiffer == \A v, w \in Ways : v # w => lru_bits[v] # lru_bits[w]

\* The line that a reply evicts is not one whose upgrade is on its way
\* (isValidReplacement; insertCacheBlock asserts the state of the evicted line).
VictimIsReplaceable ==
  \A t \in pending : Present(t) \/ ReplacementIndex \notin upgrading

\* The ways by age.
Recency == [i \in 1 .. Associativity |-> CHOOSE w \in Ways : lru_bits[w] = i - 1]

\* The ages implement the order in which the ways were used: a new line takes a
\* free way or the way unused for longest that is not being upgraded.
LRU == INSTANCE LeastRecentlyUsed WITH pinned <- upgrading, recency <- Recency
ImplementsLRU == LRU!LRUSpec
=============================================================================
