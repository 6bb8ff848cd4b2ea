--------------------------- MODULE LeastRecentlyUsed ---------------------------
(***************************************************************************)
(* What a least-recently-used set promises: the ways in the order of their *)
(* last use, and a new line in a free way or else in the oldest way that   *)
(* may be given up.                                                        *)
(***************************************************************************)
EXTENDS Naturals, Sequences

CONSTANTS Ways, Tags, NoTag

VARIABLES tag,      \* tag[w]: the block in way w
          pinned,   \* ways that must keep their line
          recency   \* the ways, the one used last first

\* The number of ways used since w, itself included.
Rank(w) == CHOOSE i \in DOMAIN recency : recency[i] = w

\* w comes first, and those used after it one place later.
ToFront(w) ==
  [i \in DOMAIN recency |-> IF i = 1 THEN w
                            ELSE IF i <= Rank(w) THEN recency[i - 1]
                            ELSE recency[i]]

Free == {w \in Ways : tag[w] = NoTag}

\* No way that may be given up was used longer ago than w.
Oldest(w) ==
  /\ w \notin pinned
  /\ \E i \in DOMAIN recency :
       recency[i] = w /\ \A j \in DOMAIN recency : j > i => recency[j] \in pinned

LRUInit ==
  /\ tag = [w \in Ways |-> NoTag]
  /\ pinned = {}
  /\ recency \in [1 .. Len(recency) -> Ways]
  /\ \A w \in Ways : \E i \in DOMAIN recency : recency[i] = w

Use(w) ==
  /\ w \notin Free
  /\ recency' = ToFront(w)
  /\ UNCHANGED <<tag, pinned>>

Fill(w, t) ==
  /\ IF Free # {} THEN w \in Free ELSE Oldest(w)
  /\ tag' = [tag EXCEPT ![w] = t]
  /\ recency' = ToFront(w)
  /\ UNCHANGED pinned

\* Lines come to be pinned, are unpinned, or go; none changes its way.
Other ==
  /\ \A w \in Ways : tag'[w] \in {tag[w], NoTag}
  /\ UNCHANGED recency

LRUNext ==
  \/ \E w \in Ways : Use(w)
  \/ \E w \in Ways, t \in Tags : Fill(w, t)
  \/ Other

LRUSpec == LRUInit /\ [][LRUNext]_<<tag, pinned, recency>>
=============================================================================
