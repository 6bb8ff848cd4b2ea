------------------------ MODULE CacheHierarchyProofs ------------------------
(***************************************************************************)
(* Proofs about the cache hierarchy, for every tree of caches.             *)
(***************************************************************************)
EXTENDS CacheHierarchy, TLAPS

-----------------------------------------------------------------------------
(* The tree of caches.                                                     *)

LEMMA LastLevelFacts ==
  /\ LastLevel \in Caches
  /\ NextLevel[LastLevel] = Memory
  /\ \A c \in Caches \ {LastLevel} : NextLevel[c] \in Caches
  /\ \A t \in FirstLevel : t \in Caches /\ NextLevel[t] \in Caches
<1>1. \E c \in Caches : NextLevel[c] = Memory
  BY LevelsAssumption
<1>2. LastLevel \in Caches /\ NextLevel[LastLevel] = Memory
  BY <1>1 DEF LastLevel
<1>3. ASSUME NEW c \in Caches \ {LastLevel}  PROVE NextLevel[c] \in Caches
  BY <1>2, LevelsAssumption, TreeAssumption
<1>4. ASSUME NEW t \in FirstLevel  PROVE t \in Caches /\ NextLevel[t] \in Caches
  BY <1>3, LevelsAssumption DEF FirstLevel
<1> QED
  BY <1>2, <1>3, <1>4

\* A cache is in its own stack, and the rest of the stack is that of the next level.
LEMMA StackFacts ==
  ASSUME NEW c \in Caches
  PROVE  /\ c \in Stack[c]
         /\ Stack[c] \subseteq Caches
         /\ NextLevel[c] # Memory =>
              /\ NextLevel[c] \in Stack[c]
              /\ Stack[c] = {c} \cup Stack[NextLevel[c]]
              /\ c \notin Stack[NextLevel[c]]
<1>1. Stack[c] = {c} \cup IF NextLevel[c] = Memory THEN {} ELSE Stack[NextLevel[c]]
  BY TreeAssumption
<1>2. Stack[c] \subseteq Caches
  BY TreeAssumption
<1>3. ASSUME NextLevel[c] # Memory  PROVE NextLevel[c] \in Stack[NextLevel[c]]
  <2>1. NextLevel[c] \in Caches
    BY <1>3, TreeAssumption
  <2> QED
    BY <2>1, TreeAssumption
<1> QED
  BY <1>1, <1>2, <1>3, TreeAssumption

-----------------------------------------------------------------------------
(* Types.                                                                  *)

LEMMA UpdatedType ==
  ASSUME TypeOK, NEW set, NEW a \in Addrs, NEW new \in States
  PROVE  Updated(set, a, new) \in [Caches -> [Addrs -> States]]
BY DEF TypeOK, Updated

LEMMA WrittenBackType ==
  ASSUME TypeOK, NEW set \in SUBSET Caches, NEW c \in Caches, NEW a \in Addrs
  PROVE  WrittenBack(set, c, a) \subseteq (Caches \cup {Memory}) \X Addrs
BY DEF TypeOK, WrittenBack

LEMMA HeldType ==
  ASSUME NEW f, NEW s
  PROVE  Held(f, s) \subseteq f
BY DEF Held

LEMMA CopiedType ==
  ASSUME NEW f \in SUBSET ((Caches \cup {Memory}) \X Addrs),
         NEW from, NEW to \in Caches \cup {Memory}, NEW a \in Addrs
  PROVE  Copied(f, from, to, a) \subseteq (Caches \cup {Memory}) \X Addrs
BY DEF Copied

LEMMA SiblingsType ==
  ASSUME NEW c
  PROVE  Siblings(c) \subseteq Caches
BY DEF Siblings, Tree

\* What a cache and the levels above look like after a line was inserted.
LEMMA InsertedFacts ==
  ASSUME NEW c \in Caches, NEW a \in Addrs, NEW new, NEW x \in Inserted(c, a, new)
  PROVE  /\ ~ Valid(c, a)
         /\ \E victims \in SUBSET Addrs :
              /\ a \notin victims
              /\ x.state = [Evicted(c, victims) EXCEPT ![c][a] = new]
              /\ x.fresh = Held(Copied(EvictedData(c, victims), NextLevel[c], c, a), x.state)
<1> DEFINE above == {d \in Tree(c) : NextLevel[d] \notin {c, Memory}}
           s(victims) == [Evicted(c, victims) EXCEPT ![c][a] = new]
           f(victims) == Held(Copied(EvictedData(c, victims), NextLevel[c], c, a), s(victims))
           ok == {w \in Victims(c) : ~ Valid(c, a) /\ \A v \in w : WritebacksHit(above, v)}
<1> HIDE DEF above
<1>1. PICK victims \in ok : x = [state |-> s(victims), fresh |-> f(victims)]
  BY DEF Inserted, above
<1>2. ~ Valid(c, a) /\ victims \in Victims(c)
  BY <1>1
<1>3. victims \in SUBSET Addrs /\ a \notin victims
  BY <1>2 DEF Victims, Valid
<1>4. x.state = s(victims) /\ x.fresh = f(victims)
  BY <1>1
<1> QED
  BY <1>2, <1>3, <1>4

LEMMA InsertedType ==
  ASSUME TypeOK, NEW c \in Caches, NEW a \in Addrs, NEW new \in States,
         NEW x \in Inserted(c, a, new)
  PROVE  /\ x.state \in [Caches -> [Addrs -> States]]
         /\ x.fresh \subseteq (Caches \cup {Memory}) \X Addrs
<1>1. PICK victims \in SUBSET Addrs :
        /\ x.state = [Evicted(c, victims) EXCEPT ![c][a] = new]
        /\ x.fresh = Held(Copied(EvictedData(c, victims), NextLevel[c], c, a), x.state)
  BY InsertedFacts
<1>2. Evicted(c, victims) \in [Caches -> [Addrs -> States]]
  BY DEF Evicted, TypeOK, States
<1>3. NextLevel[c] \in Caches \cup {Memory}
  BY TreeAssumption
<1>4. EvictedData(c, victims) \subseteq (Caches \cup {Memory}) \X Addrs
  BY <1>1, <1>3 DEF EvictedData, TypeOK
<1>5. Copied(EvictedData(c, victims), NextLevel[c], c, a) \subseteq (Caches \cup {Memory}) \X Addrs
  BY <1>4, CopiedType
<1>6. x.fresh \subseteq (Caches \cup {Memory}) \X Addrs
  BY <1>1, <1>5, HeldType
<1>7. ASSUME NEW e \in [Caches -> [Addrs -> States]]
      PROVE  [e EXCEPT ![c][a] = new] \in [Caches -> [Addrs -> States]]
  OBVIOUS
<1> QED
  BY <1>1, <1>2, <1>6, <1>7

LEMMA LockType ==
  ASSUME NEW t \in FirstLevel, NEW c \in Caches, NEW op \in Ops, NEW a \in Addrs,
         NEW at \in Caches, NEW woken \in BOOLEAN,
         c \in Stack[t], op # "PREFETCH" => c = t, Lock(t, c, op, a, at, woken)
  PROVE  /\ lock' \in Holders
         /\ lock' # Free
<1>1. lock' = [core |-> t, from |-> c, op |-> op, a |-> a, at |-> at,
               doing |-> "ask", woken |-> woken]
  BY DEF Lock
<1>2. lock' \in Holders
  BY <1>1 DEF Holders
<1>3. lock'.at # Free.at
  BY <1>1, NamesAssumption DEF Free
<1> QED
  BY <1>2, <1>3

\* An access that holds the lock.
LEMMA HolderType ==
  ASSUME TypeOK, lock # Free
  PROVE  /\ lock \in Holders
         /\ lock.core \in FirstLevel /\ lock.from \in Caches /\ lock.op \in Ops
         /\ lock.a \in Addrs /\ lock.at \in Caches /\ lock.doing \in {"ask", "fill"}
         /\ lock.from \in Stack[lock.core]
         /\ lock.op # "PREFETCH" => lock.from = lock.core
BY DEF TypeOK, Holders

LEMMA MoveType ==
  ASSUME TypeOK, lock # Free, NEW at \in Caches
  PROVE  /\ [lock EXCEPT !.at = at] \in Holders
         /\ [lock EXCEPT !.doing = "fill"] \in Holders
<1>1. lock \in Holders
  BY HolderType
<1> QED
  BY <1>1 DEF Holders

\* The loop over the waiters.
LEMMA ServeType ==
  ASSUME TypeOK, NEW a \in Addrs, NEW s \in [Caches -> [Addrs -> States]],
         NEW q \in [Addrs -> Seq(Waiters)], Serve(a, s, q)
  PROVE  /\ state' \in [Caches -> [Addrs -> States]]
         /\ lock' \in Holders \cup {Free}
         /\ m_directory_waiters' \in [Addrs -> Seq(Waiters)]
         /\ request' \in [Addrs -> Requests \cup {"none"}]
         /\ serving' \in Addrs \cup {NoAddr}
<1>1. CASE q[a] = <<>>
  BY <1>1 DEF Serve, TypeOK
<1>2. CASE q[a] # <<>> /\ Exclusive(Head(q[a]).op) /\ s[LastLevel][a] = "S"
  <2>1. state' = [s EXCEPT ![LastLevel][a] = "U"]
    BY <1>2 DEF Serve
  <2>2. state' \in [Caches -> [Addrs -> States]]
    BY <2>1, LastLevelFacts DEF States
  <2>3. request' = [request EXCEPT ![a] = "UPGRADE_REQ"] /\ lock' = Free /\ serving' = NoAddr
    BY <1>2 DEF Serve
  <2> QED
    BY <2>2, <2>3 DEF Serve, TypeOK, Requests
<1>3. CASE q[a] # <<>> /\ ~ (Exclusive(Head(q[a]).op) /\ s[LastLevel][a] = "S")
  <2> DEFINE w == Head(q[a])
             at == IF w.op = "PREFETCH" THEN w.from ELSE NextLevel[w.from]
  <2>1. w \in Waiters
    BY <1>3
  <2>2. at \in Caches
    BY <2>1, LastLevelFacts DEF Waiters
  <2>3. Lock(w.core, w.from, w.op, a, at, TRUE)
    BY <1>3 DEF Serve
  <2>4. w.core \in FirstLevel /\ w.from \in Caches /\ w.op \in Ops
        /\ w.from \in Stack[w.core] /\ (w.op # "PREFETCH" => w.from = w.core)
    BY <2>1 DEF Waiters
  <2> HIDE DEF w, at
  <2>5. lock' \in Holders
    BY <2>2, <2>3, <2>4, LockType
  <2>6. state' = s /\ serving' = a /\ request' = [request EXCEPT ![a] = "none"] /\ m_directory_waiters' = q
    BY <1>3 DEF Serve
  <2> QED
    BY <2>5, <2>6 DEF TypeOK
<1> QED
  BY <1>1, <1>2, <1>3 DEF Serve

-----------------------------------------------------------------------------
(* Type correctness and atomic pairs, in every tree of caches.             *)

\* The line that is served has a waiter: the one that was woken.
ServedWaits == serving # NoAddr => m_directory_waiters[serving] # <<>>

\* The owner of the stack lock has the mutexes of all cores, so that no core is
\* in the middle of an atomic pair.
OwnerHasAll == lock # Free => \A t \in FirstLevel : locked[t] = NoAddr

AtomicInv == TypeOK /\ ServedWaits /\ OwnerHasAll /\ AtomicPairsHit

LEMMA InitAtomic == Init => AtomicInv
<1> SUFFICES ASSUME Init PROVE AtomicInv
  OBVIOUS
<1>1. TypeOK
  BY DEF Init, TypeOK, States
<1> QED
  BY <1>1, LastLevelFacts DEF Init, AtomicInv, ServedWaits, OwnerHasAll, AtomicPairsHit

LEMMA StepType == TypeOK /\ ServedWaits /\ [Next]_vars => TypeOK' /\ ServedWaits'
<1> SUFFICES ASSUME TypeOK, ServedWaits, [Next]_vars
             PROVE  TypeOK' /\ ServedWaits'
  OBVIOUS
<1> USE LastLevelFacts
<1>0. direct' = direct
  BY DEF Next, vars
<1> USE <1>0
<1>1. ASSUME NEW t \in FirstLevel, NEW a \in Addrs, NEW op \in Ops \ {"PREFETCH"},
             FirstLevelHit(t, a, op)
      PROVE  TypeOK' /\ ServedWaits'
  BY <1>1 DEF FirstLevelHit, AccessCache, Written, TypeOK, ServedWaits
<1>2. ASSUME NEW t \in FirstLevel, NEW a \in Addrs, NEW op \in Ops \ {"PREFETCH"},
             FirstLevelMiss(t, a, op)
      PROVE  TypeOK' /\ ServedWaits'
  <2>1. state' \in [Caches -> [Addrs -> States]]
    BY <1>2 DEF FirstLevelMiss, Dropped, TypeOK, States
  <2>2. lock' \in Holders
    BY <1>2, LockType, StackFacts DEF FirstLevelMiss
  <2>3. fresh' \subseteq fresh
    BY <1>2, HeldType DEF FirstLevelMiss
  <2> QED
    BY <1>2, <2>1, <2>2, <2>3 DEF FirstLevelMiss, TypeOK, ServedWaits
<1>3. ASSUME NEW t \in FirstLevel, NEW a \in Addrs, Unlock(t, a)
      PROVE  TypeOK' /\ ServedWaits'
  BY <1>3 DEF Unlock, Written, TypeOK, ServedWaits
<1>4. ASSUME NEW t \in FirstLevel, NEW a \in Addrs, NEW c \in Caches, DoPrefetch(t, c, a)
      PROVE  TypeOK' /\ ServedWaits'
  <2>1. lock' \in Holders
    BY <1>4, LockType DEF DoPrefetch, Ops
  <2> QED
    BY <1>4, <2>1 DEF DoPrefetch, TypeOK, ServedWaits
<1>5. ASSUME NEW c \in Caches, HitInCache(c)
      PROVE  TypeOK' /\ ServedWaits'
  <2>1. lock # Free
    BY <1>5 DEF HitInCache, Asked
  <2>2. lock' \in Holders
    BY <1>5, <2>1, MoveType DEF HitInCache, Fill
  <2>3. ASSUME NEW new \in SnoopedTo(c), Snoop(c, lock.a, new)
        PROVE  /\ state' \in [Caches -> [Addrs -> States]]
               /\ fresh' \subseteq (Caches \cup {Memory}) \X Addrs
    <3>1. new \in States
      BY DEF SnoopedTo, States
    <3>2. lock.a \in Addrs
      BY <2>1, HolderType
    <3>3. WrittenBack(Siblings(c), c, lock.a) \subseteq (Caches \cup {Memory}) \X Addrs
      BY <3>2, SiblingsType, WrittenBackType
    <3> QED
      BY <2>3, <3>1, <3>2, <3>3, UpdatedType, HeldType DEF Snoop
  <2>4. /\ state' \in [Caches -> [Addrs -> States]]
        /\ fresh' \subseteq (Caches \cup {Memory}) \X Addrs
    BY <1>5, <2>3 DEF HitInCache, TypeOK
  <2> QED
    BY <1>5, <2>2, <2>4 DEF HitInCache, TypeOK, ServedWaits
<1>6. ASSUME NEW c \in Caches, PassOn(c)
      PROVE  TypeOK' /\ ServedWaits'
  <2> DEFINE snooped == IF Upgrades(c, "S") THEN Siblings(c) ELSE {}
             u == Updated(snooped, lock.a, "I")
  <2>1. lock # Free /\ c # LastLevel
    BY <1>6 DEF PassOn, Asked
  <2>2. lock.a \in Addrs
    BY <2>1, HolderType
  <2>3. snooped \subseteq Caches
    BY SiblingsType
  <2>4. state' = [u EXCEPT ![c][lock.a] = "I"] /\ fresh' = Held(WrittenBack(snooped, c, lock.a), state')
    BY <1>6 DEF PassOn
  <2>5. lock' \in Holders
    BY <1>6, <2>1, MoveType DEF PassOn
  <2> HIDE DEF snooped
  <2>6. u \in [Caches -> [Addrs -> States]]
    BY <2>2, UpdatedType DEF States
  <2> HIDE DEF u
  <2>7. state' \in [Caches -> [Addrs -> States]]
    BY <2>4, <2>6 DEF States
  <2>8. fresh' \subseteq (Caches \cup {Memory}) \X Addrs
    BY <2>2, <2>3, <2>4, WrittenBackType, HeldType
  <2> QED
    BY <1>6, <2>5, <2>7, <2>8 DEF PassOn, TypeOK, ServedWaits
<1>7. ASSUME NEW c \in Caches, SilentUpgrade(c)
      PROVE  TypeOK' /\ ServedWaits'
  <2> DEFINE u == Updated(Siblings(c), lock.a, "I")
  <2>1. lock # Free
    BY <1>7 DEF SilentUpgrade, Asked
  <2>2. lock.a \in Addrs
    BY <2>1, HolderType
  <2>3. lock' \in Holders
    BY <1>7, <2>1, MoveType DEF SilentUpgrade, Fill
  <2>4. u \in [Caches -> [Addrs -> States]]
    BY <2>2, UpdatedType DEF States
  <2>5. state' = [u EXCEPT ![c][lock.a] = "M"]
        /\ fresh' = Held(WrittenBack(Siblings(c), c, lock.a), state')
    BY <1>7 DEF SilentUpgrade
  <2> HIDE DEF u
  <2>6. state' \in [Caches -> [Addrs -> States]]
    BY <2>4, <2>5 DEF States
  <2>7. fresh' \subseteq (Caches \cup {Memory}) \X Addrs
    BY <2>2, <2>5, SiblingsType, WrittenBackType, HeldType
  <2> QED
    BY <1>7, <2>3, <2>6, <2>7 DEF SilentUpgrade, TypeOK, ServedWaits
<1>8. ASSUME NEW c \in Caches, AccessDRAM(c)
      PROVE  TypeOK' /\ ServedWaits'
  <2>1. lock # Free
    BY <1>8 DEF AccessDRAM, Asked
  <2>2. lock.a \in Addrs /\ lock' \in Holders
    BY <1>8, <2>1, HolderType, MoveType DEF AccessDRAM, Fill
  <2> DEFINE new == IF Exclusive(lock.op) THEN "M" ELSE "S"
  <2>3. PICK x \in Inserted(c, lock.a, new) : state' = x.state /\ fresh' = x.fresh
    BY <1>8 DEF AccessDRAM
  <2>4. new \in States
    BY DEF States
  <2> HIDE DEF new
  <2> QED
    BY <1>8, <2>2, <2>3, <2>4, InsertedType DEF AccessDRAM, TypeOK, ServedWaits
<1>9. ASSUME NEW c \in Caches, InitiateDirectoryAccess(c)
      PROVE  TypeOK' /\ ServedWaits'
  <2> DEFINE w == [core |-> lock.core, from |-> lock.from, op |-> lock.op]
             snooped == IF Upgrades(c, "S") THEN Siblings(c) ELSE {}
             s == Updated(snooped, lock.a, "I")
  <2>1. lock # Free
    BY <1>9 DEF InitiateDirectoryAccess, Asked
  <2>2. lock.a \in Addrs /\ w \in Waiters
    BY <2>1, HolderType DEF Waiters
  <2>3. m_directory_waiters' = [m_directory_waiters EXCEPT ![lock.a] = Append(@, w)]
    BY <1>9 DEF InitiateDirectoryAccess
  <2>4. s \in [Caches -> [Addrs -> States]]
    BY <2>2, UpdatedType DEF States
  <2>5. state' \in {s, [s EXCEPT ![c][lock.a] = "U"]} /\ fresh' = Held(fresh, state')
    BY <1>9 DEF InitiateDirectoryAccess
  <2>6. request' \in [Addrs -> Requests \cup {"none"}]
    BY <1>9, <2>2 DEF InitiateDirectoryAccess, TypeOK, Requests
  <2> HIDE DEF w, s
  <2>7. state' \in [Caches -> [Addrs -> States]]
    BY <2>4, <2>5 DEF States
  <2>8. fresh' \subseteq fresh
    BY <2>5, HeldType
  <2>9. m_directory_waiters' \in [Addrs -> Seq(Waiters)]
    BY <2>2, <2>3 DEF TypeOK
  <2>10. ASSUME NEW r \in Addrs, m_directory_waiters[r] # <<>>
         PROVE  m_directory_waiters'[r] # <<>>
    <3>1. m_directory_waiters[r] \in Seq(Waiters)
      BY DEF TypeOK
    <3>2. Append(m_directory_waiters[r], w) # <<>>
      BY <2>2, <3>1
    <3> QED
      BY <2>2, <2>3, <2>10, <3>2 DEF TypeOK
  <2>11. ServedWaits'
    BY <1>9, <2>10 DEF InitiateDirectoryAccess, ServedWaits, TypeOK
  <2> QED
    BY <1>9, <2>6, <2>7, <2>8, <2>9, <2>11 DEF InitiateDirectoryAccess, TypeOK
<1>10. ASSUME NEW c \in Caches, CopyDataFromNextLevel(c)
       PROVE  TypeOK' /\ ServedWaits'
  <2>1. lock # Free /\ lock.at = NextLevel[c]
    BY <1>10 DEF CopyDataFromNextLevel
  <2>2. lock.a \in Addrs /\ NextLevel[c] \in Caches /\ lock' \in Holders
    BY <1>10, <2>1, HolderType, MoveType DEF CopyDataFromNextLevel
  <2> DEFINE new == FilledState(NextLevel[c], lock.a)
  <2>3. PICK x \in Inserted(c, lock.a, new) : state' = x.state /\ fresh' = x.fresh
    BY <1>10 DEF CopyDataFromNextLevel
  <2>4. new \in States
    BY <2>2 DEF FilledState, TypeOK
  <2> HIDE DEF new
  <2> QED
    BY <1>10, <2>2, <2>3, <2>4, InsertedType DEF CopyDataFromNextLevel, TypeOK, ServedWaits
<1>11. ASSUME Finish
       PROVE  TypeOK' /\ ServedWaits'
  <2>1. lock.core \in FirstLevel /\ lock.a \in Addrs
    BY <1>11, HolderType DEF Finish
  <2> QED
    BY <1>11, <2>1 DEF Finish, AccessCache, Written, TypeOK, ServedWaits
<1>12. ASSUME NEW a \in Addrs, NEW s \in [Caches -> [Addrs -> States]],
              NEW q \in [Addrs -> Seq(Waiters)], Serve(a, s, q),
              fresh' \subseteq (Caches \cup {Memory}) \X Addrs, UNCHANGED locked
       PROVE  TypeOK' /\ ServedWaits'
  <2>1. ServedWaits'
    BY <1>12 DEF Serve, ServedWaits
  <2> QED
    BY <1>12, <2>1, ServeType DEF TypeOK
<1>13. ASSUME NEW a \in Addrs, Rep(a)
       PROVE  TypeOK' /\ ServedWaits'
  <2>0. PICK new \in Replies(a) : \E x \in Inserted(LastLevel, a, new) :
          fresh' = x.fresh /\ Serve(a, x.state, m_directory_waiters)
    BY <1>13 DEF Rep
  <2>1. PICK x \in Inserted(LastLevel, a, new) :
          fresh' = x.fresh /\ Serve(a, x.state, m_directory_waiters)
    BY <2>0
  <2>2. new \in States
    BY DEF Replies, States
  <2>3. m_directory_waiters \in [Addrs -> Seq(Waiters)] /\ UNCHANGED locked
    BY <1>13 DEF Rep, TypeOK
  <2>4. x.state \in [Caches -> [Addrs -> States]] /\ x.fresh \subseteq (Caches \cup {Memory}) \X Addrs
    BY <2>2, InsertedType
  <2> QED
    BY <2>1, <2>3, <2>4, <1>12
<1>14. ASSUME NEW a \in Addrs, UpgradeRep(a)
       PROVE  TypeOK' /\ ServedWaits'
  <2>1. Updated(Caches, a, "M") \in [Caches -> [Addrs -> States]]
    BY UpdatedType DEF States
  <2> QED
    BY <1>14, <2>1, <1>12 DEF UpgradeRep, TypeOK
<1>15. ASSUME NEW a \in Addrs, NextWaiter(a)
       PROVE  TypeOK' /\ ServedWaits'
  <2>1. m_directory_waiters[a] # <<>>
    BY <1>15, NamesAssumption DEF NextWaiter, ServedWaits
  <2>2. [m_directory_waiters EXCEPT ![a] = Tail(@)] \in [Addrs -> Seq(Waiters)]
    BY <2>1 DEF TypeOK
  <2> QED
    BY <1>15, <2>2, <1>12 DEF NextWaiter, TypeOK
<1>16. ASSUME NEW a \in Addrs, InvReq(a) \/ FlushReq(a) \/ WbReq(a)
       PROVE  TypeOK' /\ ServedWaits'
  <2>1. state' \in [Caches -> [Addrs -> States]]
    BY <1>16, UpdatedType DEF InvReq, FlushReq, WbReq, ToDirectory, States
  <2>2. CASE InvReq(a)
    BY <2>1, <2>2, HeldType DEF InvReq, TypeOK, ServedWaits
  <2>3. CASE FlushReq(a) \/ WbReq(a)
    <3>1. WrittenBack(Caches, LastLevel, a) \subseteq (Caches \cup {Memory}) \X Addrs
      BY WrittenBackType
    <3>2. Copied(WrittenBack(Caches, LastLevel, a), LastLevel, Memory, a)
            \subseteq (Caches \cup {Memory}) \X Addrs
      BY <3>1, CopiedType
    <3>3. fresh' \subseteq Copied(WrittenBack(Caches, LastLevel, a), LastLevel, Memory, a)
      BY <2>3, HeldType DEF FlushReq, WbReq, ToDirectory
    <3> QED
      BY <2>1, <2>3, <3>2, <3>3 DEF FlushReq, WbReq, ToDirectory, TypeOK, ServedWaits
  <2> QED
    BY <1>16, <2>2, <2>3
<1>17. CASE UNCHANGED vars
  BY <1>17 DEF vars, TypeOK, ServedWaits
<1> QED
  BY <1>1, <1>2, <1>3, <1>4, <1>5, <1>6, <1>7, <1>8, <1>9, <1>10, <1>11, <1>13, <1>14,
     <1>15, <1>16, <1>17 DEF Next, CoreStep, CacheStep, NetworkStep
LEMMA StepAtomic == AtomicInv /\ [Next]_vars => OwnerHasAll' /\ AtomicPairsHit'
<1> SUFFICES ASSUME AtomicInv, [Next]_vars
             PROVE  OwnerHasAll' /\ AtomicPairsHit'
  OBVIOUS
<1> USE DEF AtomicInv
<1>1. ASSUME \A t \in FirstLevel : locked[t] = NoAddr, UNCHANGED locked
      PROVE  OwnerHasAll' /\ AtomicPairsHit'
  BY <1>1 DEF OwnerHasAll, AtomicPairsHit
<1>2. ASSUME NEW t \in FirstLevel, NEW a \in Addrs, NEW op \in Ops \ {"PREFETCH"},
             FirstLevelHit(t, a, op)
      PROVE  OwnerHasAll' /\ AtomicPairsHit'
  <2>1. op = "READ_EX" => state[t][a] = "M"
    BY <1>2 DEF FirstLevelHit, Permits, Exclusive, Writable
  <2> QED
    BY <1>2, <2>1 DEF FirstLevelHit, Ready, AccessCache, OwnerHasAll, AtomicPairsHit, TypeOK
<1>3. ASSUME NEW t \in FirstLevel, NEW a \in Addrs, Unlock(t, a)
      PROVE  OwnerHasAll' /\ AtomicPairsHit'
  BY <1>3 DEF Unlock, OwnerHasAll, AtomicPairsHit, TypeOK
<1>4. ASSUME NEW t \in FirstLevel, NEW a \in Addrs, NEW op \in Ops \ {"PREFETCH"},
             FirstLevelMiss(t, a, op)
      PROVE  OwnerHasAll' /\ AtomicPairsHit'
  BY <1>1, <1>4 DEF FirstLevelMiss, StackFree
<1>5. ASSUME NEW t \in FirstLevel, NEW a \in Addrs, NEW c \in Caches, DoPrefetch(t, c, a)
      PROVE  OwnerHasAll' /\ AtomicPairsHit'
  BY <1>1, <1>5 DEF DoPrefetch, StackFree
<1>6. ASSUME NEW c \in Caches, CacheStep(c)
      PROVE  OwnerHasAll' /\ AtomicPairsHit'
  <2>1. lock # Free /\ UNCHANGED locked
    BY <1>6 DEF CacheStep, HitInCache, PassOn, SilentUpgrade, AccessDRAM,
                InitiateDirectoryAccess, CopyDataFromNextLevel, Asked
  <2> QED
    BY <1>1, <2>1 DEF OwnerHasAll
<1>7. ASSUME Finish
      PROVE  OwnerHasAll' /\ AtomicPairsHit'
  <2>1. \A t \in FirstLevel : locked[t] = NoAddr
    BY <1>7 DEF Finish, OwnerHasAll
  <2>2. lock.op = "READ_EX" => lock.from = lock.core /\ state[lock.from][lock.a] = "M"
    BY <1>7, HolderType DEF Finish, Permits, Exclusive, Writable
  <2> QED
    BY <1>7, <2>1, <2>2, HolderType
    DEF Finish, AccessCache, OwnerHasAll, AtomicPairsHit, TypeOK
<1>8. ASSUME NetworkStep
      PROVE  OwnerHasAll' /\ AtomicPairsHit'
  BY <1>1, <1>8 DEF NetworkStep, Rep, UpgradeRep, NextWaiter, InvReq, FlushReq, WbReq,
                    ToDirectory, StackFree
<1>9. CASE UNCHANGED vars
  BY <1>9 DEF vars, OwnerHasAll, AtomicPairsHit
<1> QED
  BY <1>2, <1>3, <1>4, <1>5, <1>6, <1>7, <1>8, <1>9 DEF Next, CoreStep

LEMMA AtomicInvariant == Spec => []AtomicInv
<1>1. AtomicInv /\ [Next]_vars => AtomicInv'
  BY StepType, StepAtomic DEF AtomicInv
<1> QED
  BY InitAtomic, <1>1, PTL DEF Spec

\* Type correctness of the hierarchy, for every tree of caches and configuration.
THEOREM HierarchyTypeCorrect == Spec => []TypeOK
<1>1. AtomicInv => TypeOK
  BY DEF AtomicInv
<1> QED
  BY AtomicInvariant, <1>1, PTL

\* Whatever other cores, prefetchers and the directory do between the two halves
\* of an atomic access, the second half finds the line MODIFIED in the first level
\* (cache_cntlr.cc, "Expected to find address in L1 Cache").
THEOREM AtomicPairsNeverMiss == Spec => []AtomicPairsHit
<1>1. AtomicInv => AtomicPairsHit
  BY DEF AtomicInv
<1> QED
  BY AtomicInvariant, <1>1, PTL
-----------------------------------------------------------------------------
(* Inclusion, in every tree in which only the last level is shared.        *)

\* Only the last level is shared: the caches above any other level are above one
\* another.
PrivateLevels ==
  \A c \in Caches \ {LastLevel} : \A d, e \in Tree(c) : d \in Stack[e] \/ e \in Stack[d]

LEMMA PrevFacts ==
  ASSUME NEW c \in Caches, NEW d \in Prev(c)
  PROVE  /\ d \in Caches \ {LastLevel} /\ d # c /\ NextLevel[d] = c
         /\ c \in Stack[d] /\ d \notin Stack[c] /\ Stack[d] = {d} \cup Stack[c]
<1>1. d \in Caches /\ NextLevel[d] = c /\ c # Memory
  BY NamesAssumption DEF Prev
<1> QED
  BY <1>1, StackFacts, LastLevelFacts

\* A cache above c is one of its previous levels or above one.
LEMMA AboveFacts ==
  ASSUME NEW c \in Caches, NEW d \in Tree(c), d # c
  PROVE  \E k \in Prev(c) : k \in Stack[d] /\ d \in Tree(k)
<1>1. d \in Caches /\ c \in Stack[d]
  BY DEF Tree
<1>2. PICK k \in Stack[d] : NextLevel[k] = c
  BY <1>1, TreeAssumption
<1> QED
  BY <1>1, <1>2, StackFacts DEF Prev, Tree

LEMMA FirstLevelFacts ==
  ASSUME NEW t \in FirstLevel
  PROVE  /\ t \in Caches \ {LastLevel}
         /\ \A d \in Caches : t \in Stack[d] => d = t
<1>1. t \in Caches \ {LastLevel}
  BY LevelsAssumption DEF FirstLevel
<1>2. ASSUME NEW d \in Caches, t \in Stack[d], d # t  PROVE FALSE
  BY <1>1, <1>2, AboveFacts DEF Tree, FirstLevel
<1> QED
  BY <1>1, <1>2

\* The levels that follow the last: none.
LEMMA LastStack == Stack[LastLevel] = {LastLevel}
BY LastLevelFacts, TreeAssumption

LEMMA PrivatePrev ==
  ASSUME PrivateLevels, NEW c \in Caches \ {LastLevel}, NEW d \in Prev(c), NEW e \in Prev(c)
  PROVE  d = e
<1>1. /\ d \in Tree(c) /\ d \notin Stack[c] /\ Stack[d] = {d} \cup Stack[c]
      /\ e \in Tree(c) /\ e \notin Stack[c] /\ Stack[e] = {e} \cup Stack[c]
  BY PrevFacts DEF Tree
<1> QED
  BY <1>1 DEF PrivateLevels

\* A level before the last is on the way of one core.
LEMMA PrivateCore ==
  ASSUME PrivateLevels, NEW c \in Caches \ {LastLevel}, NEW t \in FirstLevel, NEW u \in FirstLevel,
         c \in Stack[t], c \in Stack[u]
  PROVE  t = u
<1>1. t \in Tree(c) /\ u \in Tree(c)
  BY FirstLevelFacts DEF Tree
<1>2. t \in Stack[u] \/ u \in Stack[t]
  BY <1>1 DEF PrivateLevels
<1> QED
  BY <1>2, FirstLevelFacts

\* For states s, a cache has every line of the levels above it and it is MODIFIED
\* if one of them is; nothing but the last level is being upgraded.
TreeOK(s) ==
  \A c \in Caches, a \in Addrs :
    /\ s[c][a] = "U" => c = LastLevel
    /\ \A d \in Stack[c] : /\ s[c][a] # "I" => s[d][a] # "I"
                           /\ s[c][a] = "M" => s[d][a] = "M"

\* A set of caches with all the levels above them.
UpClosed(set) == \A e \in Caches : \A d \in Stack[e] : d \in set => e \in set

LEMMA TreeUpClosed ==
  ASSUME NEW c \in Caches
  PROVE  UpClosed(Tree(c)) /\ c \in Tree(c)
<1>1. ASSUME NEW e \in Caches, NEW d \in Stack[e], d \in Tree(c)  PROVE e \in Tree(c)
  BY <1>1, TreeAssumption DEF Tree
<1> QED
  BY <1>1, StackFacts DEF UpClosed, Tree

LEMMA SiblingsUpClosed ==
  ASSUME NEW c \in Caches
  PROVE  UpClosed(Siblings(c)) /\ c \notin Siblings(c)
<1>1. UpClosed(Siblings(c))
  <2> SUFFICES ASSUME NEW e \in Caches, NEW f \in Stack[e], f \in Siblings(c)
               PROVE  e \in Siblings(c)
    BY DEF UpClosed
  <2>1. PICK d \in Prev(c) \ Stack[lock.from] : f \in Tree(d)
    BY DEF Siblings
  <2>2. e \in Tree(d)
    BY <2>1, TreeUpClosed DEF UpClosed, Prev
  <2> QED
    BY <2>1, <2>2 DEF Siblings
<1>2. ASSUME c \in Siblings(c)  PROVE FALSE
  <2>1. PICK d \in Prev(c) : c \in Tree(d)
    BY <1>2 DEF Siblings
  <2> QED
    BY <2>1, PrevFacts DEF Tree
<1> QED
  BY <1>1, <1>2

LEMMA UpdatedTree ==
  ASSUME TypeOK, TreeOK(state), NEW set, UpClosed(set), NEW a \in Addrs, NEW new \in {"I", "S"}
  PROVE  TreeOK(Updated(set, a, new))
<1> DEFINE t == Updated(set, a, new)
<1>1. \A c \in Caches, b \in Addrs :
        t[c][b] = IF c \in set /\ b = a /\ state[c][a] # "I" THEN new ELSE state[c][b]
  BY DEF Updated, Valid
<1>2. \A c \in Caches : Stack[c] \subseteq Caches
  BY StackFacts
<1> HIDE DEF t
<1>3. TreeOK(t)
  BY <1>1, <1>2 DEF TreeOK, UpClosed
<1> QED
  BY <1>3 DEF t

LEMMA UpgradedTree ==
  ASSUME TypeOK, TreeOK(state), NEW a \in Addrs
  PROVE  TreeOK(Updated(Caches, a, "M"))
<1>1. \A c \in Caches : Stack[c] \subseteq Caches
  BY StackFacts
<1> QED
  BY <1>1 DEF TreeOK, Updated, Valid, TypeOK

\* A line that no previous level has is in no level above.
LEMMA NotAbove ==
  ASSUME NEW s, TreeOK(s), NEW c \in Caches, NEW a \in Addrs, \A d \in Prev(c) : s[d][a] = "I"
  PROVE  \A e \in Tree(c) \ {c} : s[e][a] = "I"
<1> SUFFICES ASSUME NEW e \in Tree(c) \ {c}  PROVE s[e][a] = "I"
  OBVIOUS
<1>1. PICK k \in Prev(c) : k \in Stack[e]
  BY AboveFacts
<1>2. e \in Caches
  BY DEF Tree
<1> QED
  BY <1>1, <1>2 DEF TreeOK

\* One line changes, and no level above has it.
LEMMA ChangedTree ==
  ASSUME NEW s \in [Caches -> [Addrs -> States]], TreeOK(s),
         NEW c \in Caches, NEW a \in Addrs, NEW new \in States,
         \A d \in Prev(c) : s[d][a] = "I",
         new = "U" => c = LastLevel,
         c # LastLevel /\ new # "I" => s[NextLevel[c]][a] # "I",
         c # LastLevel /\ new = "M" => s[NextLevel[c]][a] = "M"
  PROVE  TreeOK([s EXCEPT ![c][a] = new])
<1> DEFINE t == [s EXCEPT ![c][a] = new]
<1>1. \A d \in Caches, b \in Addrs : t[d][b] = IF d = c /\ b = a THEN new ELSE s[d][b]
  OBVIOUS
<1>2. \A e \in Tree(c) \ {c} : s[e][a] = "I"
  BY NotAbove
<1>3. c # LastLevel => NextLevel[c] \in Caches /\ Stack[c] = {c} \cup Stack[NextLevel[c]]
  BY LastLevelFacts, StackFacts, NamesAssumption
<1>4. c = LastLevel => Stack[c] = {c}
  BY LastStack
<1>5. \A d \in Caches : Stack[d] \subseteq Caches
  BY StackFacts
<1> HIDE DEF t
<1>6. ASSUME NEW d \in Caches, NEW b \in Addrs, NEW e \in Stack[d]
      PROVE  /\ t[d][b] = "U" => d = LastLevel
             /\ t[d][b] # "I" => t[e][b] # "I"
             /\ t[d][b] = "M" => t[e][b] = "M"
  <2>1. CASE d = c /\ b = a
    <3>1. CASE c = LastLevel
      BY <1>1, <1>4, <2>1, <3>1
    <3>2. CASE c # LastLevel
      <4>1. e = c \/ e \in Stack[NextLevel[c]]
        BY <1>3, <2>1, <3>2
      <4>2. e \in Stack[NextLevel[c]] => /\ s[NextLevel[c]][a] # "I" => s[e][a] # "I"
                                         /\ s[NextLevel[c]][a] = "M" => s[e][a] = "M"
        BY <1>3, <3>2 DEF TreeOK
      <4> QED
        BY <1>1, <1>5, <2>1, <3>2, <4>1, <4>2
    <3> QED
      BY <3>1, <3>2
  <2>2. CASE d # c /\ b = a /\ e = c
    BY <1>1, <1>2, <2>2 DEF Tree
  <2>3. CASE d # c /\ b = a /\ e # c
    BY <1>1, <1>5, <2>3 DEF TreeOK
  <2>4. CASE b # a
    BY <1>1, <1>5, <2>4 DEF TreeOK
  <2> QED
    BY <2>1, <2>2, <2>3, <2>4
<1>7. \A d \in Caches : d \in Stack[d]
  BY StackFacts
<1>8. TreeOK(t)
  BY <1>6, <1>7 DEF TreeOK
<1> QED
  BY <1>8 DEF t

\* The last level may change as it likes while it keeps the line.
LEMMA LastLevelTree ==
  ASSUME NEW s \in [Caches -> [Addrs -> States]], TreeOK(s),
         NEW a \in Addrs, NEW new \in States \ {"I"},
         s[LastLevel][a] = "M" => new = "M"
  PROVE  TreeOK([s EXCEPT ![LastLevel][a] = new])
<1> DEFINE t == [s EXCEPT ![LastLevel][a] = new]
<1>1. \A d \in Caches, b \in Addrs : t[d][b] = IF d = LastLevel /\ b = a THEN new ELSE s[d][b]
  OBVIOUS
<1>2. \A d \in Caches : Stack[d] \subseteq Caches
  BY StackFacts
<1> HIDE DEF t
<1>3. TreeOK(t)
  <2> SUFFICES ASSUME NEW d \in Caches, NEW b \in Addrs
               PROVE  /\ t[d][b] = "U" => d = LastLevel
                      /\ \A e \in Stack[d] : /\ t[d][b] # "I" => t[e][b] # "I"
                                             /\ t[d][b] = "M" => t[e][b] = "M"
    BY DEF TreeOK
  <2>1. CASE d = LastLevel
    BY <1>1, <2>1, LastStack DEF TreeOK
  <2>2. CASE d # LastLevel
    BY <1>1, <1>2, <2>2 DEF TreeOK
  <2> QED
    BY <2>1, <2>2
<1> QED
  BY <1>3 DEF t

LEMMA InsertedTree ==
  ASSUME TypeOK, TreeOK(state), NEW c \in Caches, NEW a \in Addrs,
         NEW new \in States \ {"I", "U"},
         c # LastLevel => new = state[NextLevel[c]][a],
         NEW x \in Inserted(c, a, new)
  PROVE  /\ TreeOK(x.state)
         /\ \A d \in Caches, b \in Addrs :
              d # c /\ state[d][b] = "I" => x.state[d][b] = "I"
<1>1. PICK victims \in SUBSET Addrs :
        a \notin victims /\ x.state = [Evicted(c, victims) EXCEPT ![c][a] = new]
  BY InsertedFacts
<1> DEFINE s == Evicted(c, victims)
<1>2. s \in [Caches -> [Addrs -> States]]
  BY DEF Evicted, TypeOK, States
<1>3. \A d \in Caches, b \in Addrs :
        s[d][b] = IF d \in Tree(c) /\ b \in victims THEN "I" ELSE state[d][b]
  BY DEF Evicted
<1>4. ~ Valid(c, a)
  BY InsertedFacts
<1>5. \A d \in Caches : Stack[d] \subseteq Caches
  BY StackFacts
<1> HIDE DEF s
<1>6. TreeOK(s)
  BY <1>3, <1>5, TreeUpClosed DEF TreeOK, UpClosed
<1>7. ASSUME NEW d \in Prev(c)  PROVE s[d][a] = "I"
  <2>1. d \in Caches /\ c \in Stack[d]
    BY PrevFacts
  <2>2. state[d][a] = "I"
    BY <1>4, <2>1 DEF TreeOK, Valid
  <2> QED
    BY <1>3, <2>1, <2>2
<1>8. c # LastLevel => s[NextLevel[c]][a] = new
  BY <1>1, <1>3, LastLevelFacts
<1>9. TreeOK([s EXCEPT ![c][a] = new])
  BY <1>2, <1>6, <1>7, <1>8, ChangedTree
<1>10. \A d \in Caches, b \in Addrs : d # c => x.state[d][b] = s[d][b]
  BY <1>1, <1>2 DEF s
<1> QED
  BY <1>1, <1>3, <1>9, <1>10 DEF s

-----------------------------------------------------------------------------
(* The inductive invariant of inclusion: the levels a request has passed   *)
(* have dropped the line and nobody fills them meanwhile.                  *)

\* Waiter i of line a has not been woken yet when srv is the line being served.
Pends(q, srv, a, i) == i \in DOMAIN q[a] /\ (a = srv => i > 1)

\* A core waits for one access at a time.
Once(q, srv) ==
  \A a, b \in Addrs : \A i \in DOMAIN q[a], j \in DOMAIN q[b] :
    Pends(q, srv, a, i) /\ Pends(q, srv, b, j) /\ q[a][i].core = q[b][j].core
    => a = b /\ i = j

\* The private levels of a core that waits for a line have dropped it.
WaitersDropped(q, srv, s) ==
  \A a \in Addrs : \A i \in DOMAIN q[a] :
    Pends(q, srv, a, i) /\ q[a][i].op # "PREFETCH" =>
      \A c \in Stack[q[a][i].from] \ {LastLevel} : s[c][a] = "I"

\* The access that holds the stack lock.
PathInv ==
  lock # Free =>
    /\ lock.at \in Stack[lock.from]
    /\ lock.from = lock.at /\ lock.doing = "ask" => lock.op = "PREFETCH"
    /\ \A c \in Stack[lock.from] \ Stack[lock.at] : state[c][lock.a] = "I"
    /\ ~ Waiting(lock.core)

HierarchyInv ==
  /\ TypeOK /\ ServedWaits
  /\ TreeOK(state)
  /\ PathInv
  /\ Once(m_directory_waiters, serving)
  /\ WaitersDropped(m_directory_waiters, serving, state)

LEMMA InitHierarchy == Init => HierarchyInv
<1> SUFFICES ASSUME Init PROVE HierarchyInv
  OBVIOUS
<1>1. TypeOK /\ ServedWaits
  BY InitAtomic DEF AtomicInv
<1>2. TreeOK(state)
  BY LastLevelFacts DEF Init, TreeOK
<1>3. PathInv
  BY DEF Init, PathInv
<1>4. Once(m_directory_waiters, serving) /\ WaitersDropped(m_directory_waiters, serving, state)
  BY DEF Init, Once, WaitersDropped
<1> QED
  BY <1>1, <1>2, <1>3, <1>4 DEF HierarchyInv

LEMMA UpdatedDrops ==
  ASSUME TypeOK, NEW set, NEW a \in Addrs, NEW new, NEW c \in Caches, NEW b \in Addrs,
         state[c][b] = "I"
  PROVE  Updated(set, a, new)[c][b] = "I"
BY DEF Updated, Valid

\* The line of a cache whose turn it is to ask the next level is in none of the
\* levels above.
LEMMA NoneAbove ==
  ASSUME HierarchyInv, PrivateLevels, NEW c \in Caches \ {LastLevel}, PassOn(c),
         NEW d \in Prev(c)
  PROVE  state[d][lock.a] = "I"
<1>1. lock # Free /\ lock.at = c /\ lock.doing = "ask" /\ ~ Permits(c, lock.a, lock.op)
  BY DEF PassOn, Asked
<1>2. lock.a \in Addrs /\ lock.from \in Caches
  BY <1>1, HolderType DEF HierarchyInv
<1>3. d \in Caches /\ c \in Stack[d]
  BY PrevFacts
<1>4. CASE lock.from = c
  <2>1. lock.op = "PREFETCH"
    BY <1>1, <1>4 DEF HierarchyInv, PathInv
  <2>2. state[c][lock.a] \in {"I", "U"}
    BY <1>1, <1>2, <2>1 DEF Permits, Exclusive, Readable, HierarchyInv, TypeOK, States
  <2>3. state[c][lock.a] = "I"
    BY <1>2, <2>2 DEF HierarchyInv, TreeOK
  <2> QED
    BY <1>2, <1>3, <2>3 DEF HierarchyInv, TreeOK
<1>5. CASE lock.from # c
  <2>1. c \in Stack[lock.from]
    BY <1>1 DEF HierarchyInv, PathInv
  <2>2. PICK e \in Stack[lock.from] : NextLevel[e] = c
    BY <1>2, <1>5, <2>1, TreeAssumption
  <2>3. e \in Caches /\ e \notin Stack[c]
    BY <1>2, <2>2, StackFacts, NamesAssumption
  <2>4. d = e
    BY <2>2, <2>3, PrivatePrev DEF Prev
  <2>5. state[e][lock.a] = "I"
    BY <1>1, <2>2, <2>3 DEF HierarchyInv, PathInv
  <2> QED
    BY <2>4, <2>5
<1> QED
  BY <1>4, <1>5

\* A line that comes up enters one cache only.
LEMMA OnlyOneFilled ==
  ASSUME HierarchyInv, NEW c \in Caches, CopyDataFromNextLevel(c)
  PROVE  /\ TreeOK(state')
         /\ \A d \in Caches, b \in Addrs : d # c /\ state[d][b] = "I" => state'[d][b] = "I"
<1> USE DEF HierarchyInv
<1>1. lock # Free /\ lock.at = NextLevel[c] /\ Permits(NextLevel[c], lock.a, lock.op)
  BY DEF CopyDataFromNextLevel
<1>2. lock.a \in Addrs /\ NextLevel[c] \in Caches
  BY <1>1, HolderType
<1> DEFINE new == FilledState(NextLevel[c], lock.a)
<1>3. PICK x \in Inserted(c, lock.a, new) : state' = x.state
  BY DEF CopyDataFromNextLevel
<1>4. new = state[NextLevel[c]][lock.a] /\ new \in States \ {"I", "U"}
  BY <1>1, <1>2 DEF FilledState, Permits, Readable, Writable, States
<1> HIDE DEF new
<1> QED
  BY <1>2, <1>3, <1>4, InsertedTree

\* Every step leaves the tree inclusive, and only the cache that the access fills
\* gains a line.
LEMMA StateStep ==
  ASSUME HierarchyInv, PrivateLevels, [Next]_vars
  PROVE  /\ TreeOK(state')
         /\ \A c \in Caches \ {LastLevel}, b \in Addrs :
              state[c][b] = "I" /\ state'[c][b] # "I" => CopyDataFromNextLevel(c)
<1> DEFINE Drops == \A c \in Caches \ {LastLevel}, b \in Addrs :
                      state[c][b] = "I" => state'[c][b] = "I"
<1> USE DEF HierarchyInv
<1>1. ASSUME UNCHANGED state  PROVE TreeOK(state') /\ Drops
  BY <1>1
<1>2. ASSUME NEW t \in FirstLevel, NEW a \in Addrs, NEW op \in Ops, FirstLevelMiss(t, a, op)
      PROVE  TreeOK(state') /\ Drops
  <2>1. t \in Caches /\ Prev(t) = {}
    BY DEF FirstLevel
  <2>2. state' = [state EXCEPT ![t][a] = "I"]
    BY <1>2 DEF FirstLevelMiss, Dropped
  <2>3. state \in [Caches -> [Addrs -> States]] /\ "I" \in States
    BY DEF TypeOK, States
  <2>4. TreeOK(state')
    BY <2>1, <2>2, <2>3, ChangedTree
  <2>5. Drops
    BY <2>1, <2>2, <2>3
  <2> QED
    BY <2>4, <2>5
<1>3. ASSUME NEW c \in Caches, HitInCache(c)
      PROVE  TreeOK(state') /\ Drops
  <2>1. lock.a \in Addrs
    BY <1>3, HolderType DEF HitInCache, Asked
  <2>2. CASE UNCHANGED state
    BY <1>1, <2>2
  <2>3. CASE ~ UNCHANGED state
    <3>1. PICK new \in SnoopedTo(c) : state' = Updated(Siblings(c), lock.a, new)
      BY <1>3, <2>3 DEF HitInCache, Snoop
    <3>2. new \in {"I", "S"}
      BY DEF SnoopedTo
    <3> QED
      BY <2>1, <3>1, <3>2, SiblingsUpClosed, UpdatedTree, UpdatedDrops
  <2> QED
    BY <2>2, <2>3
<1>4. ASSUME NEW c \in Caches, PassOn(c)
      PROVE  TreeOK(state') /\ Drops
  <2> DEFINE snooped == IF Upgrades(c, "S") THEN Siblings(c) ELSE {}
             u == Updated(snooped, lock.a, "I")
  <2>1. lock # Free /\ c # LastLevel /\ state' = [u EXCEPT ![c][lock.a] = "I"]
    BY <1>4 DEF PassOn, Asked
  <2>2. lock.a \in Addrs
    BY <2>1, HolderType
  <2>3. UpClosed(snooped)
    BY SiblingsUpClosed DEF UpClosed
  <2>4. \A d \in Prev(c) : state[d][lock.a] = "I" /\ d \in Caches
    BY <1>4, <2>1, NoneAbove DEF Prev
  <2> HIDE DEF snooped
  <2>5. TreeOK(u)
    BY <2>2, <2>3, UpdatedTree
  <2>6. u \in [Caches -> [Addrs -> States]] /\ "I" \in States
    BY <2>2, UpdatedType DEF States
  <2>7. \A d \in Caches, b \in Addrs : state[d][b] = "I" => u[d][b] = "I"
    BY <2>2, UpdatedDrops
  <2> HIDE DEF u
  <2>8. TreeOK(state')
    BY <2>1, <2>2, <2>4, <2>5, <2>6, <2>7, ChangedTree
  <2>9. Drops
    BY <2>1, <2>2, <2>6, <2>7
  <2> QED
    BY <2>8, <2>9
<1>5. ASSUME NEW c \in Caches, SilentUpgrade(c)
      PROVE  TreeOK(state') /\ Drops
  <2> DEFINE u == Updated(Siblings(c), lock.a, "I")
  <2>1. lock # Free /\ c = LastLevel /\ state' = [u EXCEPT ![LastLevel][lock.a] = "M"]
    BY <1>5 DEF SilentUpgrade, Asked
  <2>2. lock.a \in Addrs
    BY <2>1, HolderType
  <2>3. TreeOK(u)
    BY <2>2, SiblingsUpClosed, UpdatedTree
  <2>4. u \in [Caches -> [Addrs -> States]]
    BY <2>2, UpdatedType DEF States
  <2>5. \A d \in Caches, b \in Addrs : state[d][b] = "I" => u[d][b] = "I"
    BY <2>2, UpdatedDrops
  <2> HIDE DEF u
  <2>6. TreeOK(state')
    BY <2>1, <2>2, <2>3, <2>4, LastLevelTree DEF States
  <2>7. Drops
    BY <2>1, <2>2, <2>4, <2>5
  <2> QED
    BY <2>6, <2>7
<1>6. ASSUME NEW c \in Caches, AccessDRAM(c)
      PROVE  TreeOK(state') /\ Drops
  <2> DEFINE new == IF Exclusive(lock.op) THEN "M" ELSE "S"
  <2>1. lock.a \in Addrs /\ c = LastLevel
    BY <1>6, HolderType DEF AccessDRAM, Asked
  <2>2. PICK x \in Inserted(c, lock.a, new) : state' = x.state
    BY <1>6 DEF AccessDRAM
  <2>3. new \in States \ {"I", "U"}
    BY DEF States
  <2> HIDE DEF new
  <2> QED
    BY <2>1, <2>2, <2>3, InsertedTree
<1>7. ASSUME NEW c \in Caches, InitiateDirectoryAccess(c)
      PROVE  TreeOK(state') /\ Drops
  <2> DEFINE snooped == IF Upgrades(c, "S") THEN Siblings(c) ELSE {}
             u == Updated(snooped, lock.a, "I")
  <2>1. lock # Free /\ c = LastLevel
    BY <1>7 DEF InitiateDirectoryAccess, Asked
  <2>2. lock.a \in Addrs
    BY <2>1, HolderType
  <2>3. UpClosed(snooped)
    BY SiblingsUpClosed DEF UpClosed
  <2>4. \/ state' = u
        \/ state' = [u EXCEPT ![LastLevel][lock.a] = "U"] /\ state[LastLevel][lock.a] = "S"
    BY <1>7, <2>1 DEF InitiateDirectoryAccess
  <2> HIDE DEF snooped
  <2>5. TreeOK(u) /\ u \in [Caches -> [Addrs -> States]]
    BY <2>2, <2>3, UpdatedTree, UpdatedType DEF States
  <2>6. \A d \in Caches, b \in Addrs : state[d][b] = "I" => u[d][b] = "I"
    BY <2>2, UpdatedDrops
  <2>7. u[LastLevel][lock.a] = "M" => state[LastLevel][lock.a] = "M"
    BY <2>2, LastLevelFacts DEF Updated
  <2> HIDE DEF u
  <2>8. CASE state' = u
    BY <2>5, <2>6, <2>8
  <2>9. CASE state' = [u EXCEPT ![LastLevel][lock.a] = "U"] /\ state[LastLevel][lock.a] = "S"
    <3>1. TreeOK(state')
      BY <2>2, <2>5, <2>7, <2>9, LastLevelTree DEF States
    <3>2. Drops
      BY <2>2, <2>5, <2>6, <2>9
    <3> QED
      BY <3>1, <3>2
  <2> QED
    BY <2>4, <2>8, <2>9
<1>8. ASSUME NEW c \in Caches, CopyDataFromNextLevel(c)
      PROVE  /\ TreeOK(state')
             /\ \A d \in Caches \ {LastLevel}, b \in Addrs :
                  state[d][b] = "I" /\ state'[d][b] # "I" => CopyDataFromNextLevel(d)
  BY <1>8, OnlyOneFilled
<1>9. ASSUME NEW a \in Addrs, NEW s \in [Caches -> [Addrs -> States]], NEW q,
             TreeOK(s), Serve(a, s, q),
             \A c \in Caches \ {LastLevel}, b \in Addrs : state[c][b] = "I" => s[c][b] = "I"
      PROVE  TreeOK(state') /\ Drops
  <2>1. \/ state' = s
        \/ state' = [s EXCEPT ![LastLevel][a] = "U"] /\ s[LastLevel][a] = "S"
    BY <1>9 DEF Serve
  <2>2. CASE state' = s
    BY <1>9, <2>2
  <2>3. CASE state' = [s EXCEPT ![LastLevel][a] = "U"] /\ s[LastLevel][a] = "S"
    BY <1>9, <2>3, LastLevelTree DEF States
  <2> QED
    BY <2>1, <2>2, <2>3
<1>10. ASSUME NEW a \in Addrs, Rep(a)
       PROVE  TreeOK(state') /\ Drops
  <2>1. PICK new \in Replies(a) : \E x \in Inserted(LastLevel, a, new) :
          Serve(a, x.state, m_directory_waiters)
    BY <1>10 DEF Rep
  <2>2. PICK x \in Inserted(LastLevel, a, new) : Serve(a, x.state, m_directory_waiters)
    BY <2>1
  <2>3. new \in States \ {"I", "U"}
    BY DEF Replies, States
  <2>4. x.state \in [Caches -> [Addrs -> States]]
    BY <2>3, LastLevelFacts, InsertedType
  <2>5. TreeOK(x.state) /\ \A c \in Caches, b \in Addrs :
                               c # LastLevel /\ state[c][b] = "I" => x.state[c][b] = "I"
    BY <2>3, LastLevelFacts, InsertedTree
  <2> QED
    BY <2>2, <2>4, <2>5, <1>9
<1>11. ASSUME NEW a \in Addrs, UpgradeRep(a)
       PROVE  TreeOK(state') /\ Drops
  <2>1. Updated(Caches, a, "M") \in [Caches -> [Addrs -> States]]
    BY UpdatedType DEF States
  <2> QED
    BY <1>9, <1>11, <2>1, UpgradedTree, UpdatedDrops DEF UpgradeRep
<1>12. ASSUME NEW a \in Addrs, NextWaiter(a)
       PROVE  TreeOK(state') /\ Drops
  BY <1>9, <1>12 DEF NextWaiter, TypeOK
<1>13. ASSUME NEW a \in Addrs, InvReq(a) \/ FlushReq(a) \/ WbReq(a)
       PROVE  TreeOK(state') /\ Drops
  <2>1. PICK new \in {"I", "S"} : state' = Updated(Caches, a, new)
    BY <1>13 DEF InvReq, FlushReq, WbReq, ToDirectory
  <2>2. UpClosed(Caches)
    BY DEF UpClosed
  <2> QED
    BY <2>1, <2>2, UpdatedTree, UpdatedDrops
<1>14. CASE \E t \in FirstLevel : CoreStep(t)
  <2>1. PICK t \in FirstLevel : CoreStep(t)
    BY <1>14
  <2>2. CASE UNCHANGED state
    BY <1>1, <2>2
  <2>3. CASE ~ UNCHANGED state
    <3>1. PICK a \in Addrs, op \in Ops : FirstLevelMiss(t, a, op)
      BY <2>1, <2>3 DEF CoreStep, FirstLevelHit, Unlock, DoPrefetch
    <3> QED
      BY <1>2, <3>1
  <2> QED
    BY <2>2, <2>3
<1>15. CASE UNCHANGED vars
  BY <1>1, <1>15 DEF vars
<1>16. CASE Finish
  BY <1>1, <1>16 DEF Finish
<1>17. CASE \E c \in Caches : CacheStep(c)
  BY <1>3, <1>4, <1>5, <1>6, <1>7, <1>8, <1>17 DEF CacheStep
<1>18. CASE NetworkStep
  BY <1>10, <1>11, <1>12, <1>13, <1>18 DEF NetworkStep
<1> QED
  BY <1>14, <1>15, <1>16, <1>17, <1>18 DEF Next

\* What the loop over the waiters leaves behind, given queues in which nobody has
\* been woken yet.
LEMMA ServeWaits ==
  ASSUME TypeOK, NEW a \in Addrs, NEW s \in [Caches -> [Addrs -> States]],
         NEW q \in [Addrs -> Seq(Waiters)],
         Once(q, NoAddr), WaitersDropped(q, NoAddr, s), Serve(a, s, q)
  PROVE  /\ Once(q, serving') /\ WaitersDropped(q, serving', state')
         /\ PathInv'
<1>1. \A b \in Addrs : b # NoAddr
  BY NamesAssumption
<1>2. m_directory_waiters' = q
  BY DEF Serve
<1>3. Once(q, serving')
  BY <1>1 DEF Once, Pends
<1>4. \/ state' = s
      \/ state' = [s EXCEPT ![LastLevel][a] = "U"]
  BY DEF Serve
<1>5. \A c \in Caches \ {LastLevel}, b \in Addrs : state'[c][b] = s[c][b]
  BY <1>4
<1>6. WaitersDropped(q, serving', state')
  <2> SUFFICES ASSUME NEW b \in Addrs, NEW i \in DOMAIN q[b], q[b][i].op # "PREFETCH",
                      NEW c \in Stack[q[b][i].from] \ {LastLevel}
               PROVE  state'[c][b] = "I"
    BY DEF WaitersDropped
  <2>1. q[b][i] \in Waiters
    OBVIOUS
  <2>2. c \in Caches
    BY <2>1, StackFacts DEF Waiters
  <2> QED
    BY <1>1, <1>5, <2>2 DEF WaitersDropped, Pends
<1>7. PathInv'
  <2>1. CASE lock' = Free
    BY <2>1 DEF PathInv
  <2>2. CASE lock' # Free
    <3> DEFINE w == Head(q[a])
               at == IF w.op = "PREFETCH" THEN w.from ELSE NextLevel[w.from]
    <3>1. q[a] # <<>> /\ Lock(w.core, w.from, w.op, a, at, TRUE) /\ serving' = a
      BY <2>2 DEF Serve
    <3>2. w \in Waiters /\ 1 \in DOMAIN q[a] /\ w = q[a][1]
      BY <3>1
    <3>3. /\ lock'.core = w.core /\ lock'.from = w.from /\ lock'.op = w.op /\ lock'.a = a
          /\ lock'.at = at /\ lock'.doing = "ask"
      BY <3>1 DEF Lock
    <3>4. w.from \in Caches /\ (w.op # "PREFETCH" => w.from = w.core /\ w.from \in FirstLevel)
      BY <3>2 DEF Waiters
    <3>5. w.op # "PREFETCH" => state'[w.from][a] = "I"
      BY <1>1, <1>5, <3>2, <3>4, StackFacts, FirstLevelFacts DEF WaitersDropped, Pends
    <3>6. ~ Waiting(w.core)'
      <4> SUFFICES ASSUME NEW b \in Addrs, NEW i \in DOMAIN q[b],
                          q[b][i].core = w.core, b = a => i > 1
                   PROVE  FALSE
        BY <1>2, <3>1 DEF Waiting
      <4>1. b = a /\ i = 1
        BY <1>1, <3>2 DEF Once, Pends
      <4> QED
        BY <4>1
    <3> HIDE DEF w
    <3>7. CASE w.op = "PREFETCH"
      BY <3>3, <3>4, <3>6, <3>7, StackFacts DEF PathInv
    <3>8. CASE w.op # "PREFETCH"
      <4>1. NextLevel[w.from] \in Caches /\ NextLevel[w.from] # Memory
        BY <3>4, <3>8, LastLevelFacts, NamesAssumption
      <4>2. /\ NextLevel[w.from] \in Stack[w.from]
            /\ Stack[w.from] = {w.from} \cup Stack[NextLevel[w.from]]
            /\ w.from \notin Stack[NextLevel[w.from]]
        BY <3>4, <4>1, StackFacts
      <4>3. NextLevel[w.from] # w.from
        BY <3>4, <4>2, StackFacts
      <4> QED
        BY <3>3, <3>5, <3>6, <3>8, <4>2, <4>3 DEF PathInv
    <3> QED
      BY <3>7, <3>8
  <2> QED
    BY <2>1, <2>2
<1> QED
  BY <1>3, <1>6, <1>7

\* No private level of a core that waits is filled: the cache that is filled is on
\* the way of the owner of the stack lock.
LEMMA FilledIsNotWaiting ==
  ASSUME HierarchyInv, PrivateLevels, NEW t \in FirstLevel, NEW c \in Stack[t] \ {LastLevel},
         CopyDataFromNextLevel(c)
  PROVE  ~ Waiting(t)
<1>1. lock # Free /\ c \in Stack[lock.from]
  BY DEF CopyDataFromNextLevel
<1>2. lock.from \in Stack[lock.core] /\ lock.core \in FirstLevel
  BY <1>1, HolderType DEF HierarchyInv
<1>3. t \in Caches /\ lock.core \in Caches
  BY <1>2, FirstLevelFacts
<1>4. c \in Caches \ {LastLevel} /\ c \in Stack[lock.core]
  BY <1>1, <1>2, <1>3, StackFacts, TreeAssumption
<1>5. t = lock.core
  BY <1>2, <1>4, PrivateCore
<1> QED
  BY <1>1, <1>5 DEF HierarchyInv, PathInv

\* The queues while nothing is put in, taken out or served.
LEMMA QueueKept ==
  ASSUME HierarchyInv, PrivateLevels, [Next]_vars, UNCHANGED <<m_directory_waiters, serving>>
  PROVE  /\ Once(m_directory_waiters, serving)'
         /\ WaitersDropped(m_directory_waiters, serving, state)'
<1>1. Once(m_directory_waiters, serving)'
  BY DEF HierarchyInv, Once, Pends
<1>2. WaitersDropped(m_directory_waiters, serving, state')
  <2> SUFFICES ASSUME NEW a \in Addrs, NEW i \in DOMAIN m_directory_waiters[a],
                      Pends(m_directory_waiters, serving, a, i),
                      m_directory_waiters[a][i].op # "PREFETCH",
                      NEW c \in Stack[m_directory_waiters[a][i].from] \ {LastLevel}
               PROVE  state'[c][a] = "I"
    BY DEF WaitersDropped
  <2> DEFINE t == m_directory_waiters[a][i].core
  <2>1. m_directory_waiters[a][i] \in Waiters
    BY DEF HierarchyInv, TypeOK
  <2>2. t \in FirstLevel /\ m_directory_waiters[a][i].from = t
    BY <2>1 DEF Waiters
  <2>3. c \in Stack[t] \ {LastLevel} /\ c \in Caches
    BY <2>2, StackFacts, FirstLevelFacts
  <2>4. Waiting(t)
    BY DEF Waiting, Pends
  <2>5. state[c][a] = "I"
    BY DEF HierarchyInv, WaitersDropped
  <2> HIDE DEF t
  <2>6. ~ CopyDataFromNextLevel(c)
    BY <2>2, <2>3, <2>4, FilledIsNotWaiting
  <2> QED
    BY <2>3, <2>5, <2>6, StateStep
<1>3. WaitersDropped(m_directory_waiters, serving, state)'
  BY <1>2 DEF WaitersDropped, Pends
<1> QED
  BY <1>1, <1>3

\* A core joins a queue.
LEMMA QueueJoined ==
  ASSUME HierarchyInv, PrivateLevels, [Next]_vars, NEW c \in Caches, InitiateDirectoryAccess(c)
  PROVE  /\ Once(m_directory_waiters, serving)'
         /\ WaitersDropped(m_directory_waiters, serving, state)'
<1> DEFINE w == [core |-> lock.core, from |-> lock.from, op |-> lock.op]
           la == lock.a
           q == [m_directory_waiters EXCEPT ![la] = Append(@, w)]
           new(a, i) == a = la /\ i = Len(m_directory_waiters[la]) + 1
<1>1. lock # Free /\ lock.at = LastLevel /\ m_directory_waiters' = q /\ UNCHANGED serving
  BY DEF InitiateDirectoryAccess, Asked
<1>2. la \in Addrs /\ lock.from \in Caches /\ lock.core \in FirstLevel
      /\ (lock.op # "PREFETCH" => lock.from = lock.core)
  BY <1>1, HolderType DEF HierarchyInv
<1>3. m_directory_waiters \in [Addrs -> Seq(Waiters)]
  BY DEF HierarchyInv, TypeOK
<1>4. ASSUME NEW a \in Addrs, NEW i \in DOMAIN q[a]
      PROVE  \/ new(a, i) /\ q[a][i] = w
             \/ i \in DOMAIN m_directory_waiters[a] /\ q[a][i] = m_directory_waiters[a][i]
  BY <1>2, <1>3
<1>5. ~ Waiting(lock.core)
  BY <1>1 DEF HierarchyInv, PathInv
<1>6. w.core = lock.core /\ w.op = lock.op
  OBVIOUS
<1> HIDE DEF q, w, la
<1>7. Once(q, serving)
  <2> SUFFICES ASSUME NEW a \in Addrs, NEW b \in Addrs, NEW i \in DOMAIN q[a], NEW j \in DOMAIN q[b],
                      a = serving => i > 1, b = serving => j > 1, q[a][i].core = q[b][j].core
               PROVE  a = b /\ i = j
    BY DEF Once, Pends
  <2>1. CASE new(a, i) /\ new(b, j)
    BY <2>1
  <2>2. CASE ~ new(a, i) /\ ~ new(b, j)
    BY <1>4, <2>2 DEF HierarchyInv, Once, Pends
  <2>3. CASE new(a, i) /\ ~ new(b, j)
    <3>1. q[a][i].core = lock.core \/ (i \in DOMAIN m_directory_waiters[a])
      BY <1>4, <1>6
    <3>2. i \notin DOMAIN m_directory_waiters[a]
      BY <1>3, <2>3
    <3> QED
      BY <1>4, <1>5, <2>3, <3>1, <3>2 DEF Waiting
  <2>4. CASE ~ new(a, i) /\ new(b, j)
    <3>1. q[b][j].core = lock.core \/ (j \in DOMAIN m_directory_waiters[b])
      BY <1>4, <1>6
    <3>2. j \notin DOMAIN m_directory_waiters[b]
      BY <1>3, <2>4
    <3> QED
      BY <1>4, <1>5, <2>4, <3>1, <3>2 DEF Waiting
  <2> QED
    BY <2>1, <2>2, <2>3, <2>4
<1>8. ASSUME NEW c1 \in Caches \ {LastLevel}, NEW a \in Addrs, state[c1][a] = "I"
      PROVE  state'[c1][a] = "I"
  <2>1. ~ CopyDataFromNextLevel(c1)
    BY DEF InitiateDirectoryAccess, Asked, CopyDataFromNextLevel
  <2> QED
    BY <1>8, <2>1, StateStep
<1>9. \A d \in Stack[w.from] \ {LastLevel} : state[d][la] = "I"
  BY <1>1, LastStack DEF HierarchyInv, PathInv, la, w
<1>10. WaitersDropped(q, serving, state')
  <2> SUFFICES ASSUME NEW a \in Addrs, NEW i \in DOMAIN q[a],
                      a = serving => i > 1, q[a][i].op # "PREFETCH",
                      NEW d \in Stack[q[a][i].from] \ {LastLevel}
               PROVE  state'[d][a] = "I"
    BY DEF WaitersDropped, Pends
  <2>1. CASE new(a, i) /\ q[a][i] = w
    <3>1. d \in Caches
      BY <1>2, <2>1, StackFacts DEF w
    <3> QED
      BY <1>2, <1>8, <1>9, <2>1, <3>1
  <2>2. CASE i \in DOMAIN m_directory_waiters[a] /\ q[a][i] = m_directory_waiters[a][i]
    <3>1. m_directory_waiters[a][i] \in Waiters
      BY <1>3, <2>2
    <3>2. d \in Caches
      BY <2>2, <3>1, StackFacts DEF Waiters
    <3>3. state[d][a] = "I"
      BY <2>2 DEF HierarchyInv, WaitersDropped, Pends
    <3> QED
      BY <1>8, <3>2, <3>3
  <2> QED
    BY <1>4, <2>1, <2>2
<1>11. Once(m_directory_waiters, serving)'
  BY <1>1, <1>7 DEF Once, Pends
<1>12. WaitersDropped(m_directory_waiters, serving, state)'
  BY <1>1, <1>10 DEF WaitersDropped, Pends
<1> QED
  BY <1>11, <1>12

LEMMA TailFacts ==
  ASSUME NEW S, NEW s \in Seq(S), s # <<>>
  PROVE  \A i \in DOMAIN Tail(s) :
           i \in Nat /\ i + 1 > 1 /\ i + 1 \in DOMAIN s /\ Tail(s)[i] = s[i + 1]
<1>1. Len(s) \in Nat \ {0} /\ DOMAIN s = 1 .. Len(s)
  OBVIOUS
<1>2. Len(Tail(s)) = Len(s) - 1 /\ DOMAIN Tail(s) = 1 .. Len(s) - 1
  BY <1>1
<1> QED
  BY <1>1, <1>2

\* The network thread wakes the first waiter of a line, the next one, or none.
LEMMA QueueServed ==
  ASSUME HierarchyInv, PrivateLevels, [Next]_vars,
         NEW a \in Addrs, Rep(a) \/ UpgradeRep(a) \/ NextWaiter(a)
  PROVE  /\ Once(m_directory_waiters, serving)'
         /\ WaitersDropped(m_directory_waiters, serving, state)'
         /\ PathInv'
<1> USE DEF HierarchyInv
<1> DEFINE mdw == m_directory_waiters
<1>1. mdw \in [Addrs -> Seq(Waiters)]
  BY DEF TypeOK
<1>2. ASSUME NEW q \in [Addrs -> Seq(Waiters)], NEW s \in [Caches -> [Addrs -> States]],
             Once(q, NoAddr), WaitersDropped(q, NoAddr, s), Serve(a, s, q)
      PROVE  /\ Once(m_directory_waiters, serving)'
             /\ WaitersDropped(m_directory_waiters, serving, state)'
             /\ PathInv'
  <2>1. Once(q, serving') /\ WaitersDropped(q, serving', state') /\ PathInv'
    BY <1>2, ServeWaits
  <2>2. m_directory_waiters' = q
    BY <1>2 DEF Serve
  <2> QED
    BY <2>1, <2>2 DEF Once, WaitersDropped, Pends
<1>3. ASSUME serving = NoAddr, NEW s \in [Caches -> [Addrs -> States]],
             \A c \in Caches \ {LastLevel}, b \in Addrs : state[c][b] = "I" => s[c][b] = "I"
      PROVE  Once(mdw, NoAddr) /\ WaitersDropped(mdw, NoAddr, s)
  <2>1. Once(mdw, NoAddr) /\ WaitersDropped(mdw, NoAddr, state)
    BY <1>3
  <2> SUFFICES ASSUME NEW b \in Addrs, NEW i \in DOMAIN mdw[b], mdw[b][i].op # "PREFETCH",
                      NEW c \in Stack[mdw[b][i].from] \ {LastLevel}
               PROVE  s[c][b] = "I"
    BY <2>1 DEF WaitersDropped
  <2>2. mdw[b][i] \in Waiters
    BY <1>1
  <2>3. c \in Caches \ {LastLevel}
    BY <2>2, StackFacts DEF Waiters
  <2>4. state[c][b] = "I"
    BY <2>1, NamesAssumption DEF WaitersDropped, Pends
  <2> QED
    BY <1>3, <2>3, <2>4
<1>4. CASE Rep(a)
  <2>1. PICK new \in Replies(a) : \E x \in Inserted(LastLevel, a, new) :
          Serve(a, x.state, m_directory_waiters)
    BY <1>4 DEF Rep
  <2>2. PICK x \in Inserted(LastLevel, a, new) : Serve(a, x.state, m_directory_waiters)
    BY <2>1
  <2>3. new \in States \ {"I", "U"}
    BY DEF Replies, States
  <2>4. x.state \in [Caches -> [Addrs -> States]]
    BY <2>3, LastLevelFacts, InsertedType
  <2>5. \A c \in Caches, b \in Addrs : c # LastLevel /\ state[c][b] = "I" => x.state[c][b] = "I"
    BY <2>3, LastLevelFacts, InsertedTree
  <2>6. serving = NoAddr
    BY <1>4 DEF Rep
  <2>7. Once(mdw, NoAddr) /\ WaitersDropped(mdw, NoAddr, x.state)
    BY <1>3, <2>4, <2>5, <2>6
  <2> QED
    BY <1>1, <1>2, <2>2, <2>4, <2>7
<1>5. CASE UpgradeRep(a)
  <2> DEFINE s == Updated(Caches, a, "M")
  <2>1. s \in [Caches -> [Addrs -> States]]
    BY UpdatedType DEF States
  <2>2. \A c \in Caches \ {LastLevel}, b \in Addrs : state[c][b] = "I" => s[c][b] = "I"
    BY UpdatedDrops
  <2>3. Serve(a, s, mdw) /\ serving = NoAddr
    BY <1>5 DEF UpgradeRep
  <2> HIDE DEF s
  <2>4. Once(mdw, NoAddr) /\ WaitersDropped(mdw, NoAddr, s)
    BY <1>3, <2>1, <2>2, <2>3
  <2> QED
    BY <1>1, <1>2, <2>1, <2>3, <2>4
<1>6. CASE NextWaiter(a)
  <2> DEFINE q == [mdw EXCEPT ![a] = Tail(@)]
             old(b, i) == IF b = a THEN i + 1 ELSE i
  <2>1. serving = a /\ Serve(a, state, q)
    BY <1>6 DEF NextWaiter
  <2>2. mdw[a] # <<>>
    BY <2>1, NamesAssumption DEF ServedWaits
  <2>3. q \in [Addrs -> Seq(Waiters)]
    BY <1>1, <2>2
  <2>4. ASSUME NEW b \in Addrs, NEW i \in DOMAIN q[b]
        PROVE  /\ old(b, i) \in DOMAIN mdw[b] /\ q[b][i] = mdw[b][old(b, i)]
               /\ b = serving => old(b, i) > 1
               /\ i \in Nat
    <3>1. CASE b = a
      <4>1. q[a] = Tail(mdw[a]) /\ mdw[a] \in Seq(Waiters)
        BY <1>1
      <4>2. i \in DOMAIN Tail(mdw[a])
        BY <3>1, <4>1
      <4>3. /\ i \in Nat /\ i + 1 > 1 /\ i + 1 \in DOMAIN mdw[a]
            /\ Tail(mdw[a])[i] = mdw[a][i + 1]
        BY <2>2, <4>1, <4>2, TailFacts
      <4>4. old(b, i) = i + 1
        BY <3>1
      <4> HIDE DEF old, mdw, q
      <4> QED
        BY <3>1, <4>1, <4>3, <4>4
    <3>2. CASE b # a
      BY <1>1, <2>1, <3>2
    <3> QED
      BY <3>1, <3>2
  <2> HIDE DEF q
  <2>5. Once(q, NoAddr)
    <3> SUFFICES ASSUME NEW b \in Addrs, NEW c \in Addrs, NEW i \in DOMAIN q[b],
                        NEW j \in DOMAIN q[c], q[b][i].core = q[c][j].core
                 PROVE  b = c /\ i = j
      BY DEF Once
    <3>1. b = c /\ old(b, i) = old(c, j)
      BY <2>4 DEF Once, Pends
    <3> QED
      BY <2>4, <3>1
  <2>6. WaitersDropped(q, NoAddr, state)
    <3> SUFFICES ASSUME NEW b \in Addrs, NEW i \in DOMAIN q[b], q[b][i].op # "PREFETCH",
                        NEW c \in Stack[q[b][i].from] \ {LastLevel}
                 PROVE  state[c][b] = "I"
      BY DEF WaitersDropped
    <3> QED
      BY <2>4 DEF WaitersDropped, Pends
  <2>7. state \in [Caches -> [Addrs -> States]]
    BY DEF TypeOK
  <2> QED
    BY <1>2, <2>1, <2>3, <2>5, <2>6, <2>7
<1> QED
  BY <1>4, <1>5, <1>6

\* A request goes one level on, or the line one level up.
LEMMA PathStep ==
  ASSUME HierarchyInv, PrivateLevels, [Next]_vars
  PROVE  PathInv'
<1> USE DEF HierarchyInv
<1>1. ASSUME NEW t, Waiting(t)', UNCHANGED <<m_directory_waiters, serving>>
      PROVE  Waiting(t)
  BY <1>1 DEF Waiting
<1>2. ASSUME lock' = Free  PROVE PathInv'
  BY <1>2 DEF PathInv
<1>3. ASSUME UNCHANGED <<lock, state, m_directory_waiters, serving>>  PROVE PathInv'
  BY <1>1, <1>3 DEF PathInv
<1>4. ASSUME NEW t \in FirstLevel, NEW a \in Addrs, NEW op \in Ops \ {"PREFETCH"},
             FirstLevelMiss(t, a, op)
      PROVE  PathInv'
  <2>1. t \in Caches /\ NextLevel[t] \in Caches /\ NextLevel[t] # Memory
    BY LastLevelFacts, NamesAssumption
  <2>2. /\ NextLevel[t] \in Stack[t]
        /\ Stack[t] = {t} \cup Stack[NextLevel[t]]
        /\ t # NextLevel[t]
    BY <2>1, StackFacts
  <2>3. /\ lock'.core = t /\ lock'.from = t /\ lock'.a = a /\ lock'.at = NextLevel[t]
        /\ state'[t][a] = "I" /\ ~ Waiting(t)
    BY <1>4, <2>1 DEF FirstLevelMiss, Lock, Dropped, Ready, TypeOK
  <2>4. ~ Waiting(t)'
    BY <1>1, <1>4, <2>3 DEF FirstLevelMiss
  <2> QED
    BY <2>2, <2>3, <2>4 DEF PathInv
<1>5. ASSUME NEW t \in FirstLevel, NEW a \in Addrs, NEW c \in Caches, DoPrefetch(t, c, a)
      PROVE  PathInv'
  <2>1. /\ lock'.core = t /\ lock'.from = c /\ lock'.op = "PREFETCH" /\ lock'.at = c
        /\ ~ Waiting(t)
    BY <1>5 DEF DoPrefetch, Lock, Ready
  <2>2. ~ Waiting(t)'
    BY <1>1, <1>5, <2>1 DEF DoPrefetch
  <2> QED
    BY <2>1, <2>2, StackFacts DEF PathInv
\* The request hits: the line comes up from the cache it is at.
<1>6. ASSUME NEW c \in Caches, Asked(c), Fill, UNCHANGED <<m_directory_waiters, serving>>
      PROVE  PathInv'
  <2>1. lock # Free /\ lock.at = c /\ lock.doing = "ask"
    BY <1>6 DEF Asked
  <2>2. lock.a \in Addrs /\ lock.from \in Caches
    BY <2>1, HolderType
  <2>3. /\ lock'.core = lock.core /\ lock'.from = lock.from /\ lock'.a = lock.a
        /\ lock'.at = c /\ lock'.doing = "fill"
    BY <1>6, <2>1, HolderType DEF Fill, Holders
  <2>4. ASSUME NEW d \in Stack[lock.from] \ Stack[c]  PROVE state'[d][lock.a] = "I"
    <3>1. d \in Caches /\ state[d][lock.a] = "I"
      BY <2>1, <2>2, <2>4, StackFacts DEF PathInv
    <3>2. LastLevel \in Stack[c]
      BY LevelsAssumption
    <3>3. ~ CopyDataFromNextLevel(d)
      BY <2>1 DEF CopyDataFromNextLevel
    <3> QED
      BY <2>2, <2>4, <3>1, <3>2, <3>3, StateStep
  <2>5. ~ Waiting(lock.core)'
    BY <1>1, <1>6, <2>1, <2>3 DEF PathInv
  <2> QED
    BY <2>1, <2>3, <2>4, <2>5 DEF PathInv
<1>7. ASSUME NEW c \in Caches, PassOn(c)
      PROVE  PathInv'
  <2>1. lock # Free /\ lock.at = c /\ lock.doing = "ask" /\ c # LastLevel
    BY <1>7 DEF PassOn, Asked
  <2>2. lock.a \in Addrs /\ lock.from \in Caches
    BY <2>1, HolderType
  <2>3. NextLevel[c] \in Caches /\ NextLevel[c] # Memory
    BY <2>1, LastLevelFacts, NamesAssumption
  <2>4. /\ NextLevel[c] \in Stack[c]
        /\ Stack[c] = {c} \cup Stack[NextLevel[c]]
        /\ c \notin Stack[NextLevel[c]]
    BY <2>3, StackFacts
  <2>5. c \in Stack[lock.from] /\ Stack[c] \subseteq Stack[lock.from]
    BY <2>1, <2>2, TreeAssumption DEF PathInv
  <2>6. NextLevel[c] # lock.from
    BY <2>4, <2>5
  <2>7. /\ lock'.core = lock.core /\ lock'.from = lock.from /\ lock'.a = lock.a
        /\ lock'.at = NextLevel[c]
    BY <1>7, <2>1, HolderType DEF PassOn, Holders
  <2>8. ASSUME NEW d \in Stack[lock.from] \ Stack[NextLevel[c]]  PROVE state'[d][lock.a] = "I"
    <3>1. CASE d = c
      <4> DEFINE snooped == IF Upgrades(c, "S") THEN Siblings(c) ELSE {}
                 u == Updated(snooped, lock.a, "I")
      <4>1. u \in [Caches -> [Addrs -> States]]
        BY <2>2, UpdatedType DEF States
      <4>2. state' = [u EXCEPT ![c][lock.a] = "I"]
        BY <1>7 DEF PassOn
      <4> HIDE DEF u
      <4> QED
        BY <2>2, <3>1, <4>1, <4>2
    <3>2. CASE d # c
      <4>1. d \in Caches /\ state[d][lock.a] = "I" /\ d \notin Stack[c]
        BY <2>1, <2>2, <2>4, <2>8, <3>2, StackFacts DEF PathInv
      <4>2. LastLevel \in Stack[c]
        BY LevelsAssumption
      <4>3. ~ CopyDataFromNextLevel(d)
        BY <2>1 DEF CopyDataFromNextLevel
      <4> QED
        BY <2>2, <4>1, <4>2, <4>3, StateStep
    <3> QED
      BY <3>1, <3>2
  <2>9. ~ Waiting(lock.core)'
    BY <1>1, <1>7, <2>1 DEF PassOn, PathInv
  <2> QED
    BY <2>4, <2>5, <2>6, <2>7, <2>8, <2>9 DEF PathInv
<1>8. ASSUME NEW c \in Caches, CopyDataFromNextLevel(c)
      PROVE  PathInv'
  <2>1. lock # Free /\ lock.doing = "fill" /\ lock.at = NextLevel[c] /\ c \in Stack[lock.from]
    BY <1>8 DEF CopyDataFromNextLevel
  <2>2. lock.a \in Addrs /\ lock.from \in Caches /\ NextLevel[c] \in Caches
    BY <2>1, HolderType
  <2>3. Stack[c] = {c} \cup Stack[NextLevel[c]] /\ NextLevel[c] # Memory
    BY <2>2, StackFacts, NamesAssumption
  <2>4. /\ lock'.core = lock.core /\ lock'.from = lock.from /\ lock'.a = lock.a
        /\ lock'.at = c /\ lock'.doing = "fill"
    BY <1>8, <2>1, HolderType DEF CopyDataFromNextLevel, Holders
  <2>5. ASSUME NEW d \in Stack[lock.from] \ Stack[c]  PROVE state'[d][lock.a] = "I"
    <3>1. d \in Caches /\ state[d][lock.a] = "I" /\ d # c
      BY <2>1, <2>2, <2>3, <2>5, StackFacts DEF PathInv
    <3> QED
      BY <1>8, <2>2, <3>1, OnlyOneFilled
  <2>6. ~ Waiting(lock.core)'
    BY <1>1, <1>8, <2>1 DEF CopyDataFromNextLevel, PathInv
  <2> QED
    BY <2>1, <2>4, <2>5, <2>6 DEF PathInv
<1>9. CASE \E t \in FirstLevel : CoreStep(t)
  BY <1>3, <1>4, <1>5, <1>9 DEF CoreStep, FirstLevelHit, Unlock
<1>10. CASE \E c \in Caches : CacheStep(c)
  <2>1. PICK c \in Caches : CacheStep(c)
    BY <1>10
  <2>2. CASE HitInCache(c) \/ SilentUpgrade(c) \/ AccessDRAM(c)
    BY <1>6, <2>2 DEF HitInCache, SilentUpgrade, AccessDRAM
  <2>3. CASE InitiateDirectoryAccess(c)
    BY <1>2, <2>3 DEF InitiateDirectoryAccess
  <2> QED
    BY <1>7, <1>8, <2>1, <2>2, <2>3 DEF CacheStep
<1>11. CASE Finish
  BY <1>2, <1>11 DEF Finish
<1>12. CASE NetworkStep
  <2>1. PICK a \in Addrs : Rep(a) \/ UpgradeRep(a) \/ NextWaiter(a)
                             \/ InvReq(a) \/ FlushReq(a) \/ WbReq(a)
    BY <1>12 DEF NetworkStep
  <2>2. CASE Rep(a) \/ UpgradeRep(a) \/ NextWaiter(a)
    BY <2>2, QueueServed
  <2>3. CASE InvReq(a) \/ FlushReq(a) \/ WbReq(a)
    BY <1>2, <2>3 DEF InvReq, FlushReq, WbReq, ToDirectory, StackFree
  <2> QED
    BY <2>1, <2>2, <2>3
<1>13. CASE UNCHANGED vars
  BY <1>3, <1>13 DEF vars
<1> QED
  BY <1>9, <1>10, <1>11, <1>12, <1>13 DEF Next

LEMMA HierarchyStep ==
  ASSUME HierarchyInv, PrivateLevels, [Next]_vars
  PROVE  HierarchyInv'
<1>1. TypeOK' /\ ServedWaits'
  BY StepType DEF HierarchyInv
<1>2. TreeOK(state')
  BY StateStep
<1>3. PathInv'
  BY PathStep
<1>4. CASE UNCHANGED <<m_directory_waiters, serving>>
  BY <1>1, <1>2, <1>3, <1>4, QueueKept DEF HierarchyInv, TreeOK
<1>5. CASE \E c \in Caches : InitiateDirectoryAccess(c)
  BY <1>1, <1>2, <1>3, <1>5, QueueJoined DEF HierarchyInv, TreeOK
<1>6. CASE \E a \in Addrs : Rep(a) \/ UpgradeRep(a) \/ NextWaiter(a)
  BY <1>1, <1>2, <1>3, <1>6, QueueServed DEF HierarchyInv, TreeOK
<1>7. \/ UNCHANGED <<m_directory_waiters, serving>>
      \/ \E c \in Caches : InitiateDirectoryAccess(c)
      \/ \E a \in Addrs : Rep(a) \/ UpgradeRep(a) \/ NextWaiter(a)
  <2>1. ASSUME NEW t \in FirstLevel, CoreStep(t)  PROVE UNCHANGED <<m_directory_waiters, serving>>
    BY <2>1 DEF CoreStep, FirstLevelHit, FirstLevelMiss, Unlock, DoPrefetch
  <2>2. ASSUME NEW c \in Caches, CacheStep(c), ~ InitiateDirectoryAccess(c)
        PROVE  UNCHANGED <<m_directory_waiters, serving>>
    BY <2>2 DEF CacheStep, HitInCache, PassOn, SilentUpgrade, AccessDRAM, CopyDataFromNextLevel
  <2>3. ASSUME NEW a \in Addrs, InvReq(a) \/ FlushReq(a) \/ WbReq(a)
        PROVE  UNCHANGED <<m_directory_waiters, serving>>
    BY <2>3 DEF InvReq, FlushReq, WbReq, ToDirectory
  <2>4. CASE Finish \/ UNCHANGED vars
    BY <2>4 DEF Finish, vars
  <2> QED
    BY <2>1, <2>2, <2>3, <2>4 DEF Next, NetworkStep
<1> QED
  BY <1>4, <1>5, <1>6, <1>7

LEMMA HierarchyInvariant ==
  ASSUME PrivateLevels
  PROVE  Spec => []HierarchyInv
BY InitHierarchy, HierarchyStep, PTL DEF Spec

\* In every tree in which only the last level is shared, no cache has a line that
\* the next level lacks, whatever replacement, prefetchers, other cores and the
\* directory do (insertCacheBlock and updateCacheBlock invalidate upwards).
THEOREM HierarchyIsInclusive ==
  ASSUME PrivateLevels
  PROVE  Spec => []Inclusive
<1>1. HierarchyInv => Inclusive
  BY LastLevelFacts, StackFacts, NamesAssumption DEF HierarchyInv, TreeOK, Inclusive, Valid
<1> QED
  BY HierarchyInvariant, <1>1, PTL

\* ... and a write-back always finds the next level MODIFIED (cache_cntlr.cc, "Got
\* writeback for non-MODIFIED line").
THEOREM WritebacksNeverFail ==
  ASSUME PrivateLevels
  PROVE  Spec => []ModifiedBelow
<1>1. HierarchyInv => ModifiedBelow
  BY LastLevelFacts, StackFacts, NamesAssumption DEF HierarchyInv, TreeOK, ModifiedBelow
<1> QED
  BY HierarchyInvariant, <1>1, PTL

-----------------------------------------------------------------------------
(* The values of the lines.                                                *)

\* What is known of the values of line b, given the states s of the copies, the
\* places f that have the value written last, and the line srv that is served.
\* A last level that is not MODIFIED has the value of memory; while it is EXCLUSIVE,
\* being upgraded or served SHARED, all copies are the same; the topmost MODIFIED
\* copy is the newest.
CleanLine(s, f, b) ==
  s[LastLevel][b] # "M" =>
    <<Memory, b>> \in f /\ (s[LastLevel][b] # "I" => <<LastLevel, b>> \in f)
SameLine(s, f, srv, b) ==
  s[LastLevel][b] \in {"E", "U"} \/ (s[LastLevel][b] = "S" /\ srv = b) =>
    \A c \in Caches : s[c][b] # "I" => <<c, b>> \in f
TopLine(s, f, b) ==
  \A c \in Caches :
    s[c][b] = "M" /\ (\A d \in Prev(c) : s[d][b] # "M") => <<c, b>> \in f
LineOK(s, f, srv, b) == CleanLine(s, f, b) /\ SameLine(s, f, srv, b) /\ TopLine(s, f, b)

DataOK == \A b \in Addrs : LineOK(state, fresh, serving, b)

\* The line loses copies that are not MODIFIED, or they are downgraded.
KeptLine(s, f, b) ==
  /\ s[LastLevel][b] = state[LastLevel][b]
  /\ \A c \in Caches : /\ s[c][b] = "M" <=> state[c][b] = "M"
                       /\ s[c][b] # "I" => state[c][b] # "I"
                       /\ <<c, b>> \in fresh /\ s[c][b] # "I" => <<c, b>> \in f
  /\ <<Memory, b>> \in fresh => <<Memory, b>> \in f

LEMMA KeptLineOK ==
  ASSUME NEW b \in Addrs, LineOK(state, fresh, serving, b), NEW s, NEW f, NEW srv,
         KeptLine(s, f, b), srv = b => serving = b
  PROVE  LineOK(s, f, srv, b)
<1>1. CleanLine(s, f, b)
  BY LastLevelFacts DEF LineOK, CleanLine, KeptLine
<1>2. SameLine(s, f, srv, b)
  BY DEF LineOK, SameLine, KeptLine
<1>3. TopLine(s, f, b)
  <2> SUFFICES ASSUME NEW c \in Caches, s[c][b] = "M", \A d \in Prev(c) : s[d][b] # "M"
               PROVE  <<c, b>> \in f
    BY DEF TopLine
  <2>1. \A d \in Prev(c) : state[d][b] # "M"
    BY DEF KeptLine, Prev
  <2>2. <<c, b>> \in fresh
    BY <2>1 DEF LineOK, TopLine, KeptLine
  <2> QED
    BY <2>2 DEF KeptLine
<1> QED
  BY <1>1, <1>2, <1>3 DEF LineOK

\* The last level has the only copy.
LEMMA SoleCopyOK ==
  ASSUME NEW b \in Addrs, NEW s, NEW f, NEW srv,
         \A c \in Caches \ {LastLevel} : s[c][b] = "I",
         s[LastLevel][b] # "I" => <<LastLevel, b>> \in f,
         s[LastLevel][b] # "M" => <<Memory, b>> \in f
  PROVE  LineOK(s, f, srv, b)
BY LastLevelFacts DEF LineOK, CleanLine, SameLine, TopLine

\* The data that is written back is the newest.
LEMMA NewestHolds ==
  ASSUME NEW b \in Addrs, LineOK(state, fresh, serving, b), NEW c \in Caches
  PROVE  Newest(c, b)
<1> SUFFICES ASSUME NEW d \in Owners(c, b)  PROVE <<d, b>> \in fresh
  BY DEF Newest
<1>1. d \in Caches /\ state[d][b] = "M" /\ \A e \in Prev(d) : state[e][b] # "M"
  BY DEF Owners, Tree
<1> QED
  BY <1>1 DEF LineOK, TopLine

LEMMA WrittenBackFacts ==
  ASSUME NEW a \in Addrs, LineOK(state, fresh, serving, a), NEW c \in Caches, NEW set \in SUBSET Caches,
         NEW d \in Caches \cup {Memory}, NEW b \in Addrs
  PROVE  <<d, b>> \in WrittenBack(set, c, a) <=>
           \/ <<d, b>> \in fresh
           \/ b = a /\ d \in set \cup {c} /\ state[d][a] = "M"
<1> DEFINE written == {e \in set \cup {c} : state[e][a] = "M"}
<1>1. \A e \in written : Newest(e, a)
  BY NewestHolds
<1>2. WrittenBack(set, c, a) =
        (fresh \ (written \X {a})) \cup {<<e, a>> : e \in {e \in written : Newest(e, a)}}
  BY DEF WrittenBack
<1> HIDE DEF written
<1>3. {<<e, a>> : e \in {e \in written : Newest(e, a)}} = written \X {a}
  BY <1>1
<1>4. WrittenBack(set, c, a) = (fresh \ (written \X {a})) \cup (written \X {a})
  BY <1>2, <1>3
<1>5. <<d, b>> \in written \X {a} <=> b = a /\ d \in written
  OBVIOUS
<1>6. <<d, b>> \in WrittenBack(set, c, a) <=> <<d, b>> \in fresh \/ (b = a /\ d \in written)
  BY <1>4, <1>5
<1> QED
  BY <1>6 DEF written

LEMMA HeldFacts ==
  ASSUME NEW f, NEW s, NEW d \in Caches \cup {Memory}, NEW b \in Addrs
  PROVE  <<d, b>> \in Held(f, s) <=> <<d, b>> \in f /\ (d = Memory \/ s[d][b] # "I")
BY DEF Held

LEMMA UpdatedFacts ==
  ASSUME NEW set, NEW a \in Addrs, NEW new, NEW c \in Caches, NEW b \in Addrs
  PROVE  Updated(set, a, new)[c][b] =
           IF c \in set /\ b = a /\ state[c][a] # "I" THEN new ELSE state[c][b]
BY DEF Updated, Valid

\* Line b after line a was inserted into c in state new and the victims evicted.
InsertedLine(s, f, c, a, new, victims, b) ==
  /\ \A d \in Caches :
       s[d][b] = IF d = c /\ b = a THEN new
                 ELSE IF d \in Tree(c) /\ b \in victims THEN "I" ELSE state[d][b]
  /\ \A d \in Caches \cup {Memory} :
       <<d, b>> \in f <=>
         /\ d = Memory \/ s[d][b] # "I"
         /\ IF d = c /\ b = a THEN <<NextLevel[c], a>> \in fresh
            ELSE \/ <<d, b>> \in fresh
                 \/ d = NextLevel[c] /\ b \in victims /\ state[c][b] = "M"

LEMMA InsertedValues ==
  ASSUME HierarchyInv, DataOK, NEW c \in Caches, NEW a \in Addrs, NEW new,
         NEW x \in Inserted(c, a, new)
  PROVE  \E victims \in SUBSET Addrs :
           /\ a \notin victims
           /\ \A b \in Addrs : InsertedLine(x.state, x.fresh, c, a, new, victims, b)
<1>1. PICK victims \in SUBSET Addrs :
        /\ a \notin victims
        /\ x.state = [Evicted(c, victims) EXCEPT ![c][a] = new]
        /\ x.fresh = Held(Copied(EvictedData(c, victims), NextLevel[c], c, a), x.state)
  BY InsertedFacts
<1> DEFINE n == NextLevel[c]
           E == EvictedData(c, victims)
           dirty == {b \in victims : state[c][b] = "M"}
<1>2. \A d \in Caches, b \in Addrs :
        Evicted(c, victims)[d][b] = IF d \in Tree(c) /\ b \in victims THEN "I" ELSE state[d][b]
  BY DEF Evicted
<1>3. Evicted(c, victims) \in [Caches -> [Addrs -> States]]
  BY DEF Evicted, HierarchyInv, TypeOK, States
<1>4. ASSUME NEW d \in Caches, NEW b \in Addrs
      PROVE  x.state[d][b] = IF d = c /\ b = a THEN new
                             ELSE IF d \in Tree(c) /\ b \in victims THEN "I" ELSE state[d][b]
  BY <1>1, <1>2, <1>3
<1>5. \A b \in dirty : Newest(c, b)
  BY <1>1, NewestHolds DEF DataOK
<1>6. E = (fresh \ ({n} \X dirty)) \cup ({n} \X {b \in dirty : BufferedData(c, b)})
  BY DEF EvictedData
<1>7. \A b \in dirty : BufferedData(c, b)
  BY <1>5 DEF BufferedData
<1>8. n # c
  BY StackFacts, NamesAssumption
<1> HIDE DEF dirty, E, n
<1>9. ASSUME NEW d, NEW b  PROVE <<d, b>> \in E <=> <<d, b>> \in fresh \/ (d = n /\ b \in dirty)
  BY <1>6, <1>7
<1>10. <<n, a>> \in E <=> <<n, a>> \in fresh
  BY <1>1, <1>9 DEF dirty
<1>11. ASSUME NEW d, NEW b \in Addrs
       PROVE  <<d, b>> \in Copied(E, n, c, a) <=>
                IF d = c /\ b = a THEN <<n, a>> \in E ELSE <<d, b>> \in E
  BY DEF Copied
<1>12. ASSUME NEW d \in Caches \cup {Memory}, NEW b \in Addrs
       PROVE  <<d, b>> \in x.fresh <=>
                /\ d = Memory \/ x.state[d][b] # "I"
                /\ IF d = c /\ b = a THEN <<n, a>> \in fresh
                   ELSE <<d, b>> \in fresh \/ (d = n /\ b \in victims /\ state[c][b] = "M")
  <2>1. x.fresh = Held(Copied(E, n, c, a), x.state)
    BY <1>1 DEF E, n
  <2>2. <<d, b>> \in x.fresh <=> <<d, b>> \in Copied(E, n, c, a) /\ (d = Memory \/ x.state[d][b] # "I")
    BY <2>1, HeldFacts
  <2> QED
    BY <1>9, <1>10, <1>11, <2>2 DEF dirty
<1>13. \A b \in Addrs : InsertedLine(x.state, x.fresh, c, a, new, victims, b)
  BY <1>4, <1>12 DEF InsertedLine, n
<1> QED
  BY <1>1, <1>13

LEMMA NotOverLast ==
  ASSUME NEW c \in Caches \ {LastLevel}
  PROVE  LastLevel \notin Tree(c)
BY LastStack DEF Tree

\* A line that is not the one inserted: its dirty victim is in the next level.
LEMMA InsertedOther ==
  ASSUME HierarchyInv, NEW c \in Caches, NEW a, NEW b \in Addrs, b # a,
         LineOK(state, fresh, serving, b), NEW s, NEW f, NEW new, NEW victims,
         InsertedLine(s, f, c, a, new, victims, b), NEW srv, srv = b => serving = b
  PROVE  LineOK(s, f, srv, b)
<1>1. /\ \A d \in Caches : s[d][b] = IF d \in Tree(c) /\ b \in victims THEN "I" ELSE state[d][b]
      /\ \A d \in Caches \cup {Memory} :
           <<d, b>> \in f <=>
             /\ d = Memory \/ s[d][b] # "I"
             /\ \/ <<d, b>> \in fresh
                \/ d = NextLevel[c] /\ b \in victims /\ state[c][b] = "M"
  BY DEF InsertedLine
<1>2. \A d \in Caches : \A e \in Stack[d] : state[d][b] = "M" => state[e][b] = "M"
  BY DEF HierarchyInv, TreeOK
<1>3. Memory \notin Caches
  BY NamesAssumption
<1>4. CASE b \notin victims
  <2>1. KeptLine(s, f, b)
    BY <1>1, <1>3, <1>4, LastLevelFacts DEF KeptLine
  <2> QED
    BY <2>1, KeptLineOK
<1>5. CASE b \in victims /\ c = LastLevel
  <2>1. \A d \in Caches : s[d][b] = "I"
    BY <1>1, <1>5, LevelsAssumption DEF Tree
  <2>2. <<Memory, b>> \in f
    BY <1>1, <1>5, LastLevelFacts DEF LineOK, CleanLine
  <2> QED
    BY <2>1, <2>2, LastLevelFacts, SoleCopyOK
<1>6. CASE b \in victims /\ c # LastLevel /\ state[c][b] # "M"
  <2>1. \A d \in Tree(c) : state[d][b] # "M"
    BY <1>2, <1>6 DEF Tree
  <2>2. s[LastLevel][b] = state[LastLevel][b]
    BY <1>1, <1>6, NotOverLast, LastLevelFacts
  <2>3. KeptLine(s, f, b)
    BY <1>1, <1>3, <2>1, <2>2 DEF KeptLine
  <2> QED
    BY <2>3, KeptLineOK
<1>7. CASE b \in victims /\ c # LastLevel /\ state[c][b] = "M"
  <2> DEFINE n == NextLevel[c]
  <2>1. n \in Caches /\ n # Memory /\ Stack[c] = {c} \cup Stack[n]
    BY <1>7, LastLevelFacts, StackFacts, NamesAssumption
  <2>2. s[LastLevel][b] = "M"
    BY <1>1, <1>2, <1>7, NotOverLast, LastLevelFacts, LevelsAssumption
  <2>3. TopLine(s, f, b)
    <3> SUFFICES ASSUME NEW e \in Caches, s[e][b] = "M", \A d \in Prev(e) : s[d][b] # "M", e # n
                 PROVE  <<e, b>> \in f
      BY <1>1, <1>7, <2>1 DEF TopLine
    <3>1. e \notin Tree(c) /\ state[e][b] = "M"
      BY <1>1, <1>7
    <3>2. ASSUME NEW d \in Prev(e)  PROVE state[d][b] # "M"
      <4>1. d \in Caches /\ NextLevel[d] = e /\ Stack[d] = {d} \cup Stack[e]
        BY PrevFacts
      <4>2. d # c
        BY <4>1
      <4>3. d \notin Tree(c)
        BY <3>1, <4>1, <4>2 DEF Tree
      <4>4. s[d][b] = state[d][b]
        BY <1>1, <4>1, <4>3
      <4> QED
        BY <4>4
    <3>3. <<e, b>> \in fresh
      BY <3>1, <3>2 DEF LineOK, TopLine
    <3> QED
      BY <1>1, <3>3
  <2> QED
    BY <2>2, <2>3 DEF LineOK, CleanLine, SameLine
<1> QED
  BY <1>4, <1>5, <1>6, <1>7

\* The line that enters the last level is the only copy of it.
LEMMA InsertedLast ==
  ASSUME HierarchyInv, NEW a \in Addrs, ~ Valid(LastLevel, a),
         LineOK(state, fresh, serving, a), NEW s, NEW f, NEW new, new # "I", NEW victims,
         a \notin victims, InsertedLine(s, f, LastLevel, a, new, victims, a), NEW srv
  PROVE  /\ LineOK(s, f, srv, a)
         /\ s[LastLevel][a] = new
         /\ \A d \in Caches \ {LastLevel} : s[d][a] = "I"
<1>1. /\ \A d \in Caches : s[d][a] = IF d = LastLevel THEN new ELSE state[d][a]
      /\ \A d \in Caches \cup {Memory} :
           <<d, a>> \in f <=>
             /\ d = Memory \/ s[d][a] # "I"
             /\ IF d = LastLevel THEN <<Memory, a>> \in fresh ELSE <<d, a>> \in fresh
  BY LastLevelFacts DEF InsertedLine
<1>2. \A d \in Caches : state[d][a] = "I"
  BY LevelsAssumption DEF HierarchyInv, TreeOK, Valid
<1>3. <<Memory, a>> \in fresh
  BY DEF LineOK, CleanLine, Valid
<1>4. LastLevel # Memory /\ LastLevel \in Caches
  BY NamesAssumption, LastLevelFacts
<1>5. \A d \in Caches \ {LastLevel} : s[d][a] = "I"
  BY <1>1, <1>2
<1>6. <<LastLevel, a>> \in f /\ <<Memory, a>> \in f /\ s[LastLevel][a] = new
  BY <1>1, <1>3, <1>4
<1> QED
  BY <1>5, <1>6, SoleCopyOK

\* The line that comes up from the next level, whose copy is the newest.
LEMMA InsertedUpper ==
  ASSUME HierarchyInv, NEW c \in Caches \ {LastLevel}, NEW a \in Addrs, ~ Valid(c, a),
         LineOK(state, fresh, serving, a), NEW s, NEW f, NEW victims,
         state[NextLevel[c]][a] # "I",
         state[NextLevel[c]][a] = "M" =>
           \A e \in Caches : state[e][a] = "M" => e \in Stack[NextLevel[c]],
         a \notin victims, InsertedLine(s, f, c, a, state[NextLevel[c]][a], victims, a)
  PROVE  LineOK(s, f, serving, a)
<1> DEFINE n == NextLevel[c]
<1>0. n \in Caches /\ n # Memory /\ c # Memory /\ LastLevel # Memory /\ LastLevel \in Caches
  BY LastLevelFacts, NamesAssumption
<1>1. /\ \A d \in Caches : s[d][a] = IF d = c THEN state[n][a] ELSE state[d][a]
      /\ \A d \in Caches \cup {Memory} :
           <<d, a>> \in f <=>
             /\ d = Memory \/ s[d][a] # "I"
             /\ IF d = c THEN <<n, a>> \in fresh ELSE <<d, a>> \in fresh
  BY DEF InsertedLine
<1>2. CleanLine(s, f, a)
  BY <1>0, <1>1 DEF LineOK, CleanLine
<1>3. SameLine(s, f, serving, a)
  BY <1>0, <1>1 DEF LineOK, SameLine
<1>4. TopLine(s, f, a)
  <2> SUFFICES ASSUME NEW e \in Caches, s[e][a] = "M", \A d \in Prev(e) : s[d][a] # "M"
               PROVE  <<e, a>> \in f
    BY DEF TopLine
  <2>1. CASE e = c
    <3>1. state[n][a] = "M"
      BY <1>1, <2>1
    <3>2. \A d \in Prev(n) : state[d][a] # "M"
      BY <1>0, <3>1, PrevFacts
    <3>3. <<n, a>> \in fresh
      BY <1>0, <3>1, <3>2 DEF LineOK, TopLine
    <3> QED
      BY <1>1, <2>1, <3>3
  <2>2. CASE e # c
    <3>1. state[e][a] = "M"
      BY <1>1, <2>2
    <3>2. \A d \in Prev(e) : state[d][a] # "M"
      BY <1>1 DEF Prev, Valid
    <3>3. <<e, a>> \in fresh
      BY <3>1, <3>2 DEF LineOK, TopLine
    <3> QED
      BY <1>1, <2>2, <3>3
  <2> QED
    BY <2>1, <2>2
<1> QED
  BY <1>2, <1>3, <1>4 DEF LineOK

-----------------------------------------------------------------------------
(* The inductive invariant of the values.                                  *)

\* A request for an upgrade waits for its answer: its core is the first waiter.
Upgrading ==
  \A a \in Addrs :
    /\ state[LastLevel][a] = "U" => request[a] = "UPGRADE_REQ"
    /\ request[a] = "UPGRADE_REQ" =>
         /\ m_directory_waiters[a] # <<>> /\ Exclusive(Head(m_directory_waiters[a]).op)
         /\ serving # a
         /\ Valid(LastLevel, a) => state[LastLevel][a] = "U"
    /\ direct => request[a] = "none" /\ m_directory_waiters[a] = <<>>

\* The MODIFIED copies of a line are above one another ...
OnePath(s, b) ==
  \A c, d \in Caches : s[c][b] = "M" /\ s[d][b] = "M" => c \in Stack[d] \/ d \in Stack[c]

\* ... but for the time between the answer to an upgrade, which makes all copies
\* MODIFIED, and the access of the core that asked for it.
Window(b) ==
  /\ lock # Free /\ lock.a = b /\ lock.doing = "ask" /\ Exclusive(lock.op)
  /\ \A c \in Stack[lock.from] \ {LastLevel} : state[c][b] = "I"
Paths == \A b \in Addrs : OnePath(state, b) \/ Window(b)

\* A MODIFIED line that comes up has no MODIFIED copy but those below.
FillTop ==
  lock # Free /\ lock.doing = "fill" /\ state[lock.at][lock.a] = "M" =>
    \A c \in Caches : state[c][lock.a] = "M" => c \in Stack[lock.at]

DataInv == HierarchyInv /\ Upgrading /\ DataOK /\ Paths /\ FillTop

-----------------------------------------------------------------------------
(* The values after each action.                                           *)

LEMMA SiblingsAbove ==
  ASSUME NEW c \in Caches
  PROVE  /\ \A e \in Siblings(c) : e \in Tree(c) /\ e \in Caches
         /\ LastLevel \notin Siblings(c)
<1>1. ASSUME NEW e \in Siblings(c)  PROVE e \in Tree(c) /\ e \in Caches
  <2>1. PICK d \in Prev(c) : e \in Tree(d)
    BY DEF Siblings
  <2>2. e \in Caches /\ d \in Stack[e] /\ c \in Stack[d] /\ d \in Caches
    BY <2>1, PrevFacts DEF Tree
  <2> QED
    BY <2>2, TreeAssumption DEF Tree
<1>2. ASSUME LastLevel \in Siblings(c)  PROVE FALSE
  <2>1. PICK d \in Prev(c) : LastLevel \in Tree(d)
    BY <1>2 DEF Siblings
  <2> QED
    BY <2>1, PrevFacts, LastStack DEF Tree
<1> QED
  BY <1>1, <1>2

\* Above the cache an access is at, only the siblings may have its line.
LEMMA PathDropped ==
  ASSUME HierarchyInv, lock # Free, NEW e \in Tree(lock.at), e # lock.at, e \notin Siblings(lock.at)
  PROVE  state[e][lock.a] = "I"
<1>1. lock.at \in Caches /\ lock.a \in Addrs /\ e \in Caches
  BY HolderType DEF HierarchyInv, Tree
<1>2. PICK k \in Prev(lock.at) : k \in Stack[e] /\ e \in Tree(k)
  BY <1>1, AboveFacts
<1>3. k \in Stack[lock.from]
  BY <1>2 DEF Siblings
<1>4. k \notin Stack[lock.at] /\ k \in Caches
  BY <1>1, PrevFacts
<1>5. state[k][lock.a] = "I"
  BY <1>3, <1>4 DEF HierarchyInv, PathInv
<1> QED
  BY <1>1, <1>2, <1>5 DEF HierarchyInv, TreeOK

\* The core writes the topmost MODIFIED copy.
LEMMA WriteData ==
  ASSUME HierarchyInv, DataOK, NEW t \in FirstLevel, NEW a \in Addrs, state[t][a] = "M",
         \A e \in Caches : state[e][a] = "M" => e \in Stack[t]
  PROVE  \A b \in Addrs : LineOK(state, Written(t, a), serving, b)
<1>1. t \in Caches
  BY FirstLevelFacts
<1>2. ASSUME NEW b \in Addrs, b # a  PROVE LineOK(state, Written(t, a), serving, b)
  <2>1. KeptLine(state, Written(t, a), b)
    BY <1>2 DEF KeptLine, Written
  <2> QED
    BY <2>1, KeptLineOK DEF DataOK
<1>3. state[LastLevel][a] = "M"
  BY <1>1, LevelsAssumption DEF HierarchyInv, TreeOK
<1>4. TopLine(state, Written(t, a), a)
  <2> SUFFICES ASSUME NEW e \in Caches, state[e][a] = "M", e # t
               PROVE  \E d \in Prev(e) : state[d][a] = "M"
    BY DEF TopLine, Written
  <2>1. t \in Tree(e)
    BY <1>1 DEF Tree
  <2>2. PICK k \in Prev(e) : k \in Stack[t]
    BY <2>1, AboveFacts
  <2> QED
    BY <1>1, <2>2 DEF HierarchyInv, TreeOK
<1> QED
  BY <1>2, <1>3, <1>4 DEF LineOK, CleanLine, SameLine

LEMMA MissData ==
  ASSUME HierarchyInv, DataOK, NEW t \in FirstLevel, NEW a \in Addrs, NEW op, FirstLevelMiss(t, a, op)
  PROVE  DataOK'
<1>1. t \in Caches \ {LastLevel}
  BY FirstLevelFacts
<1>2. \A c \in Caches, b \in Addrs : state'[c][b] = IF c = t /\ b = a THEN "I" ELSE state[c][b]
  BY DEF FirstLevelMiss, Dropped, HierarchyInv, TypeOK
<1>3. fresh' = Held(fresh, state') /\ serving' = serving /\ state[t][a] # "M"
  BY DEF FirstLevelMiss, Permits, Readable, Writable
<1>4. ASSUME NEW b \in Addrs  PROVE LineOK(state', fresh', serving', b)
  <2>1. KeptLine(state', fresh', b)
    BY <1>1, <1>2, <1>3, HeldFacts, LastLevelFacts DEF KeptLine
  <2> QED
    BY <1>3, <2>1, KeptLineOK DEF DataOK
<1> QED
  BY <1>4 DEF DataOK, LineOK, CleanLine, SameLine, TopLine

\* What a request does to the values of the copies above the cache it is at.
SnoopedValues(s, f, set, c) ==
  \A b \in Addrs :
    /\ \A d \in Caches :
         <<d, b>> \in f <=>
           /\ s[d][b] # "I"
           /\ <<d, b>> \in fresh \/ (b = lock.a /\ d \in set \cup {c} /\ state[d][b] = "M")
    /\ <<Memory, b>> \in f <=> <<Memory, b>> \in fresh

LEMMA SnoopFacts ==
  ASSUME HierarchyInv, DataOK, lock # Free, NEW c \in Caches, NEW set, set \subseteq Siblings(c),
         NEW s
  PROVE  SnoopedValues(s, Held(WrittenBack(set, c, lock.a), s), set, c)
<1>1. lock.a \in Addrs
  BY HolderType DEF HierarchyInv
<1>2. set \in SUBSET Caches /\ Memory \notin set /\ Memory # c /\ Memory \notin Caches
  BY SiblingsAbove, NamesAssumption
<1>3. LineOK(state, fresh, serving, lock.a)
  BY <1>1 DEF DataOK
<1> DEFINE w == WrittenBack(set, c, lock.a)
<1>4. ASSUME NEW d \in Caches, NEW b \in Addrs
      PROVE  <<d, b>> \in w <=>
               <<d, b>> \in fresh \/ (b = lock.a /\ d \in set \cup {c} /\ state[d][lock.a] = "M")
  <2> DEFINE la == lock.a
  <2>1. d \in Caches \cup {Memory}
    OBVIOUS
  <2>2. la \in Addrs /\ LineOK(state, fresh, serving, la) /\ set \in SUBSET Caches
    BY <1>1, <1>2, <1>3
  <2> HIDE DEF la
  <2>3. <<d, b>> \in WrittenBack(set, c, la) <=>
          <<d, b>> \in fresh \/ (b = la /\ d \in set \cup {c} /\ state[d][la] = "M")
    BY <2>1, <2>2, WrittenBackFacts
  <2> QED
    BY <2>3 DEF la
<1>5. \A b \in Addrs : <<Memory, b>> \in w <=> <<Memory, b>> \in fresh
  BY <1>1, <1>2, <1>3, WrittenBackFacts
<1> HIDE DEF w
<1>6. \A d \in Caches, b \in Addrs : <<d, b>> \in Held(w, s) <=> <<d, b>> \in w /\ s[d][b] # "I"
  BY <1>2 DEF Held
<1>7. \A b \in Addrs : <<Memory, b>> \in Held(w, s) <=> <<Memory, b>> \in w
  BY DEF Held
<1>8. SnoopedValues(s, Held(w, s), set, c)
  BY <1>4, <1>5, <1>6, <1>7 DEF SnoopedValues
<1> QED
  BY <1>8 DEF w

LEMMA HitData ==
  ASSUME HierarchyInv, DataOK, NEW c \in Caches, HitInCache(c)
  PROVE  DataOK'
<1> DEFINE a == lock.a
           set == Siblings(c)
<1>1. lock # Free /\ lock.at = c /\ Permits(c, a, lock.op) /\ serving' = serving
  BY DEF HitInCache, Asked
<1>2. a \in Addrs
  BY <1>1, HolderType DEF HierarchyInv
<1>3. ASSUME \A b \in Addrs : LineOK(state', fresh', serving, b)  PROVE DataOK'
  BY <1>1, <1>3 DEF DataOK, LineOK, CleanLine, SameLine, TopLine
<1>4. CASE UNCHANGED <<state, fresh>>
  BY <1>3, <1>4 DEF DataOK
<1>5. ASSUME NEW new \in SnoopedTo(c), Snoop(c, a, new)
      PROVE  \A b \in Addrs : LineOK(state', fresh', serving, b)
  <2>0. set \subseteq Siblings(c)
    OBVIOUS
  <2>1. state' = Updated(set, a, new) /\ fresh' = Held(WrittenBack(set, c, a), state')
    BY <1>5 DEF Snoop
  <2>2. ASSUME NEW d \in Caches, NEW b \in Addrs
        PROVE  /\ state'[d][b] = IF d \in set /\ b = a /\ state[d][b] # "I" THEN new ELSE state[d][b]
               /\ <<d, b>> \in fresh' <=>
                    /\ state'[d][b] # "I"
                    /\ \/ <<d, b>> \in fresh
                       \/ b = a /\ d \in set \cup {c} /\ state[d][b] = "M"
               /\ <<Memory, b>> \in fresh' <=> <<Memory, b>> \in fresh
    <3> HIDE DEF set
    <3>1. SnoopedValues(state', fresh', set, c)
      BY <1>1, <2>0, <2>1, SnoopFacts
    <3>2. state'[d][b] = IF d \in set /\ b = a /\ state[d][a] # "I" THEN new ELSE state[d][b]
      BY <1>2, <2>1, UpdatedFacts
    <3> QED
      BY <3>1, <3>2 DEF SnoopedValues
  <2>3. /\ new \in {"I", "S"}
        /\ state[c][a] = "M" \/ (new = "S" /\ state[c][a] = "E")
    BY <1>1 DEF SnoopedTo, Permits, Writable
  <2>4. c \notin set /\ LastLevel \notin set /\ \A e \in set : e \in Tree(c) /\ e \in Caches
    <3>1. c \notin Siblings(c)
      BY SiblingsUpClosed
    <3> QED
      BY <3>1, SiblingsAbove
  <2> HIDE DEF set
  <2>5. ASSUME NEW b \in Addrs, b # a  PROVE KeptLine(state', fresh', b)
    BY <2>2, <2>5, LastLevelFacts DEF KeptLine
  <2>6. CASE state[c][a] # "M"
    <3>1. \A e \in set : state[e][a] # "M"
      BY <1>2, <2>4, <2>6 DEF HierarchyInv, TreeOK, Tree
    <3>2. KeptLine(state', fresh', a)
      BY <1>2, <2>2, <2>3, <2>4, <2>6, <3>1, LastLevelFacts DEF KeptLine
    <3> QED
      BY <2>5, <3>2, KeptLineOK DEF DataOK
  <2>7. CASE state[c][a] = "M"
    <3>0. state[LastLevel][a] = "M"
      BY <1>2, <2>7, LevelsAssumption DEF HierarchyInv, TreeOK
    <3>1. state'[LastLevel][a] = "M"
      BY <1>2, <2>2, <2>4, <3>0, LastLevelFacts
    <3>2. TopLine(state', fresh', a)
      <4> SUFFICES ASSUME NEW e \in Caches, state'[e][a] = "M", \A d \in Prev(e) : state'[d][a] # "M",
                          e # c
                   PROVE  <<e, a>> \in fresh
        BY <1>2, <2>2, <2>7 DEF TopLine
      <4>1. state[e][a] = "M" /\ e \notin set
        BY <1>2, <2>2, <2>3
      <4>2. ASSUME NEW d \in Prev(e)  PROVE d \notin set
        <5>1. d \in Caches /\ Stack[d] = {d} \cup Stack[e] /\ d # e /\ e \in Stack[d] /\ NextLevel[d] = e
          BY PrevFacts
        <5> SUFFICES ASSUME d \in set  PROVE FALSE
          OBVIOUS
        <5>2. PICK k \in Prev(c) \ Stack[lock.from] : d \in Tree(k)
          BY DEF Siblings, set
        <5>3. d # k
          BY <5>1, <5>2, PrevFacts
        <5>4. e \in Tree(k)
          BY <5>1, <5>2, <5>3 DEF Tree
        <5> QED
          BY <4>1, <5>2, <5>4 DEF Siblings, set
      <4>3. ASSUME NEW d \in Prev(e)  PROVE state[d][a] # "M"
        <5>1. d \in Caches /\ d \notin set /\ state'[d][a] # "M"
          BY <4>2 DEF Prev
        <5> QED
          BY <1>2, <2>2, <5>1
      <4> QED
        BY <1>2, <4>1, <4>3 DEF DataOK, LineOK, TopLine
    <3>3. LineOK(state', fresh', serving, a)
      BY <3>1, <3>2 DEF LineOK, CleanLine, SameLine
    <3> QED
      BY <2>5, <3>3, KeptLineOK DEF DataOK
  <2> QED
    BY <2>6, <2>7
<1> QED
  BY <1>3, <1>4, <1>5 DEF HitInCache

LEMMA PassOnData ==
  ASSUME HierarchyInv, DataOK, NEW c \in Caches, PassOn(c)
  PROVE  DataOK'
<1> DEFINE a == lock.a
           set == IF Upgrades(c, "S") THEN Siblings(c) ELSE {}
           u == Updated(set, a, "I")
<1>1. lock # Free /\ lock.at = c /\ ~ Permits(c, a, lock.op) /\ serving' = serving /\ c # LastLevel
  BY DEF PassOn, Asked
<1>2. a \in Addrs
  BY <1>1, HolderType DEF HierarchyInv
<1>3. state' = [u EXCEPT ![c][a] = "I"] /\ fresh' = Held(WrittenBack(set, c, a), state')
  BY DEF PassOn
<1>4. set \in SUBSET Siblings(c) /\ LastLevel \notin set /\ \A e \in set : e \in Tree(c) /\ e \in Caches
  BY SiblingsAbove
<1>5. state[c][a] # "M"
  BY <1>1 DEF Permits, Readable, Writable
<1>6. \A e \in Tree(c) : state[e][a] # "M"
  BY <1>2, <1>5 DEF HierarchyInv, TreeOK, Tree
<1> HIDE DEF set
<1>7. u \in [Caches -> [Addrs -> States]]
  BY <1>2, UpdatedType DEF HierarchyInv, States
<1> HIDE DEF u
<1>8. ASSUME NEW d \in Caches, NEW b \in Addrs
      PROVE  state'[d][b] = IF b = a /\ (d = c \/ (d \in set /\ state[d][b] # "I")) THEN "I"
                            ELSE state[d][b]
  <2>1. state'[d][b] = IF d = c /\ b = a THEN "I" ELSE u[d][b]
    BY <1>3, <1>7
  <2>2. u[d][b] = IF d \in set /\ b = a /\ state[d][a] # "I" THEN "I" ELSE state[d][b]
    BY <1>2, UpdatedFacts DEF u
  <2> QED
    BY <2>1, <2>2
<1>9. ASSUME NEW d \in Caches, NEW b \in Addrs
      PROVE  /\ <<d, b>> \in fresh /\ state'[d][b] # "I" => <<d, b>> \in fresh'
             /\ <<Memory, b>> \in fresh' <=> <<Memory, b>> \in fresh
  <2>1. set \subseteq Siblings(c) /\ fresh' = Held(WrittenBack(set, c, a), state')
    BY <1>3, <1>4
  <2>2. SnoopedValues(state', fresh', set, c)
    BY <1>1, <2>1, SnoopFacts
  <2> QED
    BY <2>2 DEF SnoopedValues
<1>10. c \in Tree(c)
  BY TreeUpClosed
<1>11. \A d \in Caches : state'[d][a] = "M" <=> state[d][a] = "M"
  BY <1>2, <1>4, <1>6, <1>8, <1>10
<1>12. \A d \in Caches, b \in Addrs : b # a => state'[d][b] = state[d][b]
  BY <1>8
<1>13. ASSUME NEW b \in Addrs  PROVE KeptLine(state', fresh', b)
  <2>1. state'[LastLevel][b] = state[LastLevel][b]
    BY <1>1, <1>4, <1>8, LastLevelFacts
  <2>2. \A d \in Caches : /\ state'[d][b] = "M" <=> state[d][b] = "M"
                          /\ state'[d][b] # "I" => state[d][b] # "I"
    BY <1>8, <1>11, <1>12
  <2> QED
    BY <1>9, <2>1, <2>2 DEF KeptLine
<1>14. \A b \in Addrs : LineOK(state', fresh', serving, b)
  BY <1>13, KeptLineOK DEF DataOK
<1> QED
  BY <1>1, <1>14 DEF DataOK, LineOK, CleanLine, SameLine, TopLine

\* The line is in the last level alone once the siblings have lost it.
LEMMA AloneFacts ==
  ASSUME HierarchyInv, lock # Free, lock.at = LastLevel, NEW d \in Caches \ {LastLevel},
         d \notin Siblings(LastLevel)
  PROVE  state[d][lock.a] = "I"
<1>1. d \in Tree(lock.at)
  BY LevelsAssumption DEF Tree
<1> QED
  BY <1>1, PathDropped

LEMMA SilentData ==
  ASSUME HierarchyInv, DataOK, NEW c \in Caches, SilentUpgrade(c)
  PROVE  /\ DataOK'
         /\ \A d \in Caches \ {LastLevel} : state'[d][lock.a] = "I"
         /\ \A d \in Caches, b \in Addrs : b # lock.a => state'[d][b] = state[d][b]
<1> DEFINE a == lock.a
           set == Siblings(c)
           u == Updated(set, a, "I")
<1>1. lock # Free /\ lock.at = c /\ c = LastLevel /\ serving' = serving
      /\ state[c][a] \in {"E", "S"}
  BY DEF SilentUpgrade, Asked, Upgrades
<1>2. a \in Addrs
  BY <1>1, HolderType DEF HierarchyInv
<1>3. state' = [u EXCEPT ![c][a] = "M"] /\ fresh' = Held(WrittenBack(set, c, a), state')
  BY DEF SilentUpgrade
<1>4. u \in [Caches -> [Addrs -> States]]
  BY <1>2, UpdatedType DEF HierarchyInv, States
<1>5. SnoopedValues(state', fresh', set, c)
  BY <1>1, <1>3, SnoopFacts
<1>6. \A d \in Caches, b \in Addrs :
        u[d][b] = IF d \in set /\ b = a /\ state[d][a] # "I" THEN "I" ELSE state[d][b]
  BY <1>2, UpdatedFacts
<1> HIDE DEF u
<1>7. \A d \in Caches, b \in Addrs : state'[d][b] = IF d = c /\ b = a THEN "M" ELSE u[d][b]
  BY <1>3, <1>4
<1>8. \A d \in Caches \ {LastLevel} : state'[d][a] = "I"
  BY <1>1, <1>2, <1>6, <1>7, AloneFacts
<1>9. <<LastLevel, a>> \in fresh' /\ state'[LastLevel][a] = "M"
  BY <1>1, <1>2, <1>5, <1>7, LastLevelFacts DEF SnoopedValues, DataOK, LineOK, CleanLine
<1>10. LineOK(state', fresh', serving, a)
  BY <1>2, <1>8, <1>9, SoleCopyOK
<1>11. ASSUME NEW b \in Addrs, b # a  PROVE LineOK(state', fresh', serving, b)
  <2>1. KeptLine(state', fresh', b)
    BY <1>5, <1>6, <1>7, <1>11, LastLevelFacts DEF KeptLine, SnoopedValues
  <2> QED
    BY <2>1, KeptLineOK DEF DataOK
<1>12. DataOK'
  BY <1>1, <1>10, <1>11 DEF DataOK, LineOK, CleanLine, SameLine, TopLine
<1>13. \A d \in Caches, b \in Addrs : b # a => state'[d][b] = state[d][b]
  BY <1>6, <1>7
<1> QED
  BY <1>8, <1>12, <1>13

\* A line enters the last level, from memory or with an answer of the directory.
LEMMA EnteredData ==
  ASSUME HierarchyInv, DataOK, NEW a \in Addrs, NEW new \in {"S", "E", "M"},
         NEW x \in Inserted(LastLevel, a, new)
  PROVE  /\ \A srv \in {serving, a}, b \in Addrs : LineOK(x.state, x.fresh, srv, b)
         /\ \A d \in Caches \ {LastLevel} : x.state[d][a] = "I"
         /\ x.state[LastLevel][a] = new
         /\ \A d \in Caches, b \in Addrs : b # a => x.state[d][b] \in {"I", state[d][b]}
<1>1. LastLevel \in Caches
  BY LastLevelFacts
<1>2. PICK victims \in SUBSET Addrs :
        /\ a \notin victims
        /\ \A b \in Addrs : InsertedLine(x.state, x.fresh, LastLevel, a, new, victims, b)
  BY <1>1, InsertedValues
<1>3. ~ Valid(LastLevel, a)
  BY <1>1, InsertedFacts
<1>4. ASSUME NEW srv
      PROVE  /\ LineOK(x.state, x.fresh, srv, a)
             /\ x.state[LastLevel][a] = new
             /\ \A d \in Caches \ {LastLevel} : x.state[d][a] = "I"
  <2> DEFINE s == x.state
             f == x.fresh
  <2>1. /\ LineOK(state, fresh, serving, a) /\ a \notin victims /\ new # "I"
        /\ InsertedLine(s, f, LastLevel, a, new, victims, a)
    BY <1>2 DEF DataOK
  <2> HIDE DEF s, f
  <2>2. /\ LineOK(s, f, srv, a)
        /\ s[LastLevel][a] = new
        /\ \A d \in Caches \ {LastLevel} : s[d][a] = "I"
    BY <1>3, <2>1, InsertedLast
  <2> QED
    BY <2>2 DEF s, f
<1>5. ASSUME NEW srv \in {serving, a}, NEW b \in Addrs, b # a  PROVE LineOK(x.state, x.fresh, srv, b)
  <2>1. LineOK(state, fresh, serving, b) /\ (srv = b => serving = b)
    BY <1>5 DEF DataOK
  <2>2. InsertedLine(x.state, x.fresh, LastLevel, a, new, victims, b)
    BY <1>2
  <2> QED
    BY <1>1, <1>5, <2>1, <2>2, InsertedOther
<1>6. \A d \in Caches, b \in Addrs : b # a => x.state[d][b] \in {"I", state[d][b]}
  BY <1>2 DEF InsertedLine
<1> QED
  BY <1>4, <1>5, <1>6

LEMMA AccessData ==
  ASSUME HierarchyInv, DataOK, NEW c \in Caches, AccessDRAM(c)
  PROVE  /\ DataOK'
         /\ \A d \in Caches \ {LastLevel} : state'[d][lock.a] = "I"
         /\ \A d \in Caches, b \in Addrs : b # lock.a => state'[d][b] \in {"I", state[d][b]}
<1> DEFINE new == IF Exclusive(lock.op) THEN "M" ELSE "S"
<1>1. lock.a \in Addrs /\ c = LastLevel /\ serving' = serving
  BY HolderType DEF AccessDRAM, Asked, HierarchyInv
<1>2. PICK x \in Inserted(c, lock.a, new) : state' = x.state /\ fresh' = x.fresh
  BY DEF AccessDRAM
<1>3. new \in {"S", "E", "M"}
  OBVIOUS
<1> HIDE DEF new
<1>4. /\ \A b \in Addrs : LineOK(x.state, x.fresh, serving, b)
      /\ \A d \in Caches \ {LastLevel} : x.state[d][lock.a] = "I"
      /\ \A d \in Caches, b \in Addrs : b # lock.a => x.state[d][b] \in {"I", state[d][b]}
  <2> DEFINE la == lock.a
  <2>1. la \in Addrs /\ x \in Inserted(LastLevel, la, new) /\ serving \in {serving, la}
    BY <1>1, <1>2
  <2> HIDE DEF la
  <2>2. /\ \A b \in Addrs : LineOK(x.state, x.fresh, serving, b)
        /\ \A d \in Caches \ {LastLevel} : x.state[d][la] = "I"
        /\ \A d \in Caches, b \in Addrs : b # la => x.state[d][b] \in {"I", state[d][b]}
    BY <1>3, <2>1, EnteredData
  <2> QED
    BY <2>2 DEF la
<1>5. DataOK'
  BY <1>1, <1>2, <1>4 DEF DataOK, LineOK, CleanLine, SameLine, TopLine
<1> QED
  BY <1>2, <1>4, <1>5

LEMMA InitiateData ==
  ASSUME HierarchyInv, DataOK, NEW c \in Caches, InitiateDirectoryAccess(c)
  PROVE  /\ DataOK'
         /\ \A d \in Caches, b \in Addrs : state'[d][b] = "M" => state[d][b] = "M"
<1> DEFINE a == lock.a
           set == IF Upgrades(c, "S") THEN Siblings(c) ELSE {}
           u == Updated(set, a, "I")
<1>1. lock # Free /\ lock.at = c /\ c = LastLevel /\ serving' = serving
  BY DEF InitiateDirectoryAccess, Asked
<1>2. a \in Addrs
  BY <1>1, HolderType DEF HierarchyInv
<1>3. /\ \/ state' = u
         \/ state' = [u EXCEPT ![c][a] = "U"] /\ state[c][a] = "S"
      /\ fresh' = Held(fresh, state')
  BY DEF InitiateDirectoryAccess
<1>4. u \in [Caches -> [Addrs -> States]]
  BY <1>2, UpdatedType DEF HierarchyInv, States
<1>5. \A d \in Caches, b \in Addrs :
        u[d][b] = IF d \in set /\ b = a /\ state[d][a] # "I" THEN "I" ELSE state[d][b]
  BY <1>2, UpdatedFacts
<1>6. LastLevel \notin set /\ (set # {} => state[LastLevel][a] = "S")
  BY <1>1, SiblingsAbove, LastLevelFacts DEF Upgrades
<1>7. state[c][a] = "S" => set = Siblings(c)
  BY DEF Upgrades
<1> HIDE DEF u, set
<1>8. state[LastLevel][a] = "S" => \A d \in Caches : state[d][a] # "M"
  BY <1>2, LevelsAssumption DEF HierarchyInv, TreeOK
<1>9. \A d \in Caches, b \in Addrs :
        state'[d][b] = IF b = a /\ d = c /\ state' # u THEN "U"
                       ELSE IF d \in set /\ b = a THEN "I" ELSE state[d][b]
  BY <1>3, <1>4, <1>5
<1>10. \A b \in Addrs :
         /\ <<Memory, b>> \in fresh => <<Memory, b>> \in fresh'
         /\ \A d \in Caches : <<d, b>> \in fresh /\ state'[d][b] # "I" => <<d, b>> \in fresh'
  BY <1>3 DEF Held
<1>11. ASSUME NEW b \in Addrs, b # a \/ state' = u  PROVE LineOK(state', fresh', serving, b)
  <2>1. KeptLine(state', fresh', b)
    BY <1>6, <1>8, <1>9, <1>10, <1>11, LastLevelFacts DEF KeptLine
  <2> QED
    BY <2>1, KeptLineOK DEF DataOK
<1>12. CASE state' # u
  <2>1. \A d \in Caches \ {LastLevel} : state'[d][a] = "I"
    BY <1>1, <1>2, <1>3, <1>7, <1>9, <1>12, AloneFacts
  <2>2. <<LastLevel, a>> \in fresh /\ <<Memory, a>> \in fresh
    BY <1>1, <1>2, <1>3, <1>12 DEF DataOK, LineOK, CleanLine
  <2>3. state'[LastLevel][a] = "U"
    BY <1>1, <1>2, <1>9, <1>12
  <2>4. LineOK(state', fresh', serving, a)
    BY <1>1, <1>2, <1>10, <2>1, <2>2, <2>3, SoleCopyOK
  <2> QED
    BY <1>1, <1>9, <1>11, <2>4 DEF DataOK, LineOK, CleanLine, SameLine, TopLine
<1>13. CASE state' = u
  BY <1>1, <1>9, <1>11, <1>13 DEF DataOK, LineOK, CleanLine, SameLine, TopLine
<1> QED
  BY <1>9, <1>12, <1>13

LEMMA CopyData ==
  ASSUME DataInv, NEW c \in Caches, CopyDataFromNextLevel(c)
  PROVE  /\ DataOK'
         /\ \A d \in Caches, b \in Addrs :
              state'[d][b] = "M" =>
                \/ state[d][b] = "M"
                \/ d = c /\ b = lock.a /\ state[lock.at][b] = "M"
<1> DEFINE a == lock.a
           n == NextLevel[c]
<1> USE DEF DataInv
<1>1. lock # Free /\ lock.doing = "fill" /\ lock.at = n /\ Permits(n, a, lock.op) /\ serving' = serving
  BY DEF CopyDataFromNextLevel
<1>2. a \in Addrs /\ n \in Caches /\ c # LastLevel
  BY <1>1, HolderType, LastLevelFacts, NamesAssumption DEF HierarchyInv
<1>3. PICK x \in Inserted(c, a, FilledState(n, a)) : state' = x.state /\ fresh' = x.fresh
  BY DEF CopyDataFromNextLevel
<1>4. FilledState(n, a) = state[n][a] /\ state[n][a] # "I"
  BY <1>1 DEF FilledState, Permits, Readable, Writable
<1>5. ~ Valid(c, a)
  BY <1>2, <1>3, InsertedFacts
<1>6. PICK victims \in SUBSET Addrs :
        /\ a \notin victims
        /\ \A b \in Addrs : InsertedLine(x.state, x.fresh, c, a, state[n][a], victims, b)
  <2>1. x \in Inserted(c, a, state[n][a])
    BY <1>3, <1>4
  <2> QED
    BY <1>2, <2>1, InsertedValues
<1>7. state[n][a] = "M" => \A e \in Caches : state[e][a] = "M" => e \in Stack[n]
  BY <1>1 DEF FillTop
<1>8. LineOK(x.state, x.fresh, serving, a)
  BY <1>2, <1>4, <1>5, <1>6, <1>7, InsertedUpper DEF DataOK
<1>9. ASSUME NEW b \in Addrs, b # a  PROVE LineOK(x.state, x.fresh, serving, b)
  BY <1>6, <1>9, InsertedOther DEF DataOK
<1>10. DataOK'
  BY <1>1, <1>3, <1>8, <1>9 DEF DataOK, LineOK, CleanLine, SameLine, TopLine
<1>11. \A d \in Caches, b \in Addrs :
         state'[d][b] = "M" => state[d][b] = "M" \/ (d = c /\ b = a /\ state[n][b] = "M")
  BY <1>3, <1>6 DEF InsertedLine
<1> QED
  BY <1>1, <1>10, <1>11

\* The loop over the waiters of line a, for states s of the copies that are right
\* whether the line is served or not.
LEMMA ServeData ==
  ASSUME NEW a \in Addrs, NEW s \in [Caches -> [Addrs -> States]], NEW q, Serve(a, s, q),
         \A b \in Addrs : LineOK(s, fresh', a, b)
  PROVE  /\ DataOK'
         /\ \A d \in Caches, b \in Addrs : state'[d][b] = "M" => s[d][b] = "M"
<1>1. serving' \in {a, NoAddr}
  BY DEF Serve
<1>2. ASSUME NEW b \in Addrs  PROVE LineOK(s, fresh', serving', b)
  BY <1>1, NamesAssumption DEF LineOK, SameLine
<1>3. CASE state' = s
  BY <1>2, <1>3 DEF DataOK, LineOK, CleanLine, SameLine, TopLine
<1>4. CASE state' # s
  <2>1. state' = [s EXCEPT ![LastLevel][a] = "U"] /\ s[LastLevel][a] = "S" /\ serving' = NoAddr
    BY <1>4 DEF Serve
  <2>2. \A d \in Caches, b \in Addrs :
          state'[d][b] = IF d = LastLevel /\ b = a THEN "U" ELSE s[d][b]
    BY <2>1
  <2>3. \A d \in Caches : s[d][a] # "I" => <<d, a>> \in fresh'
    BY <2>1 DEF LineOK, SameLine
  <2>4. CleanLine(state', fresh', a)
    BY <2>1, <2>2, LastLevelFacts DEF LineOK, CleanLine
  <2>5. SameLine(state', fresh', serving', a) /\ TopLine(state', fresh', a)
    BY <2>1, <2>2, <2>3 DEF SameLine, TopLine
  <2>6. ASSUME NEW b \in Addrs, b # a  PROVE LineOK(state', fresh', serving', b)
    <3>1. \A d \in Caches : state'[d][b] = s[d][b]
      BY <2>2, <2>6
    <3>2. CleanLine(state', fresh', b)
      BY <1>2, <3>1, LastLevelFacts DEF LineOK, CleanLine
    <3>3. SameLine(state', fresh', serving', b)
      BY <1>2, <3>1, LastLevelFacts DEF LineOK, SameLine
    <3>4. TopLine(state', fresh', b)
      BY <1>2, <3>1 DEF LineOK, TopLine, Prev
    <3> QED
      BY <3>2, <3>3, <3>4 DEF LineOK
  <2>7. \A b \in Addrs : LineOK(state', fresh', serving', b)
    BY <2>4, <2>5, <2>6 DEF LineOK
  <2> QED
    BY <2>2, <2>7 DEF DataOK, LineOK, CleanLine, SameLine, TopLine
<1> QED
  BY <1>3, <1>4

LEMMA RepData ==
  ASSUME HierarchyInv, DataOK, NEW a \in Addrs, Rep(a)
  PROVE  /\ DataOK'
         /\ \A d \in Caches, b \in Addrs : state'[d][b] = "M" => state[d][b] = "M"
<1>1. PICK new \in Replies(a) : \E x \in Inserted(LastLevel, a, new) :
        fresh' = x.fresh /\ Serve(a, x.state, m_directory_waiters)
  BY DEF Rep
<1>2. PICK x \in Inserted(LastLevel, a, new) :
        fresh' = x.fresh /\ Serve(a, x.state, m_directory_waiters)
  BY <1>1
<1>3. new \in {"S", "E"}
  BY DEF Replies
<1> DEFINE s == x.state
<1>4. s \in [Caches -> [Addrs -> States]]
  BY <1>3, LastLevelFacts, InsertedType DEF HierarchyInv, States
<1>5. new \in {"S", "E", "M"}
  BY <1>3
<1>6. /\ \A b \in Addrs : LineOK(s, x.fresh, a, b)
      /\ \A d \in Caches \ {LastLevel} : s[d][a] = "I"
      /\ s[LastLevel][a] = new
      /\ \A d \in Caches, b \in Addrs : b # a => s[d][b] \in {"I", state[d][b]}
  BY <1>5, EnteredData
<1>7. Serve(a, s, m_directory_waiters) /\ fresh' = x.fresh
  BY <1>2
<1> HIDE DEF s
<1>8. /\ DataOK'
      /\ \A d \in Caches, b \in Addrs : state'[d][b] = "M" => s[d][b] = "M"
  BY <1>4, <1>6, <1>7, ServeData
<1>9. \A d \in Caches, b \in Addrs : s[d][b] = "M" => state[d][b] = "M"
  BY <1>3, <1>6
<1> QED
  BY <1>8, <1>9

\* All copies of a line that is being upgraded are the same.
LEMMA UpgradeData ==
  ASSUME DataInv, NEW a \in Addrs, UpgradeRep(a)
  PROVE  /\ DataOK'
         /\ \A d \in Caches, b \in Addrs :
              state'[d][b] = "M" => state[d][b] = "M" \/ (b = a /\ state[d][b] # "I")
<1> USE DEF DataInv
<1> DEFINE s == Updated(Caches, a, "M")
<1>1. fresh' = fresh /\ serving = NoAddr /\ Serve(a, s, m_directory_waiters)
  BY DEF UpgradeRep
<1>2. state[LastLevel][a] = "U"
  BY DEF UpgradeRep, Upgrading
<1>3. \A d \in Caches : state[d][a] # "I" => <<d, a>> \in fresh
  BY <1>2 DEF DataOK, LineOK, SameLine
<1>4. \A d \in Caches, b \in Addrs :
        s[d][b] = IF b = a /\ state[d][a] # "I" THEN "M" ELSE state[d][b]
  BY UpdatedFacts
<1>5. s \in [Caches -> [Addrs -> States]]
  BY UpdatedType DEF HierarchyInv, States
<1> HIDE DEF s
<1>6. s[LastLevel][a] = "M"
  BY <1>2, <1>4, LastLevelFacts
<1>7. TopLine(s, fresh, a)
  BY <1>3, <1>4 DEF TopLine
<1>8. LineOK(s, fresh, a, a)
  BY <1>6, <1>7 DEF LineOK, CleanLine, SameLine
<1>9. ASSUME NEW b \in Addrs, b # a  PROVE LineOK(s, fresh, a, b)
  <2>1. KeptLine(s, fresh, b)
    BY <1>4, <1>9, LastLevelFacts DEF KeptLine
  <2>2. LineOK(state, fresh, serving, b) /\ (a = b => serving = b)
    BY <1>9 DEF DataOK
  <2> QED
    BY <2>1, <2>2, KeptLineOK
<1>10. \A b \in Addrs : LineOK(s, fresh', a, b)
  BY <1>1, <1>8, <1>9
<1>11. /\ DataOK'
       /\ \A d \in Caches, b \in Addrs : state'[d][b] = "M" => s[d][b] = "M"
  BY <1>1, <1>5, <1>10, ServeData
<1> QED
  BY <1>4, <1>11

LEMMA NextData ==
  ASSUME HierarchyInv, DataOK, NEW a \in Addrs, NextWaiter(a)
  PROVE  /\ DataOK'
         /\ \A d \in Caches, b \in Addrs : state'[d][b] = "M" => state[d][b] = "M"
<1> DEFINE q == [m_directory_waiters EXCEPT ![a] = Tail(@)]
<1>1. fresh' = fresh /\ serving = a /\ Serve(a, state, q)
  BY DEF NextWaiter
<1> HIDE DEF q
<1>2. \A b \in Addrs : LineOK(state, fresh', a, b)
  BY <1>1 DEF DataOK
<1>3. state \in [Caches -> [Addrs -> States]]
  BY DEF HierarchyInv, TypeOK
<1> QED
  BY <1>1, <1>2, <1>3, ServeData

\* The directory takes the line away, or its data.
LEMMA TakenData ==
  ASSUME HierarchyInv, DataOK, NEW a \in Addrs, InvReq(a) \/ FlushReq(a) \/ WbReq(a)
  PROVE  /\ DataOK'
         /\ \A d \in Caches, b \in Addrs : state'[d][b] = "M" => state[d][b] = "M"
<1>1. PICK new \in {"I", "S"} :
        /\ state' = Updated(Caches, a, new)
        /\ InvReq(a) \/ ToDirectory(a, new)
        /\ serving = NoAddr /\ serving' = serving
        /\ Valid(LastLevel, a)
        /\ InvReq(a) => new = "I"
        /\ new = "S" => state[LastLevel][a] \in {"S", "E", "M"}
  BY DEF InvReq, FlushReq, WbReq, ToDirectory, Readable, Valid
<1>2. \A d \in Caches, b \in Addrs :
        state'[d][b] = IF b = a /\ state[d][a] # "I" THEN new ELSE state[d][b]
  BY <1>1, UpdatedFacts
<1>3. ASSUME NEW b \in Addrs
      PROVE  /\ \A d \in Caches : <<d, b>> \in fresh /\ state'[d][b] # "I" => <<d, b>> \in fresh'
             /\ b # a => (<<Memory, b>> \in fresh => <<Memory, b>> \in fresh')
             /\ <<Memory, a>> \in fresh'
             /\ state'[LastLevel][a] # "I" => <<LastLevel, a>> \in fresh'
  <2>1. CASE InvReq(a)
    <3>1. fresh' = Held(fresh, state') /\ state[LastLevel][a] # "M"
      BY <2>1 DEF InvReq
    <3> QED
      BY <3>1, <1>1, <1>2, <2>1, LastLevelFacts DEF Held, DataOK, LineOK, CleanLine
  <2>2. CASE ToDirectory(a, new)
    <3> DEFINE w == WrittenBack(Caches, LastLevel, a)
    <3>1. fresh' = Held(Copied(w, LastLevel, Memory, a), state')
      BY <2>2 DEF ToDirectory
    <3>2. LineOK(state, fresh, serving, a) /\ Caches \in SUBSET Caches
      BY DEF DataOK
    <3>3. ASSUME NEW d \in Caches \cup {Memory}, NEW c \in Addrs
          PROVE  <<d, c>> \in w <=>
                   <<d, c>> \in fresh \/ (c = a /\ d \in Caches \cup {LastLevel} /\ state[d][a] = "M")
      BY <3>2, LastLevelFacts, WrittenBackFacts
    <3>4. <<LastLevel, a>> \in w
      BY <1>1, <3>2, <3>3, LastLevelFacts DEF LineOK, CleanLine, Valid
    <3> HIDE DEF w
    <3>5. Copied(w, LastLevel, Memory, a) = w \cup {<<Memory, a>>}
      BY <3>4 DEF Copied
    <3>6. fresh' = Held(w \cup {<<Memory, a>>}, state')
      BY <3>1, <3>5
    <3>7. LastLevel \in Caches
      BY LastLevelFacts
    <3> QED
      BY <3>3, <3>4, <3>6, <3>7 DEF Held
  <2> QED
    BY <1>1, <2>1, <2>2
<1>4. \A d \in Caches : state[d][a] # "I" => state[LastLevel][a] # "I"
  BY LevelsAssumption DEF HierarchyInv, TreeOK
<1>5. LineOK(state', fresh', serving', a)
  <2>1. \A d \in Caches : state'[d][a] \in {"I", "S"}
    BY <1>2
  <2>2. serving' # a
    BY <1>1, NamesAssumption
  <2>3. CleanLine(state', fresh', a)
    BY <1>3 DEF CleanLine
  <2>4. SameLine(state', fresh', serving', a) /\ TopLine(state', fresh', a)
    BY <2>1, <2>2, LastLevelFacts DEF SameLine, TopLine
  <2> QED
    BY <2>3, <2>4 DEF LineOK
<1>6. ASSUME NEW b \in Addrs, b # a  PROVE LineOK(state', fresh', serving', b)
  <2>1. KeptLine(state', fresh', b)
    BY <1>2, <1>3, <1>6, LastLevelFacts DEF KeptLine
  <2> QED
    BY <1>1, <2>1, KeptLineOK DEF DataOK
<1>7. DataOK'
  BY <1>5, <1>6 DEF DataOK, LineOK, CleanLine, SameLine, TopLine
<1> QED
  BY <1>2, <1>7

-----------------------------------------------------------------------------
(* Upgrades.                                                               *)

LEMMA UpgradingKept ==
  ASSUME Upgrading, UNCHANGED request, UNCHANGED m_directory_waiters, UNCHANGED serving,
         UNCHANGED direct,
         \A b \in Addrs :
           \/ state'[LastLevel][b] \in {state[LastLevel][b], "I"}
           \/ state'[LastLevel][b] # "U" /\ request[b] # "UPGRADE_REQ"
  PROVE  Upgrading'
BY DEF Upgrading, Valid

LEMMA ServeUpgrading ==
  ASSUME Upgrading, ~ direct, UNCHANGED direct, TypeOK, NEW a \in Addrs,
         NEW s \in [Caches -> [Addrs -> States]], NEW q, Serve(a, s, q), s[LastLevel][a] # "U",
         serving \in {NoAddr, a},
         \A b \in Addrs \ {a} : /\ q[b] = m_directory_waiters[b]
                                /\ s[LastLevel][b] \in {state[LastLevel][b], "I"}
  PROVE  Upgrading'
<1>1. m_directory_waiters' = q /\ serving' \in {NoAddr, a} /\ NoAddr \notin Addrs
  BY NamesAssumption DEF Serve
<1> DEFINE upgrade == q[a] # <<>> /\ Exclusive(Head(q[a]).op) /\ serving' = NoAddr
<1>0. \/ request' = [request EXCEPT ![a] = "none"] /\ state' = s
      \/ /\ request' = [request EXCEPT ![a] = "UPGRADE_REQ"]
         /\ state' = [s EXCEPT ![LastLevel][a] = "U"] /\ upgrade
  BY DEF Serve
<1> HIDE DEF upgrade
<1>2. \A b \in Addrs \ {a} :
        /\ request'[b] = request[b]
        /\ state'[LastLevel][b] = s[LastLevel][b]
  BY <1>0, LastLevelFacts DEF TypeOK
<1>3. \/ request'[a] = "none" /\ state'[LastLevel][a] # "U"
      \/ /\ request'[a] = "UPGRADE_REQ" /\ q[a] # <<>> /\ Exclusive(Head(q[a]).op)
         /\ state'[LastLevel][a] = "U" /\ serving' = NoAddr
  BY <1>0, LastLevelFacts DEF TypeOK, upgrade
<1>4. ASSUME NEW b \in Addrs \ {a}
      PROVE  /\ state'[LastLevel][b] = "U" => request'[b] = "UPGRADE_REQ"
             /\ request'[b] = "UPGRADE_REQ" =>
                  /\ q[b] # <<>> /\ Exclusive(Head(q[b]).op)
                  /\ serving' # b
                  /\ state'[LastLevel][b] # "I" => state'[LastLevel][b] = "U"
  BY <1>1, <1>2 DEF Upgrading, Valid
<1>5. /\ state'[LastLevel][a] = "U" => request'[a] = "UPGRADE_REQ"
      /\ request'[a] = "UPGRADE_REQ" =>
           /\ q[a] # <<>> /\ Exclusive(Head(q[a]).op)
           /\ serving' # a
           /\ state'[LastLevel][a] # "I" => state'[LastLevel][a] = "U"
  BY <1>1, <1>3
<1> QED
  BY <1>1, <1>4, <1>5 DEF Upgrading, Valid

LEMMA InitiateUpgrading ==
  ASSUME HierarchyInv, Upgrading, UNCHANGED direct, NEW c \in Caches, InitiateDirectoryAccess(c)
  PROVE  Upgrading'
<1> DEFINE a == lock.a
           w == [core |-> lock.core, from |-> lock.from, op |-> lock.op]
           set == IF Upgrades(c, "S") THEN Siblings(c) ELSE {}
           u == Updated(set, a, "I")
           first == m_directory_waiters[a] = <<>>
           type == IF ~ Exclusive(lock.op) THEN "SH_REQ"
                   ELSE IF state[c][a] = "S" THEN "UPGRADE_REQ" ELSE "EX_REQ"
<1>1. lock # Free /\ c = LastLevel /\ serving' = serving /\ ~ direct
  BY DEF InitiateDirectoryAccess, Asked
<1>2. a \in Addrs /\ c \in Caches
  BY <1>1, HolderType DEF HierarchyInv
<1>3. /\ state' = IF first /\ type = "UPGRADE_REQ" THEN [u EXCEPT ![c][a] = "U"] ELSE u
      /\ request' = IF first THEN [request EXCEPT ![a] = type] ELSE request
      /\ m_directory_waiters' = [m_directory_waiters EXCEPT ![a] = Append(@, w)]
  BY DEF InitiateDirectoryAccess
<1>4. u \in [Caches -> [Addrs -> States]]
  BY <1>2, UpdatedType DEF HierarchyInv, States
<1>5. \A b \in Addrs : u[c][b] = state[c][b]
  BY <1>1, <1>2, UpdatedFacts, SiblingsAbove
<1>6. /\ type = "UPGRADE_REQ" => Exclusive(w.op)
      /\ type # "UPGRADE_REQ" => state[c][a] # "S" \/ ~ Exclusive(lock.op)
      /\ first /\ type # "UPGRADE_REQ" => type \in {"SH_REQ", "EX_REQ"}
  OBVIOUS
<1>7. m_directory_waiters[a] \in Seq(Waiters) /\ request \in [Addrs -> Requests \cup {"none"}]
      /\ m_directory_waiters \in [Addrs -> Seq(Waiters)]
  BY <1>2 DEF HierarchyInv, TypeOK
<1>8. serving = a => ~ first
  BY <1>2, NamesAssumption DEF HierarchyInv, ServedWaits
<1> HIDE DEF u, set, type, w
<1>9. /\ m_directory_waiters'[a] = Append(m_directory_waiters[a], w)
      /\ \A b \in Addrs : b # a => m_directory_waiters'[b] = m_directory_waiters[b]
  BY <1>2, <1>3, <1>7
<1>10. /\ m_directory_waiters'[a] # <<>>
       /\ first => Head(m_directory_waiters'[a]) = w
       /\ ~ first => Head(m_directory_waiters'[a]) = Head(m_directory_waiters[a])
  <2>1. ASSUME NEW v, NEW S, NEW z \in Seq(S)
        PROVE  /\ Append(z, v) # <<>>
               /\ z = <<>> => Head(Append(z, v)) = v
               /\ z # <<>> => Head(Append(z, v)) = Head(z)
    OBVIOUS
  <2> QED
    BY <1>7, <1>9, <2>1
<1>11. ASSUME NEW b \in Addrs, b # a
       PROVE  /\ state'[c][b] = state[c][b] /\ request'[b] = request[b]
  BY <1>2, <1>3, <1>4, <1>5, <1>7, <1>11
<1>12. /\ first => request'[a] = type
       /\ ~ first => request'[a] = request[a]
       /\ state'[c][a] = IF first /\ type = "UPGRADE_REQ" THEN "U" ELSE state[c][a]
  BY <1>2, <1>3, <1>4, <1>5, <1>7
<1>13. first => state[c][a] # "U"
  BY <1>1, <1>2 DEF Upgrading
<1>14. \A b \in Addrs \ {a} :
         /\ state'[c][b] = "U" => request'[b] = "UPGRADE_REQ"
         /\ request'[b] = "UPGRADE_REQ" =>
              /\ m_directory_waiters'[b] # <<>> /\ Exclusive(Head(m_directory_waiters'[b]).op)
              /\ serving # b
              /\ state'[c][b] # "I" => state'[c][b] = "U"
  BY <1>1, <1>9, <1>11 DEF Upgrading, Valid
<1>15. /\ state'[c][a] = "U" => request'[a] = "UPGRADE_REQ"
       /\ request'[a] = "UPGRADE_REQ" =>
            /\ m_directory_waiters'[a] # <<>> /\ Exclusive(Head(m_directory_waiters'[a]).op)
            /\ serving # a
            /\ state'[c][a] # "I" => state'[c][a] = "U"
  <2>1. CASE first
    BY <1>6, <1>8, <1>10, <1>12, <1>13, <2>1
  <2>2. CASE ~ first
    BY <1>1, <1>2, <1>10, <1>12, <2>2 DEF Upgrading, Valid
  <2> QED
    BY <2>1, <2>2
<1> QED
  BY <1>1, <1>14, <1>15 DEF Upgrading, Valid

\* What the steps but those of the queues do to the last level.
LEMMA LastLevelStep ==
  ASSUME DataInv, [Next]_vars,
         ~ \E a \in Addrs : Rep(a) \/ UpgradeRep(a) \/ NextWaiter(a),
         ~ \E c \in Caches : InitiateDirectoryAccess(c),
         NEW b \in Addrs
  PROVE  \/ state'[LastLevel][b] \in {state[LastLevel][b], "I"}
         \/ state'[LastLevel][b] # "U" /\ request[b] # "UPGRADE_REQ"
<1> DEFINE Goal == \/ state'[LastLevel][b] \in {state[LastLevel][b], "I"}
                   \/ state'[LastLevel][b] # "U" /\ request[b] # "UPGRADE_REQ"
<1> USE DEF DataInv
<1>0. LastLevel \in Caches
  BY LastLevelFacts
<1>1. CASE UNCHANGED state
  BY <1>1
<1>2. ASSUME NEW t \in FirstLevel, NEW a \in Addrs, NEW op, FirstLevelMiss(t, a, op)  PROVE Goal
  <2>1. t # LastLevel
    BY FirstLevelFacts
  <2>2. state' = [state EXCEPT ![t][a] = "I"] /\ state \in [Caches -> [Addrs -> States]]
    BY <1>2 DEF FirstLevelMiss, Dropped, HierarchyInv, TypeOK
  <2> QED
    BY <1>0, <2>1, <2>2
<1>3. ASSUME NEW c \in Caches, NEW set, LastLevel \notin set, NEW a \in Addrs, NEW new,
             state' = Updated(set, a, new)
      PROVE  Goal
  BY <1>0, <1>3, UpdatedFacts
<1>4. ASSUME NEW c \in Caches, HitInCache(c)  PROVE Goal
  <2>1. lock.a \in Addrs /\ LastLevel \notin Siblings(c)
    BY <1>4, HolderType, SiblingsAbove DEF HitInCache, Asked, HierarchyInv
  <2>2. UNCHANGED state \/ \E new \in SnoopedTo(c) : state' = Updated(Siblings(c), lock.a, new)
    BY <1>4 DEF HitInCache, Snoop
  <2> QED
    BY <1>1, <1>3, <2>1, <2>2
<1>5. ASSUME NEW c \in Caches, PassOn(c)  PROVE Goal
  <2> DEFINE set == IF Upgrades(c, "S") THEN Siblings(c) ELSE {}
             u == Updated(set, lock.a, "I")
  <2>1. lock.a \in Addrs /\ c # LastLevel /\ LastLevel \notin set
    BY <1>5, HolderType, SiblingsAbove DEF PassOn, Asked, HierarchyInv
  <2>2. state' = [u EXCEPT ![c][lock.a] = "I"]
    BY <1>5 DEF PassOn
  <2>3. u \in [Caches -> [Addrs -> States]]
    BY <2>1, UpdatedType DEF HierarchyInv, States
  <2>4. u[LastLevel][b] = state[LastLevel][b]
    BY <1>0, <2>1, UpdatedFacts
  <2> HIDE DEF u
  <2> QED
    BY <1>0, <2>1, <2>2, <2>3, <2>4
<1>6. ASSUME NEW c \in Caches, SilentUpgrade(c)  PROVE Goal
  <2> DEFINE u == Updated(Siblings(c), lock.a, "I")
  <2>1. /\ lock.a \in Addrs /\ c = LastLevel /\ LastLevel \notin Siblings(c)
        /\ state[LastLevel][lock.a] \in {"E", "S"}
    BY <1>6, HolderType, SiblingsAbove DEF SilentUpgrade, Asked, HierarchyInv, Upgrades
  <2>2. state' = [u EXCEPT ![c][lock.a] = "M"]
    BY <1>6 DEF SilentUpgrade
  <2>3. u \in [Caches -> [Addrs -> States]]
    BY <2>1, UpdatedType DEF HierarchyInv, States
  <2>4. u[LastLevel][b] = state[LastLevel][b]
    BY <1>0, <2>1, UpdatedFacts
  <2>5. request[lock.a] # "UPGRADE_REQ"
    BY <2>1 DEF Upgrading, Valid
  <2> HIDE DEF u
  <2> QED
    BY <1>0, <2>1, <2>2, <2>3, <2>4, <2>5
<1>7. ASSUME NEW c \in Caches, AccessDRAM(c)  PROVE Goal
  <2> DEFINE new == IF Exclusive(lock.op) THEN "M" ELSE "S"
  <2>1. lock.a \in Addrs /\ direct /\ c = LastLevel
    BY <1>7, HolderType DEF AccessDRAM, Asked, HierarchyInv
  <2>2. request[b] # "UPGRADE_REQ"
    BY <2>1 DEF Upgrading
  <2>3. PICK x \in Inserted(c, lock.a, new) : state' = x.state
    BY <1>7 DEF AccessDRAM
  <2>4. new # "U"
    OBVIOUS
  <2> HIDE DEF new
  <2>5. PICK victims \in SUBSET Addrs :
          \A b1 \in Addrs : InsertedLine(x.state, x.fresh, c, lock.a, new, victims, b1)
    BY <2>1, <2>3, InsertedValues
  <2> QED
    BY <1>0, <2>2, <2>3, <2>4, <2>5 DEF InsertedLine
<1>8. ASSUME NEW c \in Caches, CopyDataFromNextLevel(c)  PROVE Goal
  <2> DEFINE new == FilledState(NextLevel[c], lock.a)
  <2>1. lock.a \in Addrs /\ c # LastLevel
    BY <1>8, HolderType, LastLevelFacts, NamesAssumption DEF CopyDataFromNextLevel, HierarchyInv
  <2>2. PICK x \in Inserted(c, lock.a, new) : state' = x.state
    BY <1>8 DEF CopyDataFromNextLevel
  <2> HIDE DEF new
  <2>3. PICK victims \in SUBSET Addrs :
          \A b1 \in Addrs : InsertedLine(x.state, x.fresh, c, lock.a, new, victims, b1)
    BY <2>1, <2>2, InsertedValues
  <2> QED
    BY <1>0, <2>1, <2>2, <2>3 DEF InsertedLine
<1>9. ASSUME NEW a \in Addrs, InvReq(a) \/ FlushReq(a)  PROVE Goal
  <2>1. state' = Updated(Caches, a, "I")
    BY <1>9 DEF InvReq, FlushReq, ToDirectory
  <2> QED
    BY <1>0, <2>1, UpdatedFacts
<1>10. ASSUME NEW a \in Addrs, WbReq(a)  PROVE Goal
  <2>1. state' = Updated(Caches, a, "S") /\ state[LastLevel][a] \in {"S", "E", "M"}
    BY <1>10 DEF WbReq, ToDirectory, Readable
  <2>2. request[a] # "UPGRADE_REQ"
    BY <2>1 DEF Upgrading, Valid
  <2> QED
    BY <1>0, <2>1, <2>2, UpdatedFacts
<1>11. CASE \E t \in FirstLevel : CoreStep(t)
  BY <1>1, <1>2, <1>11 DEF CoreStep, FirstLevelHit, Unlock, DoPrefetch
<1>12. CASE \E c \in Caches : CacheStep(c)
  BY <1>4, <1>5, <1>6, <1>7, <1>8, <1>12 DEF CacheStep
<1>13. CASE NetworkStep
  BY <1>9, <1>10, <1>13 DEF NetworkStep
<1>14. CASE Finish \/ UNCHANGED vars
  BY <1>1, <1>14 DEF Finish, vars
<1> QED
  BY <1>11, <1>12, <1>13, <1>14 DEF Next

LEMMA UpgradingStep ==
  ASSUME DataInv, [Next]_vars
  PROVE  Upgrading'
<1> USE DEF DataInv
<1>0. UNCHANGED direct
  BY DEF Next, vars
<1>1. CASE \E c \in Caches : InitiateDirectoryAccess(c)
  BY <1>0, <1>1, InitiateUpgrading
<1>2. ASSUME NEW a \in Addrs, Rep(a)  PROVE Upgrading'
  <2>1. PICK new \in Replies(a) : \E x \in Inserted(LastLevel, a, new) :
          Serve(a, x.state, m_directory_waiters)
    BY <1>2 DEF Rep
  <2>2. PICK x \in Inserted(LastLevel, a, new) : Serve(a, x.state, m_directory_waiters)
    BY <2>1
  <2>3. new \in {"S", "E", "M"}
    BY DEF Replies
  <2> DEFINE s == x.state
  <2>4. s \in [Caches -> [Addrs -> States]]
    BY <2>3, LastLevelFacts, InsertedType DEF HierarchyInv, States
  <2>5. /\ s[LastLevel][a] = new
        /\ \A d \in Caches, b \in Addrs : b # a => s[d][b] \in {"I", state[d][b]}
    BY <2>3, EnteredData
  <2>6. ~ direct /\ serving = NoAddr
    BY <1>2 DEF Rep, Upgrading
  <2>7. Serve(a, s, m_directory_waiters)
    BY <2>2
  <2> HIDE DEF s
  <2>8. /\ s[LastLevel][a] # "U"
        /\ \A b \in Addrs \ {a} : s[LastLevel][b] \in {state[LastLevel][b], "I"}
    BY <2>3, <2>5, LastLevelFacts
  <2> QED
    BY <1>0, <2>4, <2>6, <2>7, <2>8, ServeUpgrading DEF HierarchyInv
<1>3. ASSUME NEW a \in Addrs, UpgradeRep(a)  PROVE Upgrading'
  <2> DEFINE s == Updated(Caches, a, "M")
  <2>1. s \in [Caches -> [Addrs -> States]]
    BY UpdatedType DEF HierarchyInv, States
  <2>2. Serve(a, s, m_directory_waiters) /\ serving = NoAddr /\ Valid(LastLevel, a) /\ ~ direct
    BY <1>3 DEF UpgradeRep, Upgrading
  <2>3. \A b \in Addrs : s[LastLevel][b] = IF b = a THEN "M" ELSE state[LastLevel][b]
    BY <2>2, UpdatedFacts, LastLevelFacts DEF Valid
  <2> HIDE DEF s
  <2> QED
    BY <1>0, <2>1, <2>2, <2>3, ServeUpgrading DEF HierarchyInv
<1>4. ASSUME NEW a \in Addrs, NextWaiter(a)  PROVE Upgrading'
  <2> DEFINE q == [m_directory_waiters EXCEPT ![a] = Tail(@)]
  <2>1. Serve(a, state, q) /\ serving = a /\ a # NoAddr
    BY <1>4, NamesAssumption DEF NextWaiter
  <2>2. ~ direct /\ state[LastLevel][a] # "U"
    BY <2>1 DEF Upgrading, HierarchyInv, ServedWaits
  <2>3. \A b \in Addrs \ {a} : q[b] = m_directory_waiters[b]
    BY DEF HierarchyInv, TypeOK
  <2>4. state \in [Caches -> [Addrs -> States]]
    BY DEF HierarchyInv, TypeOK
  <2> HIDE DEF q
  <2> QED
    BY <1>0, <2>1, <2>2, <2>3, <2>4, ServeUpgrading DEF HierarchyInv
<1>5. CASE /\ ~ \E c \in Caches : InitiateDirectoryAccess(c)
           /\ ~ \E a \in Addrs : Rep(a) \/ UpgradeRep(a) \/ NextWaiter(a)
  <2>1. UNCHANGED request /\ UNCHANGED m_directory_waiters /\ UNCHANGED serving
    BY <1>5 DEF Next, vars, CoreStep, FirstLevelHit, FirstLevelMiss, Unlock, DoPrefetch,
                CacheStep, HitInCache, PassOn, SilentUpgrade, AccessDRAM,
                CopyDataFromNextLevel, Finish, NetworkStep, InvReq, FlushReq, WbReq, ToDirectory
  <2> QED
    BY <1>0, <1>5, <2>1, LastLevelStep, UpgradingKept
<1> QED
  BY <1>1, <1>2, <1>3, <1>4, <1>5

-----------------------------------------------------------------------------
(* The MODIFIED copies of a line.                                          *)

LEMMA FewerPath ==
  ASSUME NEW b \in Addrs, OnePath(state, b),
         \A d \in Caches : state'[d][b] = "M" => state[d][b] = "M"
  PROVE  OnePath(state', b)
BY DEF OnePath

LEMMA LastAlonePath ==
  ASSUME NEW b \in Addrs, NEW s, \A d \in Caches \ {LastLevel} : s[d][b] # "M"
  PROVE  OnePath(s, b)
BY StackFacts DEF OnePath

LEMMA OtherPath ==
  ASSUME Paths, NEW b \in Addrs, lock = Free \/ b # lock.a \/ lock.doing = "fill",
         \A d \in Caches : state'[d][b] = "M" => state[d][b] = "M"
  PROVE  OnePath(state', b)
<1>1. OnePath(state, b)
  BY DEF Paths, Window
<1> QED
  BY <1>1, FewerPath

\* The request hits: the line comes up from the cache it is at.
LEMMA FillFacts ==
  ASSUME TypeOK, lock # Free, Fill
  PROVE  lock' # Free /\ lock'.at = lock.at /\ lock'.a = lock.a /\ lock'.doing = "fill"
<1>1. lock \in Holders
  BY HolderType
<1>2. lock'.at = lock.at /\ lock'.a = lock.a /\ lock'.doing = "fill" /\ lock.at \in Caches
  BY <1>1 DEF Fill, Holders
<1> QED
  BY <1>2, NamesAssumption DEF Free

LEMMA HitPaths ==
  ASSUME DataInv, NEW c \in Caches, HitInCache(c)
  PROVE  Paths' /\ FillTop'
<1> DEFINE a == lock.a
<1> USE DEF DataInv
<1>1. lock # Free /\ lock.at = c /\ Permits(c, a, lock.op) /\ Fill
  BY DEF HitInCache, Asked
<1>2. a \in Addrs /\ lock.from \in Caches
  BY <1>1, HolderType DEF HierarchyInv
<1>3. /\ \A d \in Caches, b \in Addrs : state'[d][b] = "M" => state[d][b] = "M"
      /\ SnoopedTo(c) # {} => \A d \in Siblings(c) : state'[d][a] # "M"
  <2>1. CASE SnoopedTo(c) = {}
    BY <2>1 DEF HitInCache
  <2>2. CASE SnoopedTo(c) # {}
    <3>1. PICK new \in SnoopedTo(c) : state' = Updated(Siblings(c), a, new)
      BY <2>2 DEF HitInCache, Snoop
    <3>2. new \in {"I", "S"}
      BY DEF SnoopedTo
    <3>3. \A d \in Caches, b \in Addrs :
            state'[d][b] = IF d \in Siblings(c) /\ b = a /\ state[d][a] # "I" THEN new
                           ELSE state[d][b]
      BY <1>2, <3>1, UpdatedFacts
    <3>4. \A d \in Siblings(c) : d \in Caches
      BY SiblingsAbove
    <3> QED
      BY <1>2, <3>2, <3>3, <3>4
  <2> QED
    BY <2>1, <2>2
<1>4. state[c][a] = "M" => SnoopedTo(c) # {}
  BY DEF SnoopedTo
<1>5. ASSUME Window(a)  PROVE \A d \in Caches \ {LastLevel} : state'[d][a] # "M"
  <2>1. Exclusive(lock.op) /\ state[c][a] = "M"
    BY <1>1, <1>5 DEF Window, Permits, Writable
  <2>2. c \in Stack[lock.from]
    BY <1>1 DEF HierarchyInv, PathInv
  <2>3. c = LastLevel
    BY <1>5, <2>1, <2>2 DEF Window
  <2>4. \A d \in Caches \ {LastLevel} : d \notin Siblings(LastLevel) => state[d][a] = "I"
    BY <1>1, <2>3, AloneFacts
  <2> QED
    BY <1>2, <1>3, <1>4, <2>1, <2>3, <2>4
<1>6. ASSUME NEW b \in Addrs  PROVE OnePath(state', b)
  <2>1. CASE Window(b)
    <3>1. b = a
      BY <2>1 DEF Window
    <3> QED
      BY <1>5, <2>1, <3>1, LastAlonePath
  <2>2. CASE OnePath(state, b)
    BY <1>3, <2>2, FewerPath
  <2> QED
    BY <2>1, <2>2 DEF Paths
<1>7. ASSUME state'[c][a] = "M", NEW e \in Caches, state'[e][a] = "M"  PROVE e \in Stack[c]
  <2>1. state[c][a] = "M" /\ state[e][a] = "M" /\ e \notin Siblings(c)
    BY <1>2, <1>3, <1>4, <1>7
  <2>2. CASE Window(a)
    BY <1>5, <1>7, <2>2, LevelsAssumption
  <2>3. CASE OnePath(state, a)
    <3>1. e \in Stack[c] \/ e \in Tree(c)
      BY <2>1, <2>3 DEF OnePath, Tree
    <3>2. c \in Stack[c]
      BY StackFacts
    <3> QED
      BY <1>1, <2>1, <3>1, <3>2, PathDropped
  <2> QED
    BY <1>2, <2>2, <2>3 DEF Paths
<1>8. lock' # Free /\ lock'.at = c /\ lock'.a = a
  BY <1>1, FillFacts DEF HierarchyInv
<1>9. FillTop'
  BY <1>7, <1>8 DEF FillTop
<1> QED
  BY <1>6, <1>9 DEF Paths, OnePath

LEMMA PassOnPaths ==
  ASSUME DataInv, NEW c \in Caches, PassOn(c)
  PROVE  Paths' /\ FillTop'
<1> DEFINE a == lock.a
           set == IF Upgrades(c, "S") THEN Siblings(c) ELSE {}
           u == Updated(set, a, "I")
<1> USE DEF DataInv
<1>1. /\ lock # Free /\ lock.at = c /\ lock.doing = "ask" /\ c # LastLevel
      /\ lock' = [lock EXCEPT !.at = NextLevel[c]]
  BY DEF PassOn, Asked
<1>2. a \in Addrs /\ lock.from \in Caches /\ lock \in Holders
  BY <1>1, HolderType DEF HierarchyInv
<1>3. state' = [u EXCEPT ![c][a] = "I"]
  BY DEF PassOn
<1>4. u \in [Caches -> [Addrs -> States]]
  BY <1>2, UpdatedType DEF HierarchyInv, States
<1>5. \A d \in Caches, b \in Addrs : u[d][b] \in {"I", state[d][b]}
  BY <1>2, UpdatedFacts
<1> HIDE DEF u
<1>6. \A d \in Caches, b \in Addrs : state'[d][b] \in {"I", state[d][b]}
  BY <1>3, <1>4, <1>5
<1>7. NextLevel[c] \in Caches
  BY <1>1, LastLevelFacts
<1>8. /\ lock'.a = a /\ lock'.doing = "ask" /\ lock'.op = lock.op /\ lock'.from = lock.from
      /\ lock'.at = NextLevel[c]
  BY <1>1, <1>2 DEF Holders
<1>9. lock' # Free
  BY <1>7, <1>8, NamesAssumption DEF Free
<1>10. ASSUME NEW b \in Addrs, Window(b)  PROVE Window(b)'
  <2>1. \A d \in Stack[lock.from] \ {LastLevel} : d \in Caches
    BY <1>2, StackFacts
  <2> QED
    BY <1>6, <1>8, <1>9, <1>10, <2>1 DEF Window
<1>11. ASSUME NEW b \in Addrs, OnePath(state, b)  PROVE OnePath(state', b)
  BY <1>6, <1>11, FewerPath
<1>12. Paths'
  BY <1>10, <1>11 DEF Paths, OnePath
<1> QED
  BY <1>8, <1>12 DEF FillTop

\* The line is in the last level alone.
LEMMA LastFillPaths ==
  ASSUME DataInv, lock # Free, lock.at = LastLevel, Fill,
         \A d \in Caches \ {LastLevel} : state'[d][lock.a] = "I",
         \A d \in Caches, b \in Addrs : b # lock.a => state'[d][b] \in {"I", state[d][b]}
  PROVE  Paths' /\ FillTop'
<1> USE DEF DataInv
<1>1. lock.a \in Addrs
  BY HolderType DEF HierarchyInv
<1>2. OnePath(state', lock.a)
  BY <1>1, LastAlonePath
<1>3. ASSUME NEW b \in Addrs, b # lock.a  PROVE OnePath(state', b)
  BY <1>3, OtherPath
<1>4. lock' # Free /\ lock'.at = LastLevel /\ lock'.a = lock.a
  BY FillFacts DEF HierarchyInv
<1>5. LastLevel \in Stack[LastLevel]
  BY LastStack
<1>6. FillTop'
  BY <1>4, <1>5 DEF FillTop
<1> QED
  BY <1>2, <1>3, <1>6 DEF Paths, OnePath

\* Nobody starts a request for a line that it may write.
LEMMA InitiatePaths ==
  ASSUME DataInv, NEW c \in Caches, InitiateDirectoryAccess(c)
  PROVE  Paths' /\ FillTop'
<1> USE DEF DataInv
<1>1. lock # Free /\ c = LastLevel /\ lock' = Free /\ ~ Permits(c, lock.a, lock.op)
  BY DEF InitiateDirectoryAccess, Asked
<1>2. \A d \in Caches, b \in Addrs : state'[d][b] = "M" => state[d][b] = "M"
  BY InitiateData
<1>3. ASSUME NEW b \in Addrs  PROVE OnePath(state', b)
  <2>1. CASE Window(b)
    <3>1. state[LastLevel][b] # "M"
      BY <1>1, <2>1 DEF Window, Permits, Writable
    <3>2. \A d \in Caches : state[d][b] # "M"
      BY <3>1, LevelsAssumption DEF HierarchyInv, TreeOK
    <3> QED
      BY <1>2, <3>2 DEF OnePath
  <2>2. CASE OnePath(state, b)
    BY <1>2, <2>2, FewerPath
  <2> QED
    BY <2>1, <2>2 DEF Paths
<1> QED
  BY <1>1, <1>3 DEF Paths, OnePath, FillTop

LEMMA CopyPaths ==
  ASSUME DataInv, NEW c \in Caches, CopyDataFromNextLevel(c)
  PROVE  Paths' /\ FillTop'
<1> DEFINE a == lock.a
           n == NextLevel[c]
<1> USE DEF DataInv
<1>1. /\ lock # Free /\ lock.doing = "fill" /\ lock.at = n /\ lock' = [lock EXCEPT !.at = c]
  BY DEF CopyDataFromNextLevel
<1>2. a \in Addrs /\ n \in Caches /\ lock \in Holders
  BY <1>1, HolderType DEF HierarchyInv
<1>3. n \in Stack[c] /\ Stack[n] \subseteq Stack[c] /\ c \in Stack[c]
  BY <1>2, StackFacts, NamesAssumption
<1>4. \A d \in Caches, b \in Addrs :
        state'[d][b] = "M" => state[d][b] = "M" \/ (d = c /\ b = a /\ state[n][b] = "M")
  BY <1>1, CopyData
<1>5. state[c][a] = "M" => state[n][a] = "M"
  BY <1>2, <1>3 DEF HierarchyInv, TreeOK
<1>6. state[n][a] = "M" => \A d \in Caches : state[d][a] = "M" => d \in Stack[n]
  BY <1>1 DEF FillTop
<1>7. state[n][a] = "M" => \A d \in Caches : state'[d][a] = "M" => d \in Stack[c]
  BY <1>2, <1>3, <1>4, <1>6
<1>8. ASSUME NEW b \in Addrs  PROVE OnePath(state', b)
  <2>1. OnePath(state, b)
    BY <1>1 DEF Paths, Window
  <2>2. CASE \A d \in Caches : state'[d][b] = "M" => state[d][b] = "M"
    BY <2>1, <2>2, FewerPath
  <2>3. CASE b = a /\ state[n][a] = "M"
    <3> SUFFICES ASSUME NEW d \in Caches, NEW e \in Caches, state'[d][a] = "M", state'[e][a] = "M"
                 PROVE  d \in Stack[e] \/ e \in Stack[d]
      BY <2>3 DEF OnePath
    <3>1. CASE d = c \/ e = c
      BY <1>7, <2>3, <3>1
    <3>2. CASE d # c /\ e # c
      BY <1>2, <1>4, <2>1, <2>3, <3>2 DEF OnePath
    <3> QED
      BY <3>1, <3>2
  <2> QED
    BY <1>4, <2>2, <2>3
<1>9. lock'.at = c /\ lock'.a = a
  BY <1>1, <1>2 DEF Holders
<1>10. state'[c][a] = "M" => state[n][a] = "M"
  BY <1>2, <1>4, <1>5
<1>11. FillTop'
  BY <1>7, <1>9, <1>10 DEF FillTop
<1> QED
  BY <1>8, <1>11 DEF Paths, OnePath

\* An upgrade makes all copies MODIFIED; the levels of the core that asked for it
\* have none, and it has the stack lock until it has written.
LEMMA UpgradePaths ==
  ASSUME DataInv, NEW a \in Addrs, UpgradeRep(a)
  PROVE  Paths' /\ FillTop'
<1> DEFINE s == Updated(Caches, a, "M")
           q == m_directory_waiters
           w == Head(q[a])
<1> USE DEF DataInv
<1>1. serving = NoAddr /\ lock = Free /\ Serve(a, s, q) /\ Valid(LastLevel, a)
  BY DEF UpgradeRep, StackFree
<1>2. q[a] # <<>> /\ Exclusive(w.op)
  BY DEF UpgradeRep, Upgrading
<1>3. \A d \in Caches, b \in Addrs :
        s[d][b] = IF b = a /\ state[d][a] # "I" THEN "M" ELSE state[d][b]
  BY UpdatedFacts
<1> HIDE DEF s
<1>4. s[LastLevel][a] # "S"
  BY <1>1, <1>3, LastLevelFacts DEF Valid
<1>5. state' = s /\ Lock(w.core, w.from, w.op, a,
                         IF w.op = "PREFETCH" THEN w.from ELSE NextLevel[w.from], TRUE)
  BY <1>1, <1>2, <1>4 DEF Serve
<1>6. w \in Waiters /\ 1 \in DOMAIN q[a] /\ w = q[a][1]
  BY <1>2 DEF HierarchyInv, TypeOK
<1>7. w.op # "PREFETCH" /\ w.from \in Caches
  BY <1>2, <1>6 DEF Exclusive, Waiters
<1>8. ASSUME NEW d \in Stack[w.from] \ {LastLevel}  PROVE state'[d][a] = "I"
  <2>1. state[d][a] = "I"
    BY <1>1, <1>6, <1>7, NamesAssumption DEF HierarchyInv, WaitersDropped, Pends
  <2>2. d \in Caches
    BY <1>7, StackFacts
  <2> QED
    BY <1>3, <1>5, <2>1, <2>2
<1>9. /\ lock'.a = a /\ lock'.doing = "ask" /\ lock'.op = w.op /\ lock'.from = w.from
      /\ lock'.at = NextLevel[w.from]
  BY <1>5, <1>7 DEF Lock
<1>10. NextLevel[w.from] # NoCache
  BY <1>6, <1>7, LastLevelFacts, NamesAssumption DEF Waiters
<1>11. lock' # Free
  BY <1>9, <1>10 DEF Free
<1> HIDE DEF w
<1>12. Window(a)'
  BY <1>2, <1>8, <1>9, <1>11 DEF Window
<1>13. ASSUME NEW b \in Addrs, b # a  PROVE OnePath(state', b)
  BY <1>1, <1>3, <1>5, <1>13, OtherPath
<1> QED
  BY <1>9, <1>12, <1>13 DEF Paths, OnePath, FillTop

LEMMA PathsStep ==
  ASSUME DataInv, [Next]_vars
  PROVE  Paths' /\ FillTop'
<1> USE DEF DataInv
\* Nobody has the stack lock, and no copy becomes MODIFIED.
<1>1. ASSUME lock = Free, lock' = Free \/ lock'.doing = "ask",
             \A d \in Caches, b \in Addrs : state'[d][b] = "M" => state[d][b] = "M"
      PROVE  Paths' /\ FillTop'
  <2>1. \A b \in Addrs : OnePath(state', b)
    BY <1>1, OtherPath
  <2> QED
    BY <1>1, <2>1 DEF Paths, OnePath, FillTop
<1>2. ASSUME NEW t \in FirstLevel, CoreStep(t)  PROVE Paths' /\ FillTop'
  <2>1. ASSUME NEW a \in Addrs, NEW op, FirstLevelMiss(t, a, op)  PROVE Paths' /\ FillTop'
    <3>1. state' = [state EXCEPT ![t][a] = "I"] /\ state \in [Caches -> [Addrs -> States]]
      BY <2>1 DEF FirstLevelMiss, Dropped, HierarchyInv, TypeOK
    <3>2. \A d \in Caches, b \in Addrs : state'[d][b] = "M" => state[d][b] = "M"
      BY <3>1
    <3>3. lock = Free /\ lock'.doing = "ask"
      BY <2>1 DEF FirstLevelMiss, Ready, Lock
    <3> QED
      BY <1>1, <3>2, <3>3
  <2>2. ASSUME UNCHANGED state, lock = Free, lock' = Free \/ lock'.doing = "ask"
        PROVE  Paths' /\ FillTop'
    BY <1>1, <2>2
  <2> QED
    BY <1>2, <2>1, <2>2 DEF CoreStep, FirstLevelHit, Unlock, DoPrefetch, Ready, Lock
<1>3. ASSUME NEW c \in Caches, CacheStep(c)  PROVE Paths' /\ FillTop'
  <2>1. CASE SilentUpgrade(c)
    <3>1. lock # Free /\ lock.at = LastLevel /\ Fill
      BY <2>1 DEF SilentUpgrade, Asked
    <3>2. /\ \A d \in Caches \ {LastLevel} : state'[d][lock.a] = "I"
          /\ \A d \in Caches, b \in Addrs : b # lock.a => state'[d][b] = state[d][b]
      BY <2>1, SilentData
    <3> QED
      BY <3>1, <3>2, LastFillPaths
  <2>2. CASE AccessDRAM(c)
    <3>1. lock # Free /\ lock.at = LastLevel /\ Fill
      BY <2>2 DEF AccessDRAM, Asked
    <3>2. /\ \A d \in Caches \ {LastLevel} : state'[d][lock.a] = "I"
          /\ \A d \in Caches, b \in Addrs : b # lock.a => state'[d][b] \in {"I", state[d][b]}
      BY <2>2, AccessData
    <3> QED
      BY <3>1, <3>2, LastFillPaths
  <2> QED
    BY <1>3, <2>1, <2>2, HitPaths, PassOnPaths, InitiatePaths, CopyPaths DEF CacheStep
<1>4. CASE Finish
  <2>1. lock.doing = "fill" /\ lock' = Free /\ state' = state
    BY <1>4 DEF Finish
  <2>2. \A b \in Addrs : OnePath(state', b)
    BY <2>1, OtherPath
  <2> QED
    BY <2>1, <2>2 DEF Paths, OnePath, FillTop
<1>5. ASSUME NEW a \in Addrs, Rep(a) \/ NextWaiter(a)  PROVE Paths' /\ FillTop'
  <2>1. lock = Free /\ \E s, q : Serve(a, s, q)
    BY <1>5 DEF Rep, NextWaiter, StackFree
  <2>2. lock' = Free \/ lock'.doing = "ask"
    BY <2>1 DEF Serve, Lock
  <2>3. \A d \in Caches, b \in Addrs : state'[d][b] = "M" => state[d][b] = "M"
    BY <1>5, RepData, NextData
  <2> QED
    BY <1>1, <2>1, <2>2, <2>3
<1>6. ASSUME NEW a \in Addrs, InvReq(a) \/ FlushReq(a) \/ WbReq(a)  PROVE Paths' /\ FillTop'
  <2>1. lock = Free /\ lock' = Free
    BY <1>6 DEF InvReq, FlushReq, WbReq, ToDirectory, StackFree
  <2>2. \A d \in Caches, b \in Addrs : state'[d][b] = "M" => state[d][b] = "M"
    BY <1>6, TakenData
  <2> QED
    BY <1>1, <2>1, <2>2
<1>7. CASE NetworkStep
  BY <1>5, <1>6, <1>7, UpgradePaths DEF NetworkStep
<1>8. CASE UNCHANGED vars
  BY <1>8 DEF vars, Paths, OnePath, Window, FillTop
<1> QED
  BY <1>2, <1>3, <1>4, <1>7, <1>8 DEF Next

\* A write finds the MODIFIED copies of its line below the first level it is in.
LEMMA AccessValues ==
  ASSUME HierarchyInv, DataOK, UNCHANGED state, UNCHANGED serving,
         \/ UNCHANGED fresh
         \/ \E t \in FirstLevel, a \in Addrs :
              /\ fresh' = Written(t, a) /\ state[t][a] = "M"
              /\ \A e \in Caches : state[e][a] = "M" => e \in Stack[t]
  PROVE  DataOK'
<1>1. \A b \in Addrs : LineOK(state, fresh', serving, b)
  BY WriteData DEF DataOK
<1> QED
  BY <1>1 DEF DataOK, LineOK, CleanLine, SameLine, TopLine

LEMMA FreeWrite ==
  ASSUME Paths, lock = Free, NEW t \in FirstLevel, NEW a \in Addrs, state[t][a] = "M"
  PROVE  \A e \in Caches : state[e][a] = "M" => e \in Stack[t]
<1>1. OnePath(state, a) /\ t \in Caches
  BY FirstLevelFacts DEF Paths, Window
<1> QED
  BY <1>1, FirstLevelFacts, StackFacts DEF OnePath

LEMMA DataStep ==
  ASSUME DataInv, [Next]_vars
  PROVE  DataOK'
<1> USE DEF DataInv
<1>1. ASSUME NEW t \in FirstLevel, CoreStep(t)  PROVE DataOK'
  <2>1. ASSUME NEW a \in Addrs, NEW op, FirstLevelHit(t, a, op)  PROVE DataOK'
    <3>1. /\ UNCHANGED state /\ UNCHANGED serving /\ lock = Free /\ Permits(t, a, op)
          /\ fresh' = IF op = "WRITE" THEN Written(t, a) ELSE fresh
      BY <2>1 DEF FirstLevelHit, AccessCache, Ready
    <3>2. op = "WRITE" => state[t][a] = "M"
      BY <3>1 DEF Permits, Exclusive, Writable
    <3> QED
      BY <3>1, <3>2, FreeWrite, AccessValues
  <2>2. ASSUME NEW a \in Addrs, Unlock(t, a)  PROVE DataOK'
    <3>1. /\ UNCHANGED state /\ UNCHANGED serving /\ lock = Free /\ fresh' = Written(t, a)
          /\ state[t][a] = "M"
      BY <2>2 DEF Unlock, Permits, Exclusive, Writable
    <3> QED
      BY <3>1, FreeWrite, AccessValues
  <2>3. ASSUME NEW a \in Addrs, NEW c \in Caches, DoPrefetch(t, c, a)  PROVE DataOK'
    BY <2>3, AccessValues DEF DoPrefetch
  <2> QED
    BY <1>1, <2>1, <2>2, <2>3, MissData DEF CoreStep
<1>2. ASSUME NEW c \in Caches, CacheStep(c)  PROVE DataOK'
  BY <1>2, HitData, PassOnData, SilentData, AccessData, InitiateData, CopyData DEF CacheStep
<1>3. CASE Finish
  <2> DEFINE t == lock.core
             a == lock.a
  <2>1. /\ UNCHANGED state /\ UNCHANGED serving /\ lock # Free /\ lock.doing = "fill"
        /\ lock.at = lock.from /\ Permits(lock.from, a, lock.op)
        /\ fresh' = IF lock.op = "WRITE" THEN Written(t, a) ELSE fresh
    BY <1>3 DEF Finish, AccessCache
  <2>2. t \in FirstLevel /\ a \in Addrs /\ (lock.op # "PREFETCH" => lock.from = t)
    BY <2>1, HolderType DEF HierarchyInv
  <2>3. lock.op = "WRITE" =>
          state[t][a] = "M" /\ \A e \in Caches : state[e][a] = "M" => e \in Stack[t]
    BY <2>1, <2>2 DEF Permits, Exclusive, Writable, FillTop
  <2> HIDE DEF t, a
  <2> QED
    BY <2>1, <2>2, <2>3, AccessValues
<1>4. ASSUME NEW a \in Addrs,
             \/ Rep(a) \/ UpgradeRep(a) \/ NextWaiter(a)
             \/ InvReq(a) \/ FlushReq(a) \/ WbReq(a)
      PROVE  DataOK'
  BY <1>4, RepData, UpgradeData, NextData, TakenData
<1>5. CASE NetworkStep
  BY <1>4, <1>5 DEF NetworkStep
<1>6. CASE UNCHANGED vars
  BY <1>6, AccessValues DEF vars
<1> QED
  BY <1>1, <1>2, <1>3, <1>5, <1>6 DEF Next

LEMMA InitData == Init => DataInv
<1> SUFFICES ASSUME Init  PROVE DataInv
  OBVIOUS
<1>1. HierarchyInv
  BY InitHierarchy
<1>2. /\ \A c \in Caches, b \in Addrs : state[c][b] = "I"
      /\ \A b \in Addrs : <<Memory, b>> \in fresh /\ request[b] = "none"
      /\ \A b \in Addrs : m_directory_waiters[b] = <<>>
      /\ lock = Free /\ LastLevel \in Caches
  BY LastLevelFacts DEF Init
<1>3. Upgrading
  BY <1>2 DEF Upgrading
<1>4. DataOK
  BY <1>2 DEF DataOK, LineOK, CleanLine, SameLine, TopLine
<1>5. Paths /\ FillTop
  BY <1>2 DEF Paths, OnePath, FillTop
<1> QED
  BY <1>1, <1>3, <1>4, <1>5 DEF DataInv

LEMMA DataInvariant ==
  ASSUME PrivateLevels
  PROVE  Spec => []DataInv
<1>1. ASSUME DataInv, [Next]_vars  PROVE DataInv'
  <2>1. HierarchyInv'
    BY <1>1, HierarchyStep DEF DataInv
  <2>2. Upgrading' /\ DataOK' /\ Paths' /\ FillTop'
    BY <1>1, UpgradingStep, DataStep, PathsStep
  <2> QED
    BY <2>1, <2>2 DEF DataInv
<1> QED
  BY InitData, <1>1, PTL DEF Spec

\* In every tree in which only the last level is shared, two cores never both have
\* a line they may write without asking anybody: a request takes the copies of the
\* other cores (processShmemReqFromPrevCache, "Invalidate/flush in previous levels"),
\* and an upgrade, which makes every copy of the node MODIFIED, keeps the stack lock
\* until the core that asked for it has taken those of the others.
THEOREM CoresWriteAlone ==
  ASSUME PrivateLevels
  PROVE  Spec => []OneWriter
<1>1. ASSUME DataInv  PROVE OneWriter
  <2> SUFFICES ASSUME lock = Free, NEW t \in FirstLevel, NEW u \in FirstLevel, NEW a \in Addrs,
                      state[t][a] = "M", state[u][a] = "M"
               PROVE  t = u
    BY DEF OneWriter
  <2>1. u \in Stack[t] /\ t \in Caches
    BY <1>1, FreeWrite, FirstLevelFacts DEF DataInv
  <2> QED
    BY <2>1, FirstLevelFacts
<1> QED
  BY DataInvariant, <1>1, PTL

\* ... and no write is lost: the value written last is in memory or comes out of the
\* last level, whatever evictions, write-backs, upgrades, prefetches and requests of
\* the directory move the line (updateCacheBlock merges the previous levels' data,
\* insertCacheBlock writes the eviction buffer).
THEOREM WritesReachMemory ==
  ASSUME PrivateLevels
  PROVE  Spec => []LastWriteKept
<1>1. ASSUME DataInv  PROVE LastWriteKept
  <2> SUFFICES ASSUME NEW a \in Addrs
               PROVE  \/ state[LastLevel][a] # "M" /\ <<Memory, a>> \in fresh
                      \/ state[LastLevel][a] = "M" /\ Newest(LastLevel, a)
    BY DEF LastWriteKept
  <2>1. LineOK(state, fresh, serving, a)
    BY <1>1 DEF DataInv, DataOK
  <2>2. Newest(LastLevel, a)
    BY <2>1, LastLevelFacts, NewestHolds
  <2> QED
    BY <2>1, <2>2 DEF LineOK, CleanLine
<1> QED
  BY DataInvariant, <1>1, PTL
=============================================================================
