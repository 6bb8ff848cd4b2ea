--------------------------- MODULE CacheSetLRUProofs ---------------------------
(***************************************************************************)
(* Proofs about CacheSetLRU for any associativity and any set of blocks:   *)
(* types, ages, the order of use that the ages stand for, and, when the    *)
(* set has more ways than cores wait for a reply, the victim of every      *)
(* reply.                                                                  *)
(***************************************************************************)
EXTENDS CacheSetLRU, Sequences, FiniteSetTheorems, WellFoundedInduction, TLAPS

USE AssociativityAssumption, NoTagAssumption, MaxPendingAssumption
    DEF AssociativityAssumption, NoTagAssumption, MaxPendingAssumption

-----------------------------------------------------------------------------
(* The replacement policy.                                                 *)

\* A set of naturals with an element has a least one.
LEMMA LeastElement ==
  ASSUME NEW S, S \subseteq Nat, S # {}
  PROVE  \E x \in S : \A y \in S : x <= y
<1>1. PICK x \in S : \A y \in S : ~ (<<y, x>> \in OpToRel(<, Nat))
  BY NatLessThanWellFounded, WFMin, Zenon
<1>2. \A y \in S : ~ (y < x)
  BY <1>1 DEF OpToRel
<1> QED
  BY <1>2

\* The lowest free way is one (the first loop of getReplacementIndex).
LEMMA LowestIsMember ==
  ASSUME NEW S, S \subseteq Ways, S # {}
  PROVE  Lowest(S) \in S
<1>0. S \subseteq Nat
  BY DEF Ways
<1>1. \E w \in S : \A v \in S : w <= v
  BY <1>0, LeastElement
<1> QED
  BY <1>1, Zenon DEF Lowest

\* The second loop of getReplacementIndex ends with the oldest candidate if there is one.
LEMMA LeastRecentIsOldest ==
  ASSUME TypeOK, Candidates # {}
  PROVE  /\ LeastRecent \in Candidates
         /\ \A v \in Candidates : lru_bits[v] <= lru_bits[LeastRecent]
<1> DEFINE Rest == {Associativity - lru_bits[w] : w \in Candidates}
<1>1. Candidates \subseteq Ways
  BY DEF Candidates
<1>2. \A w \in Candidates : lru_bits[w] \in 0 .. Associativity - 1
  BY <1>1 DEF TypeOK, Ways
<1>3. Rest \subseteq Nat
  BY <1>2
<1>4. Rest # {}
  OBVIOUS
<1>5. PICK x \in Rest : \A y \in Rest : x <= y
  BY <1>3, <1>4, LeastElement
<1>6. PICK w \in Candidates : x = Associativity - lru_bits[w]
  BY <1>5
<1>7. \A v \in Candidates : lru_bits[v] <= lru_bits[w]
  <2> SUFFICES ASSUME NEW v \in Candidates PROVE lru_bits[v] <= lru_bits[w]
    OBVIOUS
  <2>1. Associativity - lru_bits[w] <= Associativity - lru_bits[v]
    BY <1>5, <1>6
  <2> QED
    BY <2>1, <1>2
<1> QED
  BY <1>7, Zenon DEF LeastRecent

\* getReplacementIndex returns a way of the set.
LEMMA ReplacementIndexInWays ==
  ASSUME TypeOK
  PROVE  ReplacementIndex \in Ways
<1>1. CASE FreeWays # {}
  BY <1>1, LowestIsMember DEF ReplacementIndex, FreeWays
<1>2. CASE FreeWays = {} /\ Candidates # {}
  BY <1>2, LeastRecentIsOldest DEF ReplacementIndex, Candidates
<1>3. CASE FreeWays = {} /\ Candidates = {}
  BY <1>3 DEF ReplacementIndex, LeastRecent, Ways
<1> QED
  BY <1>1, <1>2, <1>3

\* Ages can be compared and incremented.
LEMMA AgesAreNatural ==
  ASSUME TypeOK
  PROVE  \A v \in Ways : lru_bits[v] \in Nat
<1>1. \A v \in Ways : lru_bits[v] \in Ways
  BY DEF TypeOK
<1> QED
  BY <1>1 DEF Ways

\* No age passes Associativity - 1, so that none needs more than its byte.
LEMMA MoveToMRUType ==
  ASSUME TypeOK, NEW w \in Ways
  PROVE  MoveToMRU(w) \in [Ways -> Ways]
<1>1. 0 \in Ways
  BY DEF Ways
<1>2. \A v \in Ways : lru_bits[v] \in Ways
  BY DEF TypeOK
<1>3. \A v \in Ways : lru_bits[v] < lru_bits[w] => lru_bits[v] + 1 \in Ways
  BY <1>2 DEF Ways
<1> QED
  BY <1>1, <1>2, <1>3 DEF MoveToMRU

\* Ages that differ still do after an access.
LEMMA MoveToMRUAges ==
  ASSUME TypeOK, AgesDiffer, NEW w \in Ways, lru_bits' = MoveToMRU(w)
  PROVE  AgesDiffer'
<1>1. \A v \in Ways : lru_bits[v] \in Nat
  BY AgesAreNatural
<1>2. \A v \in Ways : lru_bits'[v] = IF v = w THEN 0
                                    ELSE IF lru_bits[v] < lru_bits[w] THEN lru_bits[v] + 1
                                    ELSE lru_bits[v]
  BY DEF MoveToMRU
<1>3. ASSUME NEW u \in Ways, NEW v \in Ways, u # v PROVE lru_bits'[u] # lru_bits'[v]
  <2>1. lru_bits[u] # lru_bits[v] /\ (u # w => lru_bits[u] # lru_bits[w])
                               /\ (v # w => lru_bits[v] # lru_bits[w])
    BY <1>3 DEF AgesDiffer
  <2> QED
    BY <1>1, <1>2, <1>3, <2>1
<1> QED
  BY <1>3 DEF AgesDiffer

-----------------------------------------------------------------------------
(* Types and ages.                                                         *)

\* The constructor leaves the types right.
LEMMA TypeInit == Init => TypeOK
  BY DEF Init, TypeOK, Ways

\* Every step keeps the types.
LEMMA TypeStep ==
  ASSUME TypeOK, [Next]_vars
  PROVE  TypeOK'
<1>1. ASSUME NEW t \in Tags, Request(t) PROVE TypeOK'
  BY <1>1 DEF Request, TypeOK
<1>2. ASSUME NEW t \in Tags, Insert(t) PROVE TypeOK'
  BY <1>2, ReplacementIndexInWays, MoveToMRUType DEF Insert, TypeOK
<1>3. ASSUME NEW w \in Ways, StartUpgrade(w) PROVE TypeOK'
  BY <1>3 DEF StartUpgrade, TypeOK, Valid
<1>4. ASSUME NEW w \in Ways, FinishUpgrade(w) PROVE TypeOK'
  BY <1>4 DEF FinishUpgrade, TypeOK
<1>5. ASSUME NEW w \in Ways, Invalidate(w) PROVE TypeOK'
  BY <1>5 DEF Invalidate, TypeOK
<1>6. ASSUME NEW w \in Ways, Access(w) PROVE TypeOK'
  BY <1>6, MoveToMRUType DEF Access, TypeOK
<1>7. CASE UNCHANGED vars
  BY <1>7 DEF vars, TypeOK
<1> QED
  BY <1>1, <1>2, <1>3, <1>4, <1>5, <1>6, <1>7 DEF Next

\* The ages of any set stay below its associativity, whatever is inserted, hit,
\* upgraded or invalidated.
THEOREM TypeCorrect == Spec => []TypeOK
<1>1. TypeOK /\ [Next]_vars => TypeOK'
  BY TypeStep
<1> QED
  BY <1>1, TypeInit, PTL DEF Spec

\* The constructor gives each way an age of its own.
LEMMA AgesInit == Init => AgesDiffer
  BY DEF Init, AgesDiffer, Ways

\* Every step keeps the ages different.
LEMMA AgesStep ==
  ASSUME TypeOK, AgesDiffer, [Next]_vars
  PROVE  AgesDiffer'
<1>1. ASSUME NEW t \in Tags, Insert(t) PROVE AgesDiffer'
  BY <1>1, ReplacementIndexInWays, MoveToMRUAges DEF Insert
<1>2. ASSUME NEW w \in Ways, Access(w) PROVE AgesDiffer'
  BY <1>2, MoveToMRUAges DEF Access
<1>3. CASE UNCHANGED lru_bits
  BY <1>3 DEF AgesDiffer
<1> QED
  BY <1>1, <1>2, <1>3 DEF Next, vars, Request, StartUpgrade, FinishUpgrade, Invalidate

\* In a set of any associativity no two ways ever have the same age.
THEOREM AgesAlwaysDiffer == Spec => []AgesDiffer
<1>1. TypeOK /\ AgesDiffer /\ [Next]_vars => AgesDiffer'
  BY AgesStep
<1> QED
  BY <1>1, AgesInit, TypeCorrect, PTL DEF Spec

-----------------------------------------------------------------------------
(* The victim.  The lines that are being upgraded are those of different   *)
(* pending blocks, of which there is one per waiting core at most.         *)

TagsDiffer == \A v, w \in Ways : v # w /\ tag[v] = tag[w] => tag[v] = NoTag
UpgradingIsPending == \A w \in upgrading : tag[w] \in pending
PendingIsBounded == IsFiniteSet(pending) /\ Cardinality(pending) <= MaxPending

RequestInv == TagsDiffer /\ UpgradingIsPending /\ PendingIsBounded

\* At the start nothing is pending and no line is valid.
LEMMA RequestInit == Init => RequestInv
  BY FS_EmptySet DEF Init, RequestInv, TagsDiffer, UpgradingIsPending, PendingIsBounded

\* One more request, by a core that did not wait.
LEMMA AddPending ==
  ASSUME PendingIsBounded, MayWait, NEW t, pending' = pending \cup {t}
  PROVE  PendingIsBounded'
<1>1. Cardinality(pending) \in Nat /\ Cardinality(pending) + 1 <= MaxPending
  BY FS_CardinalityType DEF PendingIsBounded, MayWait
<1>2. IsFiniteSet(pending') /\ Cardinality(pending') <= Cardinality(pending) + 1
  BY <1>1, FS_AddElement DEF PendingIsBounded
<1>3. Cardinality(pending') \in Nat
  BY <1>2, FS_CardinalityType
<1> QED
  BY <1>1, <1>2, <1>3 DEF PendingIsBounded

\* A reply.
LEMMA RemovePending ==
  ASSUME PendingIsBounded, NEW t, pending' = pending \ {t}
  PROVE  PendingIsBounded'
<1>1. IsFiniteSet(pending') /\ Cardinality(pending') <= Cardinality(pending)
  BY FS_Subset DEF PendingIsBounded
<1>2. Cardinality(pending) \in Nat /\ Cardinality(pending') \in Nat
  BY <1>1, FS_CardinalityType DEF PendingIsBounded
<1> QED
  BY <1>1, <1>2 DEF PendingIsBounded

\* Every step keeps the requests and the lines that are being upgraded in line.
LEMMA RequestStep ==
  ASSUME TypeOK, RequestInv, [Next]_vars
  PROVE  RequestInv'
<1> USE DEF RequestInv
<1>1. ASSUME NEW t \in Tags, Request(t) PROVE RequestInv'
  <2>1. PendingIsBounded'
    BY <1>1, AddPending DEF Request
  <2> QED
    BY <1>1, <2>1 DEF Request, TagsDiffer, UpgradingIsPending
<1>2. ASSUME NEW t \in Tags, Insert(t) PROVE RequestInv'
  <2>1. PendingIsBounded'
    BY <1>2, RemovePending DEF Insert
  <2>2. TagsDiffer'
    BY <1>2, ReplacementIndexInWays DEF Insert, TagsDiffer, Present, TypeOK
  <2>3. UpgradingIsPending'
    BY <1>2, ReplacementIndexInWays DEF Insert, UpgradingIsPending, Present, TypeOK
  <2> QED
    BY <2>1, <2>2, <2>3
<1>3. ASSUME NEW w \in Ways, StartUpgrade(w) PROVE RequestInv'
  <2>1. PendingIsBounded'
    BY <1>3, AddPending DEF StartUpgrade
  <2> QED
    BY <1>3, <2>1 DEF StartUpgrade, TagsDiffer, UpgradingIsPending
<1>4. ASSUME NEW w \in Ways, FinishUpgrade(w) PROVE RequestInv'
  <2>1. PendingIsBounded'
    BY <1>4, RemovePending DEF FinishUpgrade
  <2>2. UpgradingIsPending'
    BY <1>4 DEF FinishUpgrade, UpgradingIsPending, TagsDiffer, TypeOK
  <2> QED
    BY <1>4, <2>1, <2>2 DEF FinishUpgrade, TagsDiffer
<1>5. ASSUME NEW w \in Ways, Invalidate(w) PROVE RequestInv'
  BY <1>5 DEF Invalidate, TagsDiffer, UpgradingIsPending, PendingIsBounded, TypeOK
<1>6. CASE UNCHANGED <<tag, upgrading, pending>>
  BY <1>6 DEF TagsDiffer, UpgradingIsPending, PendingIsBounded
<1> QED
  BY <1>1, <1>2, <1>3, <1>4, <1>5, <1>6 DEF Next, vars, Access

\* A reply that brings a new block finds fewer upgrades than requests.
LEMMA FewUpgrades ==
  ASSUME TypeOK, RequestInv, NEW t \in pending, ~ Present(t)
  PROVE  /\ IsFiniteSet(upgrading)
         /\ Cardinality(upgrading) \in Nat
         /\ Cardinality(upgrading) + 1 <= MaxPending
<1> DEFINE f == [w \in upgrading |-> tag[w]]
<1>1. f \in Injection(upgrading, pending \ {t})
  <2>1. f \in [upgrading -> pending \ {t}]
    BY DEF RequestInv, UpgradingIsPending, Present, TypeOK
  <2>2. \A v, w \in upgrading : f[v] = f[w] => v = w
    BY DEF RequestInv, UpgradingIsPending, TagsDiffer, TypeOK
  <2> QED
    BY <2>1, <2>2, Zenon DEF Injection, IsInjective
<1>2. IsFiniteSet(pending \ {t}) /\ Cardinality(pending \ {t}) = Cardinality(pending) - 1
  BY FS_RemoveElement DEF RequestInv, PendingIsBounded
<1>3. IsFiniteSet(upgrading) /\ Cardinality(upgrading) <= Cardinality(pending) - 1
  BY <1>1, <1>2, FS_Injection
<1>4. Cardinality(upgrading) \in Nat /\ Cardinality(pending) \in Nat
  BY <1>3, FS_CardinalityType DEF RequestInv, PendingIsBounded
<1> QED
  BY <1>3, <1>4 DEF RequestInv, PendingIsBounded

\* When fewer lines than ways but one are being upgraded, the victim is not.
LEMMA VictimFound ==
  ASSUME TypeOK, AgesDiffer, RequestInv, IsFiniteSet(upgrading),
         Cardinality(upgrading) \in Nat, Cardinality(upgrading) + 1 < Associativity
  PROVE  ReplacementIndex \notin upgrading
<1>1. CASE FreeWays # {}
  <2>1. ReplacementIndex \in FreeWays
    BY <1>1, LowestIsMember DEF ReplacementIndex, FreeWays
  <2> QED
    BY <2>1 DEF FreeWays, Valid, RequestInv, UpgradingIsPending, TypeOK
<1>2. CASE FreeWays = {} /\ Candidates # {}
  BY <1>2, LeastRecentIsOldest DEF ReplacementIndex, Candidates, IsValidReplacement
<1>3. CASE Candidates = {}
  <2>1. IsFiniteSet(Ways) /\ Cardinality(Ways) = Associativity
    BY FS_Interval DEF Ways
  <2>2. PICK z \in Ways : z \notin upgrading
    BY <2>1, FS_Subset DEF TypeOK
  <2>3. ASSUME NEW w \in Ways, w # z PROVE w \in upgrading
    <3>1. lru_bits[w] \in Nat /\ lru_bits[z] \in Nat
      BY AgesAreNatural
    <3>2. lru_bits[w] # lru_bits[z]
      BY <2>3 DEF AgesDiffer
    <3>3. ~ (lru_bits[z] > 0)
      BY <1>3, <2>2 DEF Candidates, IsValidReplacement
    <3>4. lru_bits[w] > 0
      BY <3>1, <3>2, <3>3
    <3> QED
      BY <1>3, <3>4 DEF Candidates, IsValidReplacement
  <2>4. IsFiniteSet(Ways \ {z}) /\ Cardinality(Ways \ {z}) = Associativity - 1
    BY <2>1, FS_RemoveElement
  <2>5. Cardinality(Ways \ {z}) <= Cardinality(upgrading)
    BY <2>3, FS_Subset
  <2> QED
    BY <2>4, <2>5
<1> QED
  BY <1>1, <1>2, <1>3

\* With more ways than cores that share the cache, a reply never evicts a line whose
\* upgrade is on its way, for any associativity.  As many ways as cores are not
\* enough: every line may then be one that is being upgraded.
THEOREM VictimAlwaysReplaceable ==
  ASSUME MaxPending < Associativity
  PROVE  Spec => []VictimIsReplaceable
<1>1. TypeOK /\ RequestInv /\ [Next]_vars => RequestInv'
  BY RequestStep
<1>2. ASSUME TypeOK, AgesDiffer, RequestInv PROVE VictimIsReplaceable
  <2> SUFFICES ASSUME NEW t \in pending, ~ Present(t) PROVE ReplacementIndex \notin upgrading
    BY DEF VictimIsReplaceable
  <2>1. /\ IsFiniteSet(upgrading) /\ Cardinality(upgrading) \in Nat
        /\ Cardinality(upgrading) + 1 <= MaxPending
    BY <1>2, FewUpgrades
  <2> QED
    BY <1>2, <2>1, VictimFound
<1>3. TypeOK /\ AgesDiffer /\ RequestInv => VictimIsReplaceable
  BY <1>2
<1> QED
  BY <1>1, <1>3, RequestInit, TypeCorrect, AgesAlwaysDiffer, PTL DEF Spec
-----------------------------------------------------------------------------
(* The order of the ways.  Ages that differ are all of 0 .. Associativity - 1, *)
(* so that the way of each age is determined, and the ages are the places in   *)
(* the list of LeastRecentlyUsed, less one.                                    *)

AgeOrders(bits, order) ==
  /\ DOMAIN order = 1 .. Associativity
  /\ \A i \in 1 .. Associativity : order[i] \in Ways /\ bits[order[i]] = i - 1
  /\ \A w \in Ways : bits[w] + 1 \in 1 .. Associativity /\ order[bits[w] + 1] = w

\* There is a way of every age.
LEMMA EveryAge ==
  ASSUME NEW bits \in [Ways -> Ways], \A v, w \in Ways : v # w => bits[v] # bits[w],
         NEW i \in Ways
  PROVE  \E w \in Ways : bits[w] = i
<1> SUFFICES ASSUME \A w \in Ways : bits[w] # i PROVE FALSE
  OBVIOUS
<1>1. bits \in Injection(Ways, Ways \ {i})
  <2>1. bits \in [Ways -> Ways \ {i}]
    OBVIOUS
  <2>2. \A v, w \in Ways : bits[v] = bits[w] => v = w
    OBVIOUS
  <2> QED
    BY <2>1, <2>2, Zenon DEF Injection, IsInjective
<1>2. IsFiniteSet(Ways) /\ Cardinality(Ways) = Associativity
  BY FS_Interval DEF Ways
<1>3. IsFiniteSet(Ways \ {i}) /\ Cardinality(Ways \ {i}) = Associativity - 1
  BY <1>2, FS_RemoveElement
<1>4. Cardinality(Ways) <= Cardinality(Ways \ {i})
  BY <1>1, <1>3, FS_Injection
<1> QED
  BY <1>2, <1>3, <1>4

\* The list of the ways has each of them once, at the place after its age.
LEMMA ListByAge ==
  ASSUME NEW bits \in [Ways -> Ways], \A v, w \in Ways : v # w => bits[v] # bits[w],
         NEW order,
         order = [i \in 1 .. Associativity |-> CHOOSE w \in Ways : bits[w] = i - 1]
  PROVE  AgeOrders(bits, order)
<1>1. ASSUME NEW i \in 1 .. Associativity
      PROVE  order[i] \in Ways /\ bits[order[i]] = i - 1
  <2>1. i - 1 \in Ways
    BY DEF Ways
  <2>2. \E w \in Ways : bits[w] = i - 1
    BY <2>1, EveryAge
  <2> QED
    BY <2>2
<1>2. ASSUME NEW w \in Ways
      PROVE  bits[w] + 1 \in 1 .. Associativity /\ order[bits[w] + 1] = w
  <2>1. bits[w] + 1 \in 1 .. Associativity /\ bits[w] \in Nat
    BY DEF Ways
  <2>2. order[bits[w] + 1] \in Ways /\ bits[order[bits[w] + 1]] = bits[w]
    BY <1>1, <2>1
  <2> QED
    BY <2>1, <2>2
<1> QED
  BY <1>1, <1>2 DEF AgeOrders

LEMMA RecencyByAge ==
  /\ TypeOK /\ AgesDiffer => AgeOrders(lru_bits, Recency)
  /\ TypeOK' /\ AgesDiffer' => AgeOrders(lru_bits', Recency')
BY ListByAge DEF TypeOK, AgesDiffer, Recency

\* moveToMRU moves the way to the front of the list.
LEMMA MoveToMRUMovesToFront ==
  ASSUME TypeOK, AgesDiffer, TypeOK', AgesDiffer', NEW w \in Ways, lru_bits' = MoveToMRU(w)
  PROVE  Recency' = LRU!ToFront(w)
<1>1. AgeOrders(lru_bits, Recency) /\ AgeOrders(lru_bits', Recency')
  BY RecencyByAge
<1>2. \A v \in Ways : lru_bits[v] \in Nat /\ lru_bits'[v] \in Nat
  <2>1. \A v \in Ways : lru_bits[v] \in Ways /\ lru_bits'[v] \in Ways
    BY DEF TypeOK
  <2> QED
    BY <2>1 DEF Ways
<1>3. \A v \in Ways : lru_bits'[v] = IF v = w THEN 0
                                    ELSE IF lru_bits[v] < lru_bits[w] THEN lru_bits[v] + 1
                                    ELSE lru_bits[v]
  BY DEF MoveToMRU
<1>4. LRU!Rank(w) = lru_bits[w] + 1
  <2>1. \A i \in DOMAIN Recency : Recency[i] = w <=> i = lru_bits[w] + 1
    BY <1>1, <1>2 DEF AgeOrders
  <2>2. lru_bits[w] + 1 \in DOMAIN Recency
    BY <1>1 DEF AgeOrders
  <2> QED
    BY <2>1, <2>2 DEF LRU!Rank
<1>5. ASSUME NEW i \in 1 .. Associativity
      PROVE  Recency'[i] = IF i = 1 THEN w
                           ELSE IF i <= lru_bits[w] + 1 THEN Recency[i - 1]
                           ELSE Recency[i]
  <2> DEFINE v == IF i = 1 THEN w
                  ELSE IF i <= lru_bits[w] + 1 THEN Recency[i - 1]
                  ELSE Recency[i]
  <2>1. v \in Ways /\ lru_bits'[v] = i - 1
    <3>1. CASE i = 1
      BY <3>1, <1>3
    <3>2. CASE i # 1 /\ i <= lru_bits[w] + 1
      <4>1. i - 1 \in 1 .. Associativity
        BY <3>2
      <4>2. Recency[i - 1] \in Ways /\ lru_bits[Recency[i - 1]] = i - 2
        BY <1>1, <4>1 DEF AgeOrders
      <4> QED
        BY <1>2, <1>3, <3>2, <4>2
    <3>3. CASE i # 1 /\ ~ (i <= lru_bits[w] + 1)
      <4>1. Recency[i] \in Ways /\ lru_bits[Recency[i]] = i - 1
        BY <1>1 DEF AgeOrders
      <4> QED
        BY <1>2, <1>3, <3>3, <4>1
    <3> QED
      BY <3>1, <3>2, <3>3
  <2>2. Recency'[lru_bits'[v] + 1] = v
    BY <1>1, <2>1 DEF AgeOrders
  <2>3. lru_bits'[v] + 1 = i
    BY <2>1
  <2> QED
    BY <2>2, <2>3
<1>6. /\ DOMAIN Recency = 1 .. Associativity
      /\ Recency' = [i \in 1 .. Associativity |-> Recency'[i]]
  BY DEF Recency
<1> QED
  BY <1>4, <1>5, <1>6 DEF LRU!ToFront

\* The victim of a full set is the way unused for longest of those that may be evicted.
\* Without a candidate it is way 0: the assertion of insertCacheBlock lets it be evicted
\* only if it is not being upgraded, and then every other way is.
LEMMA VictimIsOldest ==
  ASSUME TypeOK, AgesDiffer, FreeWays = {}, ReplacementIndex \notin upgrading
  PROVE  LRU!Oldest(ReplacementIndex)
<1>1. AgeOrders(lru_bits, Recency)
  BY RecencyByAge
<1>2. ReplacementIndex \in Ways /\ ReplacementIndex = LeastRecent
  BY ReplacementIndexInWays DEF ReplacementIndex
<1>3. \A w \in Ways : lru_bits[w] \in Nat
  BY AgesAreNatural
<1> DEFINE i == lru_bits[ReplacementIndex] + 1
<1>4. i \in DOMAIN Recency /\ Recency[i] = ReplacementIndex
  BY <1>1, <1>2 DEF AgeOrders
<1>5. ASSUME NEW j \in DOMAIN Recency, j > i
      PROVE  Recency[j] \in upgrading
  <2>1. Recency[j] \in Ways /\ lru_bits[Recency[j]] = j - 1 /\ j \in 1 .. Associativity
    BY <1>1 DEF AgeOrders
  <2>2. lru_bits[Recency[j]] > lru_bits[ReplacementIndex]
    BY <1>2, <1>3, <1>5, <2>1
  <2>3. Recency[j] \notin Candidates
    <3>1. CASE Candidates = {}
      BY <3>1
    <3>2. CASE Candidates # {}
      <4>1. \A v \in Candidates : lru_bits[v] <= lru_bits[LeastRecent]
        BY <3>2, LeastRecentIsOldest
      <4> QED
        BY <1>2, <1>3, <2>1, <2>2, <4>1
    <3> QED
      BY <3>1, <3>2
  <2> QED
    BY <1>2, <1>3, <2>1, <2>2, <2>3 DEF Candidates, IsValidReplacement
<1> QED
  BY <1>4, <1>5 DEF LRU!Oldest

\* Each step of the set is one of the list of its ways, or changes neither list nor lines.
LEMMA StepImplementsLRU ==
  ASSUME TypeOK, AgesDiffer, TypeOK', AgesDiffer', [Next]_vars
  PROVE  [LRU!LRUNext]_<<tag, upgrading, Recency>>
<1>0. LRU!Free = FreeWays
  BY DEF LRU!Free, FreeWays, Valid
<1>1. ASSUME NEW t \in Tags, Insert(t) PROVE LRU!LRUNext
  <2>1. ReplacementIndex \in Ways
    BY ReplacementIndexInWays
  <2>2. IF LRU!Free # {} THEN ReplacementIndex \in LRU!Free ELSE LRU!Oldest(ReplacementIndex)
    <3>1. CASE FreeWays # {}
      BY <1>0, <3>1, LowestIsMember DEF ReplacementIndex, FreeWays
    <3>2. CASE FreeWays = {}
      BY <1>0, <1>1, <3>2, VictimIsOldest DEF Insert
    <3> QED
      BY <3>1, <3>2
  <2>3. Recency' = LRU!ToFront(ReplacementIndex)
    BY <1>1, <2>1, MoveToMRUMovesToFront DEF Insert
  <2>4. LRU!Fill(ReplacementIndex, t)
    BY <1>1, <2>2, <2>3 DEF Insert, LRU!Fill
  <2> QED
    BY <2>1, <2>4 DEF LRU!LRUNext
<1>2. ASSUME NEW w \in Ways, Access(w) PROVE LRU!LRUNext
  <2>1. Recency' = LRU!ToFront(w)
    BY <1>2, MoveToMRUMovesToFront DEF Access
  <2>2. LRU!Use(w)
    BY <1>0, <1>2, <2>1 DEF Access, LRU!Use, FreeWays
  <2> QED
    BY <2>2 DEF LRU!LRUNext
<1>3. ASSUME lru_bits' = lru_bits, \A w \in Ways : tag'[w] \in {tag[w], NoTag}
      PROVE  LRU!LRUNext
  <2>1. Recency' = Recency
    BY <1>3 DEF Recency
  <2> QED
    BY <1>3, <2>1 DEF LRU!LRUNext, LRU!Other
<1>4. ASSUME NEW t \in Tags, Request(t) PROVE LRU!LRUNext
  BY <1>3, <1>4 DEF Request
<1>5. ASSUME NEW w \in Ways, StartUpgrade(w) PROVE LRU!LRUNext
  BY <1>3, <1>5 DEF StartUpgrade
<1>6. ASSUME NEW w \in Ways, FinishUpgrade(w) PROVE LRU!LRUNext
  BY <1>3, <1>6 DEF FinishUpgrade
<1>7. ASSUME NEW w \in Ways, Invalidate(w) PROVE LRU!LRUNext
  BY <1>3, <1>7 DEF Invalidate, TypeOK
<1>8. CASE UNCHANGED vars
  BY <1>8 DEF vars, Recency
<1> QED
  BY <1>1, <1>2, <1>4, <1>5, <1>6, <1>7, <1>8 DEF Next

\* The constructor orders the ways by their numbers.
LEMMA InitImplementsLRU == Init => LRU!LRUInit
<1> SUFFICES ASSUME Init PROVE LRU!LRUInit
  OBVIOUS
<1>1. AgeOrders(lru_bits, Recency)
  BY TypeInit, AgesInit, RecencyByAge
<1>2. Recency \in [1 .. Associativity -> Ways] /\ Recency \in Seq(Ways)
  BY <1>1 DEF AgeOrders, Recency
<1>3. Len(Recency) = Associativity
  BY <1>1, <1>2 DEF AgeOrders
<1>4. \A w \in Ways : \E i \in DOMAIN Recency : Recency[i] = w
  BY <1>1 DEF AgeOrders
<1> QED
  BY <1>2, <1>3, <1>4 DEF Init, LRU!LRUInit

\* For any associativity and any number of waiting cores the age bits of a set, their
\* increments and the search for the oldest bits implement a list of the ways in the
\* order of their last use, from which a new line takes the last way that may be evicted.
THEOREM AgesImplementLRU == Spec => ImplementsLRU
<1>1. /\ TypeOK /\ AgesDiffer /\ (TypeOK /\ AgesDiffer)' /\ [Next]_vars
        => [LRU!LRUNext]_<<tag, upgrading, Recency>>
  BY StepImplementsLRU
<1> QED
  BY <1>1, InitImplementsLRU, TypeCorrect, AgesAlwaysDiffer, PTL
     DEF Spec, ImplementsLRU, LRU!LRUSpec
=============================================================================
