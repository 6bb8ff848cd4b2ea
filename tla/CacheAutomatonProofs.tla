------------------------ MODULE CacheAutomatonProofs ------------------------
(***************************************************************************)
(* Proofs about CacheAutomaton for any automaton, line size and input: the *)
(* mask of the controller is the set of states that the runs of the        *)
(* automaton reach, and the controller counts a match when one of them     *)
(* reports.                                                                *)
(***************************************************************************)
EXTENDS CacheAutomaton, FiniteSetTheorems, SequenceTheorems, TLAPS

USE SizeAssumption, JunkAssumption DEF SizeAssumption, JunkAssumption

-----------------------------------------------------------------------------
(* Vectors.                                                                *)

\* memcpy of a short buffer leaves a vector a vector.
LEMMA OverwrittenTyped ==
  ASSUME NEW vector \in StoredVectors, NEW offset, NEW byte \in Bytes, NEW len
  PROVE  Overwritten(vector, offset, byte, len) \in StoredVectors
BY DEF StoredVectors, StoredBytes, Overwritten

\* retrieveNextStateInfo fills every byte of its output.
LEMMA NextStateTyped ==
  ASSUME Programmed, NEW active \in SUBSET STEs
  PROVE  RetrieveNextStateInfo(active) \in Vectors
<1> SUFFICES ASSUME NEW k \in Positions
             PROVE  UNION {m_swizzleSwitch[s][k] : s \in active} \in Bytes
  BY DEF RetrieveNextStateInfo, Vectors
<1>1. \A s \in active : m_swizzleSwitch[s][k] \subseteq Bits
  BY DEF Programmed, Vectors, Bytes
<1> QED
  BY <1>1 DEF Bytes

\* The bytewise union of rows of the swizzle switch holds what some active
\* element activates, and nothing else.
LEMMA NextStateElements ==
  ASSUME NEW active \in SUBSET STEs
  PROVE  Elements(RetrieveNextStateInfo(active))
           = {t \in STEs : \E s \in active : t \in Elements(m_swizzleSwitch[s])}
<1> SUFFICES ASSUME NEW t \in STEs
             PROVE  t[2] \in RetrieveNextStateInfo(active)[t[1]]
                      <=> \E s \in active : t[2] \in m_swizzleSwitch[s][t[1]]
  BY DEF Elements
<1>1. t[1] \in Positions
  BY DEF STEs
<1> QED
  BY <1>1 DEF RetrieveNextStateInfo

\* A byte of a mask reports when one of its elements is a reporting one.
LEMMA ReportingElements ==
  ASSUME NEW mask \in Vectors, m_reportingSteInfo \in Vectors
  PROVE  ReportingBytes(mask) # {}
           <=> Elements(mask) \cap Elements(m_reportingSteInfo) # {}
<1>1. ASSUME NEW k \in ReportingBytes(mask)
      PROVE  Elements(mask) \cap Elements(m_reportingSteInfo) # {}
  <2>1. PICK b : b \in mask[k] /\ b \in m_reportingSteInfo[k]
    BY <1>1 DEF ReportingBytes
  <2>2. k \in Positions /\ b \in Bits
    BY <1>1, <2>1 DEF ReportingBytes, Vectors, Bytes
  <2>3. <<k, b>> \in STEs
    BY <2>2 DEF STEs
  <2> QED
    BY <2>1, <2>3 DEF Elements
<1>2. ASSUME NEW s \in Elements(mask) \cap Elements(m_reportingSteInfo)
      PROVE  s[1] \in ReportingBytes(mask)
  BY <1>2 DEF Elements, STEs, ReportingBytes
<1> QED
  BY <1>1, <1>2

\* The loop over the bytes counts at least the one that reports.
LEMMA ReportsArePositive ==
  ASSUME NEW mask
  PROVE  Reports(mask) \in Nat /\ Reports(mask) >= 1
<1> DEFINE reporting == ReportingBytes(mask)
           first == CHOOSE k \in reporting : \A i \in reporting : k <= i
           later == {k \in ReportingBytes(m_startSTEMask) : k > first}
<1>1. later \subseteq 0..SwizzleSwitchY - 1
  BY DEF ReportingBytes, Positions
<1>2. IsFiniteSet(0..SwizzleSwitchY - 1)
  BY FS_Interval
<1>3. Cardinality(later) \in Nat
  BY <1>1, <1>2, FS_Subset, FS_CardinalityType
<1>4. Reports(mask) = 1 + Cardinality(later)
  BY DEF Reports
<1> HIDE DEF later
<1> QED
  BY <1>3, <1>4

-----------------------------------------------------------------------------
(* Runs of the automaton.                                                  *)

\* Without a character the runs are in the start elements.
LEMMA ReachedByNothing ==
  ReachedBy(<<>>) = Elements(m_startSTEMask)
<1>0. Len(<<>>) = 0
  OBVIOUS
<1>1. ASSUME NEW s \in ReachedBy(<<>>)
      PROVE  s \in Elements(m_startSTEMask)
  BY <1>0, <1>1 DEF ReachedBy, IsRun
<1>2. ASSUME NEW s \in Elements(m_startSTEMask)
      PROVE  s \in ReachedBy(<<>>)
  <2> DEFINE run == [i \in 0..0 |-> s]
  <2>1. s \in STEs
    BY <1>2 DEF Elements
  <2>2. run \in [0..0 -> STEs] /\ run[0] = s
    BY <2>1
  <2>3. IsRun(run, <<>>)
    BY <1>0, <1>2, <2>2 DEF IsRun
  <2> QED
    BY <1>0, <2>1, <2>2, <2>3 DEF ReachedBy
<1> QED
  BY <1>1, <1>2

\* One more character extends the runs whose last element accepts it.
LEMMA ReachedByOneMore ==
  ASSUME NEW word \in Seq(Vectors), NEW row \in Vectors
  PROVE  ReachedBy(Append(word, row))
           = {t \in STEs : \E s \in ReachedBy(word) \cap Elements(row) :
                              t \in Elements(m_swizzleSwitch[s])}
<1> DEFINE n == Len(word)
           longer == Append(word, row)
<1>1. /\ n \in Nat
      /\ Len(longer) = n + 1
      /\ longer[n + 1] = row
      /\ \A i \in 1..n : longer[i] = word[i]
  BY AppendProperties
<1> HIDE DEF n, longer
<1>2. ASSUME NEW t \in ReachedBy(longer)
      PROVE  \E s \in ReachedBy(word) \cap Elements(row) :
                t \in Elements(m_swizzleSwitch[s])
  <2>1. PICK run \in [0..n + 1 -> STEs] : IsRun(run, longer) /\ run[n + 1] = t
    BY <1>1, <1>2 DEF ReachedBy
  <2> DEFINE shorter == [i \in 0..n |-> run[i]]
  <2>2. /\ run[0] \in Elements(m_startSTEMask)
        /\ \A i \in 1..n + 1 : /\ run[i - 1] \in Elements(longer[i])
                               /\ run[i] \in Elements(m_swizzleSwitch[run[i - 1]])
    BY <1>1, <2>1 DEF IsRun
  <2>3. shorter \in [0..n -> STEs] /\ \A i \in 0..n : shorter[i] = run[i]
    BY <1>1, <2>1
  <2> HIDE DEF shorter
  <2>4. \A i \in 1..n : /\ shorter[i - 1] \in Elements(word[i])
                        /\ shorter[i] \in Elements(m_swizzleSwitch[shorter[i - 1]])
    <3> SUFFICES ASSUME NEW i \in 1..n
                 PROVE  /\ shorter[i - 1] \in Elements(word[i])
                        /\ shorter[i] \in Elements(m_swizzleSwitch[shorter[i - 1]])
      OBVIOUS
    <3>1. i \in 1..n + 1 /\ i \in 0..n /\ i - 1 \in 0..n
      BY <1>1
    <3> QED
      BY <1>1, <2>2, <2>3, <3>1
  <2>5. IsRun(shorter, word)
    BY <1>1, <2>2, <2>3, <2>4 DEF IsRun, n
  <2>6. run[n] \in ReachedBy(word)
    <3>1. n \in 0..n /\ n \in 0..n + 1
      BY <1>1
    <3>2. shorter[n] = run[n] /\ run[n] \in STEs
      BY <2>1, <2>3, <3>1
    <3> QED
      BY <2>3, <2>5, <3>2 DEF ReachedBy, n
  <2>7. /\ run[n] \in Elements(row)
        /\ t \in Elements(m_swizzleSwitch[run[n]])
    <3>1. n + 1 \in 1..n + 1 /\ (n + 1) - 1 = n
      BY <1>1
    <3>2. /\ run[(n + 1) - 1] \in Elements(longer[n + 1])
          /\ run[n + 1] \in Elements(m_swizzleSwitch[run[(n + 1) - 1]])
      BY <2>2, <3>1
    <3> QED
      BY <1>1, <2>1, <3>1, <3>2
  <2> QED
    BY <2>6, <2>7
<1>3. ASSUME NEW s \in ReachedBy(word) \cap Elements(row),
             NEW t \in Elements(m_swizzleSwitch[s])
      PROVE  t \in ReachedBy(longer)
  <2>1. PICK run \in [0..n -> STEs] : IsRun(run, word) /\ run[n] = s
    BY <1>3 DEF ReachedBy, n
  <2> DEFINE extended == [i \in 0..n + 1 |-> IF i = n + 1 THEN t ELSE run[i]]
  <2>2. t \in STEs
    BY <1>3 DEF Elements
  <2>3. /\ extended \in [0..n + 1 -> STEs]
        /\ extended[n + 1] = t
        /\ \A i \in 0..n : extended[i] = run[i]
    BY <1>1, <2>1, <2>2
  <2> HIDE DEF extended
  <2>4. /\ run[0] \in Elements(m_startSTEMask)
        /\ \A i \in 1..n : /\ run[i - 1] \in Elements(word[i])
                           /\ run[i] \in Elements(m_swizzleSwitch[run[i - 1]])
    BY <2>1 DEF IsRun, n
  <2>5. \A i \in 1..n + 1 :
           /\ extended[i - 1] \in Elements(longer[i])
           /\ extended[i] \in Elements(m_swizzleSwitch[extended[i - 1]])
    <3> SUFFICES ASSUME NEW i \in 1..n + 1
                 PROVE  /\ extended[i - 1] \in Elements(longer[i])
                        /\ extended[i] \in Elements(m_swizzleSwitch[extended[i - 1]])
      OBVIOUS
    <3>1. CASE i = n + 1
      <4>1. i - 1 = n /\ n \in 0..n
        BY <1>1, <3>1
      <4> QED
        BY <1>1, <1>3, <2>1, <2>3, <3>1, <4>1
    <3>2. CASE i # n + 1
      <4>1. i \in 1..n /\ i \in 0..n /\ i - 1 \in 0..n
        BY <1>1, <3>2
      <4> QED
        BY <1>1, <2>3, <2>4, <4>1
    <3> QED
      BY <3>1, <3>2
  <2>6. extended[0] \in Elements(m_startSTEMask)
    BY <1>1, <2>3, <2>4
  <2>7. IsRun(extended, longer)
    BY <1>1, <2>3, <2>5, <2>6 DEF IsRun
  <2> QED
    BY <1>1, <2>2, <2>3, <2>7 DEF ReachedBy
<1>4. ReachedBy(longer) \subseteq STEs
  BY DEF ReachedBy
<1>5. \A s : Elements(m_swizzleSwitch[s]) \subseteq STEs
  BY DEF Elements
<1> QED
  BY <1>2, <1>3, <1>4, <1>5 DEF longer

-----------------------------------------------------------------------------
(* The controller.                                                         *)

\* Until the first character the mask of the automaton is the start mask.
FreshMask == ~first_print => since = <<>> /\ m_currStateMask = m_startSTEMask

IInv == CapTypeOK /\ MaskIsReachable /\ FreshMask

\* What the next mask holds: the ends of the runs over one more character.
LEMMA NextMaskIsReachable ==
  ASSUME CapTypeOK, MaskIsReachable, NEW row \in Vectors
  PROVE  Elements(RetrieveNextStateInfo(ActiveStates(row)))
           = ReachedBy(Append(since, row))
<1>1. ActiveStates(row) = ReachedBy(since) \cap Elements(row)
  BY DEF ActiveStates, MaskIsReachable
<1>2. ActiveStates(row) \in SUBSET STEs
  BY DEF ActiveStates, Elements
<1>3. since \in Seq(Vectors)
  BY DEF CapTypeOK
<1> QED
  BY <1>1, <1>2, <1>3, NextStateElements, ReachedByOneMore, Zenon

\* The same in the next state: what a restart leaves is reached by nothing.
LEMMA RestartedMask == (ReachedBy(<<>>) = Elements(m_startSTEMask))'
BY ReachedByNothing, PTL

LEMMA InitInv == CapInit => IInv
<1> SUFFICES ASSUME CapInit PROVE IInv
  OBVIOUS
<1>1. Unwritten \in StoredVectors
  BY DEF Unwritten, StoredVectors, StoredBytes
<1>2. CapTypeOK
  <2>1. since \in Seq(Vectors)
    BY EmptySeq DEF CapInit
  <2>2. m_swizzleSwitch \in [STEs -> StoredVectors]
    BY <1>1 DEF CapInit
  <2> QED
    BY <1>1, <2>1, <2>2 DEF CapInit, CapTypeOK
<1>3. FreshMask
  BY DEF CapInit, FreshMask
<1>4. MaskIsReachable
  BY ReachedByNothing DEF CapInit, MaskIsReachable
<1> QED
  BY <1>2, <1>3, <1>4 DEF IInv

\* A byte of the automaton is written before the first character.
LEMMA ProgrammingStep ==
  ASSUME IInv, ~first_print,
         NEW offset \in Positions, NEW byte \in Bytes, NEW len \in 1..SwizzleSwitchY,
         \/ \E s \in STEs : UpdateSwizzleSwitch(s, offset, byte, len)
         \/ UpdateReportingSteInfo(offset, byte, len)
         \/ UpdateStartStateMask(offset, byte, len)
  PROVE  IInv'
<1> USE DEF IInv
<1>1. since = <<>> /\ m_currStateMask = m_startSTEMask
  BY DEF FreshMask
<1>2. CapTypeOK'
  <2>1. CASE \E s \in STEs : UpdateSwizzleSwitch(s, offset, byte, len)
    <3>1. PICK s \in STEs : UpdateSwizzleSwitch(s, offset, byte, len)
      BY <2>1
    <3>2. m_swizzleSwitch[s] \in StoredVectors
      BY DEF CapTypeOK
    <3>3. Overwritten(m_swizzleSwitch[s], offset, byte, len) \in StoredVectors
      BY <3>2, OverwrittenTyped
    <3> QED
      BY <3>1, <3>3 DEF CapTypeOK, UpdateSwizzleSwitch
  <2>2. CASE UpdateReportingSteInfo(offset, byte, len)
    BY <2>2, OverwrittenTyped DEF CapTypeOK, UpdateReportingSteInfo
  <2>3. CASE UpdateStartStateMask(offset, byte, len)
    BY <2>3, OverwrittenTyped DEF CapTypeOK, UpdateStartStateMask
  <2> QED
    BY <2>1, <2>2, <2>3
<1>3. since' = <<>> /\ m_currStateMask' = m_startSTEMask'
  BY <1>1 DEF UpdateSwizzleSwitch, UpdateReportingSteInfo, UpdateStartStateMask
<1>4. MaskIsReachable'
  BY <1>3, RestartedMask DEF MaskIsReachable
<1>5. FreshMask'
  BY <1>3 DEF FreshMask
<1> QED
  BY <1>2, <1>4, <1>5

\* A character is matched by a complete automaton.
LEMMA MatchingStep ==
  ASSUME IInv, Programmed, NEW row \in Vectors, ProcessPatternMatch(row)
  PROVE  IInv'
<1> USE DEF IInv
<1> DEFINE next == RetrieveNextStateInfo(ActiveStates(row))
<1>0. next \in Vectors
  <2>1. ActiveStates(row) \in SUBSET STEs
    BY DEF ActiveStates, Elements
  <2> QED
    BY <2>1, NextStateTyped
<1>1. Elements(next) = ReachedBy(Append(since, row))
  BY NextMaskIsReachable
<1>2. Vectors \subseteq StoredVectors
  BY DEF Vectors, StoredVectors, StoredBytes
<1>3. Reports(next) \in Nat
  BY ReportsArePositive
<1>4. /\ since \in Seq(Vectors)
      /\ m_numFSMmatches \in Nat
      /\ m_startSTEMask \in StoredVectors
  BY DEF CapTypeOK
<1>5. /\ UNCHANGED <<m_swizzleSwitch, m_reportingSteInfo, m_startSTEMask>>
      /\ first_print' = TRUE
  BY DEF ProcessPatternMatch
<1> HIDE DEF next
<1>6. CASE Restart
  <2>1. since' = <<>> /\ m_currStateMask' = m_startSTEMask'
    BY <1>5, <1>6 DEF Restart
  <2>2. m_numFSMmatches' \in Nat
    <3>1. \/ m_numFSMmatches' = m_numFSMmatches
          \/ m_numFSMmatches' = m_numFSMmatches + Reports(next)
      BY DEF ProcessPatternMatch, next
    <3> QED
      BY <1>3, <1>4, <3>1
  <2>3. CapTypeOK'
    BY <1>4, <1>5, <2>1, <2>2 DEF CapTypeOK
  <2>4. MaskIsReachable'
    BY <2>1, RestartedMask DEF MaskIsReachable
  <2> QED
    BY <1>5, <2>3, <2>4 DEF FreshMask
<1>7. CASE ~Restart
  <2>1. /\ m_currStateMask' = next
        /\ since' = Append(since, row)
        /\ m_numFSMmatches' = m_numFSMmatches
    BY <1>7 DEF ProcessPatternMatch, next
  <2>2. CapTypeOK'
    <3>1. since' \in Seq(Vectors)
      BY <1>4, <2>1, AppendProperties
    <3> QED
      BY <1>0, <1>2, <1>5, <2>1, <3>1 DEF CapTypeOK
  <2>3. MaskIsReachable'
    <3>1. Elements(m_currStateMask') = ReachedBy(since')
      BY <1>1, <2>1
    <3>2. \A word : ReachedBy(word)' = ReachedBy(word')
      BY <1>5 DEF ReachedBy, IsRun, Elements
    <3> QED
      BY <1>5, <2>1, <3>1 DEF MaskIsReachable, ReachedBy, IsRun, Elements
  <2> QED
    BY <1>5, <2>2, <2>3 DEF FreshMask
<1> QED
  BY <1>6, <1>7

LEMMA NextInv == IInv /\ [CapNext]_capVars => IInv'
<1> SUFFICES ASSUME IInv, [CapNext]_capVars PROVE IInv'
  OBVIOUS
<1>1. CASE UNCHANGED capVars
  BY <1>1 DEF capVars, IInv, CapTypeOK, MaskIsReachable, FreshMask, ReachedBy,
              IsRun, Elements
<1>2. ASSUME ~first_print,
             NEW offset \in Positions, NEW byte \in Bytes,
             NEW len \in 1..SwizzleSwitchY,
             \/ \E s \in STEs : UpdateSwizzleSwitch(s, offset, byte, len)
             \/ UpdateReportingSteInfo(offset, byte, len)
             \/ UpdateStartStateMask(offset, byte, len)
      PROVE  IInv'
  BY <1>2, ProgrammingStep
<1>3. ASSUME Programmed, NEW row \in Vectors, ProcessPatternMatch(row)
      PROVE  IInv'
  BY <1>3, MatchingStep
<1> QED
  BY <1>1, <1>2, <1>3 DEF CapNext

LEMMA Invariant == CapSpec => []IInv
BY InitInv, NextInv, PTL DEF CapSpec

(* The controller's buffers hold vectors and its counter counts, for any
   number of elements, however the automaton is programmed.                 *)
THEOREM TypeCorrect == CapSpec => []CapTypeOK
<1>1. IInv => CapTypeOK
  BY DEF IInv
<1> QED
  BY <1>1, Invariant, PTL

(* retrieveNextStateInfo and the restarts of processPatternMatch neither lose
   nor invent a state of the automaton, whatever the automaton and the input. *)
THEOREM MaskCorrect == CapSpec => []MaskIsReachable
<1>1. IInv => MaskIsReachable
  BY DEF IInv
<1> QED
  BY <1>1, Invariant, PTL

\* The three outcomes of a character.
LEMMA MatchIsReal ==
  ASSUME IInv, Programmed, NEW row \in Vectors, ProcessPatternMatch(row)
  PROVE  m_numFSMmatches' > m_numFSMmatches
           <=> ReachedBy(Append(since, row)) \cap Elements(m_reportingSteInfo) # {}
<1> DEFINE next == RetrieveNextStateInfo(ActiveStates(row))
<1>1. ActiveStates(row) \in SUBSET STEs
  BY DEF ActiveStates, Elements
<1>2. Elements(next) = ReachedBy(Append(since, row))
  BY NextMaskIsReachable DEF IInv
<1>3. ReportingBytes(next) # {}
        <=> Elements(next) \cap Elements(m_reportingSteInfo) # {}
  <2>1. next \in Vectors
    BY <1>1, NextStateTyped
  <2> QED
    BY <2>1, ReportingElements DEF Programmed
<1>4. Reports(next) \in Nat /\ Reports(next) >= 1
  BY ReportsArePositive
<1>5. m_numFSMmatches \in Nat
  BY DEF IInv, CapTypeOK
<1>6. CASE ActiveStates(row) = {}
  <2>1. Elements(next) = {}
    BY <1>1, <1>6, NextStateElements
  <2>2. m_numFSMmatches' = m_numFSMmatches
    BY <1>6 DEF ProcessPatternMatch
  <2> QED
    BY <1>2, <1>5, <2>1, <2>2
<1>7. CASE ActiveStates(row) # {} /\ ReportingBytes(next) # {}
  <2>1. m_numFSMmatches' = m_numFSMmatches + Reports(next)
    BY <1>7 DEF ProcessPatternMatch
  <2>2. m_numFSMmatches' > m_numFSMmatches
    BY <1>4, <1>5, <2>1
  <2> QED
    BY <1>2, <1>3, <1>7, <2>2
<1>8. CASE ActiveStates(row) # {} /\ ReportingBytes(next) = {}
  <2>1. m_numFSMmatches' = m_numFSMmatches
    BY <1>8 DEF ProcessPatternMatch
  <2> QED
    BY <1>2, <1>3, <1>5, <1>8, <2>1
<1> QED
  BY <1>6, <1>7, <1>8

(* processPatternMatch counts a match exactly when the character completes a
   run of the automaton that ends in a reporting element.                   *)
THEOREM MatchesCorrect == CapSpec => MatchesAreReal
<1> DEFINE Real ==
      \A row \in Vectors :
        ProcessPatternMatch(row) =>
          (  m_numFSMmatches' > m_numFSMmatches
           <=> ReachedBy(Append(since, row)) \cap Elements(m_reportingSteInfo) # {})
<1>1. IInv /\ [CapNext]_capVars => [Real]_capVars
  <2> SUFFICES ASSUME IInv, CapNext, NEW row \in Vectors, ProcessPatternMatch(row)
               PROVE  m_numFSMmatches' > m_numFSMmatches
                        <=> ReachedBy(Append(since, row))
                              \cap Elements(m_reportingSteInfo) # {}
    BY DEF capVars
  <2>1. Programmed
    BY DEF CapNext, ProcessPatternMatch, UpdateSwizzleSwitch,
           UpdateReportingSteInfo, UpdateStartStateMask
  <2> QED
    BY <2>1, MatchIsReal
<1> HIDE DEF Real
<1>2. CapSpec => [][Real]_capVars
  BY <1>1, Invariant, PTL DEF CapSpec
<1> QED
  BY <1>2 DEF MatchesAreReal, Real

=============================================================================
