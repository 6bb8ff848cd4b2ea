--------------------------- MODULE CacheAutomaton ---------------------------
(***************************************************************************)
(* The cache automaton (CAP) of a cache controller: a nondeterministic     *)
(* automaton whose state-transition elements (STEs) are the bit positions  *)
(* of a cache line.  The row of an input character says which elements     *)
(* accept it; the swizzle switch says which elements each one activates.   *)
(*                                                                         *)
(* A byte is the set of its bits that are 1, a vector of elements a        *)
(* function from byte positions to bytes.                                  *)
(***************************************************************************)
EXTENDS Integers, Sequences, FiniteSets

CONSTANTS
  SwizzleSwitchY,   (* bytes of a line and of a row of the swizzle switch *)
  Bits,             (* the bits of a byte                                 *)
  Junk              (* marks a byte that was never written, or was copied
                       from a buffer that was never filled                *)

ASSUME SizeAssumption == SwizzleSwitchY \in Nat \ {0}
ASSUME JunkAssumption == Junk \notin Bits

VARIABLES
  m_swizzleSwitch,     (* a vector per element: what it activates         *)
  m_reportingSteInfo,
  m_startSTEMask,
  m_currStateMask,
  m_numFSMmatches,
  first_print,         (* a character was matched                         *)
  since                (* history: the rows read since the last (re)start *)

capVars == <<m_swizzleSwitch, m_reportingSteInfo, m_startSTEMask,
             m_currStateMask, m_numFSMmatches, first_print, since>>

Positions == 0..SwizzleSwitchY - 1
STEs == Positions \X Bits

Garbage == {Junk}
Bytes == SUBSET Bits
StoredBytes == Bytes \cup {Garbage}
Vectors == [Positions -> Bytes]
StoredVectors == [Positions -> StoredBytes]

Unwritten == [i \in Positions |-> Garbage]

(* The elements whose bit is set in a vector. *)
Elements(vector) == {s \in STEs : s[2] \in vector[s[1]]}

(* The vectors that a read of stored bytes may yield: garbage is anything. *)
Resolved(stored) ==
  {v \in Vectors : \A i \in Positions : stored[i] \in Bytes => v[i] = stored[i]}

-----------------------------------------------------------------------------
CapInit ==
  /\ m_swizzleSwitch = [s \in STEs |-> Unwritten]
  /\ m_reportingSteInfo = Unwritten
  /\ m_startSTEMask = Unwritten
  /\ m_currStateMask = Unwritten
  /\ m_numFSMmatches = 0
  /\ first_print = FALSE
  /\ since = <<>>

(* memcpy of len bytes of a buffer whose first byte is the only one filled. *)
Overwritten(vector, offset, byte, len) ==
  [i \in Positions |-> IF i = offset THEN byte
                       ELSE IF i \in offset + 1 .. offset + len - 1 THEN Garbage
                       ELSE vector[i]]

UpdateSwizzleSwitch(ste, offset, byte, len) ==
  /\ m_swizzleSwitch' =
       [m_swizzleSwitch EXCEPT ![ste] = Overwritten(@, offset, byte, len)]
  /\ UNCHANGED <<m_reportingSteInfo, m_startSTEMask, m_currStateMask,
                 m_numFSMmatches, first_print, since>>

UpdateReportingSteInfo(offset, byte, len) ==
  /\ m_reportingSteInfo' = Overwritten(m_reportingSteInfo, offset, byte, len)
  /\ UNCHANGED <<m_swizzleSwitch, m_startSTEMask, m_currStateMask,
                 m_numFSMmatches, first_print, since>>

(* The first mask of the automaton is the start mask. *)
UpdateStartStateMask(offset, byte, len) ==
  /\ m_startSTEMask' = Overwritten(m_startSTEMask, offset, byte, len)
  /\ m_currStateMask' = Overwritten(m_currStateMask, offset, byte, len)
  /\ UNCHANGED <<m_swizzleSwitch, m_reportingSteInfo, m_numFSMmatches,
                 first_print, since>>

-----------------------------------------------------------------------------
(* The elements that are enabled and accept the character of the row. *)
ActiveStates(row) == Elements(row) \cap Elements(m_currStateMask)

(* mutant: the states of the character before are not cleared. *)
AddNextStateInfo(active) ==
  [k \in Positions |-> UNION {m_swizzleSwitch[s][k] : s \in active}
                       \cup m_currStateMask[k]]

(* The union of the rows of the swizzle switch of all active elements. *)
RetrieveNextStateInfo(active) ==
  [k \in Positions |-> UNION {m_swizzleSwitch[s][k] : s \in active}]

(* mutant: the last byte is not compared. *)
AllButLastReportingBytes(mask) ==
  {k \in 0..SwizzleSwitchY - 2 : mask[k] \cap m_reportingSteInfo[k] # {}}

(* The bytes of a mask that enable a reporting element. *)
ReportingBytes(mask) ==
  {k \in Positions : mask[k] \cap m_reportingSteInfo[k] # {}}

(* The loop over the bytes counts the first one that reports and restarts
   the automaton at once, so that it compares the later ones with the start
   mask.                                                                    *)
Reports(mask) ==
  LET reporting == ReportingBytes(mask)
      first == CHOOSE k \in reporting : \A i \in reporting : k <= i
  IN  1 + Cardinality({k \in ReportingBytes(m_startSTEMask) : k > first})

Restart == /\ m_currStateMask' = m_startSTEMask
           /\ since' = <<>>

(* One character, whose row has been read from the cache. *)
ProcessPatternMatch(row) ==
  LET next == RetrieveNextStateInfo(ActiveStates(row))
  IN  /\ first_print' = TRUE
      /\ \/ /\ ActiveStates(row) = {}
            /\ Restart
            /\ UNCHANGED m_numFSMmatches
         \/ /\ ActiveStates(row) # {}
            /\ ReportingBytes(next) # {}
            /\ Restart
            /\ m_numFSMmatches' = m_numFSMmatches + Reports(next)
         \/ /\ ActiveStates(row) # {}
            /\ ReportingBytes(next) = {}
            /\ m_currStateMask' = next
            /\ since' = Append(since, row)
            /\ UNCHANGED m_numFSMmatches
      /\ UNCHANGED <<m_swizzleSwitch, m_reportingSteInfo, m_startSTEMask>>

(* The automaton is complete. *)
Programmed ==
  /\ \A s \in STEs : m_swizzleSwitch[s] \in Vectors
  /\ m_reportingSteInfo \in Vectors
  /\ m_startSTEMask \in Vectors

(* What the controller relies on: it is programmed, byte by byte and in any
   order, before the first character.                                       *)
CapNext ==
  \/ /\ ~first_print
     /\ \E offset \in Positions, byte \in Bytes, len \in 1..SwizzleSwitchY :
          \/ \E s \in STEs : UpdateSwizzleSwitch(s, offset, byte, len)
          \/ UpdateReportingSteInfo(offset, byte, len)
          \/ UpdateStartStateMask(offset, byte, len)
  \/ /\ Programmed
     /\ \E row \in Vectors : ProcessPatternMatch(row)

CapSpec == CapInit /\ [][CapNext]_capVars

-----------------------------------------------------------------------------
CapTypeOK ==
  /\ m_swizzleSwitch \in [STEs -> StoredVectors]
  /\ m_reportingSteInfo \in StoredVectors
  /\ m_startSTEMask \in StoredVectors
  /\ m_currStateMask \in StoredVectors
  /\ m_numFSMmatches \in Nat
  /\ first_print \in BOOLEAN
  /\ since \in Seq(Vectors)

(* A run of the automaton over the rows of a word: it begins in a start
   element, and each element accepts its character and activates the next.  *)
IsRun(run, word) ==
  /\ run \in [0..Len(word) -> STEs]
  /\ run[0] \in Elements(m_startSTEMask)
  /\ \A i \in 1..Len(word) :
       /\ run[i - 1] \in Elements(word[i])
       /\ run[i] \in Elements(m_swizzleSwitch[run[i - 1]])

ReachedBy(word) ==
  {s \in STEs : \E run \in [0..Len(word) -> STEs] :
                   IsRun(run, word) /\ run[Len(word)] = s}

(* The mask is exactly the set of elements that some run over the characters
   since the last restart ends in: the bytewise union of the rows of the
   swizzle switch neither loses nor invents a state.                        *)
MaskIsReachable ==
  Elements(m_currStateMask) = ReachedBy(since)

(* A match is counted when, and only when, the character that was read
   completes a run that ends in a reporting element.                        *)
MatchesAreReal ==
  [][\A row \in Vectors :
       ProcessPatternMatch(row) =>
         (  m_numFSMmatches' > m_numFSMmatches
          <=> ReachedBy(Append(since, row)) \cap Elements(m_reportingSteInfo)
                # {})]_capVars

=============================================================================
