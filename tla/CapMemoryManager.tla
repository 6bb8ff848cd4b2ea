-------------------------- MODULE CapMemoryManager --------------------------
(***************************************************************************)
(* How the memory manager programs the cache automaton and feeds it.  Each *)
(* magic marker of the application (test/match/match_fsm.c) makes one      *)
(* store instruction per byte of a file and notes in capInsInfoMap, under  *)
(* the address of the store, what the store stands for.  The performance   *)
(* model executes the stores in order; a store that crosses the end of a   *)
(* line is two accesses.                                                   *)
(*                                                                         *)
(* An address is a pair of the tag bits that the memory manager sets and   *)
(* of a byte position.                                                     *)
(***************************************************************************)
EXTENDS CacheAutomaton

CONSTANTS
  NumLines,      (* lines of the sub-array, one per character             *)
  StoreSize,     (* bytes of a store that programs the cache or the masks *)
  ZeroCode,      (* the byte that stands for 0 in a file                  *)
  Programs,      (* automata: rows, swizzle, start, report                *)
  Inputs         (* input streams: sequences of characters                *)

ASSUME LineAssumption == NumLines \in Nat \ {0}
ASSUME BitsAssumption ==
  Cardinality(Bits) \in Nat \ {0} /\ Bits = 0..Cardinality(Bits) - 1
ASSUME StoreAssumption == StoreSize \in 1..SwizzleSwitchY
ASSUME InputAssumption == Inputs \subseteq Seq(0..NumLines - 1)
ASSUME ProgramAssumption ==
  Programs \subseteq [rows : [0..NumLines - 1 -> Vectors],
                      swizzle : [STEs -> Vectors],
                      start : Vectors, report : Vectors]

VARIABLES
  program, input,   (* what the files contain                             *)
  rows,             (* the lines of the sub-array as the cache holds them *)
  capInsInfoMap,    (* the addresses that stand for an operation          *)
  issued,           (* markers seen                                       *)
  at,               (* the next access: phase, instruction, part          *)
  read,             (* history: positions of the input that were matched  *)
  exited

vars == <<capVars, program, input, rows, capInsInfoMap, issued, at, read,
          exited>>

(* mutant: characters are matched before the masks are written. *)
MatchedTooEarly == <<"cprg", "ssprg", "match", "repSte">>

Phases == <<"cprg", "ssprg", "repSte", "match">>
Tags == <<"b31", "b31b30", "plain", "b30">>

NumBits == Cardinality(Bits)
Ste(number) == <<number \div NumBits, number % NumBits>>

(* Stores that a phase makes, and their size. *)
NumStores(phase) ==
  CASE Phases[phase] = "cprg"   -> NumLines * SwizzleSwitchY
    [] Phases[phase] = "ssprg"  -> SwizzleSwitchY * NumBits * SwizzleSwitchY
    [] Phases[phase] = "repSte" -> 2 * SwizzleSwitchY
    [] Phases[phase] = "match"  -> Len(input) + 1

Size(phase) ==
  IF Phases[phase] \in {"cprg", "repSte"} THEN StoreSize ELSE SwizzleSwitchY

(* prog.pl writes a code for a byte that is 0; the memory manager takes the
   code for 0.                                                            *)
Encode(byte) == IF byte = {} THEN ZeroCode ELSE byte

(* mutant: the code for 0 is taken as it is. *)
NotDecoded(code) == code

Decode(code) == IF code = ZeroCode THEN {} ELSE code

(* The byte that the store at position n of a phase carries. *)
StoredByte(phase, n) ==
  LET line == n \div SwizzleSwitchY
      offset == n % SwizzleSwitchY
  IN  Decode(Encode(
        CASE Phases[phase] = "cprg"   -> program.rows[line][offset]
          [] Phases[phase] = "ssprg"  -> program.swizzle[Ste(line)][offset]
          [] Phases[phase] = "repSte" -> IF line = 0 THEN program.start[offset]
                                         ELSE program.report[offset]))

-----------------------------------------------------------------------------
Init ==
  /\ CapInit
  /\ program \in Programs
  /\ input \in Inputs
  /\ rows = [c \in 0..NumLines - 1 |-> Unwritten]
  /\ capInsInfoMap = {}
  /\ issued = 0
  /\ at = [phase |-> 1, n |-> 0, part |-> 1]
  /\ read = <<>>
  /\ exited = FALSE

(* A marker: instructions are created for a whole file and queued. *)
ProcessAppMagic ==
  /\ ~exited
  /\ issued < Len(Phases)
  /\ issued' = issued + 1
  /\ capInsInfoMap' = capInsInfoMap \cup
       {<<Tags[issued + 1], n>> : n \in 0..NumStores(issued + 1) - 1}
  /\ UNCHANGED <<capVars, program, input, rows, at, read, exited>>

(* The accesses of the store at position n: one for each line it touches. *)
Parts(n, size) ==
  LET offset == n % SwizzleSwitchY
      rest == offset + size - SwizzleSwitchY
  IN  IF rest <= 0 THEN <<[pos |-> n, len |-> size]>>
      ELSE <<[pos |-> n, len |-> size - rest],
             [pos |-> n - offset + SwizzleSwitchY, len |-> rest]>>

PartsAt == Parts(at.n, Size(at.phase))
Pos == PartsAt[at.part].pos
AccessLength == PartsAt[at.part].len
LineAt == Pos \div SwizzleSwitchY
OffsetAt == Pos % SwizzleSwitchY
Address == <<Tags[at.phase], Pos>>

Pending == ~exited /\ at.phase <= issued

Following ==
  IF at.part < Len(PartsAt) THEN [at EXCEPT !.part = 2]
  ELSE IF at.n + 1 < NumStores(at.phase) THEN [at EXCEPT !.n = @ + 1, !.part = 1]
  ELSE [phase |-> at.phase + 1, n |-> 0, part |-> 1]

(* mutant: the operation stays in the map. *)
DispatchAgain(phase) ==
  /\ Pending
  /\ Phases[at.phase] = phase
  /\ Address \in capInsInfoMap
  /\ at' = Following
  /\ UNCHANGED <<capInsInfoMap, program, input, issued>>

(* An access finds the operation of its address, which is taken once. *)
Dispatch(phase) ==
  /\ Pending
  /\ Phases[at.phase] = phase
  /\ Address \in capInsInfoMap
  /\ capInsInfoMap' = capInsInfoMap \ {Address}
  /\ at' = Following
  /\ UNCHANGED <<program, input, issued>>

(* CAP_NONE goes on as a store to the address without its tag. *)
ProgramCacheLine ==
  /\ Dispatch("cprg")
  /\ rows' = [rows EXCEPT ![LineAt] =
       Overwritten(@, OffsetAt, StoredByte(at.phase, Pos), AccessLength)]
  /\ UNCHANGED <<capVars, read, exited>>

ProgramSwizzleSwitch ==
  /\ Dispatch("ssprg")
  /\ UpdateSwizzleSwitch(Ste(LineAt), OffsetAt, StoredByte(at.phase, Pos),
                         AccessLength)
  /\ UNCHANGED <<rows, read, exited>>

ProgramMasks ==
  /\ Dispatch("repSte")
  /\ LET byte == StoredByte(at.phase, Pos)
     IN  IF LineAt = 0 THEN UpdateStartStateMask(OffsetAt, byte, AccessLength)
         ELSE UpdateReportingSteInfo(OffsetAt, byte, AccessLength)
  /\ UNCHANGED <<rows, read, exited>>

MatchCharacter ==
  /\ Dispatch("match")
  /\ Pos < Len(input)
  /\ \E row \in Resolved(rows[input[Pos + 1]]) : ProcessPatternMatch(row)
  /\ read' = Append(read, Pos)
  /\ UNCHANGED <<rows, exited>>

(* mutant: the last character of the file is taken for its end. *)
LastCharacterEnds ==
  /\ Dispatch("match")
  /\ Pos >= Len(input) - 1
  /\ exited' = TRUE
  /\ UNCHANGED <<capVars, rows, read>>

(* CAP_END prints the number of matches and ends the simulation. *)
EndOfInput ==
  /\ Dispatch("match")
  /\ Pos = Len(input)
  /\ exited' = TRUE
  /\ UNCHANGED <<capVars, rows, read>>

(* An access to an address that stands for nothing, or no longer does, is a
   store of an unfilled buffer.                                           *)
NormalStore ==
  /\ Pending
  /\ Address \notin capInsInfoMap
  /\ at' = Following
  /\ rows' = IF Tags[at.phase] = "plain" /\ LineAt < NumLines
             THEN [rows EXCEPT ![LineAt] =
                     Overwritten(@, OffsetAt, Garbage, AccessLength)]
             ELSE rows
  /\ UNCHANGED <<capVars, program, input, capInsInfoMap, issued, read, exited>>

Done == exited /\ UNCHANGED vars

Next ==
  \/ ProcessAppMagic
  \/ ProgramCacheLine
  \/ ProgramSwizzleSwitch
  \/ ProgramMasks
  \/ MatchCharacter
  \/ EndOfInput
  \/ NormalStore
  \/ Done

Spec == Init /\ [][Next]_vars /\ WF_vars(Next)

-----------------------------------------------------------------------------
(* The lines that the stores of the masks spill into: their addresses have no
   tag, and their second accesses end in the lines of characters 1 and 2.   *)
SpilledLines == {1, 2}

(* When the first character is matched, every byte of the automaton is the
   one of the files, although each store also copies unfilled bytes over the
   ones that follow, and the first byte of a line is stored before its own
   instruction; only the rows of two control characters are not.            *)
ProgramInPlace ==
  at.phase > 3 =>
    /\ m_swizzleSwitch = program.swizzle
    /\ m_startSTEMask = program.start
    /\ m_reportingSteInfo = program.report
    /\ \A c \in 0..NumLines - 1 :
         c \notin SpilledLines => rows[c] = program.rows[c]

(* The characters of the input are matched one after the other, from the
   first to the last, before the simulation ends.                           *)
InputInOrder ==
  /\ \A i \in 1..Len(read) : read[i] = i - 1
  /\ exited => Len(read) = Len(input)

(* The same, of an input that fits a line: no store of it has a second access
   that finds the operation of a later character.                           *)
ShortInputInOrder == Len(input) < SwizzleSwitchY => InputInOrder

(* A character is matched once, and never after the simulation ended, also
   when characters are taken out of order.                                  *)
NoCharacterTwice ==
  \A i, j \in 1..Len(read) : read[i] = read[j] => i = j

(* The controller is programmed completely before the first character, and
   its state changes by its own operations only.                            *)
ProgrammedFirst == CapSpec

=============================================================================
