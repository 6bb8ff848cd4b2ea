----------------------- MODULE CapMemoryManagerProofs -----------------------
(***************************************************************************)
(* Proofs about CapMemoryManager for any automaton, input, line and store  *)
(* size: although stores copy unfilled bytes and find each other's         *)
(* operations, the automaton is programmed as the files say before the     *)
(* first character, a short input is matched in order, and no character is *)
(* matched twice.                                                          *)
(***************************************************************************)
EXTENDS CapMemoryManager, SequenceTheorems, TLAPS

(* The next access, and the number of markers that were seen. *)
Progress ==
  /\ issued \in 0..4
  /\ at \in [phase : Nat \ {0}, n : Nat, part : Nat]

(* A character is matched after the last marker, and its operation is gone
   for good.                                                                *)
Taken ==
  /\ read \in Seq(Int)
  /\ \A a \in capInsInfoMap : a[2] \in Int
  /\ read # <<>> => issued = 4
  /\ \A i \in 1..Len(read) : <<"b30", read[i]>> \notin capInsInfoMap

IInv == Progress /\ Taken /\ NoCharacterTwice

LEMMA InitInv == Init => IInv
<1> SUFFICES ASSUME Init PROVE IInv
  OBVIOUS
<1>1. read = <<>> /\ Len(read) = 0 /\ read \in Seq(Int)
  BY EmptySeq DEF Init
<1>2. Progress
  BY DEF Init, Progress
<1>3. \A a \in capInsInfoMap : a[2] \in Int
  BY DEF Init
<1> QED
  BY <1>1, <1>2, <1>3 DEF IInv, Taken, NoCharacterTwice

\* An access is followed by one of the same or of the next file.
LEMMA FollowingTyped ==
  ASSUME Progress
  PROVE  Following \in [phase : Nat \ {0}, n : Nat, part : Nat]
<1>1. /\ at.phase \in Nat \ {0} /\ at.n \in Nat /\ at.part \in Nat
      /\ at.phase + 1 \in Nat \ {0} /\ at.n + 1 \in Nat
  BY DEF Progress
<1> QED
  BY <1>1 DEF Following, Progress

\* A character is matched: its position was in the map, so it was not read.
LEMMA CharacterMatched ==
  ASSUME IInv, MatchCharacter
  PROVE  IInv'
<1>1. /\ Pending /\ Phases[at.phase] = "match"
      /\ Address \in capInsInfoMap
      /\ capInsInfoMap' = capInsInfoMap \ {Address}
      /\ at' = Following
      /\ issued' = issued
      /\ read' = Append(read, Pos)
  BY DEF MatchCharacter, Dispatch
<1>2. at.phase = 4 /\ issued = 4
  <2>1. at.phase \in 1..4
    BY <1>1 DEF Pending, IInv, Progress
  <2> QED
    BY <1>1, <2>1 DEF Pending, Phases, IInv, Progress
<1>3. Address = <<"b30", Pos>>
  BY <1>2 DEF Address, Tags
<1>4. read \in Seq(Int) /\ Pos \in Int
  BY <1>1, <1>3 DEF IInv, Taken
<1>5. /\ read' \in Seq(Int)
      /\ Len(read') = Len(read) + 1
      /\ Len(read) \in Nat
      /\ read'[Len(read) + 1] = Pos
      /\ \A i \in 1..Len(read) : read'[i] = read[i]
  BY <1>1, <1>4, AppendProperties
<1>6. \A i \in 1..Len(read) : read[i] # Pos
  BY <1>1, <1>3 DEF IInv, Taken
<1>7. \A i \in 1..Len(read') : i \in 1..Len(read) \/ i = Len(read) + 1
  BY <1>5
<1>8. Progress'
  BY <1>1, FollowingTyped DEF IInv, Progress
<1>9. \A i \in 1..Len(read') : <<"b30", read'[i]>> \notin capInsInfoMap'
  BY <1>1, <1>3, <1>5, <1>7 DEF IInv, Taken
<1>10. \A i, j \in 1..Len(read') : read'[i] = read'[j] => i = j
  BY <1>5, <1>6, <1>7 DEF IInv, NoCharacterTwice
<1>11. \A a \in capInsInfoMap' : a[2] \in Int
  BY <1>1 DEF IInv, Taken
<1> QED
  BY <1>1, <1>2, <1>5, <1>8, <1>9, <1>10, <1>11 DEF IInv, Taken, NoCharacterTwice

\* The other actions match nothing: the markers come before the first match,
\* and afterwards operations are only taken.
LEMMA NothingMatched ==
  ASSUME IInv, read' = read, Progress',
         \/ read = <<>> /\ \A a \in capInsInfoMap' : a[2] \in Int
         \/ capInsInfoMap' \subseteq capInsInfoMap /\ issued' = issued
  PROVE  IInv'
<1>1. CASE read = <<>> /\ \A a \in capInsInfoMap' : a[2] \in Int
  <2>1. Len(read) = 0
    BY <1>1
  <2> QED
    BY <1>1, <2>1 DEF IInv, Taken, NoCharacterTwice
<1>2. CASE capInsInfoMap' \subseteq capInsInfoMap /\ issued' = issued
  BY <1>2 DEF IInv, Taken, NoCharacterTwice
<1> QED
  BY <1>1, <1>2

LEMMA NextInv == IInv /\ [Next]_vars => IInv'
<1> SUFFICES ASSUME IInv, [Next]_vars PROVE IInv'
  OBVIOUS
<1>1. ASSUME NEW phase, Dispatch(phase), read' = read PROVE IInv'
  <2>1. /\ capInsInfoMap' \subseteq capInsInfoMap
        /\ issued' = issued
        /\ at' = Following
    BY <1>1 DEF Dispatch
  <2>2. Progress'
    BY <2>1, FollowingTyped DEF IInv, Progress
  <2> QED
    BY <1>1, <2>1, <2>2, NothingMatched
<1>2. CASE ProcessAppMagic
  <2>1. issued < 4 /\ issued' = issued + 1 /\ at' = at /\ read' = read
    BY <1>2 DEF ProcessAppMagic, Phases
  <2>2. read = <<>>
    BY <2>1 DEF IInv, Taken, Progress
  <2>3. Progress'
    BY <2>1 DEF IInv, Progress
  <2>4. \A a \in capInsInfoMap' : a[2] \in Int
    BY <1>2 DEF ProcessAppMagic, IInv, Taken
  <2> QED
    BY <2>1, <2>2, <2>3, <2>4, NothingMatched
<1>3. CASE ProgramCacheLine
  BY <1>1, <1>3 DEF ProgramCacheLine
<1>4. CASE ProgramSwizzleSwitch
  BY <1>1, <1>4 DEF ProgramSwizzleSwitch
<1>5. CASE ProgramMasks
  BY <1>1, <1>5 DEF ProgramMasks
<1>6. CASE MatchCharacter
  BY <1>6, CharacterMatched
<1>7. CASE EndOfInput
  BY <1>1, <1>7 DEF EndOfInput
<1>8. CASE NormalStore
  <2>1. Progress'
    BY <1>8, FollowingTyped DEF NormalStore, IInv, Progress
  <2> QED
    BY <1>8, <2>1, NothingMatched DEF NormalStore
<1>9. CASE UNCHANGED vars
  BY <1>9 DEF vars, IInv, Progress, Taken, NoCharacterTwice
<1> QED
  BY <1>2, <1>3, <1>4, <1>5, <1>6, <1>7, <1>8, <1>9 DEF Next, Done

(* No operation of a character is taken twice, although a store may take the
   one of a later character, whatever the input, the line and the store size. *)
THEOREM NoCharacterIsReadTwice == Spec => []NoCharacterTwice
<1>1. IInv => NoCharacterTwice
  BY DEF IInv
<1> QED
  BY <1>1, InitInv, NextInv, PTL DEF Spec

-----------------------------------------------------------------------------
(* Positions, lines and the accesses of a store.                           *)

\* A position is an offset in a line.
LEMMA LineAndOffset ==
  ASSUME NEW size \in Nat \ {0}, NEW q \in Nat
  PROVE  /\ q \div size \in Nat /\ q % size \in 0..size - 1
         /\ q = size * (q \div size) + (q % size)
OBVIOUS

LEMMA PositionOf ==
  ASSUME NEW size \in Nat \ {0}, NEW line \in Nat, NEW offset \in 0..size - 1
  PROVE  /\ line * size + offset \in Nat
         /\ (line * size + offset) \div size = line
         /\ (line * size + offset) % size = offset
OBVIOUS

\* Lines are as far apart as they are long.
LEMMA LinesApart ==
  ASSUME NEW size \in Nat \ {0}, NEW x \in Int, NEW y \in Int, x < y
  PROVE  size * x + size <= size * y
<1>1. PICK d \in Nat : y = x + 1 + d
  <2>1. y - x - 1 \in Nat
    OBVIOUS
  <2> QED
    BY <2>1
<1>2. size * y = size * x + size + size * d
  BY <1>1
<1>3. size * d \in Nat /\ size * x \in Int
  BY <1>1
<1> QED
  BY <1>2, <1>3

LEMMA PositionBelow ==
  ASSUME NEW size \in Nat \ {0}, NEW lines \in Nat, NEW line \in 0..lines - 1,
         NEW offset \in 0..size - 1
  PROVE  line * size + offset < lines * size
<1>1. size * line + size <= size * lines
  BY LinesApart
<1>2. PICK x \in Nat : x = size * line
  OBVIOUS
<1>3. PICK y \in Nat : y = size * lines
  OBVIOUS
<1>4. line * size = x /\ lines * size = y
  BY <1>2, <1>3
<1> QED
  BY <1>1, <1>2, <1>3, <1>4

LEMMA LineBelow ==
  ASSUME NEW size \in Nat \ {0}, NEW q \in Nat, NEW lines \in Nat, q < lines * size
  PROVE  q \div size < lines
<1>1. q \div size \in Nat /\ q >= size * (q \div size)
  BY LineAndOffset
<1>2. ~ (lines < q \div size)
  BY <1>1, LinesApart
<1>3. q \div size # lines
  BY <1>1
<1> QED
  BY <1>1, <1>2, <1>3

\* The bytes that an access reaches after its first one: none is the first of a line.
LEMMA BytesAfter ==
  ASSUME NEW size \in Nat \ {0}, NEW p \in Nat, NEW len \in Nat, (p % size) + len <= size,
         NEW q \in Nat
  PROVE  /\ q \in p + 1 .. p + len - 1 <=>
              q \div size = p \div size /\ q % size \in (p % size) + 1 .. (p % size) + len - 1
         /\ q \in p + 1 .. p + len - 1 => q % size # 0
<1>1. /\ p \div size \in Nat /\ p % size \in 0..size - 1
      /\ p = size * (p \div size) + (p % size)
  BY LineAndOffset
<1>2. /\ q \div size \in Nat /\ q % size \in 0..size - 1
      /\ q = size * (q \div size) + (q % size)
  BY LineAndOffset
<1>3. ASSUME q \in p + 1 .. p + len - 1 PROVE q \div size = p \div size
  <2>1. ~ (q \div size < p \div size)
    BY <1>1, <1>2, <1>3, LinesApart
  <2>2. ~ (p \div size < q \div size)
    BY <1>1, <1>2, <1>3, LinesApart
  <2> QED
    BY <1>1, <1>2, <2>1, <2>2
<1>4. q \div size = p \div size => q - p = (q % size) - (p % size)
  BY <1>1, <1>2
<1> QED
  BY <1>1, <1>2, <1>3, <1>4

-----------------------------------------------------------------------------
(* One phase.  Its stores sweep over the positions 0 .. number - 1: ops    *)
(* are those whose operation is still in the map, right those that hold    *)
(* their byte, and done is how many stores have had their first access.    *)

USE SizeAssumption, LineAssumption, BitsAssumption, StoreAssumption
    DEF SizeAssumption, LineAssumption, BitsAssumption, StoreAssumption

\* Behind the sweep all bytes are right; ahead of it only the first byte of a line may
\* have lost its operation, to a store of the line before, which has put it in place.
Swept(number, ops, right, done) ==
  \A q \in 0..number - 1 :
    IF q < done THEN q \in right
    ELSE q \in ops \/ (q % SwizzleSwitchY = 0 /\ q >= SwizzleSwitchY /\ q \in right)

\* The access of position pos by the store at n.
Accesses(n, part, pos, len) ==
  /\ pos \in Nat /\ len \in Nat
  /\ (pos % SwizzleSwitchY) + len <= SwizzleSwitchY
  /\ IF part = 1 THEN pos = n
     ELSE pos > n /\ pos >= SwizzleSwitchY /\ pos % SwizzleSwitchY = 0

\* An access that finds its operation puts one byte in place and spoils some that are
\* ahead and will be put in place by their own operations.
LEMMA OperationSweeps ==
  ASSUME NEW number, NEW ops, NEW right, NEW n \in Nat, NEW part, NEW pos, NEW len,
         Accesses(n, part, pos, len), pos \in ops,
         Swept(number, ops, right, IF part = 1 THEN n ELSE n + 1),
         number \in Nat, NEW right2, pos \in right2,
         \A q \in right : q \in 0..number - 1 /\ q \notin pos + 1 .. pos + len - 1 => q \in right2
  PROVE  Swept(number, ops \ {pos}, right2, n + 1)
<1> SUFFICES ASSUME NEW q \in 0..number - 1
             PROVE  IF q < n + 1 THEN q \in right2
                    ELSE \/ q \in ops \ {pos}
                         \/ q % SwizzleSwitchY = 0 /\ q >= SwizzleSwitchY /\ q \in right2
  BY DEF Swept
<1>1. q \in pos + 1 .. pos + len - 1 => q % SwizzleSwitchY # 0
  <2>1. /\ SwizzleSwitchY \in Nat \ {0} /\ pos \in Nat /\ len \in Nat /\ q \in Nat
        /\ (pos % SwizzleSwitchY) + len <= SwizzleSwitchY
    BY DEF Accesses
  <2> QED
    BY <2>1, BytesAfter, Zenon
<1>2. IF q < (IF part = 1 THEN n ELSE n + 1) THEN q \in right
      ELSE q \in ops \/ (q % SwizzleSwitchY = 0 /\ q >= SwizzleSwitchY /\ q \in right)
  BY DEF Swept
<1>3. CASE q = pos
  BY <1>3 DEF Accesses
<1>4. CASE q # pos /\ q < n + 1
  <2>1. q \in right /\ q < pos
    BY <1>2, <1>4 DEF Accesses
  <2> QED
    BY <1>4, <2>1 DEF Accesses
<1>5. CASE q # pos /\ ~ (q < n + 1)
  <2>1. \/ q \in ops
        \/ q % SwizzleSwitchY = 0 /\ q >= SwizzleSwitchY /\ q \in right
    BY <1>2, <1>5
  <2>2. q % SwizzleSwitchY = 0 /\ q \in right => q \in right2
    BY <1>1
  <2> QED
    BY <1>5, <2>1, <2>2
<1> QED
  BY <1>3, <1>4, <1>5

\* An access that finds none is one of a byte in place.
LEMMA StoreSweeps ==
  ASSUME NEW number \in Nat, NEW ops, NEW right, NEW n \in Nat, NEW part, NEW pos, NEW len,
         Accesses(n, part, pos, len), pos \notin ops,
         Swept(number, ops, right, IF part = 1 THEN n ELSE n + 1)
  PROVE  Swept(number, ops, right, n + 1)
BY DEF Swept, Accesses

-----------------------------------------------------------------------------
(* The next access.                                                        *)

DoneAt(x) == IF x.part = 1 THEN x.n ELSE x.n + 1

\* What is known of an access: its store and its part exist, and it is the first of a
\* phase that was not announced.
AccessOK(x) ==
  /\ x \in [phase : 1..5, n : Nat, part : 1..2]
  /\ x.phase <= 4 => /\ x.n < NumStores(x.phase)
                     /\ x.part \in DOMAIN Parts(x.n, Size(x.phase))
  /\ x.phase > issued => x = [phase |-> x.phase, n |-> 0, part |-> 1]

AtInv ==
  /\ issued \in 0..4
  /\ AccessOK(at)
  /\ at.phase <= issued + 1
  /\ program \in Programs /\ input \in Inputs

\* Every phase has a store.
LEMMA NumberOfStores ==
  ASSUME input \in Inputs
  PROVE  /\ NumStores(1) = NumLines * SwizzleSwitchY /\ NumStores(1) \in Nat \ {0}
         /\ NumStores(2) = SwizzleSwitchY * NumBits * SwizzleSwitchY
         /\ NumStores(2) \in Nat \ {0}
         /\ NumStores(3) = 2 * SwizzleSwitchY /\ NumStores(3) \in Nat \ {0}
         /\ NumStores(4) = Len(input) + 1 /\ NumStores(4) \in Nat \ {0}
<1>1. Len(input) \in Nat
  BY InputAssumption, LenProperties DEF InputAssumption
<1>2. /\ NumStores(1) = NumLines * SwizzleSwitchY
      /\ NumStores(2) = SwizzleSwitchY * NumBits * SwizzleSwitchY
      /\ NumStores(3) = 2 * SwizzleSwitchY
      /\ NumStores(4) = Len(input) + 1
  BY DEF NumStores, Phases
<1>3. \A x, y \in Nat \ {0} : x * y \in Nat \ {0}
  OBVIOUS
<1>4. NumBits \in Nat \ {0}
  BY DEF NumBits
<1> QED
  BY <1>1, <1>2, <1>3, <1>4

LEMMA StoresAreNumbered ==
  ASSUME AtInv, NEW p \in 1..3
  PROVE  NumStores(p) \in Nat
<1>1. NumStores(1) \in Nat /\ NumStores(2) \in Nat /\ NumStores(3) \in Nat
  BY NumberOfStores DEF AtInv
<1>2. p = 1 \/ p = 2 \/ p = 3
  OBVIOUS
<1> QED
  BY <1>1, <1>2, Zenon

LEMMA SizeOfStore ==
  ASSUME NEW p \in 1..4
  PROVE  Size(p) \in 1..SwizzleSwitchY
BY DEF Size, Phases

\* A store has one access, or one in its line and one at the beginning of the next.
LEMMA PartsOfStore ==
  ASSUME NEW n \in Nat, NEW size \in 1..SwizzleSwitchY
  PROVE  /\ Len(Parts(n, size)) \in 1..2 /\ 1 \in DOMAIN Parts(n, size)
         /\ \A part : part \in DOMAIN Parts(n, size) <=> part \in 1..Len(Parts(n, size))
         /\ \A part \in DOMAIN Parts(n, size) :
              /\ Accesses(n, part, Parts(n, size)[part].pos, Parts(n, size)[part].len)
              /\ Parts(n, size)[part].len \in 1..SwizzleSwitchY
              /\ part = 2 => Parts(n, size)[part].pos
                               = (n \div SwizzleSwitchY) * SwizzleSwitchY + SwizzleSwitchY
<1> DEFINE offset == n % SwizzleSwitchY
           rest == offset + size - SwizzleSwitchY
<1>1. /\ n \div SwizzleSwitchY \in Nat /\ offset \in 0..SwizzleSwitchY - 1
      /\ n = SwizzleSwitchY * (n \div SwizzleSwitchY) + offset
  BY LineAndOffset
<1>2. CASE rest <= 0
  <2>1. Parts(n, size) = <<[pos |-> n, len |-> size]>>
    BY <1>2 DEF Parts
  <2>2. Accesses(n, 1, n, size)
    BY <1>1, <1>2 DEF Accesses
  <2> QED
    BY <2>1, <2>2
<1>3. CASE ~ (rest <= 0)
  <2> DEFINE next == n - offset + SwizzleSwitchY
  <2>1. Parts(n, size) = <<[pos |-> n, len |-> size - rest], [pos |-> next, len |-> rest]>>
    BY <1>3 DEF Parts
  <2>2. Accesses(n, 1, n, size - rest) /\ size - rest \in 1..SwizzleSwitchY
    BY <1>1, <1>3 DEF Accesses
  <2>3. next = (n \div SwizzleSwitchY + 1) * SwizzleSwitchY + 0
    BY <1>1
  <2>4. next % SwizzleSwitchY = 0
    <3>1. /\ SwizzleSwitchY \in Nat \ {0} /\ n \div SwizzleSwitchY + 1 \in Nat
          /\ 0 \in 0..SwizzleSwitchY - 1
      BY <1>1
    <3>2. ((n \div SwizzleSwitchY + 1) * SwizzleSwitchY + 0) % SwizzleSwitchY = 0
      BY <3>1, PositionOf, Zenon
    <3> QED
      BY <2>3, <3>2, Zenon
  <2>5. next = (n \div SwizzleSwitchY) * SwizzleSwitchY + SwizzleSwitchY
    BY <1>1
  <2>6. (n \div SwizzleSwitchY) * SwizzleSwitchY \in Nat
    BY <1>1
  <2>7. Accesses(n, 2, next, rest) /\ rest \in 1..SwizzleSwitchY
    BY <1>1, <1>3, <2>4, <2>5, <2>6 DEF Accesses
  <2> HIDE DEF next, rest, offset
  <2> QED
    BY <2>1, <2>2, <2>5, <2>7
<1> QED
  BY <1>2, <1>3

LEMMA FirstPart ==
  ASSUME NEW p \in 1..4, NEW n \in Nat
  PROVE  1 \in DOMAIN Parts(n, Size(p))
<1>1. Size(p) \in 1..SwizzleSwitchY
  BY SizeOfStore
<1> QED
  BY <1>1, PartsOfStore

\* The access that is about to be made.
LEMMA AccessAt ==
  ASSUME AtInv, at.phase <= 4
  PROVE  /\ Accesses(at.n, at.part, Pos, AccessLength)
         /\ AccessLength \in 1..SwizzleSwitchY
         /\ at.part = 2 => Pos = (at.n \div SwizzleSwitchY) * SwizzleSwitchY + SwizzleSwitchY
<1>1. /\ at.phase \in 1..4 /\ at.n \in Nat
      /\ at.part \in DOMAIN Parts(at.n, Size(at.phase))
  BY DEF AtInv, AccessOK
<1>2. Size(at.phase) \in 1..SwizzleSwitchY
  BY <1>1, SizeOfStore
<1> QED
  BY <1>1, <1>2, PartsOfStore DEF Pos, AccessLength, PartsAt

\* The access after it is of the same store, or of the next, or of the next phase.
LEMMA AccessAfter ==
  ASSUME AtInv, Pending, at.phase <= 4
  PROVE  /\ AccessOK(Following)
         /\ \/ /\ Following.phase = at.phase
               /\ DoneAt(Following) = at.n + 1
            \/ /\ Following = [phase |-> at.phase + 1, n |-> 0, part |-> 1]
               /\ at.n + 1 = NumStores(at.phase)
<1>1. /\ at.phase \in 1..4 /\ at.n \in Nat /\ at.n < NumStores(at.phase)
      /\ at.part \in DOMAIN Parts(at.n, Size(at.phase))
      /\ at.phase <= issued /\ issued \in 0..4
      /\ at = [phase |-> at.phase, n |-> at.n, part |-> at.part]
  BY DEF AtInv, AccessOK, Pending
<1>2. \A p \in 1..4 : NumStores(p) \in Nat \ {0}
  <2>1. /\ NumStores(1) \in Nat \ {0} /\ NumStores(2) \in Nat \ {0}
        /\ NumStores(3) \in Nat \ {0} /\ NumStores(4) \in Nat \ {0}
    BY NumberOfStores DEF AtInv
  <2> HIDE DEF NumStores
  <2> QED
    BY <2>1
<1>4. /\ Len(Parts(at.n, Size(at.phase))) \in 1..2
      /\ \A part : part \in DOMAIN Parts(at.n, Size(at.phase))
                     <=> part \in 1..Len(Parts(at.n, Size(at.phase)))
  BY <1>1, SizeOfStore, PartsOfStore
<1>5. CASE at.part < Len(PartsAt)
  <2>1. at.part = 1 /\ 2 \in DOMAIN Parts(at.n, Size(at.phase))
    <3> DEFINE number == Len(Parts(at.n, Size(at.phase)))
    <3>1. number \in 1..2 /\ at.part \in 1..number /\ at.part < number
      BY <1>1, <1>4, <1>5 DEF PartsAt
    <3> HIDE DEF number
    <3>2. at.part = 1 /\ number = 2
      BY <3>1
    <3>3. 2 \in 1..Len(Parts(at.n, Size(at.phase)))
      BY <3>2 DEF number
    <3>4. 2 \in DOMAIN Parts(at.n, Size(at.phase))
      BY <1>4, <3>3, Zenon
    <3> QED
      BY <3>2, <3>4
  <2>2. Following = [phase |-> at.phase, n |-> at.n, part |-> 2]
    BY <1>1, <1>5 DEF Following
  <2> QED
    BY <1>1, <2>1, <2>2 DEF AccessOK, DoneAt
<1>6. CASE ~ (at.part < Len(PartsAt)) /\ at.n + 1 < NumStores(at.phase)
  <2>1. Following = [phase |-> at.phase, n |-> at.n + 1, part |-> 1]
    BY <1>1, <1>6 DEF Following
  <2>2. 1 \in DOMAIN Parts(at.n + 1, Size(at.phase))
    <3>1. at.phase \in 1..4 /\ at.n + 1 \in Nat
      BY <1>1
    <3> QED
      BY <3>1, FirstPart, Zenon
  <2> QED
    BY <1>1, <1>6, <2>1, <2>2 DEF AccessOK, DoneAt
<1>7. CASE ~ (at.part < Len(PartsAt)) /\ ~ (at.n + 1 < NumStores(at.phase))
  <2>1. Following = [phase |-> at.phase + 1, n |-> 0, part |-> 1]
    BY <1>1, <1>7 DEF Following
  <2>2. at.n + 1 = NumStores(at.phase)
    BY <1>1, <1>2, <1>7
  <2>3. at.phase + 1 <= 4 => /\ 0 < NumStores(at.phase + 1)
                             /\ 1 \in DOMAIN Parts(0, Size(at.phase + 1))
    <3> SUFFICES ASSUME at.phase + 1 \in 1..4
                 PROVE  /\ 0 < NumStores(at.phase + 1)
                        /\ 1 \in DOMAIN Parts(0, Size(at.phase + 1))
      BY <1>1
    <3>1. NumStores(at.phase + 1) \in Nat \ {0} /\ 0 \in Nat
      BY <1>2
    <3> QED
      BY <3>1, FirstPart
  <2> QED
    BY <1>1, <2>1, <2>2, <2>3 DEF AccessOK
<1> QED
  BY <1>5, <1>6, <1>7

-----------------------------------------------------------------------------
(* Programming.  What a phase stores: the lines of the sub-array, the rows *)
(* of the swizzle switch, the two masks.                                   *)

Held(p, q) ==
  LET line == q \div SwizzleSwitchY
      offset == q % SwizzleSwitchY
  IN  CASE p = 1 -> rows[line][offset]
        [] p = 2 -> m_swizzleSwitch[Ste(line)][offset]
        [] p = 3 -> IF line = 0 THEN m_startSTEMask[offset] ELSE m_reportingSteInfo[offset]

\* The positions of a phase, those whose operation was not taken, and those that hold
\* their byte.
Stores(p) == 0..NumStores(p) - 1
Ops(p) == {q \in Stores(p) : <<Tags[p], q>> \in capInsInfoMap}
Rights(p) == {q \in Stores(p) : Held(p, q) = StoredByte(p, q)}

\* Later phases do not spoil it.
Lasts(p, q) == p = 1 => q \div SwizzleSwitchY \notin SpilledLines

PhaseInv(p) ==
  /\ at.phase < p /\ p <= issued => Stores(p) \subseteq Ops(p)
  /\ at.phase = p /\ p <= issued => Swept(NumStores(p), Ops(p), Rights(p), DoneAt(at))
  /\ at.phase > p => \A q \in Stores(p) : Lasts(p, q) => q \in Rights(p)

StoresTyped ==
  /\ rows \in [0..NumLines - 1 -> StoredVectors]
  /\ m_swizzleSwitch \in [STEs -> StoredVectors]
  /\ m_startSTEMask \in StoredVectors
  /\ m_reportingSteInfo \in StoredVectors

MapInv == \A a \in capInsInfoMap : \E p \in 1..issued : \E q \in Stores(p) : a = <<Tags[p], q>>

PlaceInv == AtInv /\ StoresTyped /\ MapInv /\ \A p \in 1..3 : PhaseInv(p)

\* The tags of the phases differ.
LEMMA TagsDiffer ==
  ASSUME NEW p \in 1..4, NEW p2 \in 1..4, Tags[p] = Tags[p2]
  PROVE  p = p2
BY DEF Tags

\* An operation in the map is one of the phase.
LEMMA OperationAt ==
  ASSUME AtInv, MapInv, Pending, at.phase <= 4, Address \in capInsInfoMap
  PROVE  Pos \in Ops(at.phase)
<1>1. at.phase \in 1..4 /\ issued \in 0..4
  BY DEF AtInv, AccessOK
<1>2. PICK p \in 1..issued : \E q \in Stores(p) : Address = <<Tags[p], q>>
  BY DEF MapInv
<1>3. PICK q \in Stores(p) : Address = <<Tags[p], q>>
  BY <1>2
<1>4. Tags[p] = Tags[at.phase] /\ q = Pos /\ p \in 1..4
  BY <1>1, <1>3 DEF Address
<1>5. p = at.phase
  BY <1>1, <1>4, TagsDiffer
<1> QED
  BY <1>1, <1>3, <1>4, <1>5 DEF Ops, Address

\* What a phase leaves of the operations of the others.
LEMMA OtherOperations ==
  ASSUME AtInv, at.phase <= 4, input' = input,
         capInsInfoMap' \in {capInsInfoMap, capInsInfoMap \ {Address}},
         NEW p \in 1..4
  PROVE  /\ p # at.phase => Ops(p)' = Ops(p)
         /\ capInsInfoMap' = capInsInfoMap => Ops(p)' = Ops(p)
         /\ p = at.phase /\ capInsInfoMap' = capInsInfoMap \ {Address} =>
              Ops(p)' = Ops(p) \ {Pos}
         /\ Stores(p)' = Stores(p)
<1>1. at.phase \in 1..4
  BY DEF AtInv, AccessOK
<1>2. Stores(p)' = Stores(p)
  BY DEF Stores, NumStores
<1>3. ASSUME p # at.phase, NEW q PROVE <<Tags[p], q>> # Address
  BY <1>1, <1>3, TagsDiffer DEF Address
<1>4. p # at.phase => Ops(p)' = Ops(p)
  BY <1>2, <1>3 DEF Ops
<1>5. p = at.phase /\ capInsInfoMap' = capInsInfoMap \ {Address} => Ops(p)' = Ops(p) \ {Pos}
  BY <1>2 DEF Ops, Address
<1>6. capInsInfoMap' = capInsInfoMap => Ops(p)' = Ops(p)
  BY <1>2 DEF Ops
<1> QED
  BY <1>2, <1>4, <1>5, <1>6

\* What an access has to do to its own phase and may do to the others.
LEMMA PhaseStep ==
  ASSUME PlaceInv, Pending, at.phase <= 4,
         at' = Following, issued' = issued, input' = input, program' = program,
         capInsInfoMap' \in {capInsInfoMap, capInsInfoMap \ {Address}},
         \A p \in 1..3 : p < at.phase =>
           \A q \in Rights(p) : Lasts(p, q) => q \in Rights(p)',
         \A p \in 1..3 : p = at.phase =>
           Swept(NumStores(p), Ops(p)', Rights(p)', at.n + 1),
         StoresTyped'
  PROVE  PlaceInv'
<1>1. AtInv' /\ (at'.phase = at.phase \/ at'.phase = at.phase + 1)
  <2>1. AccessOK(Following) /\ (Following.phase = at.phase \/ Following.phase = at.phase + 1)
    BY AccessAfter DEF PlaceInv
  <2>2. AccessOK(at)'
    BY <2>1 DEF AccessOK, NumStores
  <2>3. at'.phase <= issued' + 1
    <3>1. at.phase \in 1..5 /\ at.phase <= issued /\ issued \in 0..4
      BY DEF PlaceInv, AtInv, AccessOK, Pending
    <3> QED
      BY <2>1, <3>1
  <2> QED
    BY <2>1, <2>2, <2>3 DEF PlaceInv, AtInv
<1>2. MapInv'
  <2>1. \A p : Stores(p)' = Stores(p)
    BY DEF Stores, NumStores
  <2>2. capInsInfoMap' \subseteq capInsInfoMap
    OBVIOUS
  <2> QED
    BY <2>1, <2>2 DEF PlaceInv, MapInv
<1>3. ASSUME NEW p \in 1..3 PROVE PhaseInv(p)'
  <2>1. /\ p # at.phase => Ops(p)' = Ops(p)
        /\ Stores(p)' = Stores(p) /\ NumStores(p)' = NumStores(p)
    <3>1. AtInv /\ p \in 1..4
      BY DEF PlaceInv
    <3>2. NumStores(p)' = NumStores(p)
      BY DEF NumStores
    <3> QED
      BY <3>1, <3>2, OtherOperations
  <2>2. PhaseInv(p) /\ at.phase \in 1..4 /\ at.phase <= issued
    BY DEF PlaceInv, AtInv, AccessOK, Pending
  <2>3. CASE p < at.phase
    <3>1. \A q \in Stores(p) : Lasts(p, q) => q \in Rights(p)'
      BY <2>2, <2>3 DEF PhaseInv
    <3>2. at'.phase > p /\ ~ (at'.phase < p) /\ ~ (at'.phase = p)
      BY <1>1, <2>2, <2>3
    <3>3. \A q : Lasts(p, q)' = Lasts(p, q)
      BY DEF Lasts
    <3> QED
      BY <2>1, <3>1, <3>2, <3>3 DEF PhaseInv
  <2>4. CASE p > at.phase
    <3>1. p <= issued => Stores(p)' \subseteq Ops(p)'
      BY <2>1, <2>2, <2>4 DEF PhaseInv
    <3>2. at'.phase < p \/ at'.phase = p
      BY <1>1, <2>2, <2>4
    <3>3. CASE at'.phase < p
      <4>1. ~ (at'.phase = p) /\ ~ (at'.phase > p)
        BY <1>1, <2>2, <3>3
      <4> QED
        BY <3>1, <4>1 DEF PhaseInv
    <3>4. CASE at'.phase = p
      <4>1. DoneAt(at)' = 0
        BY <2>4, <3>4, AccessAfter DEF DoneAt, PlaceInv
      <4>2. p <= issued => Swept(NumStores(p), Ops(p)', Rights(p)', 0)
        BY <2>1, <3>1 DEF Swept, Stores
      <4> QED
        BY <2>1, <3>4, <4>1, <4>2 DEF PhaseInv
    <3> QED
      BY <3>2, <3>3, <3>4
  <2>5. CASE p = at.phase
    <3>1. Swept(NumStores(p), Ops(p)', Rights(p)', at.n + 1)
      BY <2>5
    <3>2. CASE at'.phase = at.phase
      <4>1. DoneAt(at)' = at.n + 1
        BY <3>2, <2>2, AccessAfter DEF DoneAt, PlaceInv
      <4> QED
        BY <2>1, <2>5, <3>1, <3>2, <4>1 DEF PhaseInv
    <3>3. CASE at'.phase = at.phase + 1
      <4>0. AtInv
        BY DEF PlaceInv
      <4>1. at.n + 1 = NumStores(at.phase)
        BY <2>2, <3>3, <4>0, AccessAfter
      <4>2. NumStores(p) \in Nat
        BY <4>0, StoresAreNumbered
      <4>3. NumStores(p) = at.n + 1 /\ NumStores(p) \in Nat
        BY <2>5, <4>1, <4>2
      <4>4. \A q \in Stores(p) : q \in Rights(p)'
        BY <3>1, <4>3 DEF Swept, Stores
      <4> QED
        BY <2>1, <2>2, <2>5, <3>3, <4>4 DEF PhaseInv
    <3> QED
      BY <1>1, <3>2, <3>3
  <2> QED
    BY <2>2, <2>3, <2>4, <2>5
<1> QED
  BY <1>1, <1>2, <1>3 DEF PlaceInv

\* What is at position q, where old was, when a buffer of len bytes is copied to pos.
Copied(q, pos, len, byte, old) ==
  IF q = pos THEN byte
  ELSE IF q \in pos + 1 .. pos + len - 1 THEN Garbage
  ELSE old

\* The copy of a buffer into a line, byte by byte.
CopiedInto(vector, pos, len, byte, q) ==
  IF q \div SwizzleSwitchY = pos \div SwizzleSwitchY
  THEN Overwritten(vector, pos % SwizzleSwitchY, byte, len)[q % SwizzleSwitchY]
         = Copied(q, pos, len, byte, vector[q % SwizzleSwitchY])
  ELSE \A old : Copied(q, pos, len, byte, old) = old

LEMMA OverwrittenAt ==
  ASSUME NEW pos \in Nat, NEW len \in Nat, (pos % SwizzleSwitchY) + len <= SwizzleSwitchY,
         NEW q \in Nat, NEW vector, NEW byte
  PROVE  CopiedInto(vector, pos, len, byte, q)
<1>1. /\ q % SwizzleSwitchY \in Positions
      /\ q = SwizzleSwitchY * (q \div SwizzleSwitchY) + (q % SwizzleSwitchY)
      /\ pos = SwizzleSwitchY * (pos \div SwizzleSwitchY) + (pos % SwizzleSwitchY)
  BY LineAndOffset DEF Positions
<1>2. q \in pos + 1 .. pos + len - 1 <=>
        /\ q \div SwizzleSwitchY = pos \div SwizzleSwitchY
        /\ q % SwizzleSwitchY \in (pos % SwizzleSwitchY) + 1
                                    .. (pos % SwizzleSwitchY) + len - 1
  <2>1. SwizzleSwitchY \in Nat \ {0}
    OBVIOUS
  <2> QED
    BY <2>1, BytesAfter, Zenon
<1>3. q \div SwizzleSwitchY = pos \div SwizzleSwitchY =>
        (q % SwizzleSwitchY = pos % SwizzleSwitchY <=> q = pos)
  BY <1>1
<1>4. Overwritten(vector, pos % SwizzleSwitchY, byte, len)[q % SwizzleSwitchY]
        = IF q % SwizzleSwitchY = pos % SwizzleSwitchY THEN byte
          ELSE IF q % SwizzleSwitchY \in (pos % SwizzleSwitchY) + 1
                                           .. (pos % SwizzleSwitchY) + len - 1 THEN Garbage
          ELSE vector[q % SwizzleSwitchY]
  BY <1>1 DEF Overwritten
<1> QED
  BY <1>2, <1>3, <1>4, Zenon DEF Copied, CopiedInto

LEMMA OverwrittenTyped ==
  ASSUME NEW vector \in StoredVectors, NEW offset, NEW byte \in StoredBytes, NEW len
  PROVE  Overwritten(vector, offset, byte, len) \in StoredVectors
BY DEF Overwritten, StoredVectors, StoredBytes

\* An element of the automaton for each line of the swizzle switch, and conversely.
LEMMA ElementOfLine ==
  ASSUME NEW line \in Nat, line < SwizzleSwitchY * NumBits
  PROVE  Ste(line) \in STEs
<1>1. NumBits \in Nat \ {0} /\ Bits = 0..NumBits - 1
  BY DEF NumBits
<1>2. line \div NumBits \in Nat /\ line % NumBits \in 0..NumBits - 1
  BY <1>1, LineAndOffset
<1>3. line \div NumBits < SwizzleSwitchY
  BY <1>1, LineBelow
<1>4. line \div NumBits \in 0..SwizzleSwitchY - 1
  BY <1>2, <1>3
<1> QED
  BY <1>1, <1>2, <1>4 DEF Ste, STEs, Positions

LEMMA LineOfElement ==
  ASSUME NEW s \in STEs
  PROVE  /\ s[1] * NumBits + s[2] \in Nat
         /\ s[1] * NumBits + s[2] < SwizzleSwitchY * NumBits
         /\ Ste(s[1] * NumBits + s[2]) = s
<1>1. NumBits \in Nat \ {0} /\ Bits = 0..NumBits - 1
  BY DEF NumBits
<1>2. s[1] \in 0..SwizzleSwitchY - 1 /\ s[2] \in 0..NumBits - 1 /\ s = <<s[1], s[2]>>
  BY <1>1 DEF STEs, Positions
<1>3. /\ s[1] * NumBits + s[2] \in Nat
      /\ (s[1] * NumBits + s[2]) \div NumBits = s[1]
      /\ (s[1] * NumBits + s[2]) % NumBits = s[2]
  BY <1>1, <1>2, PositionOf
<1>4. SwizzleSwitchY \in Nat
  OBVIOUS
<1>5. s[1] * NumBits + s[2] < SwizzleSwitchY * NumBits
  BY <1>1, <1>2, <1>4, PositionBelow, Zenon
<1> QED
  BY <1>2, <1>3, <1>5 DEF Ste

LEMMA ElementsDiffer ==
  ASSUME NEW x \in Nat, NEW y \in Nat, Ste(x) = Ste(y)
  PROVE  x = y
<1>1. NumBits \in Nat \ {0}
  BY DEF NumBits
<1>2. x \div NumBits = y \div NumBits /\ x % NumBits = y % NumBits
  BY DEF Ste
<1>3. /\ x = NumBits * (x \div NumBits) + (x % NumBits)
      /\ y = NumBits * (y \div NumBits) + (y % NumBits)
  BY <1>1, LineAndOffset
<1> QED
  BY <1>2, <1>3

\* The lines that a phase stores into.
LEMMA LineOfStore ==
  ASSUME input \in Inputs, NEW p \in 1..3, NEW q \in Stores(p)
  PROVE  /\ q \in Nat /\ q \div SwizzleSwitchY \in Nat /\ q % SwizzleSwitchY \in Positions
         /\ p = 1 => q \div SwizzleSwitchY < NumLines
         /\ p = 2 => q \div SwizzleSwitchY < SwizzleSwitchY * NumBits
         /\ p = 3 => q \div SwizzleSwitchY < 2
<1>1. q \in Nat /\ q < NumStores(p)
  <2>1. /\ NumStores(1) \in Nat /\ NumStores(2) \in Nat /\ NumStores(3) \in Nat
    BY NumberOfStores
  <2>2. NumStores(p) \in Nat
    BY <2>1
  <2> QED
    BY <2>2 DEF Stores
<1>2. /\ q \div SwizzleSwitchY \in Nat /\ q % SwizzleSwitchY \in Positions
  BY <1>1, LineAndOffset DEF Positions
<1>3. ASSUME NEW lines \in Nat, NumStores(p) = lines * SwizzleSwitchY
      PROVE  q \div SwizzleSwitchY < lines
  <2>1. SwizzleSwitchY \in Nat \ {0} /\ q < lines * SwizzleSwitchY
    BY <1>1, <1>3
  <2> QED
    BY <1>1, <2>1, LineBelow, Zenon
<1>4. SwizzleSwitchY * NumBits \in Nat /\ NumLines \in Nat /\ 2 \in Nat
  BY DEF NumBits
<1> QED
  BY <1>1, <1>2, <1>3, <1>4, NumberOfStores

LEMMA LineOfMask ==
  ASSUME input \in Inputs, NEW q \in Stores(3)
  PROVE  q \div SwizzleSwitchY \in 0..1
<1>1. q \div SwizzleSwitchY \in Nat /\ q \div SwizzleSwitchY < 2
  BY LineOfStore
<1> QED
  BY <1>1

\* The byte of a store is one, also where the files have the code of 0.
LEMMA StoredByteTyped ==
  ASSUME AtInv, NEW p \in 1..3, NEW q \in Stores(p)
  PROVE  StoredByte(p, q) \in Bytes
<1>1. \A byte \in Bytes : Decode(Encode(byte)) \in Bytes
  BY DEF Decode, Encode, Bytes
<1>2. /\ q \in Nat /\ q \div SwizzleSwitchY \in Nat /\ q % SwizzleSwitchY \in Positions
      /\ p = 1 => q \div SwizzleSwitchY < NumLines
      /\ p = 2 => q \div SwizzleSwitchY < SwizzleSwitchY * NumBits
  BY LineOfStore DEF AtInv
<1>3. /\ program.rows \in [0..NumLines - 1 -> Vectors]
      /\ program.swizzle \in [STEs -> Vectors]
      /\ program.start \in Vectors /\ program.report \in Vectors
  BY ProgramAssumption DEF ProgramAssumption, AtInv
<1>4. CASE p = 1
  <2>1. program.rows[q \div SwizzleSwitchY][q % SwizzleSwitchY] \in Bytes
    BY <1>2, <1>3, <1>4 DEF Vectors
  <2> QED
    BY <1>1, <1>4, <2>1 DEF StoredByte, Phases
<1>5. CASE p = 2
  <2>1. program.swizzle[Ste(q \div SwizzleSwitchY)][q % SwizzleSwitchY] \in Bytes
    BY <1>2, <1>3, <1>5, ElementOfLine DEF Vectors
  <2> QED
    BY <1>1, <1>5, <2>1 DEF StoredByte, Phases
<1>6. CASE p = 3
  <2>1. /\ program.start[q % SwizzleSwitchY] \in Bytes
        /\ program.report[q % SwizzleSwitchY] \in Bytes
    BY <1>2, <1>3 DEF Vectors
  <2> QED
    BY <1>1, <1>6, <2>1 DEF StoredByte, Phases
<1> QED
  BY <1>4, <1>5, <1>6

\* An operation writes its byte and leaves the other bytes of its phase, but for those
\* that its access copies from beyond the first byte of the buffer.
Writes(p) ==
  \A q \in Stores(p) :
    Held(p, q)' = Copied(q, Pos, AccessLength, StoredByte(p, Pos), Held(p, q))

\* What is known when an operation of phase p is found.
Finds(p) ==
  /\ PlaceInv /\ Pending /\ p = at.phase /\ p \in 1..3
  /\ Pos \in Ops(p) /\ Pos \in Stores(p) /\ Pos \in Nat
  /\ Accesses(at.n, at.part, Pos, AccessLength)
  /\ AccessLength \in 1..SwizzleSwitchY
  /\ LineAt = Pos \div SwizzleSwitchY /\ OffsetAt = Pos % SwizzleSwitchY
  /\ StoredByte(p, Pos) \in Bytes

\* The bytes of the line that the access is to, before and after it.
LEMMA LineWritten ==
  ASSUME NEW p, Finds(p), NEW q \in Nat, NEW vector
  PROVE  CopiedInto(vector, Pos, AccessLength, StoredByte(p, Pos), q)
<1>1. /\ Pos \in Nat /\ AccessLength \in Nat
      /\ (Pos % SwizzleSwitchY) + AccessLength <= SwizzleSwitchY
  BY DEF Finds, Accesses
<1> QED
  BY <1>1, OverwrittenAt, Zenon

LEMMA DispatchFinds ==
  ASSUME PlaceInv, NEW p \in 1..3, Dispatch(Phases[p])
  PROVE  Finds(p) /\ at' = Following /\ issued' = issued /\ input' = input
                  /\ program' = program /\ capInsInfoMap' = capInsInfoMap \ {Address}
<1>1. /\ Pending /\ Phases[at.phase] = Phases[p] /\ Address \in capInsInfoMap
      /\ at' = Following /\ issued' = issued /\ input' = input
      /\ program' = program /\ capInsInfoMap' = capInsInfoMap \ {Address}
  BY DEF Dispatch
<1>2. at.phase \in 1..4 /\ at.phase <= 4
  BY <1>1 DEF PlaceInv, AtInv, AccessOK, Pending
<1>3. at.phase = p
  BY <1>1, <1>2 DEF Phases
<1>4. Pos \in Ops(p)
  BY <1>1, <1>2, <1>3, OperationAt DEF PlaceInv
<1>5. Accesses(at.n, at.part, Pos, AccessLength) /\ AccessLength \in 1..SwizzleSwitchY
  BY <1>2, AccessAt DEF PlaceInv
<1>6. Pos \in Stores(p) /\ Pos \in Nat
  BY <1>4, <1>5 DEF Ops, Accesses
<1>7. StoredByte(p, Pos) \in Bytes
  BY <1>6, StoredByteTyped DEF PlaceInv
<1> QED
  BY <1>1, <1>3, <1>4, <1>5, <1>6, <1>7 DEF Finds, LineAt, OffsetAt

\* Such an operation moves the sweep on.
LEMMA WritesSweep ==
  ASSUME NEW p \in 1..3, Finds(p), Writes(p), program' = program, input' = input,
         capInsInfoMap' = capInsInfoMap \ {Address}
  PROVE  Swept(NumStores(p), Ops(p)', Rights(p)', at.n + 1)
<1>1. /\ AtInv /\ at.phase = p /\ p <= issued /\ PhaseInv(p)
      /\ at.n \in Nat
  BY DEF Finds, PlaceInv, AtInv, AccessOK, Pending
<1>2. Ops(p)' = Ops(p) \ {Pos} /\ Stores(p)' = Stores(p)
  BY <1>1, OtherOperations
<1>3. Swept(NumStores(p), Ops(p), Rights(p), IF at.part = 1 THEN at.n ELSE at.n + 1)
  BY <1>1 DEF PhaseInv, DoneAt
<1>4. \A q \in Stores(p) : StoredByte(p, q)' = StoredByte(p, q)
  BY DEF StoredByte
<1>5. Pos \in Rights(p)'
  BY <1>2, <1>4 DEF Finds, Writes, Copied, Rights
<1>6. \A q \in Rights(p) : q \notin Pos + 1 .. Pos + AccessLength - 1 => q \in Rights(p)'
  BY <1>2, <1>4 DEF Writes, Copied, Rights, Finds
<1>7. NumStores(p) \in Nat
  BY <1>1, StoresAreNumbered
<1>8. Accesses(at.n, at.part, Pos, AccessLength) /\ Pos \in Ops(p)
  BY DEF Finds
<1>9. \A q \in Rights(p) :
        q \in 0..NumStores(p) - 1 /\ q \notin Pos + 1 .. Pos + AccessLength - 1 => q \in Rights(p)'
  BY <1>6
<1>10. Swept(NumStores(p), Ops(p) \ {Pos}, Rights(p)', at.n + 1)
  BY <1>1, <1>3, <1>5, <1>7, <1>8, <1>9, OperationSweeps, Zenon
<1> QED
  BY <1>2, <1>10

\* Of the other phases it takes nothing.
LEMMA OtherPhases ==
  ASSUME NEW p \in 1..3, NEW p2 \in 1..3, p2 # p, Finds(p), program' = program, input' = input,
         capInsInfoMap' = capInsInfoMap \ {Address},
         \A q \in Stores(p2) : Held(p2, q)' = Held(p2, q)
  PROVE  \A q \in Rights(p2) : q \in Rights(p2)'
<1>1. Stores(p2)' = Stores(p2)
  BY DEF Stores, NumStores
<1>2. \A q \in Stores(p2) : StoredByte(p2, q)' = StoredByte(p2, q)
  BY DEF StoredByte
<1> QED
  BY <1>1, <1>2 DEF Rights

LEMMA PhaseWrites ==
  ASSUME NEW p \in 1..3, PlaceInv, Dispatch(Phases[p]), Writes(p), StoresTyped',
         \A p2 \in 1..3 : p2 # p => \A q \in Stores(p2) : Held(p2, q)' = Held(p2, q)
  PROVE  PlaceInv'
<1>1. /\ Finds(p) /\ at' = Following /\ issued' = issued /\ input' = input
      /\ program' = program /\ capInsInfoMap' = capInsInfoMap \ {Address}
  BY DispatchFinds
<1>2. Pending /\ at.phase = p /\ at.phase <= 4
  BY <1>1 DEF Finds
<1>3. Swept(NumStores(p), Ops(p)', Rights(p)', at.n + 1)
  BY <1>1, WritesSweep
<1>4. \A p2 \in 1..3 : p2 < at.phase => \A q \in Rights(p2) : q \in Rights(p2)'
  BY <1>1, <1>2, OtherPhases
<1> QED
  BY <1>1, <1>2, <1>3, <1>4, PhaseStep

\* mapCacheLine: a byte of the sub-array.
LEMMA LinePlaced ==
  ASSUME PlaceInv, ProgramCacheLine
  PROVE  PlaceInv'
<1>1. Dispatch(Phases[1])
  BY DEF ProgramCacheLine, Phases
<1>2. Finds(1)
  BY <1>1, DispatchFinds
<1>3. /\ rows' = [rows EXCEPT ![LineAt] =
                    Overwritten(@, OffsetAt, StoredByte(at.phase, Pos), AccessLength)]
      /\ m_swizzleSwitch' = m_swizzleSwitch /\ m_startSTEMask' = m_startSTEMask
      /\ m_reportingSteInfo' = m_reportingSteInfo
  BY DEF ProgramCacheLine, capVars
<1>4. LineAt \in 0..NumLines - 1
  <2>1. input \in Inputs /\ Pos \in Stores(1) /\ LineAt = Pos \div SwizzleSwitchY
    BY <1>2 DEF Finds, PlaceInv, AtInv
  <2>2. Pos \div SwizzleSwitchY \in Nat /\ Pos \div SwizzleSwitchY < NumLines
    BY <2>1, LineOfStore
  <2> QED
    BY <2>1, <2>2
<1>5. StoresTyped'
  <2>1. StoresTyped /\ StoredByte(at.phase, Pos) \in StoredBytes
    BY <1>2 DEF Finds, PlaceInv, StoredBytes
  <2>2. Overwritten(rows[LineAt], OffsetAt, StoredByte(at.phase, Pos), AccessLength)
          \in StoredVectors
    BY <1>4, <2>1, OverwrittenTyped DEF StoresTyped
  <2> QED
    BY <1>3, <1>4, <2>1, <2>2 DEF StoresTyped
<1>6. Writes(1)
  <2> SUFFICES ASSUME NEW q \in Stores(1)
               PROVE  Held(1, q)' = Copied(q, Pos, AccessLength, StoredByte(1, Pos), Held(1, q))
    BY DEF Writes
  <2>1. /\ q \in Nat /\ q \div SwizzleSwitchY \in 0..NumLines - 1
        /\ Held(1, q) = rows[q \div SwizzleSwitchY][q % SwizzleSwitchY]
        /\ Held(1, q)' = rows'[q \div SwizzleSwitchY][q % SwizzleSwitchY]
    BY <1>2, LineOfStore DEF Finds, PlaceInv, AtInv, Held
  <2>2. rows'[q \div SwizzleSwitchY] =
          IF q \div SwizzleSwitchY = LineAt
          THEN Overwritten(rows[LineAt], OffsetAt, StoredByte(1, Pos), AccessLength)
          ELSE rows[q \div SwizzleSwitchY]
    BY <1>2, <1>3, <1>4, <2>1 DEF Finds, PlaceInv, StoresTyped
  <2>3. /\ CopiedInto(rows[LineAt], Pos, AccessLength, StoredByte(1, Pos), q)
        /\ LineAt = Pos \div SwizzleSwitchY /\ OffsetAt = Pos % SwizzleSwitchY
    BY <1>2, <2>1, LineWritten DEF LineAt, OffsetAt
  <2> QED
    BY <2>1, <2>2, <2>3, Zenon DEF CopiedInto
<1>7. \A p2 \in 1..3 : p2 # 1 => \A q \in Stores(p2) : Held(p2, q)' = Held(p2, q)
  BY <1>3 DEF Held
<1> QED
  BY <1>1, <1>5, <1>6, <1>7, PhaseWrites

\* updateSwizzleSwitch: a byte of what an element activates.
LEMMA SwitchPlaced ==
  ASSUME PlaceInv, ProgramSwizzleSwitch
  PROVE  PlaceInv'
<1>1. Dispatch(Phases[2])
  BY DEF ProgramSwizzleSwitch, Phases
<1>2. Finds(2)
  BY <1>1, DispatchFinds
<1>3. /\ m_swizzleSwitch' = [m_swizzleSwitch EXCEPT ![Ste(LineAt)] =
                    Overwritten(@, OffsetAt, StoredByte(at.phase, Pos), AccessLength)]
      /\ rows' = rows /\ m_startSTEMask' = m_startSTEMask
      /\ m_reportingSteInfo' = m_reportingSteInfo
  BY DEF ProgramSwizzleSwitch, UpdateSwizzleSwitch
<1>4. LineAt \in Nat /\ Ste(LineAt) \in STEs
  BY <1>2, LineOfStore, ElementOfLine DEF Finds, PlaceInv, AtInv
<1>5. StoresTyped'
  BY <1>2, <1>3, <1>4, OverwrittenTyped DEF Finds, PlaceInv, StoresTyped, StoredBytes
<1>6. Writes(2)
  <2> SUFFICES ASSUME NEW q \in Stores(2)
               PROVE  Held(2, q)' = Copied(q, Pos, AccessLength, StoredByte(2, Pos), Held(2, q))
    BY DEF Writes
  <2>1. /\ q \in Nat /\ q \div SwizzleSwitchY \in Nat
        /\ q \div SwizzleSwitchY < SwizzleSwitchY * NumBits
        /\ Held(2, q) = m_swizzleSwitch[Ste(q \div SwizzleSwitchY)][q % SwizzleSwitchY]
        /\ Held(2, q)' = m_swizzleSwitch'[Ste(q \div SwizzleSwitchY)][q % SwizzleSwitchY]
    BY <1>2, LineOfStore DEF Finds, PlaceInv, AtInv, Held
  <2>2. Ste(q \div SwizzleSwitchY) \in STEs
    BY <2>1, ElementOfLine
  <2>3. Ste(q \div SwizzleSwitchY) = Ste(LineAt) <=> q \div SwizzleSwitchY = LineAt
    BY <1>4, <2>1, ElementsDiffer
  <2>4. m_swizzleSwitch'[Ste(q \div SwizzleSwitchY)] =
          IF q \div SwizzleSwitchY = LineAt
          THEN Overwritten(m_swizzleSwitch[Ste(LineAt)], OffsetAt, StoredByte(2, Pos),
                           AccessLength)
          ELSE m_swizzleSwitch[Ste(q \div SwizzleSwitchY)]
    BY <1>2, <1>3, <1>4, <2>2, <2>3 DEF Finds, PlaceInv, StoresTyped
  <2>5. /\ CopiedInto(m_swizzleSwitch[Ste(LineAt)], Pos, AccessLength, StoredByte(2, Pos), q)
        /\ LineAt = Pos \div SwizzleSwitchY /\ OffsetAt = Pos % SwizzleSwitchY
    BY <1>2, <2>1, LineWritten DEF LineAt, OffsetAt
  <2> QED
    BY <2>1, <2>4, <2>5, Zenon DEF CopiedInto
<1>7. \A p2 \in 1..3 : p2 # 2 => \A q \in Stores(p2) : Held(p2, q)' = Held(p2, q)
  BY <1>3 DEF Held
<1> QED
  BY <1>1, <1>5, <1>6, <1>7, PhaseWrites

\* updateStartStateMask, updateReportingSteInfo: a byte of a mask.
LEMMA MasksPlaced ==
  ASSUME PlaceInv, ProgramMasks
  PROVE  PlaceInv'
<1>1. Dispatch(Phases[3])
  BY DEF ProgramMasks, Phases
<1>2. Finds(3)
  BY <1>1, DispatchFinds
<1>3. /\ rows' = rows /\ m_swizzleSwitch' = m_swizzleSwitch
      /\ m_startSTEMask' =
           IF LineAt = 0
           THEN Overwritten(m_startSTEMask, OffsetAt, StoredByte(3, Pos), AccessLength)
           ELSE m_startSTEMask
      /\ m_reportingSteInfo' =
           IF LineAt = 0 THEN m_reportingSteInfo
           ELSE Overwritten(m_reportingSteInfo, OffsetAt, StoredByte(3, Pos), AccessLength)
  BY <1>2 DEF ProgramMasks, UpdateStartStateMask, UpdateReportingSteInfo, Finds
<1>4. LineAt \in 0..1
  BY <1>2, LineOfMask DEF Finds, PlaceInv, AtInv
<1>5. StoresTyped'
  BY <1>2, <1>3, OverwrittenTyped DEF Finds, PlaceInv, StoresTyped, StoredBytes
<1>6. Writes(3)
  <2> SUFFICES ASSUME NEW q \in Stores(3)
               PROVE  Held(3, q)' = Copied(q, Pos, AccessLength, StoredByte(3, Pos), Held(3, q))
    BY DEF Writes
  <2>1. /\ q \in Nat /\ q \div SwizzleSwitchY \in 0..1
        /\ Held(3, q) = IF q \div SwizzleSwitchY = 0
                        THEN m_startSTEMask[q % SwizzleSwitchY]
                        ELSE m_reportingSteInfo[q % SwizzleSwitchY]
        /\ Held(3, q)' = IF q \div SwizzleSwitchY = 0
                         THEN m_startSTEMask'[q % SwizzleSwitchY]
                         ELSE m_reportingSteInfo'[q % SwizzleSwitchY]
    <3>1. q \in Nat /\ q \div SwizzleSwitchY \in 0..1
      BY <1>2, LineOfStore, LineOfMask DEF Finds, PlaceInv, AtInv
    <3> QED
      BY <3>1 DEF Held
  <2>2. /\ CopiedInto(m_startSTEMask, Pos, AccessLength, StoredByte(3, Pos), q)
        /\ CopiedInto(m_reportingSteInfo, Pos, AccessLength, StoredByte(3, Pos), q)
        /\ LineAt = Pos \div SwizzleSwitchY /\ OffsetAt = Pos % SwizzleSwitchY
    BY <1>2, <2>1, LineWritten DEF LineAt, OffsetAt
  <2>3. CASE q \div SwizzleSwitchY = 0
    <3>1. Held(3, q) = m_startSTEMask[q % SwizzleSwitchY]
          /\ Held(3, q)' = m_startSTEMask'[q % SwizzleSwitchY]
      BY <2>1, <2>3
    <3>2. CASE LineAt = 0
      BY <1>3, <2>2, <2>3, <3>1, <3>2, Zenon DEF CopiedInto
    <3>3. CASE LineAt # 0
      BY <1>3, <2>2, <2>3, <3>1, <3>3, Zenon DEF CopiedInto
    <3> QED
      BY <3>2, <3>3
  <2>4. CASE q \div SwizzleSwitchY = 1
    <3>1. Held(3, q) = m_reportingSteInfo[q % SwizzleSwitchY]
          /\ Held(3, q)' = m_reportingSteInfo'[q % SwizzleSwitchY]
          /\ q \div SwizzleSwitchY # 0
      BY <2>1, <2>4
    <3>2. CASE LineAt = 0
      BY <1>3, <2>2, <3>1, <3>2, Zenon DEF CopiedInto
    <3>3. CASE LineAt = 1
      <4>1. LineAt # 0 /\ q \div SwizzleSwitchY = LineAt
        BY <2>4, <3>3
      <4> QED
        BY <1>3, <2>2, <3>1, <4>1, Zenon DEF CopiedInto
    <3> QED
      BY <1>4, <3>2, <3>3
  <2> QED
    BY <2>1, <2>3, <2>4
<1>7. \A p2 \in 1..3 : p2 # 3 => \A q \in Stores(p2) : Held(p2, q)' = Held(p2, q)
  BY <1>3 DEF Held
<1> QED
  BY <1>1, <1>5, <1>6, <1>7, PhaseWrites

\* An access to an address that stands for nothing spoils at most the rows of the
\* characters 1 and 2: in the line of the start mask every access finds its operation.
LEMMA NothingPlaced ==
  ASSUME PlaceInv, NormalStore, at.phase <= 4
  PROVE  PlaceInv'
<1>1. /\ Pending /\ Address \notin capInsInfoMap /\ at' = Following
      /\ rows' = IF Tags[at.phase] = "plain" /\ LineAt < NumLines
                 THEN [rows EXCEPT ![LineAt] = Overwritten(@, OffsetAt, Garbage, AccessLength)]
                 ELSE rows
      /\ m_swizzleSwitch' = m_swizzleSwitch /\ m_startSTEMask' = m_startSTEMask
      /\ m_reportingSteInfo' = m_reportingSteInfo
      /\ program' = program /\ input' = input /\ issued' = issued
      /\ capInsInfoMap' = capInsInfoMap
  BY DEF NormalStore, capVars
<1>2. /\ at.phase \in 1..4 /\ at.n \in Nat /\ at.n < NumStores(at.phase) /\ at.part \in 1..2
      /\ at.phase <= issued
  BY <1>1 DEF PlaceInv, AtInv, AccessOK, Pending
<1>3. /\ Accesses(at.n, at.part, Pos, AccessLength)
      /\ at.part = 2 => Pos = (at.n \div SwizzleSwitchY) * SwizzleSwitchY + SwizzleSwitchY
  BY AccessAt DEF PlaceInv
<1>4. ASSUME NEW p \in 1..3, p = at.phase
      PROVE  /\ Pos \notin Ops(p)
             /\ Swept(NumStores(p), Ops(p), Rights(p), IF at.part = 1 THEN at.n ELSE at.n + 1)
             /\ Swept(NumStores(p), Ops(p), Rights(p), at.n + 1)
             /\ NumStores(p) \in Nat
  <2>1. Pos \notin Ops(p)
    BY <1>1, <1>4 DEF Ops, Address
  <2>2. Swept(NumStores(p), Ops(p), Rights(p), IF at.part = 1 THEN at.n ELSE at.n + 1)
    BY <1>2, <1>4 DEF PlaceInv, PhaseInv, DoneAt
  <2>3. NumStores(p) \in Nat
    BY StoresAreNumbered DEF PlaceInv
  <2> QED
    BY <1>2, <1>3, <2>1, <2>2, <2>3, StoreSweeps
<1>5. CASE rows' = rows
  <2>1. \A p \in 1..3 : Stores(p)' = Stores(p) /\ Rights(p)' = Rights(p)
    <3>1. ASSUME NEW p \in 1..3, NEW q PROVE Held(p, q)' = Held(p, q)
      BY <1>1, <1>5 DEF Held
    <3>2. ASSUME NEW p \in 1..3, NEW q PROVE StoredByte(p, q)' = StoredByte(p, q)
      BY <1>1 DEF StoredByte
    <3>3. \A p \in 1..3 : Stores(p)' = Stores(p)
      BY <1>1 DEF Stores, NumStores
    <3> QED
      BY <3>1, <3>2, <3>3 DEF Rights
  <2>2. \A p \in 1..3 : Ops(p)' = Ops(p)
    BY <1>1, <2>1 DEF Ops
  <2>3. StoresTyped'
    BY <1>1, <1>5 DEF PlaceInv, StoresTyped
  <2>4. \A p \in 1..3 : p = at.phase => Swept(NumStores(p), Ops(p)', Rights(p)', at.n + 1)
    BY <1>4, <2>1, <2>2
  <2> QED
    BY <1>1, <2>1, <2>3, <2>4, PhaseStep
<1>6. CASE rows' # rows
  <2>1. at.phase = 3 /\ LineAt < NumLines /\ at.n \in Stores(3)
    <3>1. at.phase = 3 /\ LineAt < NumLines
      BY <1>1, <1>2, <1>6 DEF Tags
    <3>2. at.n < NumStores(3) /\ NumStores(3) \in Nat
      BY <1>2, <3>1, NumberOfStores DEF PlaceInv, AtInv
    <3> QED
      BY <1>2, <3>1, <3>2 DEF Stores
  <2>2. LineAt \in SpilledLines
    <3>1. CASE at.part = 1
      <4>1. Pos = at.n /\ Pos \in Stores(3)
        BY <1>3, <2>1, <3>1 DEF Accesses
      <4>2. Pos % SwizzleSwitchY = 0 /\ Pos >= SwizzleSwitchY
        BY <1>4, <2>1, <3>1, <4>1 DEF Swept, Stores
      <4>3. /\ LineAt \in 0..1
            /\ Pos = SwizzleSwitchY * LineAt + (Pos % SwizzleSwitchY)
        <5>1. LineAt \in 0..1 /\ Pos \in Nat
          BY <1>3, <4>1, LineOfMask DEF LineAt, PlaceInv, AtInv, Accesses
        <5> QED
          BY <5>1, LineAndOffset DEF LineAt
      <4>4. LineAt # 0
        BY <4>2, <4>3
      <4> QED
        BY <4>3, <4>4 DEF SpilledLines
    <3>2. CASE at.part = 2
      <4>2. at.n \div SwizzleSwitchY \in 0..1
        BY <2>1, LineOfMask DEF PlaceInv, AtInv
      <4>3. Pos = (at.n \div SwizzleSwitchY + 1) * SwizzleSwitchY + 0
        BY <1>3, <3>2, <4>2
      <4>4. LineAt = at.n \div SwizzleSwitchY + 1
        <5>1. /\ SwizzleSwitchY \in Nat \ {0} /\ at.n \div SwizzleSwitchY + 1 \in Nat
              /\ 0 \in 0..SwizzleSwitchY - 1
          BY <4>2
        <5> QED
          BY <4>3, <5>1, PositionOf, Zenon DEF LineAt
      <4> QED
        BY <4>2, <4>4 DEF SpilledLines
    <3> QED
      BY <1>2, <3>1, <3>2
  <2>3. LineAt \in 0..NumLines - 1
    BY <2>1, <2>2 DEF SpilledLines
  <2>4. rows' = [rows EXCEPT ![LineAt] = Overwritten(@, OffsetAt, Garbage, AccessLength)]
    BY <1>1, <1>6
  <2>5. StoresTyped'
    BY <1>1, <2>3, <2>4, OverwrittenTyped DEF PlaceInv, StoresTyped, StoredBytes
  <2>6. \A line \in 0..NumLines - 1 : line \notin SpilledLines => rows'[line] = rows[line]
    BY <2>2, <2>3, <2>4 DEF PlaceInv, StoresTyped
  <2>7. \A p \in 1..3 : Stores(p)' = Stores(p)
    BY <1>1 DEF Stores, NumStores
  <2>8. ASSUME NEW q \in Rights(1), Lasts(1, q) PROVE q \in Rights(1)'
    <3>1. q \in Stores(1) /\ q \div SwizzleSwitchY \in 0..NumLines - 1
      BY LineOfStore DEF Rights, PlaceInv, AtInv
    <3>2. Held(1, q)' = Held(1, q)
      BY <2>6, <2>8, <3>1 DEF Held, Lasts
    <3>3. StoredByte(1, q)' = StoredByte(1, q)
      BY <1>1 DEF StoredByte
    <3> QED
      BY <2>7, <3>1, <3>2, <3>3 DEF Rights
  <2>9. \A p \in 2..3 : Rights(p)' = Rights(p)
    <3>1. ASSUME NEW p \in 2..3, NEW q PROVE Held(p, q)' = Held(p, q)
      BY <1>1 DEF Held
    <3>2. ASSUME NEW p \in 2..3, NEW q PROVE StoredByte(p, q)' = StoredByte(p, q)
      BY <1>1 DEF StoredByte
    <3> QED
      BY <2>7, <3>1, <3>2 DEF Rights
  <2>10. \A p \in 1..3 : p = at.phase => Swept(NumStores(p), Ops(p)', Rights(p)', at.n + 1)
    <3>1. Ops(3)' = Ops(3)
      BY <1>1, <2>7 DEF Ops
    <3> QED
      BY <1>4, <2>1, <2>9, <3>1
  <2>11. \A p \in 1..3 : p < at.phase =>
           \A q \in Rights(p) : Lasts(p, q) => q \in Rights(p)'
    BY <2>8, <2>9
  <2> QED
    BY <1>1, <2>5, <2>10, <2>11, PhaseStep
<1> QED
  BY <1>5, <1>6

\* Matching leaves the automaton alone.
LEMMA MatchingPlacesNothing ==
  ASSUME PlaceInv, Dispatch("match"), rows' = rows, m_swizzleSwitch' = m_swizzleSwitch,
         m_startSTEMask' = m_startSTEMask, m_reportingSteInfo' = m_reportingSteInfo
  PROVE  PlaceInv' /\ at.phase = 4
<1>1. /\ Pending /\ Phases[at.phase] = "match" /\ at' = Following
      /\ program' = program /\ input' = input /\ issued' = issued
      /\ capInsInfoMap' = capInsInfoMap \ {Address}
  BY DEF Dispatch
<1>2. at.phase \in 1..4
  BY <1>1 DEF PlaceInv, AtInv, AccessOK, Pending
<1>3. at.phase = 4
  BY <1>1, <1>2 DEF Phases
<1>4. \A p \in 1..3 : Rights(p)' = Rights(p)
  <2>1. ASSUME NEW p \in 1..3, NEW q PROVE Held(p, q)' = Held(p, q)
    BY DEF Held
  <2>2. ASSUME NEW p \in 1..3, NEW q PROVE StoredByte(p, q)' = StoredByte(p, q)
    BY <1>1 DEF StoredByte
  <2>3. \A p \in 1..3 : Stores(p)' = Stores(p)
    BY <1>1 DEF Stores, NumStores
  <2> QED
    BY <2>1, <2>2, <2>3 DEF Rights
<1>5. StoresTyped'
  BY DEF PlaceInv, StoresTyped
<1>6. PlaceInv'
  BY <1>1, <1>3, <1>4, <1>5, PhaseStep
<1> QED
  BY <1>3, <1>6

\* A marker announces the operations of the next phase, none of which has begun.
LEMMA MarkerPlacesNothing ==
  ASSUME PlaceInv, ProcessAppMagic
  PROVE  PlaceInv'
<1>1. /\ issued < 4 /\ issued' = issued + 1
      /\ capInsInfoMap' = capInsInfoMap \cup
           {<<Tags[issued + 1], n>> : n \in 0..NumStores(issued + 1) - 1}
      /\ at' = at /\ rows' = rows /\ program' = program /\ input' = input
      /\ m_swizzleSwitch' = m_swizzleSwitch /\ m_startSTEMask' = m_startSTEMask
      /\ m_reportingSteInfo' = m_reportingSteInfo
  BY DEF ProcessAppMagic, Phases, capVars
<1>2. issued \in 0..3 /\ at.phase \in 1..5 /\ at.phase <= issued + 1
  BY <1>1 DEF PlaceInv, AtInv, AccessOK
<1>3. AtInv'
  <2>1. AccessOK(at)'
    <3>1. \A p : NumStores(p)' = NumStores(p)
      BY <1>1 DEF NumStores
    <3>2. AccessOK(at) /\ (at.phase > issued + 1 => at.phase > issued)
      BY <1>2 DEF PlaceInv, AtInv
    <3> QED
      BY <1>1, <3>1, <3>2 DEF AccessOK
  <2> QED
    BY <1>1, <1>2, <2>1 DEF PlaceInv, AtInv
<1>4. StoresTyped'
  BY <1>1 DEF PlaceInv, StoresTyped
<1>5. \A p : Stores(p)' = Stores(p) /\ NumStores(p)' = NumStores(p)
  BY <1>1 DEF Stores, NumStores
<1>6. MapInv'
  <2> SUFFICES ASSUME NEW a \in capInsInfoMap'
               PROVE  \E p \in 1..issued' : \E q \in Stores(p) : a = <<Tags[p], q>>
    BY <1>5 DEF MapInv
  <2>1. CASE a \in capInsInfoMap
    <3>1. PICK p \in 1..issued : \E q \in Stores(p) : a = <<Tags[p], q>>
      BY <2>1 DEF PlaceInv, MapInv
    <3>2. p \in 1..issued'
      BY <1>1, <1>2
    <3> QED
      BY <3>1, <3>2
  <2>2. CASE a \notin capInsInfoMap
    <3>1. \E q \in Stores(issued + 1) : a = <<Tags[issued + 1], q>>
      BY <1>1, <2>2 DEF Stores
    <3>2. issued + 1 \in 1..issued'
      BY <1>1, <1>2
    <3> QED
      BY <3>1, <3>2
  <2> QED
    BY <2>1, <2>2
<1>7. ASSUME NEW p \in 1..3 PROVE PhaseInv(p)'
  <2>1. Rights(p)' = Rights(p)
    <3>1. ASSUME NEW q PROVE Held(p, q)' = Held(p, q) /\ StoredByte(p, q)' = StoredByte(p, q)
      BY <1>1 DEF Held, StoredByte
    <3> QED
      BY <1>5, <3>1 DEF Rights
  <2>2. p # issued + 1 => Ops(p)' = Ops(p)
    <3>1. ASSUME p # issued + 1, NEW n, NEW q PROVE <<Tags[issued + 1], n>> # <<Tags[p], q>>
      <4>1. issued + 1 \in 1..4 /\ p \in 1..4
        BY <1>2
      <4> QED
        BY <3>1, <4>1, TagsDiffer
    <3>2. ASSUME p # issued + 1, NEW q
          PROVE  <<Tags[p], q>> \in capInsInfoMap' <=> <<Tags[p], q>> \in capInsInfoMap
      BY <1>1, <3>1, <3>2
    <3> QED
      BY <1>5, <3>2 DEF Ops
  <2>3. p = issued + 1 => Stores(p) \subseteq Ops(p)'
    BY <1>1, <1>5 DEF Ops, Stores
  <2>4. PhaseInv(p) /\ DoneAt(at)' = DoneAt(at) /\ \A q : Lasts(p, q)' = Lasts(p, q)
    BY <1>1 DEF PlaceInv, DoneAt, Lasts
  <2>5. CASE p # issued + 1
    <3>1. p <= issued' => p <= issued
      BY <1>1, <1>2, <2>5
    <3> QED
      BY <1>1, <1>5, <2>1, <2>2, <2>4, <2>5, <3>1 DEF PhaseInv
  <2>6. CASE p = issued + 1
    <3>1. ~ (at.phase > p)
      BY <1>2, <2>6
    <3>2. at.phase = p => DoneAt(at) = 0
      <4> SUFFICES ASSUME at.phase = p PROVE DoneAt(at) = 0
        OBVIOUS
      <4>1. at.phase > issued
        BY <1>2, <2>6
      <4>2. at = [phase |-> at.phase, n |-> 0, part |-> 1]
        BY <4>1 DEF PlaceInv, AtInv, AccessOK
      <4> QED
        BY <4>2 DEF DoneAt
    <3>3. Swept(NumStores(p), Ops(p)', Rights(p)', 0)
      BY <2>3, <2>6 DEF Swept, Stores
    <3> QED
      BY <1>1, <1>5, <2>3, <2>4, <2>6, <3>1, <3>2, <3>3 DEF PhaseInv
  <2> QED
    BY <2>5, <2>6
<1> QED
  BY <1>3, <1>4, <1>6, <1>7 DEF PlaceInv

LEMMA InitPlace == Init => PlaceInv
<1> SUFFICES ASSUME Init PROVE PlaceInv
  OBVIOUS
<1>1. /\ issued = 0 /\ at = [phase |-> 1, n |-> 0, part |-> 1] /\ capInsInfoMap = {}
      /\ program \in Programs /\ input \in Inputs
      /\ rows = [c \in 0..NumLines - 1 |-> Unwritten]
      /\ m_swizzleSwitch = [s \in STEs |-> Unwritten]
      /\ m_startSTEMask = Unwritten /\ m_reportingSteInfo = Unwritten
  BY DEF Init, CapInit
<1>2. AtInv
  <2>1. 0 < NumStores(1)
    BY <1>1, NumberOfStores
  <2>2. 1 \in DOMAIN Parts(0, Size(1))
    BY FirstPart
  <2> QED
    BY <1>1, <2>1, <2>2 DEF AtInv, AccessOK
<1>3. StoresTyped
  <2>1. Unwritten \in StoredVectors
    BY DEF Unwritten, StoredVectors, StoredBytes
  <2> QED
    BY <1>1, <2>1 DEF StoresTyped
<1>4. \A p \in 1..3 : PhaseInv(p)
  BY <1>1 DEF PhaseInv
<1>5. MapInv
  BY <1>1 DEF MapInv
<1> QED
  BY <1>2, <1>3, <1>4, <1>5 DEF PlaceInv

\* In phase 5 the simulation has ended or nothing is pending.
LEMMA NextPlace == PlaceInv /\ [Next]_vars => PlaceInv'
<1> SUFFICES ASSUME PlaceInv, [Next]_vars PROVE PlaceInv'
  OBVIOUS
<1>1. CASE ProcessAppMagic
  BY <1>1, MarkerPlacesNothing
<1>2. CASE ProgramCacheLine
  BY <1>2, LinePlaced
<1>3. CASE ProgramSwizzleSwitch
  BY <1>3, SwitchPlaced
<1>4. CASE ProgramMasks
  BY <1>4, MasksPlaced
<1>5. CASE MatchCharacter
  <2>1. /\ Dispatch("match") /\ rows' = rows /\ m_swizzleSwitch' = m_swizzleSwitch
        /\ m_startSTEMask' = m_startSTEMask /\ m_reportingSteInfo' = m_reportingSteInfo
    BY <1>5 DEF MatchCharacter, ProcessPatternMatch
  <2> QED
    BY <2>1, MatchingPlacesNothing
<1>6. CASE EndOfInput
  <2>1. /\ Dispatch("match") /\ rows' = rows /\ m_swizzleSwitch' = m_swizzleSwitch
        /\ m_startSTEMask' = m_startSTEMask /\ m_reportingSteInfo' = m_reportingSteInfo
    BY <1>6 DEF EndOfInput, capVars
  <2> QED
    BY <2>1, MatchingPlacesNothing
<1>7. CASE NormalStore
  <2>1. at.phase <= 4
    BY <1>7 DEF NormalStore, Pending, PlaceInv, AtInv, AccessOK
  <2> QED
    BY <1>7, <2>1, NothingPlaced
<1>8. CASE UNCHANGED vars
  <2>1. /\ UNCHANGED <<rows, program, input, capInsInfoMap, issued, at>>
        /\ UNCHANGED <<m_swizzleSwitch, m_startSTEMask, m_reportingSteInfo>>
    BY <1>8 DEF vars, capVars
  <2>2. AtInv' /\ StoresTyped' /\ MapInv'
    BY <2>1 DEF PlaceInv, AtInv, AccessOK, NumStores, StoresTyped, MapInv, Stores
  <2>3. ASSUME NEW p \in 1..3 PROVE PhaseInv(p)'
    <3>1. Stores(p)' = Stores(p) /\ NumStores(p)' = NumStores(p) /\ DoneAt(at)' = DoneAt(at)
      BY <2>1 DEF Stores, NumStores, DoneAt
    <3>2. ASSUME NEW q PROVE /\ Held(p, q)' = Held(p, q) /\ StoredByte(p, q)' = StoredByte(p, q)
                             /\ Lasts(p, q)' = Lasts(p, q)
      BY <2>1 DEF Held, StoredByte, Lasts
    <3>3. Ops(p)' = Ops(p) /\ Rights(p)' = Rights(p)
      BY <2>1, <3>1, <3>2 DEF Ops, Rights
    <3> QED
      BY <2>1, <3>1, <3>2, <3>3 DEF PlaceInv, PhaseInv
  <2> QED
    BY <2>2, <2>3 DEF PlaceInv
<1> QED
  BY <1>1, <1>2, <1>3, <1>4, <1>5, <1>6, <1>7, <1>8 DEF Next, Done

-----------------------------------------------------------------------------
(* The programmed automaton.                                               *)

\* The byte of a file that a store of phase p carries.
FileByte(p, q) ==
  LET line == q \div SwizzleSwitchY
      offset == q % SwizzleSwitchY
  IN  CASE p = 1 -> program.rows[line][offset]
        [] p = 2 -> program.swizzle[Ste(line)][offset]
        [] p = 3 -> IF line = 0 THEN program.start[offset] ELSE program.report[offset]

LEMMA StoredIsDecoded ==
  ASSUME NEW p \in 1..3, NEW q
  PROVE  StoredByte(p, q) = Decode(Encode(FileByte(p, q)))
<1>1. CASE p = 1
  BY <1>1 DEF StoredByte, FileByte, Phases
<1>2. CASE p = 2
  BY <1>2 DEF StoredByte, FileByte, Phases
<1>3. CASE p = 3
  BY <1>3 DEF StoredByte, FileByte, Phases
<1> QED
  BY <1>1, <1>2, <1>3

\* No file has the byte that stands for 0: the markers' encoding keeps all others apart.
NoZeroCode ==
  \A p \in Programs : \A i \in Positions :
    /\ \A c \in 0..NumLines - 1 : p.rows[c][i] # ZeroCode
    /\ \A s \in STEs : p.swizzle[s][i] # ZeroCode
    /\ p.start[i] # ZeroCode /\ p.report[i] # ZeroCode

\* What each vector holds after its phase, byte by byte.
LEMMA Placed ==
  ASSUME PlaceInv, NEW p \in 1..3, at.phase > p, NEW line \in Nat, NEW i \in Positions,
         p = 1 => line \in 0..NumLines - 1 /\ line \notin SpilledLines,
         p = 2 => line < SwizzleSwitchY * NumBits,
         p = 3 => line \in 0..1
  PROVE  LET q == line * SwizzleSwitchY + i
         IN  /\ q \div SwizzleSwitchY = line /\ q % SwizzleSwitchY = i
             /\ q \in Stores(p)
             /\ Held(p, q) = StoredByte(p, q)
<1> DEFINE q == line * SwizzleSwitchY + i
<1>1. q \in Nat /\ q \div SwizzleSwitchY = line /\ q % SwizzleSwitchY = i
  BY PositionOf DEF Positions
<1>2. ASSUME NEW lines \in Nat, line < lines, NumStores(p) = lines * SwizzleSwitchY
      PROVE  q \in Stores(p)
  <2>1. line \in 0..lines - 1 /\ i \in 0..SwizzleSwitchY - 1 /\ SwizzleSwitchY \in Nat \ {0}
    BY <1>2 DEF Positions
  <2>2. q < lines * SwizzleSwitchY
    BY <1>2, <2>1, PositionBelow, Zenon
  <2>3. lines * SwizzleSwitchY \in Nat
    BY <1>2
  <2> HIDE DEF q
  <2>4. q < NumStores(p) /\ NumStores(p) \in Nat
    BY <1>2, <2>2, <2>3, Zenon
  <2> QED
    BY <1>1, <2>4 DEF Stores
<1>3. q \in Stores(p)
  <2>1. /\ NumStores(1) = NumLines * SwizzleSwitchY
        /\ NumStores(2) = SwizzleSwitchY * NumBits * SwizzleSwitchY
        /\ NumStores(3) = 2 * SwizzleSwitchY
    BY NumberOfStores DEF PlaceInv, AtInv
  <2>2. SwizzleSwitchY * NumBits \in Nat /\ NumLines \in Nat /\ 2 \in Nat
    BY DEF NumBits
  <2> HIDE DEF q
  <2>3. CASE p = 1
    <3>1. line < NumLines
      BY <2>3
    <3> QED
      BY <1>2, <2>1, <2>2, <2>3, <3>1, Zenon
  <2>4. CASE p = 2
    BY <1>2, <2>1, <2>2, <2>4, Zenon
  <2>5. CASE p = 3
    <3>1. line < 2
      BY <2>5
    <3> QED
      BY <1>2, <2>1, <2>2, <2>5, <3>1, Zenon
  <2> QED
    BY <2>3, <2>4, <2>5
<1>4. Lasts(p, q)
  BY <1>1 DEF Lasts
<1> HIDE DEF q
<1>5. Held(p, q) = StoredByte(p, q)
  BY <1>3, <1>4 DEF PlaceInv, PhaseInv, Rights
<1> QED
  BY <1>1, <1>3, <1>5 DEF q

\* Each vector is a vector of bytes of the files.
LEMMA PlacedVectors ==
  ASSUME PlaceInv, at.phase > 3
  PROVE  /\ \A c \in 0..NumLines - 1 : c \notin SpilledLines =>
              \A i \in Positions : rows[c][i] = Decode(Encode(program.rows[c][i]))
         /\ \A s \in STEs : \A i \in Positions :
              m_swizzleSwitch[s][i] = Decode(Encode(program.swizzle[s][i]))
         /\ \A i \in Positions : m_startSTEMask[i] = Decode(Encode(program.start[i]))
         /\ \A i \in Positions : m_reportingSteInfo[i] = Decode(Encode(program.report[i]))
<1>0. at.phase > 1 /\ at.phase > 2 /\ at.phase > 3
  BY DEF PlaceInv, AtInv, AccessOK
<1>1. ASSUME NEW c \in 0..NumLines - 1, c \notin SpilledLines, NEW i \in Positions
      PROVE  rows[c][i] = Decode(Encode(program.rows[c][i]))
  <2>1. PICK q : /\ q \div SwizzleSwitchY = c /\ q % SwizzleSwitchY = i
                 /\ Held(1, q) = StoredByte(1, q)
    BY <1>0, <1>1, Placed
  <2>2. Held(1, q) = rows[c][i] /\ FileByte(1, q) = program.rows[c][i]
    BY <2>1 DEF Held, FileByte
  <2> QED
    BY <2>1, <2>2, StoredIsDecoded
<1>2. ASSUME NEW s \in STEs, NEW i \in Positions
      PROVE  m_swizzleSwitch[s][i] = Decode(Encode(program.swizzle[s][i]))
  <2>1. PICK line \in Nat : line < SwizzleSwitchY * NumBits /\ Ste(line) = s
    BY LineOfElement
  <2>2. PICK q : /\ q \div SwizzleSwitchY = line /\ q % SwizzleSwitchY = i
                 /\ Held(2, q) = StoredByte(2, q)
    BY <1>0, <1>2, <2>1, Placed
  <2>3. Held(2, q) = m_swizzleSwitch[s][i] /\ FileByte(2, q) = program.swizzle[s][i]
    BY <2>1, <2>2 DEF Held, FileByte
  <2> QED
    BY <2>2, <2>3, StoredIsDecoded
<1>3. ASSUME NEW i \in Positions
      PROVE  m_startSTEMask[i] = Decode(Encode(program.start[i]))
  <2>1. PICK q : /\ q \div SwizzleSwitchY = 0 /\ q % SwizzleSwitchY = i
                 /\ Held(3, q) = StoredByte(3, q)
    BY <1>0, <1>3, Placed
  <2>2. Held(3, q) = m_startSTEMask[i] /\ FileByte(3, q) = program.start[i]
    BY <2>1 DEF Held, FileByte
  <2> QED
    BY <2>1, <2>2, StoredIsDecoded
<1>4. ASSUME NEW i \in Positions
      PROVE  m_reportingSteInfo[i] = Decode(Encode(program.report[i]))
  <2>1. PICK q : /\ q \div SwizzleSwitchY = 1 /\ q % SwizzleSwitchY = i
                 /\ Held(3, q) = StoredByte(3, q)
    BY <1>0, <1>4, Placed
  <2>2. Held(3, q) = m_reportingSteInfo[i] /\ FileByte(3, q) = program.report[i]
    BY <2>1 DEF Held, FileByte
  <2> QED
    BY <2>1, <2>2, StoredIsDecoded
<1> QED
  BY <1>1, <1>2, <1>3, <1>4

\* Vectors that agree byte by byte are the same.
LEMMA SameVector ==
  ASSUME NEW v \in StoredVectors, NEW w \in Vectors, \A i \in Positions : v[i] = w[i]
  PROVE  v = w
BY DEF StoredVectors, Vectors

LEMMA PlacedIsProgram ==
  ASSUME PlaceInv, NoZeroCode
  PROVE  ProgramInPlace
<1> SUFFICES ASSUME at.phase > 3
             PROVE  /\ m_swizzleSwitch = program.swizzle
                    /\ m_startSTEMask = program.start
                    /\ m_reportingSteInfo = program.report
                    /\ \A c \in 0..NumLines - 1 :
                         c \notin SpilledLines => rows[c] = program.rows[c]
  BY DEF ProgramInPlace
<1>1. /\ program \in Programs
      /\ program.rows \in [0..NumLines - 1 -> Vectors]
      /\ program.swizzle \in [STEs -> Vectors]
      /\ program.start \in Vectors /\ program.report \in Vectors
  BY ProgramAssumption DEF ProgramAssumption, PlaceInv, AtInv
<1>2. \A byte : byte # ZeroCode => Decode(Encode(byte)) = byte
  BY DEF Decode, Encode
<1>3. /\ \A c \in 0..NumLines - 1 : c \notin SpilledLines =>
           \A i \in Positions : rows[c][i] = program.rows[c][i]
      /\ \A s \in STEs : \A i \in Positions : m_swizzleSwitch[s][i] = program.swizzle[s][i]
      /\ \A i \in Positions : m_startSTEMask[i] = program.start[i]
      /\ \A i \in Positions : m_reportingSteInfo[i] = program.report[i]
  BY <1>1, <1>2, PlacedVectors DEF NoZeroCode
<1>4. /\ rows \in [0..NumLines - 1 -> StoredVectors]
      /\ m_swizzleSwitch \in [STEs -> StoredVectors]
      /\ m_startSTEMask \in StoredVectors /\ m_reportingSteInfo \in StoredVectors
  BY DEF PlaceInv, StoresTyped
<1>5. m_startSTEMask = program.start /\ m_reportingSteInfo = program.report
  BY <1>1, <1>3, <1>4, SameVector
<1>6. \A c \in 0..NumLines - 1 : c \notin SpilledLines => rows[c] = program.rows[c]
  BY <1>1, <1>3, <1>4, SameVector
<1>7. \A s \in STEs : m_swizzleSwitch[s] = program.swizzle[s]
  BY <1>1, <1>3, <1>4, SameVector
<1>8. m_swizzleSwitch = program.swizzle
  BY <1>1, <1>4, <1>7
<1> QED
  BY <1>5, <1>6, <1>8

\* When the first character is matched the automaton is the one of the files, for any
\* automaton and line, and stores of any length up to a line: bytes that a store spoils
\* are ahead of it, and the first byte of a line, whose operation may be taken by a store
\* of the line before, is in place then.  A byte that is the code of 0 is taken for 0.
THEOREM ProgramIsInPlace == NoZeroCode => (Spec => []ProgramInPlace)
<1> SUFFICES ASSUME NoZeroCode PROVE Spec => []ProgramInPlace
  OBVIOUS
<1>1. PlaceInv => ProgramInPlace
  BY PlacedIsProgram
<1> QED
  BY <1>1, InitPlace, NextPlace, PTL DEF Spec

-----------------------------------------------------------------------------
(* The controller relies on being programmed first.                        *)

FirstInv == first_print => at.phase > 3

\* The automaton is complete at the first character: a byte of every instruction, the
\* code of 0 being decoded, and none of the unfilled ones.
LEMMA PlacedIsProgrammed ==
  ASSUME PlaceInv, at.phase > 3
  PROVE  Programmed
<1>1. /\ program.swizzle \in [STEs -> Vectors]
      /\ program.start \in Vectors /\ program.report \in Vectors
  BY ProgramAssumption DEF ProgramAssumption, PlaceInv, AtInv
<1>2. \A byte \in Bytes : Decode(Encode(byte)) \in Bytes
  BY DEF Decode, Encode, Bytes
<1>3. ASSUME NEW v \in StoredVectors, NEW w \in Vectors,
             \A i \in Positions : v[i] = Decode(Encode(w[i]))
      PROVE  v \in Vectors
  <2>1. \A i \in Positions : v[i] \in Bytes
    BY <1>2, <1>3 DEF Vectors
  <2> QED
    BY <2>1 DEF Vectors, StoredVectors
<1>4. /\ m_swizzleSwitch \in [STEs -> StoredVectors]
      /\ m_startSTEMask \in StoredVectors /\ m_reportingSteInfo \in StoredVectors
  BY DEF PlaceInv, StoresTyped
<1>5. /\ \A s \in STEs : \A i \in Positions :
              m_swizzleSwitch[s][i] = Decode(Encode(program.swizzle[s][i]))
      /\ \A i \in Positions : m_startSTEMask[i] = Decode(Encode(program.start[i]))
      /\ \A i \in Positions : m_reportingSteInfo[i] = Decode(Encode(program.report[i]))
  BY PlacedVectors
<1>6. ASSUME NEW s \in STEs PROVE m_swizzleSwitch[s] \in Vectors
  <2>1. m_swizzleSwitch[s] \in StoredVectors /\ program.swizzle[s] \in Vectors
    BY <1>1, <1>4
  <2> QED
    BY <1>3, <1>5, <2>1
<1>7. m_startSTEMask \in Vectors /\ m_reportingSteInfo \in Vectors
  BY <1>1, <1>3, <1>4, <1>5
<1> QED
  BY <1>6, <1>7 DEF Programmed

\* A programming access is one that the controller allows, of a byte and a length that it
\* allows, and before the first character.
LEMMA ProgrammingIsAllowed ==
  ASSUME PlaceInv, FirstInv, NEW p \in 1..3, Dispatch(Phases[p])
  PROVE  /\ ~ first_print /\ at.phase = p
         /\ OffsetAt \in Positions /\ StoredByte(at.phase, Pos) \in Bytes
         /\ AccessLength \in 1..SwizzleSwitchY
         /\ p = 2 => Ste(LineAt) \in STEs
<1>1. Finds(p)
  BY DispatchFinds
<1>2. AtInv /\ at.phase = p
  BY <1>1 DEF Finds, PlaceInv
<1>3. /\ Pos \div SwizzleSwitchY \in Nat /\ Pos % SwizzleSwitchY \in Positions
      /\ p = 2 => Pos \div SwizzleSwitchY < SwizzleSwitchY * NumBits
  BY <1>1, <1>2, LineOfStore DEF Finds, AtInv
<1>4. p = 2 => Ste(LineAt) \in STEs
  BY <1>1, <1>3, ElementOfLine DEF Finds
<1> QED
  BY <1>1, <1>2, <1>3, <1>4 DEF Finds, FirstInv

LEMMA StepIsCapNext == PlaceInv /\ FirstInv /\ [Next]_vars => [CapNext]_capVars /\ FirstInv'
<1> SUFFICES ASSUME PlaceInv, FirstInv, [Next]_vars PROVE [CapNext]_capVars /\ FirstInv'
  OBVIOUS
<1>1. at.phase \in 1..5
  BY DEF PlaceInv, AtInv, AccessOK
<1>2. ASSUME UNCHANGED capVars, at' = at \/ (at' = Following /\ Pending)
      PROVE  [CapNext]_capVars /\ FirstInv'
  <2>1. at'.phase >= at.phase
    <3>1. CASE at' = Following /\ Pending
      <4>1. AtInv /\ at.phase <= 4
        BY <3>1 DEF PlaceInv, AtInv, AccessOK, Pending
      <4>2. Following.phase = at.phase \/ Following = [phase |-> at.phase + 1, n |-> 0, part |-> 1]
        BY <3>1, <4>1, AccessAfter
      <4> QED
        BY <1>1, <3>1, <4>2
    <3> QED
      BY <1>1, <1>2, <3>1
  <2>2. first_print' = first_print /\ (at.phase > 3 => at'.phase > 3)
    <3>1. at'.phase \in Int
      BY <1>1, <1>2, AccessAfter DEF PlaceInv, AtInv, AccessOK, Pending
    <3> QED
      BY <1>1, <1>2, <2>1, <3>1 DEF capVars
  <2> QED
    BY <1>2, <2>2 DEF FirstInv
<1>3. CASE ProgramCacheLine
  BY <1>2, <1>3 DEF ProgramCacheLine, Dispatch
<1>4. CASE ProgramSwizzleSwitch
  <2>1. Dispatch(Phases[2])
    BY <1>4 DEF ProgramSwizzleSwitch, Phases
  <2>2. /\ ~ first_print
        /\ OffsetAt \in Positions /\ StoredByte(at.phase, Pos) \in Bytes
        /\ AccessLength \in 1..SwizzleSwitchY /\ Ste(LineAt) \in STEs
    BY <2>1, ProgrammingIsAllowed
  <2>3. UpdateSwizzleSwitch(Ste(LineAt), OffsetAt, StoredByte(at.phase, Pos), AccessLength)
    BY <1>4 DEF ProgramSwizzleSwitch
  <2>4. FirstInv'
    BY <2>2, <2>3 DEF UpdateSwizzleSwitch, FirstInv
  <2> QED
    BY <2>2, <2>3, <2>4, Zenon DEF CapNext
<1>5. CASE ProgramMasks
  <2>1. Dispatch(Phases[3])
    BY <1>5 DEF ProgramMasks, Phases
  <2>2. /\ ~ first_print
        /\ OffsetAt \in Positions /\ StoredByte(at.phase, Pos) \in Bytes
        /\ AccessLength \in 1..SwizzleSwitchY
    BY <2>1, ProgrammingIsAllowed
  <2>3. \/ UpdateStartStateMask(OffsetAt, StoredByte(at.phase, Pos), AccessLength)
        \/ UpdateReportingSteInfo(OffsetAt, StoredByte(at.phase, Pos), AccessLength)
    BY <1>5 DEF ProgramMasks
  <2>4. FirstInv'
    BY <2>2, <2>3 DEF UpdateStartStateMask, UpdateReportingSteInfo, FirstInv
  <2> QED
    BY <2>2, <2>3, <2>4, Zenon DEF CapNext
<1>6. CASE MatchCharacter
  <2>1. /\ Dispatch("match") /\ rows' = rows /\ m_swizzleSwitch' = m_swizzleSwitch
        /\ m_startSTEMask' = m_startSTEMask /\ m_reportingSteInfo' = m_reportingSteInfo
    BY <1>6 DEF MatchCharacter, ProcessPatternMatch
  <2>2. at.phase = 4
    BY <2>1, MatchingPlacesNothing
  <2>3. Programmed
    BY <2>2, PlacedIsProgrammed
  <2>4. PICK row \in Resolved(rows[input[Pos + 1]]) : ProcessPatternMatch(row)
    BY <1>6 DEF MatchCharacter
  <2>5. row \in Vectors
    BY DEF Resolved
  <2>6. at'.phase > 3
    <3>1. AtInv /\ Pending /\ at.phase <= 4 /\ at' = Following
      BY <2>1, <2>2 DEF PlaceInv, Dispatch
    <3>2. Following.phase = 4 \/ Following = [phase |-> 4 + 1, n |-> 0, part |-> 1]
      BY <2>2, <3>1, AccessAfter
    <3> QED
      BY <3>1, <3>2
  <2> QED
    BY <2>3, <2>4, <2>5, <2>6 DEF CapNext, FirstInv
<1>7. CASE EndOfInput
  BY <1>2, <1>7 DEF EndOfInput, Dispatch
<1>8. CASE NormalStore
  BY <1>2, <1>8 DEF NormalStore
<1>9. CASE ProcessAppMagic
  BY <1>2, <1>9 DEF ProcessAppMagic
<1>10. CASE UNCHANGED vars
  BY <1>2, <1>10 DEF vars
<1> QED
  BY <1>3, <1>4, <1>5, <1>6, <1>7, <1>8, <1>9, <1>10 DEF Next, Done

\* The controller is used as it relies on: its bytes are programmed before the first
\* character, each from a buffer whose first byte is filled, and a character is matched
\* when the automaton is complete, whatever bytes the files hold.
THEOREM ProgrammedBeforeMatched == Spec => ProgrammedFirst
<1>1. Init => CapInit /\ FirstInv
  BY DEF Init, CapInit, FirstInv
<1> QED
  BY <1>1, InitPlace, NextPlace, StepIsCapNext, PTL DEF Spec, ProgrammedFirst, CapSpec

-----------------------------------------------------------------------------
(* A short input.  The second access of a store of a character is in the   *)
(* line after it, where no character has its operation.                    *)

Matched == IF at.phase = 4 THEN DoneAt(at) ELSE 0

OrderInv ==
  /\ \A i \in 1..Len(read) : read[i] = i - 1
  /\ exited => Len(read) = Len(input)
  /\ ~ exited => at.phase <= 4 /\ Len(read) = Matched /\ Matched <= Len(input)
  /\ ~ exited /\ issued = 4 =>
       \A q \in Matched..Len(input) : <<"b30", q>> \in capInsInfoMap

ShortInv == Len(input) < SwizzleSwitchY => OrderInv

LEMMA InputLength ==
  ASSUME AtInv
  PROVE  Len(input) \in Nat /\ NumStores(4) = Len(input) + 1
BY InputAssumption, LenProperties, NumberOfStores DEF InputAssumption, AtInv

\* In the last phase the access is the one of the next character, or is a second one.
LEMMA ShortAccess ==
  ASSUME PlaceInv, OrderInv, Len(input) < SwizzleSwitchY, Pending, at.phase = 4
  PROVE  /\ issued = 4 /\ Address = <<"b30", Pos>>
         /\ at.n \in 0..Len(input)
         /\ \/ at.part = 1 /\ Pos = at.n /\ Matched = at.n /\ Address \in capInsInfoMap
            \/ at.part = 2 /\ Matched = at.n + 1 /\ at.n + 1 <= Len(input)
                 /\ Address \notin capInsInfoMap
<1>1. /\ AtInv /\ MapInv /\ at.phase <= 4 /\ ~ exited
      /\ issued = 4 /\ at.n \in Nat /\ at.part \in 1..2
  BY DEF PlaceInv, AtInv, AccessOK, Pending
<1>2. Address = <<"b30", Pos>>
  BY DEF Address, Tags
<1>3. Len(input) \in Nat /\ NumStores(4) = Len(input) + 1
  BY <1>1, InputLength
<1>4. Accesses(at.n, at.part, Pos, AccessLength)
  BY <1>1, AccessAt
<1>5. CASE at.part = 1
  <2>1. Matched = at.n /\ Pos = at.n /\ at.n <= Len(input)
    BY <1>1, <1>4, <1>5 DEF Matched, DoneAt, Accesses, OrderInv
  <2>2. at.n \in Matched..Len(input)
    BY <1>1, <1>3, <2>1
  <2>3. <<"b30", at.n>> \in capInsInfoMap
    BY <1>1, <2>2 DEF OrderInv
  <2> QED
    BY <1>1, <1>2, <1>3, <1>5, <2>1, <2>3
<1>6. CASE at.part = 2
  <2>1. Matched = at.n + 1 /\ at.n + 1 <= Len(input)
    BY <1>1, <1>6 DEF Matched, DoneAt, OrderInv
  <2>2. Pos \in Nat /\ Pos >= SwizzleSwitchY
    BY <1>4, <1>6 DEF Accesses
  <2>3. Pos \notin Ops(4)
    BY <1>3, <2>2 DEF Ops, Stores
  <2>4. Address \notin capInsInfoMap
    BY <1>1, <2>3, OperationAt
  <2> QED
    BY <1>1, <1>2, <1>3, <1>6, <2>1, <2>4
<1> QED
  BY <1>1, <1>5, <1>6

\* Before it nothing is matched and no operation of a character is taken.
LEMMA ShortBefore ==
  ASSUME PlaceInv, OrderInv, Pending, at.phase < 4, at' = Following, read' = read,
         input' = input, issued' = issued, exited' = exited,
         capInsInfoMap \ {Address} \subseteq capInsInfoMap'
  PROVE  OrderInv'
<1>1. /\ AtInv /\ ~ exited /\ at.phase \in 1..3 /\ at.phase <= 4
  BY DEF PlaceInv, AtInv, AccessOK, Pending
<1>2. \/ Following.phase = at.phase
      \/ Following = [phase |-> at.phase + 1, n |-> 0, part |-> 1]
  BY <1>1, AccessAfter
<1>3. at'.phase <= 4 /\ Matched' = 0 /\ Matched = 0
  BY <1>1, <1>2 DEF Matched, DoneAt
<1>4. ASSUME NEW q PROVE <<"b30", q>> # Address
  BY <1>1 DEF Address, Tags
<1>5. \A q \in 0..Len(input) :
        <<"b30", q>> \in capInsInfoMap => <<"b30", q>> \in capInsInfoMap'
  BY <1>4
<1> QED
  BY <1>1, <1>3, <1>5 DEF OrderInv

LEMMA ShortStep ==
  ASSUME PlaceInv, IInv, OrderInv, Len(input) < SwizzleSwitchY, [Next]_vars
  PROVE  OrderInv'
<1>1. /\ AtInv /\ at.phase \in 1..5 /\ issued \in 0..4 /\ at.phase <= issued + 1
  BY DEF PlaceInv, AtInv, AccessOK
<1>2. Len(input) \in Nat /\ NumStores(4) = Len(input) + 1
  BY <1>1, InputLength
<1>3. CASE ProcessAppMagic
  <2>1. /\ ~ exited /\ issued < 4 /\ issued' = issued + 1 /\ at' = at /\ read' = read
        /\ input' = input /\ exited' = exited
        /\ capInsInfoMap' = capInsInfoMap \cup
             {<<Tags[issued + 1], n>> : n \in 0..NumStores(issued + 1) - 1}
    BY <1>3 DEF ProcessAppMagic, Phases
  <2>2. Matched' = Matched
    BY <2>1 DEF Matched, DoneAt
  <2>3. ASSUME issued' = 4
        PROVE  \A q \in Matched..Len(input) : <<"b30", q>> \in capInsInfoMap'
    <3>1. issued + 1 = 4 /\ Tags[4] = "b30"
      BY <1>1, <2>1, <2>3 DEF Tags
    <3>2. \A q \in 0..NumStores(4) - 1 : <<"b30", q>> \in capInsInfoMap'
      BY <2>1, <3>1, Zenon
    <3>3. Matched = 0
      <4>1. CASE at.phase = 4
        <5>1. at = [phase |-> at.phase, n |-> 0, part |-> 1]
          BY <1>1, <3>1, <4>1 DEF AtInv, AccessOK
        <5> QED
          BY <5>1 DEF Matched, DoneAt
      <4> QED
        BY <4>1 DEF Matched
    <3>4. Matched..Len(input) = 0..NumStores(4) - 1
      BY <1>2, <3>3
    <3> QED
      BY <3>2, <3>4, Zenon
  <2> QED
    BY <2>1, <2>2, <2>3 DEF OrderInv
<1>4. ASSUME NEW p \in 1..3, Dispatch(Phases[p]), read' = read, exited' = exited
      PROVE  OrderInv'
  <2>1. /\ Pending /\ at.phase = p /\ at' = Following /\ issued' = issued /\ input' = input
        /\ capInsInfoMap' = capInsInfoMap \ {Address}
    BY <1>4, DispatchFinds DEF Finds
  <2> QED
    BY <1>4, <2>1, ShortBefore
<1>5. CASE ProgramCacheLine
  BY <1>4, <1>5 DEF ProgramCacheLine, Phases
<1>6. CASE ProgramSwizzleSwitch
  BY <1>4, <1>6 DEF ProgramSwizzleSwitch, Phases
<1>7. CASE ProgramMasks
  BY <1>4, <1>7 DEF ProgramMasks, Phases
<1>8. ASSUME Dispatch("match")
      PROVE  /\ at.phase = 4 /\ issued = 4 /\ Pos = at.n /\ Matched = at.n /\ Pending
             /\ at.n \in 0..Len(input) /\ Address = <<"b30", at.n>>
             /\ at' = Following /\ input' = input /\ issued' = issued
             /\ capInsInfoMap' = capInsInfoMap \ {Address}
  <2>1. /\ Pending /\ Phases[at.phase] = "match" /\ Address \in capInsInfoMap
        /\ at' = Following /\ input' = input /\ issued' = issued
        /\ capInsInfoMap' = capInsInfoMap \ {Address}
    BY <1>8 DEF Dispatch
  <2>2. at.phase \in 1..4
    BY <1>1, <2>1 DEF Pending
  <2>3. at.phase = 4
    BY <2>1, <2>2 DEF Phases
  <2> QED
    BY <2>1, <2>3, ShortAccess
<1>9. CASE MatchCharacter
  <2>1. Dispatch("match") /\ Pos < Len(input) /\ read' = Append(read, Pos) /\ exited' = exited
    BY <1>9 DEF MatchCharacter
  <2>2. /\ at.phase = 4 /\ issued = 4 /\ Pos = at.n /\ Matched = at.n /\ Pending
        /\ at.n \in 0..Len(input) /\ Address = <<"b30", at.n>>
        /\ at' = Following /\ input' = input /\ issued' = issued
        /\ capInsInfoMap' = capInsInfoMap \ {Address}
    BY <1>8, <2>1
  <2>3. at.phase <= 4 /\ ~ exited /\ at.n + 1 # NumStores(4)
    BY <1>2, <2>1, <2>2 DEF Pending
  <2>4. Following.phase = 4 /\ DoneAt(Following) = at.n + 1
    BY <1>1, <2>2, <2>3, AccessAfter
  <2>5. Matched' = at.n + 1 /\ at'.phase = 4
    BY <2>2, <2>4 DEF Matched, DoneAt
  <2>6. read \in Seq(Int) /\ Len(read) = at.n /\ Pos \in Int
    BY <2>2, <2>3 DEF IInv, Taken, OrderInv
  <2>7. /\ Len(read') = at.n + 1 /\ read'[at.n + 1] = at.n
        /\ \A i \in 1..at.n : read'[i] = read[i]
    BY <2>1, <2>2, <2>6, AppendProperties
  <2>8. \A i \in 1..Len(read') : read'[i] = i - 1
    <3>1. \A i \in 1..at.n + 1 : i \in 1..at.n \/ i = at.n + 1
      BY <2>2
    <3>2. \A i \in 1..at.n : read[i] = i - 1
      BY <2>6 DEF OrderInv
    <3> QED
      BY <2>2, <2>7, <3>1, <3>2
  <2>9. \A q \in at.n + 1..Len(input) : <<"b30", q>> \in capInsInfoMap'
    <3> SUFFICES ASSUME NEW q \in at.n + 1..Len(input) PROVE <<"b30", q>> \in capInsInfoMap'
      OBVIOUS
    <3>1. q \in Matched..Len(input) /\ q # at.n
      BY <1>2, <2>2
    <3>2. <<"b30", q>> \in capInsInfoMap
      BY <2>2, <2>3, <3>1 DEF OrderInv
    <3> QED
      BY <2>2, <3>1, <3>2
  <2>10. at.n + 1 <= Len(input)
    BY <1>2, <2>1, <2>2
  <2> QED
    BY <2>1, <2>2, <2>3, <2>5, <2>7, <2>8, <2>9, <2>10 DEF OrderInv
<1>10. CASE EndOfInput
  <2>1. Dispatch("match") /\ Pos = Len(input) /\ read' = read /\ exited' = TRUE
    BY <1>10 DEF EndOfInput
  <2>2. Pos = at.n /\ Matched = at.n /\ Pending /\ input' = input
    BY <1>8, <2>1
  <2>3. Len(read) = Len(input)
    BY <2>1, <2>2 DEF OrderInv, Pending
  <2> QED
    BY <2>1, <2>2, <2>3 DEF OrderInv
<1>11. CASE NormalStore
  <2>1. /\ Pending /\ Address \notin capInsInfoMap /\ at' = Following /\ read' = read
        /\ input' = input /\ issued' = issued /\ exited' = exited
        /\ capInsInfoMap' = capInsInfoMap
    BY <1>11 DEF NormalStore
  <2>2. CASE at.phase < 4
    BY <2>1, <2>2, ShortBefore
  <2>3. CASE at.phase = 4
    <3>1. Matched = at.n + 1 /\ at.n + 1 <= Len(input) /\ at.n \in 0..Len(input)
      BY <2>1, <2>3, ShortAccess
    <3>2. at.phase <= 4 /\ at.n + 1 # NumStores(4)
      BY <1>2, <2>3, <3>1
    <3>3. Following.phase = 4 /\ DoneAt(Following) = at.n + 1
      BY <1>1, <2>1, <2>3, <3>2, AccessAfter
    <3>4. Matched' = Matched /\ at'.phase = 4
      BY <2>1, <3>1, <3>3 DEF Matched, DoneAt
    <3> QED
      BY <2>1, <3>4 DEF OrderInv
  <2>4. at.phase < 4 \/ at.phase = 4
    BY <1>1, <2>1 DEF Pending
  <2> QED
    BY <2>2, <2>3, <2>4
<1>12. CASE UNCHANGED vars
  BY <1>12 DEF vars, OrderInv, Matched, DoneAt
<1> QED
  BY <1>3, <1>5, <1>6, <1>7, <1>9, <1>10, <1>11, <1>12 DEF Next, Done

\* The input of an application that fits one line is matched completely and in order,
\* whatever the size of the stores.
THEOREM ShortInputIsInOrder == Spec => []ShortInputInOrder
<1>1. Init => ShortInv
  <2> SUFFICES ASSUME Init PROVE OrderInv
    BY DEF ShortInv
  <2>1. Len(read) = 0 /\ Matched = 0 /\ ~ exited /\ at.phase = 1 /\ issued = 0
    BY DEF Init, Matched
  <2>2. Len(input) \in Nat
    BY InitPlace, InputLength DEF PlaceInv
  <2> QED
    BY <2>1, <2>2 DEF OrderInv
<1>2. PlaceInv /\ IInv /\ ShortInv /\ [Next]_vars => ShortInv'
  <2> SUFFICES ASSUME PlaceInv, IInv, ShortInv, [Next]_vars, Len(input)' < SwizzleSwitchY
               PROVE  OrderInv'
    BY DEF ShortInv
  <2>1. input' = input
    BY DEF Next, Done, vars, ProcessAppMagic, ProgramCacheLine, ProgramSwizzleSwitch,
           ProgramMasks, MatchCharacter, EndOfInput, NormalStore, Dispatch
  <2>2. OrderInv
    BY <2>1 DEF ShortInv
  <2> QED
    BY <2>1, <2>2, ShortStep
<1>3. ShortInv => ShortInputInOrder
  BY DEF ShortInv, OrderInv, ShortInputInOrder, InputInOrder
<1> QED
  BY <1>1, <1>2, <1>3, InitInv, NextInv, InitPlace, NextPlace, PTL DEF Spec

=============================================================================
