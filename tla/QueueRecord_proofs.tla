------------------------- MODULE QueueRecord_proofs -------------------------
(***************************************************************************)
(* Theorems about QueueRecord for every block size, every initial slot     *)
(* array and every bound on the length.                                    *)
(***************************************************************************)
EXTENDS QueueRecord, SequenceTheorems, TLAPS

\* The initial state is well typed.
LEMMA InitialTypes == Init => TypeOK
<1> SUFFICES ASSUME Init PROVE TypeOK
  OBVIOUS
<1> USE QueueAssumption
<1>1. MinSlots \in Nat /\ first \in 0 .. MinSlots - 1 /\ last = first
  BY DEF Init
<1>2. NewBlock \in Blocks
  BY DEF NewBlock, Blocks
<1>3. slots \in [0 .. capacity - 1 -> Blocks \cup {Dead}] /\ slots[first] \in Blocks
  BY <1>1, <1>2 DEF Init
<1>4. QED
  BY <1>1, <1>3 DEF Init, TypeOK

\* A slide or a growth leaves the window, and one slot behind it, inside the
\* array: this is what the test against half of the array is for.
LEMMA PlacementFits ==
    ASSUME TypeOK
    PROVE  /\ Placement.cap \in Nat
           /\ Placement.at \in Nat
           /\ Placement.at + Used <= Placement.cap - 1
<1>1. /\ capacity \in Nat /\ first \in Nat /\ last \in Nat
      /\ first <= last /\ last <= capacity - 1
  BY DEF TypeOK
<1>2. Used \in Nat /\ Used >= 1 /\ Used <= capacity
  BY <1>1 DEF Used
<1>3. RoomierCapacity \in Nat /\ Used + 1 <= RoomierCapacity
  BY <1>1, <1>2 DEF RoomierCapacity
<1>4. CASE capacity - last < 2
  <2>1. Placement.cap = RoomierCapacity /\ Placement.at = (RoomierCapacity - (Used + 1)) \div 2
    BY <1>4 DEF Placement
  <2>2. QED BY <1>2, <1>3, <2>1
<1>5. CASE ~(capacity - last < 2)
  <2>1. Placement.cap = capacity /\ Placement.at = first
    BY <1>5 DEF Placement
  <2>2. QED BY <1>1, <1>5, <2>1 DEF Used
<1>6. QED BY <1>4, <1>5

\* Appending a block keeps the types.
LEMMA AppendKeepsTypes ==
    ASSUME TypeOK, NEW p \in Pairs, AppendBlock(p), UNCHANGED <<read, out>>
    PROVE  TypeOK'
<1> DEFINE at == Placement.at
           Moved(i) == slots[i - at + first]
           Filled(i) == [Moved(i) EXCEPT ![write] = p]
           Slot(i) == CASE i \in at .. at + Used - 2 -> Moved(i)
                        [] i = at + Used - 1 -> Filled(i)
                        [] i = at + Used -> NewBlock
                        [] OTHER -> Dead
<1> HIDE DEF at, Moved, Filled, Slot
<1>1. /\ capacity \in Nat /\ first \in Nat /\ last \in Nat
      /\ first <= last /\ last <= capacity - 1
      /\ \A i \in first .. last : slots[i] \in Blocks
      /\ write \in 0 .. BlockPairs - 1
      /\ BlockPairs \in Nat \ {0}
  BY QueueAssumption DEF TypeOK
<1>2. /\ Placement.cap \in Nat
      /\ at \in Nat
      /\ at + Used <= Placement.cap - 1
  BY PlacementFits DEF at
<1>3. Used \in Nat /\ Used >= 1 /\ Used = last - first + 1
  BY <1>1 DEF Used
<1>4. \A i \in at .. at + Used - 1 : Moved(i) \in Blocks
  <2>1. TAKE i \in at .. at + Used - 1
  <2>2. i - at + first \in first .. last
    BY <1>1, <1>2, <1>3
  <2>3. QED BY <1>1, <2>2 DEF Moved
<1>5. Filled(at + Used - 1) \in Blocks
  <2>1. at + Used - 1 \in at .. at + Used - 1
    BY <1>2, <1>3
  <2>2. Moved(at + Used - 1) \in Blocks
    BY <1>4, <2>1
  <2>3. QED BY <1>1, <2>2 DEF Blocks, Filled
<1>6. NewBlock \in Blocks
  BY DEF NewBlock, Blocks
<1>7. /\ capacity' = Placement.cap
      /\ first' = at
      /\ last' = at + Used
      /\ write' = 0
  BY DEF AppendBlock, at
<1>8. /\ slots' = [i \in 0 .. Placement.cap - 1 |-> Slot(i)]
      /\ \A i : /\ i \in at .. at + Used - 2 => Slot(i) = Moved(i)
                /\ i = at + Used - 1 => Slot(i) = Filled(i)
                /\ i = at + Used => Slot(i) = NewBlock
                /\ i \notin at .. at + Used => Slot(i) = Dead
  <2>1. slots' = [i \in 0 .. Placement.cap - 1 |-> Slot(i)]
    BY DEF AppendBlock, at, Moved, Filled, Slot
  <2>2. \A i : i \in at .. at + Used - 2 => Slot(i) = Moved(i)
    BY <1>2, <1>3 DEF Slot
  <2>3. Slot(at + Used - 1) = Filled(at + Used - 1)
    BY <1>2, <1>3 DEF Slot
  <2>4. Slot(at + Used) = NewBlock
    BY <1>2, <1>3 DEF Slot
  <2>5. \A i : i \notin at .. at + Used => Slot(i) = Dead
    BY <1>2, <1>3 DEF Slot
  <2>6. QED BY <2>1, <2>2, <2>3, <2>4, <2>5
<1>9. \A i \in at .. at + Used : slots'[i] \in Blocks
  <2>1. SUFFICES ASSUME NEW i \in at .. at + Used PROVE slots'[i] \in Blocks
    OBVIOUS
  <2>2. i \in 0 .. Placement.cap - 1
    BY <1>2, <1>3
  <2>3. CASE i \in at .. at + Used - 2
    <3>1. i \in at .. at + Used - 1 BY <1>2, <1>3, <2>3
    <3>2. QED BY <1>4, <1>8, <2>2, <2>3, <3>1
  <2>4. CASE i = at + Used - 1
    BY <1>5, <1>8, <2>2, <2>4
  <2>5. CASE i = at + Used
    BY <1>6, <1>8, <2>2, <2>5
  <2>6. i \in at .. at + Used - 2 \/ i = at + Used - 1 \/ i = at + Used
    <3>1. PICK u \in Nat : u = at + Used BY <1>2, <1>3
    <3>2. i \in Nat /\ at <= i /\ i <= u BY <1>2, <3>1
    <3>3. i <= u - 2 \/ i = u - 1 \/ i = u BY <3>1, <3>2
    <3>4. i \in at .. u - 2 \/ i = u - 1 \/ i = u BY <1>2, <3>1, <3>2, <3>3
    <3>5. u - 2 = at + (Used - 2) /\ u - 1 = at + (Used - 1) BY <1>2, <1>3, <3>1
    <3>6. QED BY <3>1, <3>4, <3>5
  <2>7. QED BY <2>3, <2>4, <2>5, <2>6
<1>10. \A i \in 0 .. Placement.cap - 1 : slots'[i] \in Blocks \cup {Dead}
  <2>1. TAKE i \in 0 .. Placement.cap - 1
  <2>2. CASE i \in at .. at + Used BY <1>9, <2>2
  <2>3. CASE i \notin at .. at + Used
    BY <1>8, <2>3
  <2>4. QED BY <2>2, <2>3
<1>11. slots' \in [0 .. capacity' - 1 -> Blocks \cup {Dead}]
  BY <1>7, <1>8, <1>10
<1>12. /\ capacity' \in Nat
       /\ first' \in 0 .. capacity' - 1
       /\ last' \in first' .. capacity' - 1
       /\ write' \in 0 .. BlockPairs - 1
  BY <1>1, <1>2, <1>3, <1>7
<1>121. first' # last'
  BY <1>2, <1>3, <1>7
<1>13. \A i \in first' .. last' : slots'[i] \in Blocks
  BY <1>7, <1>9
<1>14. read' \in 0 .. BlockPairs - 1 /\ out' \in Pairs \cup {NoPair}
  BY DEF TypeOK
<1>15. QED
  BY <1>11, <1>12, <1>121, <1>13, <1>14 DEF TypeOK

\* A push keeps the types.
LEMMA PushKeepsTypes ==
    ASSUME TypeOK, NEW p \in Pairs, PushPair(p)
    PROVE  TypeOK'
<1>1. UNCHANGED <<read, out>> BY DEF PushPair
<1>2. CASE write = BlockPairs - 1
  BY <1>1, <1>2, AppendKeepsTypes DEF PushPair
<1>3. CASE write # BlockPairs - 1
  <2> DEFINE filled == [slots[last] EXCEPT ![write] = p]
  <2>1. /\ slots' = [slots EXCEPT ![last] = filled]
        /\ write' = write + 1
        /\ UNCHANGED <<capacity, first, last>>
    BY <1>3 DEF PushPair
  <2>2. slots[last] \in Blocks /\ last \in 0 .. capacity - 1
    BY DEF TypeOK
  <2>3. filled \in Blocks
    BY <2>2 DEF TypeOK, Blocks
  <2> HIDE DEF filled
  <2>4. /\ slots' \in [0 .. capacity - 1 -> Blocks \cup {Dead}]
        /\ \A i \in first .. last : slots'[i] \in Blocks
    BY <2>1, <2>2, <2>3 DEF TypeOK
  <2>5. write' \in 0 .. BlockPairs - 1 /\ (first = last => read <= write')
    BY <1>3, <2>1, QueueAssumption DEF TypeOK
  <2>6. QED BY <1>1, <2>1, <2>4, <2>5 DEF TypeOK
<1>4. QED BY <1>2, <1>3

\* A pop that takes the last pair of a block finds another block behind it,
\* since the write cursor never rests at the end of a block.
LEMMA PopKeepsTypes ==
    ASSUME TypeOK, TryPopPair
    PROVE  TypeOK'
<1> USE QueueAssumption
<1>1. CASE Empty
  BY <1>1 DEF TryPopPair, TypeOK
<1>2. CASE ~Empty /\ read # BlockPairs - 1
  <2>1. /\ out' = slots[first][read]
        /\ read' = read + 1
        /\ UNCHANGED <<slots, first, capacity, last, write>>
    BY <1>2 DEF TryPopPair
  <2>2. slots[first] \in Blocks BY DEF TypeOK
  <2>3. out' \in Pairs \cup {NoPair} BY <2>1, <2>2 DEF TypeOK, Blocks
  <2>4. read' \in 0 .. BlockPairs - 1 /\ (first = last => read' <= write)
    BY <1>2, <2>1 DEF TypeOK, Empty
  <2>5. QED BY <2>1, <2>3, <2>4 DEF TypeOK
<1>3. CASE ~Empty /\ read = BlockPairs - 1
  <2>1. /\ out' = slots[first][read]
        /\ slots' = [slots EXCEPT ![first] = Dead]
        /\ first' = first + 1
        /\ read' = 0
        /\ UNCHANGED <<capacity, last, write>>
    BY <1>3 DEF TryPopPair
  <2>2. slots[first] \in Blocks BY DEF TypeOK
  <2>3. out' \in Pairs \cup {NoPair} BY <2>1, <2>2 DEF TypeOK, Blocks
  <2>4. first # last
    BY <1>3 DEF Empty, TypeOK
  <2>5. QED
    BY <2>1, <2>3, <2>4 DEF TypeOK
<1>4. QED BY <1>1, <1>2, <1>3

\* No push writes and no pop reads outside the window of live blocks.
THEOREM CursorsStayInside == Spec => []TypeOK
<1>1. TypeOK /\ [Next]_vars => TypeOK'
  <2> SUFFICES ASSUME TypeOK, [Next]_vars PROVE TypeOK'
    OBVIOUS
  <2>1. ASSUME NEW p \in Pairs, PushPair(p) PROVE TypeOK'
    BY <2>1, PushKeepsTypes
  <2>2. CASE TryPopPair BY <2>2, PopKeepsTypes
  <2>3. CASE UNCHANGED vars BY <2>3 DEF vars, TypeOK
  <2>4. QED BY <2>1, <2>2, <2>3 DEF Next
<1>2. QED BY InitialTypes, <1>1, PTL DEF Spec

-----------------------------------------------------------------------------

\* What division gives for natural numbers.
LEMMA QuotientFacts ==
    ASSUME NEW m \in Nat, NEW b \in Nat \ {0}
    PROVE  /\ m \div b \in Nat
           /\ m % b \in 0 .. b - 1
           /\ m = (m \div b) * b + (m % b)
OBVIOUS

\* No more blocks fit than the quotient says.
LEMMA QuotientIsLargest ==
    ASSUME NEW n \in Nat, NEW m \in Nat, NEW b \in Nat \ {0}, n * b <= m
    PROVE  n <= m \div b
<1> DEFINE q == m \div b
<1>1. q \in Nat /\ m < q * b + b BY QuotientFacts
<1> HIDE DEF q
<1>2. SUFFICES ASSUME ~(n <= q) PROVE FALSE BY DEF q
<1>3. PICK d \in Nat : n = q + 1 + d
  <2>1. n - q - 1 \in Nat BY <1>1, <1>2
  <2>2. n = q + 1 + (n - q - 1) BY <1>1
  <2>3. QED BY <2>1, <2>2
<1>4. n * b = q * b + b + d * b BY <1>1, <1>3
<1>5. d * b \in Nat /\ q * b \in Nat BY <1>1, <1>3
<1>6. QED BY <1>1, <1>4, <1>5

\* A push that appends a block leaves every block but the first full.
LEMMA FullBlocksAreBounded ==
    ASSUME TypeOK, Length < MaxLength, write = BlockPairs - 1
    PROVE  Used <= (MaxLength + BlockPairs - 1) \div BlockPairs
<1> USE QueueAssumption
<1>1. Used \in Nat /\ Used = last - first + 1
  BY DEF TypeOK, Used
<1>2. /\ (last - first) * BlockPairs \in Nat
      /\ Used * BlockPairs = (last - first) * BlockPairs + BlockPairs
  BY <1>1 DEF TypeOK
<1>3. Length = (last - first) * BlockPairs + write - read /\ read <= write
  BY DEF Length, TypeOK
<1>4. (last - first) * BlockPairs < MaxLength
  BY <1>2, <1>3 DEF TypeOK
<1>5. Used * BlockPairs <= MaxLength + BlockPairs - 1
  BY <1>2, <1>4
<1>6. MaxLength + BlockPairs - 1 \in Nat
  OBVIOUS
<1>7. QED BY <1>1, <1>5, <1>6, QuotientIsLargest

\* However long the record is pushed to and popped from, the slot array is
\* bounded by the blocks the queue needs at its longest.
THEOREM DriftNeverGrows == Spec => []SlotsAreBounded
<1> USE QueueAssumption
<1>1. Init => SlotsAreBounded
  BY DEF Init, SlotsAreBounded
<1>2. TypeOK /\ SlotsAreBounded /\ [Next]_vars => SlotsAreBounded'
  <2> SUFFICES ASSUME TypeOK, SlotsAreBounded, [Next]_vars PROVE SlotsAreBounded'
    OBVIOUS
  <2>1. CASE capacity' = capacity
    BY <2>1 DEF SlotsAreBounded
  <2>2. ASSUME NEW p \in Pairs, PushPair(p), capacity' # capacity PROVE SlotsAreBounded'
    <3>1. Length < MaxLength /\ write = BlockPairs - 1 /\ capacity' = Placement.cap
      BY <2>2 DEF PushPair, AppendBlock
    <3>2. 2 * (Used + 1) >= capacity /\ capacity' = 2 * capacity + 2
      <4>1. Used \in Nat /\ capacity \in Nat BY DEF TypeOK, Used
      <4>2. Placement.cap = RoomierCapacity BY <2>2, <3>1 DEF Placement
      <4>3. QED BY <2>2, <3>1, <4>1, <4>2 DEF RoomierCapacity
    <3>3. Used <= (MaxLength + BlockPairs - 1) \div BlockPairs
      BY <3>1, FullBlocksAreBounded
    <3>4. MaxLength + BlockPairs - 1 \in Nat
      OBVIOUS
    <3>5. (MaxLength + BlockPairs - 1) \div BlockPairs \in Nat
      BY <3>4, QuotientFacts
    <3>6. capacity \in Nat /\ Used \in Nat
      BY DEF TypeOK, Used
    <3>7. capacity' <= 4 * ((MaxLength + BlockPairs - 1) \div BlockPairs + 1) + 2
      BY <3>2, <3>3, <3>5, <3>6
    <3>8. QED BY <3>7 DEF SlotsAreBounded
  <2>3. TryPopPair \/ UNCHANGED vars => capacity' = capacity
    BY DEF TryPopPair, vars
  <2>4. QED BY <2>1, <2>2, <2>3 DEF Next
<1>3. QED BY <1>1, <1>2, CursorsStayInside, PTL DEF Spec

-----------------------------------------------------------------------------

\* Where the k-th cell after the start of the first block is.
Cell(k) == slots[first + k \div BlockPairs][k % BlockPairs]
Cells == Pairs \cup {NoPair}

ContentsAreCells ==
    /\ Length \in Nat
    /\ Contents \in Seq(Cells)
    /\ Len(Contents) = Length
    /\ \A i \in 1 .. Length : Contents[i] = Cell(read + i - 1)

\* A block more is a block of pairs more.
LEMMA MoreBlocks ==
    ASSUME NEW b \in Nat \ {0}, NEW x \in Nat, NEW y \in Nat, x < y
    PROVE  y * b >= x * b + b
<1>1. PICK e \in Nat : y = x + 1 + e
  <2>1. y - x - 1 \in Nat /\ y = x + 1 + (y - x - 1) OBVIOUS
  <2>2. QED BY <2>1
<1>2. y * b = x * b + b + e * b BY <1>1
<1>3. e * b \in Nat /\ x * b \in Nat OBVIOUS
<1>4. QED BY <1>2, <1>3

\* A block and a place in it are what division makes of their pair.
LEMMA QuotientIsUnique ==
    ASSUME NEW q \in Nat, NEW b \in Nat \ {0}, NEW r \in 0 .. b - 1
    PROVE  /\ (q * b + r) \div b = q
           /\ (q * b + r) % b = r
<1> DEFINE m == q * b + r
           q2 == m \div b
           r2 == m % b
<1>1. q * b \in Nat /\ m \in Nat /\ r \in Nat OBVIOUS
<1>2. q2 \in Nat /\ r2 \in 0 .. b - 1 /\ m = q2 * b + r2
  BY <1>1, QuotientFacts
<1> HIDE DEF q2, r2
<1>3. q * b + r = q2 * b + r2 /\ q2 * b \in Nat BY <1>2
<1>4. q = q2
  <2>1. CASE q < q2
    <3>1. q2 * b >= q * b + b BY <1>2, <2>1, MoreBlocks
    <3>2. QED BY <1>1, <1>2, <1>3, <3>1
  <2>2. CASE q2 < q
    <3>1. q * b >= q2 * b + b BY <1>2, <2>2, MoreBlocks
    <3>2. QED BY <1>1, <1>2, <1>3, <3>1
  <2>3. QED BY <1>2, <2>1, <2>2
<1>5. r = r2 BY <1>1, <1>2, <1>3, <1>4
<1>6. QED BY <1>4, <1>5 DEF q2, r2

\* A cell before position w of block d is in an earlier block or earlier in d.
LEMMA CellsBefore ==
    ASSUME NEW b \in Nat \ {0}, NEW d \in Nat, NEW w \in 0 .. b, NEW k \in Nat,
           k < d * b + w
    PROVE  /\ k \div b \in 0 .. d
           /\ k % b \in 0 .. b - 1
           /\ k \div b = d => k % b < w
<1> DEFINE q == k \div b
           r == k % b
<1>1. q \in Nat /\ r \in 0 .. b - 1 /\ k = q * b + r BY QuotientFacts
<1> HIDE DEF q, r
<1>2. q * b \in Nat /\ d * b \in Nat BY <1>1
<1>3. ~(d < q)
  <2>1. SUFFICES ASSUME d < q PROVE FALSE OBVIOUS
  <2>2. q * b >= d * b + b BY <1>1, <2>1, MoreBlocks
  <2>3. QED BY <1>1, <1>2, <2>2
<1>4. q = d => r < w BY <1>1, <1>2
<1>5. QED BY <1>1, <1>3, <1>4 DEF q, r

\* The length of a record is never negative.
LEMMA LengthIsNat == TypeOK => Length \in Nat
<1> SUFFICES ASSUME TypeOK PROVE Length \in Nat
  OBVIOUS
<1> USE QueueAssumption
<1> DEFINE d == last - first
<1>1. d \in Nat /\ read \in Nat /\ write \in Nat /\ read < BlockPairs BY DEF TypeOK
<1>2. d * BlockPairs \in Nat BY <1>1
<1>3. CASE d = 0
  BY <1>3 DEF Length, TypeOK
<1>4. CASE d # 0
  <2>1. d * BlockPairs >= 0 * BlockPairs + BlockPairs BY <1>1, <1>4, MoreBlocks
  <2> HIDE DEF d
  <2>2. d * BlockPairs + write - read \in Nat BY <1>1, <1>2, <2>1
  <2>3. QED BY <2>2 DEF Length, d
<1>5. QED BY <1>3, <1>4

\* The contents are as many pairs as the length says, each out of its cell;
LEMMA ContentsShape == TypeOK => ContentsAreCells
<1> SUFFICES ASSUME TypeOK PROVE ContentsAreCells
  OBVIOUS
<1> USE QueueAssumption
<1>1. Length \in Nat BY LengthIsNat
<1> DEFINE d == last - first
<1>2. /\ d \in Nat /\ d * BlockPairs \in Nat
      /\ read \in Nat /\ write \in 0 .. BlockPairs
      /\ Length = d * BlockPairs + write - read
  BY DEF TypeOK, Length
<1>3. ASSUME NEW i \in 1 .. Length
      PROVE  Cell(read + i - 1) \in Cells /\ Contents[i] = Cell(read + i - 1)
  <2> DEFINE k == read + i - 1
  <2>1. k \in Nat /\ k < d * BlockPairs + write BY <1>1, <1>2
  <2> HIDE DEF d
  <2>2. k \div BlockPairs \in 0 .. d /\ k % BlockPairs \in 0 .. BlockPairs - 1
    BY <1>2, <2>1, CellsBefore
  <2> HIDE DEF k
  <2>3. first + k \div BlockPairs \in first .. last
    BY <2>2 DEF TypeOK, d
  <2>4. slots[first + k \div BlockPairs] \in Blocks BY <2>3 DEF TypeOK
  <2>5. Cell(k) \in Cells BY <2>2, <2>4 DEF Cell, Cells, Blocks
  <2>6. Contents[i] = Cell(k) BY DEF Contents, Cell, k
  <2>7. QED BY <2>5, <2>6 DEF k
<1>4. /\ DOMAIN Contents = 1 .. Length
      /\ Contents = [i \in 1 .. Length |-> Contents[i]]
  BY DEF Contents
<1>5. Contents \in [1 .. Length -> Cells] BY <1>3, <1>4
<1>6. Contents \in Seq(Cells) /\ Len(Contents) = Length
  <2>1. Contents \in Seq(Cells) BY <1>1, <1>5, SeqDef
  <2>2. DOMAIN Contents = 1 .. Len(Contents) /\ Len(Contents) \in Nat BY <2>1, LenProperties
  <2>3. QED BY <1>1, <1>4, <2>1, <2>2
<1>7. QED BY <1>1, <1>3, <1>6 DEF ContentsAreCells

\* and so they are behind a step.
LEMMA NextContentsShape == TypeOK' => ContentsAreCells'
BY ContentsShape, PTL

\* What an appended block leaves in the slots of the window.
LEMMA AppendMovesWindow ==
    ASSUME TypeOK, NEW p \in Pairs, AppendBlock(p)
    PROVE  /\ first' \in Nat
           /\ \A j \in first .. last - 1 : slots'[j - first + first'] = slots[j]
           /\ slots'[last - first + first'] = [slots[last] EXCEPT ![write] = p]
           /\ last' - first' = last - first + 1
           /\ write' = 0
<1> DEFINE at == Placement.at
           Moved(i) == slots[i - at + first]
           Filled(i) == [Moved(i) EXCEPT ![write] = p]
           Slot(i) == CASE i \in at .. at + Used - 2 -> Moved(i)
                        [] i = at + Used - 1 -> Filled(i)
                        [] i = at + Used -> NewBlock
                        [] OTHER -> Dead
<1>1. Placement.cap \in Nat /\ at \in Nat /\ at + Used <= Placement.cap - 1
  BY PlacementFits
<1>2. /\ Used \in Nat /\ Used = last - first + 1
      /\ first \in Nat /\ last \in Nat /\ first <= last
  BY DEF TypeOK, Used
<1>3. /\ slots' = [i \in 0 .. Placement.cap - 1 |-> Slot(i)]
      /\ first' = at /\ last' = at + Used /\ write' = 0
  BY DEF AppendBlock
<1> HIDE DEF at, Moved, Filled, Slot
<1>4. ASSUME NEW j \in first .. last - 1 PROVE slots'[j - first + at] = slots[j]
  <2>1. PICK i \in Nat : i = j - first + at BY <1>1, <1>2
  <2>2. i \in at .. at + Used - 2 BY <1>1, <1>2, <2>1
  <2>3. i \in 0 .. Placement.cap - 1 BY <1>1, <1>2, <2>1
  <2>4. Slot(i) = Moved(i) BY <1>1, <1>2, <2>2 DEF Slot
  <2>5. i - at + first = j BY <1>1, <1>2, <2>1
  <2>6. QED BY <1>3, <2>1, <2>3, <2>4, <2>5 DEF Moved
<1>5. slots'[last - first + at] = [slots[last] EXCEPT ![write] = p]
  <2>1. PICK i \in Nat : i = last - first + at BY <1>1, <1>2
  <2>2. i = at + Used - 1 /\ i \notin at .. at + Used - 2 BY <1>1, <1>2, <2>1
  <2>3. i \in 0 .. Placement.cap - 1 BY <1>1, <1>2, <2>1
  <2>4. Slot(i) = Filled(i) BY <1>1, <1>2, <2>2 DEF Slot
  <2>5. i - at + first = last BY <1>1, <1>2, <2>1
  <2>6. QED BY <1>3, <2>1, <2>3, <2>4, <2>5 DEF Filled, Moved
<1>6. last' - first' = last - first + 1 BY <1>1, <1>2, <1>3
<1>7. QED BY <1>1, <1>3, <1>4, <1>5, <1>6

\* A push writes the cell behind the last one and leaves the others alone.
LEMMA PushWritesOneCell ==
    ASSUME TypeOK, NEW p \in Pairs, PushPair(p)
    PROVE  /\ first' \in Nat
           /\ \A j \in first .. last - 1 : slots'[j - first + first'] = slots[j]
           /\ slots'[last - first + first'] = [slots[last] EXCEPT ![write] = p]
           /\ Length' = Length + 1
           /\ read' = read
<1> USE QueueAssumption
<1> DEFINE d == last - first
<1>1. /\ first \in Nat /\ last \in Nat /\ d \in Nat
      /\ read \in Nat /\ write \in Nat /\ read' = read
      /\ Length = d * BlockPairs + write - read
      /\ Length' = (last' - first') * BlockPairs + write' - read'
  BY DEF TypeOK, PushPair, Length
<1>2. CASE write = BlockPairs - 1
  <2>1. AppendBlock(p) BY <1>2 DEF PushPair
  <2>2. (d + 1) * BlockPairs = d * BlockPairs + BlockPairs /\ d * BlockPairs \in Nat
    BY <1>1
  <2>3. last' - first' = d + 1 /\ write' = 0 BY <2>1, AppendMovesWindow
  <2>4. Length' = (d + 1) * BlockPairs + 0 - read BY <1>1, <2>3
  <2> HIDE DEF d
  <2>5. Length' = Length + 1 BY <1>1, <1>2, <2>2, <2>4
  <2>6. QED BY <1>1, <2>1, <2>5, AppendMovesWindow DEF d
<1>3. CASE write # BlockPairs - 1
  <2>1. /\ slots' = [slots EXCEPT ![last] = [slots[last] EXCEPT ![write] = p]]
        /\ write' = write + 1
        /\ UNCHANGED <<capacity, first, last>>
    BY <1>3 DEF PushPair
  <2>2. last \in DOMAIN slots /\ \A j \in first .. last : j \in DOMAIN slots
    BY DEF TypeOK
  <2>3. \A j \in first .. last : j - first + first' = j BY <1>1, <2>1
  <2>4. \A j \in first .. last - 1 : slots'[j - first + first'] = slots[j]
    <3>1. TAKE j \in first .. last - 1
    <3>2. j \in first .. last /\ j # last BY <1>1
    <3>3. QED BY <2>1, <2>2, <2>3, <3>2
  <2>5. slots'[last - first + first'] = [slots[last] EXCEPT ![write] = p]
    <3>1. last \in first .. last BY <1>1 DEF TypeOK
    <3>2. QED BY <2>1, <2>2, <2>3, <3>1
  <2>6. Length' = d * BlockPairs + (write + 1) - read /\ d * BlockPairs \in Nat
    BY <1>1, <2>1
  <2> HIDE DEF d
  <2>7. Length' = Length + 1 BY <1>1, <2>6
  <2>8. QED BY <1>1, <2>1, <2>4, <2>5, <2>7
<1>4. QED BY <1>2, <1>3

\* A push appends its pair to the contents.
LEMMA PushAppends ==
    ASSUME TypeOK, TypeOK', NEW p \in Pairs, PushPair(p)
    PROVE  Contents' = Append(Contents, p)
<1> USE QueueAssumption
<1> DEFINE d == last - first
           Then(k) == slots'[first' + k \div BlockPairs][k % BlockPairs]
<1>1. /\ ContentsAreCells /\ ContentsAreCells'
      /\ Length' = Length + 1 /\ read' = read
  BY ContentsShape, NextContentsShape, PushWritesOneCell
<1>2. /\ d \in Nat /\ d * BlockPairs \in Nat
      /\ first \in Nat /\ last \in Nat /\ first' \in Nat
      /\ read \in Nat /\ BlockPairs \in Nat
      /\ write \in 0 .. BlockPairs - 1 /\ write \in 0 .. BlockPairs
      /\ Length = d * BlockPairs + write - read
  BY PushWritesOneCell DEF TypeOK, Length
<1>3. \A i \in 1 .. Length + 1 : Contents'[i] = Then(read + i - 1)
  BY <1>1 DEF ContentsAreCells, Cell
<1>4. ASSUME NEW i \in 1 .. Length PROVE Then(read + i - 1) = Cell(read + i - 1)
  <2> DEFINE k == read + i - 1
             q == k \div BlockPairs
             r == k % BlockPairs
  <2>1. Length \in Nat BY <1>1 DEF ContentsAreCells
  <2>2. k \in Nat /\ k < d * BlockPairs + write BY <1>2, <2>1
  <2> HIDE DEF k, d
  <2>3. q \in 0 .. d /\ r \in 0 .. BlockPairs - 1 /\ (q = d => r < write)
    BY <1>2, <2>2, CellsBefore
  <2> HIDE DEF q, r
  <2>4. (first + q) - first + first' = first' + q BY <1>2, <2>3
  <2>5. CASE q = d
    <3>1. first + q = last BY <1>2, <2>3, <2>5 DEF d
    <3>2. slots'[first' + q] = [slots[last] EXCEPT ![write] = p]
      <4>1. last - first + first' = first' + q BY <2>4, <3>1
      <4>2. QED BY <4>1, PushWritesOneCell
    <3>3. slots'[first' + q][r] = slots[first + q][r]
      <4>1. r # write BY <1>2, <2>3, <2>5
      <4>2. slots[last] \in Blocks BY DEF TypeOK
      <4>3. QED BY <2>3, <3>1, <3>2, <4>1, <4>2 DEF Blocks
    <3>4. QED BY <3>3 DEF Cell, k, q, r
  <2>6. CASE q # d
    <3>1. first + q \in first .. last - 1 BY <1>2, <2>3, <2>6 DEF d
    <3>2. slots'[first' + q] = slots[first + q]
      <4>1. PICK j \in first .. last - 1 : j = first + q BY <3>1
      <4>2. slots'[j - first + first'] = slots[j] BY PushWritesOneCell
      <4>3. QED BY <2>4, <4>1, <4>2
    <3>3. QED BY <3>2 DEF Cell, k, q, r
  <2>7. QED BY <2>5, <2>6 DEF k
<1>5. Then(read + Length) = p
  <2>1. read + Length = d * BlockPairs + write BY <1>2
  <2>2. /\ (d * BlockPairs + write) \div BlockPairs = d
        /\ (d * BlockPairs + write) % BlockPairs = write
    BY <1>2, QuotientIsUnique
  <2>3. first' + d = last - first + first' BY <1>2
  <2>4. slots'[first' + d] = [slots[last] EXCEPT ![write] = p]
    BY <2>3, PushWritesOneCell
  <2>5. slots[last] \in Blocks BY DEF TypeOK
  <2>6. slots'[first' + d][write] = p BY <1>2, <2>4, <2>5 DEF Blocks
  <2> HIDE DEF d
  <2>7. QED BY <2>1, <2>2, <2>6
<1> HIDE DEF Then
<1>6. /\ Length \in Nat
      /\ Contents \in Seq(Cells) /\ Len(Contents) = Length
      /\ Contents' \in Seq(Cells) /\ Len(Contents') = Length + 1
      /\ \A i \in 1 .. Length : Contents[i] = Cell(read + i - 1)
  BY <1>1 DEF ContentsAreCells, Cells
<1>7. /\ Append(Contents, p) \in Seq(Cells)
      /\ Len(Append(Contents, p)) = Length + 1
      /\ \A i \in 1 .. Length : Append(Contents, p)[i] = Contents[i]
      /\ Append(Contents, p)[Length + 1] = p
  BY <1>6 DEF Cells
<1>8. ASSUME NEW i \in 1 .. Length + 1 PROVE Contents'[i] = Append(Contents, p)[i]
  <2>1. CASE i \in 1 .. Length
    BY <1>3, <1>4, <1>6, <1>7, <2>1
  <2>2. CASE i = Length + 1
    <3>1. read + i - 1 = read + Length BY <1>2, <1>6, <2>2
    <3>2. QED BY <1>3, <1>5, <1>7, <2>2, <3>1
  <2>3. QED BY <1>6, <2>1, <2>2
<1>9. QED BY <1>6, <1>7, <1>8, SeqEqual

\* Empty compares positions, and means that there are no pairs.
LEMMA EmptyIsNoLength == TypeOK => (Empty <=> Length = 0)
<1> SUFFICES ASSUME TypeOK PROVE Empty <=> Length = 0
  OBVIOUS
<1> USE QueueAssumption
<1> DEFINE d == last - first
<1>1. d \in Nat /\ read \in Nat /\ write \in Nat /\ read < BlockPairs
  BY DEF TypeOK
<1>2. Length = d * BlockPairs + write - read BY DEF Length
<1>3. CASE d = 0
  <2>1. first = last BY <1>3 DEF TypeOK
  <2>2. Length = write - read BY <1>1, <1>2, <1>3
  <2>3. QED BY <1>1, <2>1, <2>2 DEF Empty
<1>4. CASE d # 0
  <2>1. first # last BY <1>4 DEF TypeOK
  <2>2. d * BlockPairs >= 0 * BlockPairs + BlockPairs /\ d * BlockPairs \in Nat
    BY <1>1, <1>4, MoreBlocks
  <2> HIDE DEF d
  <2>3. Length # 0 BY <1>1, <1>2, <2>2
  <2>4. QED BY <2>1, <2>3 DEF Empty
<1>5. QED BY <1>3, <1>4

\* A pop takes the first cell and leaves the others where a reader that counts
\* from the first block finds them.
LEMMA PopKeepsCells ==
    ASSUME TypeOK, TypeOK', TryPopPair, ~Empty
    PROVE  /\ out' = Cell(read)
           /\ Length' = Length - 1
           /\ \A i \in 1 .. Length - 1 : Cell(read + i - 1)' = Cell(read + i)
<1> USE QueueAssumption
<1> DEFINE d == last - first
           Then(k) == slots'[first' + k \div BlockPairs][k % BlockPairs]
<1>1. /\ d \in Nat /\ d * BlockPairs \in Nat
      /\ first \in Nat /\ last \in Nat
      /\ read \in 0 .. BlockPairs - 1 /\ write \in 0 .. BlockPairs - 1
      /\ Length = d * BlockPairs + write - read /\ Length \in Nat
      /\ Length' = (last' - first') * BlockPairs + write' - read'
      /\ last' = last /\ write' = write
  BY LengthIsNat DEF TypeOK, Length, TryPopPair
<1>2. out' = Cell(read)
  <2>1. 0 * BlockPairs + read = read BY <1>1
  <2>2. read \div BlockPairs = 0 /\ read % BlockPairs = read
    BY <1>1, <2>1, QuotientIsUnique
  <2>3. out' = slots[first][read] BY DEF TryPopPair
  <2>4. first + 0 = first BY <1>1
  <2>5. QED BY <2>2, <2>3, <2>4 DEF Cell
<1>3. CASE read # BlockPairs - 1
  <2>1. read' = read + 1 /\ UNCHANGED <<slots, first>>
    BY <1>3 DEF TryPopPair
  <2>2. \A i \in 1 .. Length - 1 : read' + i - 1 = read + i BY <1>1, <2>1
  <2>3. \A i \in 1 .. Length - 1 : Cell(read + i - 1)' = Cell(read + i)
    BY <2>1, <2>2 DEF Cell
  <2>4. Length' = d * BlockPairs + write - (read + 1) BY <1>1, <2>1
  <2> HIDE DEF d
  <2>5. Length' = Length - 1 BY <1>1, <2>4
  <2>6. QED BY <1>2, <2>3, <2>5
<1>4. CASE read = BlockPairs - 1
  <2>1. slots' = [slots EXCEPT ![first] = Dead] /\ first' = first + 1 /\ read' = 0
    BY <1>4 DEF TryPopPair
  <2>2. first # last BY <1>4 DEF Empty, TypeOK
  <2>3. PICK e \in Nat : d = e + 1
    <3>1. d - 1 \in Nat /\ d = (d - 1) + 1 BY <1>1, <2>2
    <3>2. QED BY <3>1
  <2>4. last' - first' = e BY <1>1, <2>1, <2>3
  <2>5. d * BlockPairs = e * BlockPairs + BlockPairs /\ e * BlockPairs \in Nat
    BY <2>3
  <2>6. Length' = Length - 1
    <3>1. Length' = e * BlockPairs + write - 0 BY <1>1, <2>1, <2>4
    <3> HIDE DEF d
    <3>2. QED BY <1>1, <1>4, <2>5, <3>1
  <2>7. ASSUME NEW i \in 1 .. Length - 1 PROVE Cell(read + i - 1)' = Cell(read + i)
    <3> DEFINE k == i - 1
               q == k \div BlockPairs
               r == k % BlockPairs
    <3>1. k \in Nat /\ read' + i - 1 = k BY <1>1, <2>1
    <3>2. q \in Nat /\ r \in 0 .. BlockPairs - 1 /\ k = q * BlockPairs + r
      BY <3>1, QuotientFacts
    <3>3. k < e * BlockPairs + write
      <4>1. Length' = e * BlockPairs + write - 0 BY <1>1, <2>1, <2>4
      <4> HIDE DEF d
      <4>2. QED BY <1>1, <2>5, <2>6, <4>1
    <3> HIDE DEF k
    <3>4. q \in 0 .. e
      <4>1. write \in 0 .. BlockPairs BY <1>1
      <4>2. QED BY <2>3, <3>1, <3>3, <4>1, CellsBefore
    <3> HIDE DEF q, r
    <3>5. /\ (q + 1) * BlockPairs = q * BlockPairs + BlockPairs
          /\ q * BlockPairs \in Nat
      BY <3>2
    <3>6. read + i = (q + 1) * BlockPairs + r /\ q + 1 \in Nat
      BY <1>4, <3>1, <3>2, <3>5 DEF k
    <3>7. (read + i) \div BlockPairs = q + 1 /\ (read + i) % BlockPairs = r
      <4>1. PICK n \in Nat : n = q + 1 BY <3>2
      <4>2. (n * BlockPairs + r) \div BlockPairs = n /\ (n * BlockPairs + r) % BlockPairs = r
        BY <3>2, QuotientIsUnique
      <4>3. QED BY <3>6, <4>1, <4>2
    <3>8. first' + q = first + (q + 1) /\ first' + q # first
      BY <1>1, <2>1, <3>2
    <3>9. first + (q + 1) \in first .. last BY <1>1, <2>3, <3>4
    <3>10. first + (q + 1) \in DOMAIN slots BY <3>9 DEF TypeOK
    <3>11. slots'[first' + q] = slots[first + (q + 1)] BY <2>1, <3>8, <3>10
    <3>12. Cell(read + i - 1)' = slots'[first' + q][r]
      BY <3>1 DEF Cell, q, r
    <3>13. QED BY <3>7, <3>11, <3>12 DEF Cell
  <2>8. QED BY <1>2, <2>6, <2>7
<1>5. QED BY <1>3, <1>4

\* A pop takes the first of the contents.
LEMMA PopTakesFirst ==
    ASSUME TypeOK, TypeOK', TryPopPair, ~Empty
    PROVE  Contents # <<>> /\ out' = Head(Contents) /\ Contents' = Tail(Contents)
<1>1. /\ Length \in Nat /\ Length # 0
      /\ Contents \in Seq(Cells) /\ Len(Contents) = Length
      /\ \A i \in 1 .. Length : Contents[i] = Cell(read + i - 1)
  BY ContentsShape, EmptyIsNoLength DEF ContentsAreCells
<1>2. /\ Contents' \in Seq(Cells) /\ Len(Contents') = Length - 1
      /\ \A i \in 1 .. Length - 1 : Contents'[i] = Cell(read + i - 1)'
  BY NextContentsShape, PopKeepsCells DEF ContentsAreCells, Cells
<1>3. Contents # <<>> BY <1>1
<1>4. out' = Head(Contents)
  <2>1. Head(Contents) = Contents[1] BY <1>1, <1>3
  <2>2. read + 1 - 1 = read BY DEF TypeOK
  <2>3. Contents[1] = Cell(read) BY <1>1, <2>2
  <2>4. QED BY <2>1, <2>3, PopKeepsCells
<1>5. /\ Tail(Contents) \in Seq(Cells)
      /\ Len(Tail(Contents)) = Length - 1
      /\ \A i \in 1 .. Length - 1 : Tail(Contents)[i] = Contents[i + 1]
  BY <1>1, <1>3, HeadTailProperties
<1>6. ASSUME NEW i \in 1 .. Length - 1 PROVE Contents'[i] = Tail(Contents)[i]
  <2>1. i + 1 \in 1 .. Length /\ read + (i + 1) - 1 = read + i BY <1>1 DEF TypeOK
  <2>2. Contents[i + 1] = Cell(read + i) BY <1>1, <2>1
  <2>3. QED BY <1>2, <1>5, <2>2, PopKeepsCells
<1>7. Contents' = Tail(Contents) BY <1>1, <1>2, <1>5, <1>6, SeqEqual
<1>8. QED BY <1>3, <1>4, <1>7

\* The record implements the first-in first-out queue, whatever the size of
\* its blocks and however often its window is slid or moved: pairs come out
\* in the order they were pushed, none lost, none twice.
THEOREM RecordIsFifo == Spec => IsFifo
<1>1. Init => Promise!Init
  <2> SUFFICES ASSUME Init PROVE Promise!Init
    OBVIOUS
  <2>1. TypeOK BY InitialTypes
  <2>2. Empty BY DEF Init, Empty
  <2>3. Len(Contents) = 0 /\ Contents \in Seq(Cells)
    BY <2>1, <2>2, ContentsShape, EmptyIsNoLength DEF ContentsAreCells
  <2>4. Contents = <<>> BY <2>3
  <2>5. QED BY <2>4 DEF Promise!Init, Init
<1>2. TypeOK /\ TypeOK' /\ [Next]_vars => [Promise!Next]_<<Contents, out>>
  <2> SUFFICES ASSUME TypeOK, TypeOK', [Next]_vars
               PROVE  [Promise!Next]_<<Contents, out>>
    OBVIOUS
  <2>1. ASSUME NEW p \in Pairs, PushPair(p) PROVE Promise!Next
    <3>1. Contents' = Append(Contents, p) BY <2>1, PushAppends
    <3>2. out' = out BY <2>1 DEF PushPair
    <3>3. QED BY <3>1, <3>2 DEF Promise!Next, Promise!Push
  <2>2. CASE TryPopPair /\ ~Empty
    BY <2>2, PopTakesFirst DEF Promise!Next, Promise!Pop
  <2>3. CASE TryPopPair /\ Empty
    <3>1. UNCHANGED <<slots, capacity, first, last, read, write>> /\ out' = NoPair
      BY <2>3 DEF TryPopPair
    <3>2. Contents' = Contents BY <3>1 DEF Contents, Length
    <3>3. Len(Contents) = 0 /\ Contents \in Seq(Cells)
      BY <2>3, ContentsShape, EmptyIsNoLength DEF ContentsAreCells
    <3>4. Contents = <<>> BY <3>3
    <3>5. QED BY <3>1, <3>2, <3>4 DEF Promise!Next, Promise!Pop
  <2>4. CASE UNCHANGED vars
    BY <2>4 DEF vars, Contents, Length
  <2>5. QED BY <2>1, <2>2, <2>3, <2>4 DEF Next
<1>3. QED BY <1>1, <1>2, CursorsStayInside, PTL DEF Spec, IsFifo, Promise!Spec

=============================================================================
