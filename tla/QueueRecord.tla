----------------------------- MODULE QueueRecord -----------------------------
(***************************************************************************)
(* The queue record behind the completed-operation queues: a deque of      *)
(* fixed-size blocks.  An array of slots points to the blocks; the blocks  *)
(* in use are the slots from first to last, and the pairs in the queue lie *)
(* between the read cursor in the first block and the write cursor in the  *)
(* last one.  The window of used slots drifts to the right as blocks are   *)
(* appended and freed, and is moved back or into a larger array when it    *)
(* reaches the end.                                                        *)
(*                                                                         *)
(* A slot outside the window is Dead: the code leaves a stale pointer      *)
(* there, which nothing may follow.                                        *)
(***************************************************************************)
EXTENDS Naturals, Sequences

CONSTANTS
    Pairs,          \* values of a pair
    NoPair,         \* no pair, and what uninitialised memory holds
    Dead,           \* a slot that points to no live block
    BlockPairs,     \* pairs in a block; 16 in the code
    MinSlots,       \* smallest slot array; 8 in the code
    MaxLength       \* bound: pairs in the queue

ASSUME QueueAssumption ==
    /\ NoPair \notin Pairs
    /\ BlockPairs \in Nat \ {0}
    /\ MinSlots \in Nat
    /\ MinSlots >= 3
    /\ MaxLength \in Nat

VARIABLES
    slots,      \* slotArrayBase20: the slot array, each slot with its block's pairs
    capacity,   \* slotCapacity24
    first,      \* slotArrayCurrent0C, as an index
    last,       \* slotArrayLast1C, as an index
    read,       \* readCursor00, as an index into the first block
    write,      \* writeCursor10, as an index into the last block
    out         \* outPair of the last Queue_TryPopPair

vars == <<slots, capacity, first, last, read, write, out>>

Blocks == [0 .. BlockPairs - 1 -> Pairs \cup {NoPair}]
NewBlock == [i \in 0 .. BlockPairs - 1 |-> NoPair]

\* The cursors stay inside their blocks and in order, the window inside the array, and the
\* slots of the window point to live blocks.
TypeOK ==
    /\ capacity \in Nat
    /\ first \in 0 .. capacity - 1
    /\ last \in first .. capacity - 1
    /\ slots \in [0 .. capacity - 1 -> Blocks \cup {Dead}]
    /\ \A i \in first .. last : slots[i] \in Blocks
    /\ read \in 0 .. BlockPairs - 1
    /\ write \in 0 .. BlockPairs - 1
    /\ first = last => read <= write
    /\ out \in Pairs \cup {NoPair}

\* Queue_Init with initialSize 0, as the queue pair's constructor calls it:
\* one block in the middle of a slot array of the smallest size.
Init ==
    /\ capacity = MinSlots
    /\ first = (MinSlots - 1) \div 2
    /\ last = first
    /\ slots = [i \in 0 .. MinSlots - 1 |-> IF i = first THEN NewBlock ELSE Dead]
    /\ read = 0
    /\ write = 0
    /\ out = NoPair

-----------------------------------------------------------------------------

\* The pairs in the queue, oldest first.
Length == (last - first) * BlockPairs + write - read
Contents ==
    [i \in 1 .. Length |->
        slots[first + (read + i - 1) \div BlockPairs][(read + i - 1) % BlockPairs]]

Empty == first = last /\ read = write

Used == last - first + 1

\* Mutant: the array grows whenever the window reaches its end.
RoomierCapacityMutant == 2 * capacity + 2

\* Queue_RecenterOrGrowSlotArray for one more block at the back: slide the
\* window to the middle when less than half of the array is needed, else
\* move it to the middle of an array of more than twice the size.
RoomierCapacity ==
    IF 2 * (Used + 1) < capacity THEN capacity ELSE 2 * capacity + 2

\* Mutant: the test for a free slot behind the window is off by one.
PlacementMutant ==
    IF capacity - last < 1
    THEN [cap |-> RoomierCapacity, at |-> (RoomierCapacity - (Used + 1)) \div 2]
    ELSE [cap |-> capacity, at |-> first]

\* Where the window starts once there is room for a slot behind it.
Placement ==
    IF capacity - last < 2
    THEN [cap |-> RoomierCapacity, at |-> (RoomierCapacity - (Used + 1)) \div 2]
    ELSE [cap |-> capacity, at |-> first]

\* Queue_AppendBlockAndCommitTailPair: the pair fills the last block, and a
\* fresh block becomes the last one.
AppendBlock(p) ==
    LET at == Placement.at
        Moved(i) == slots[i - at + first]
    IN  /\ capacity' = Placement.cap
        /\ first' = at
        /\ last' = at + Used
        /\ slots' = [i \in 0 .. Placement.cap - 1 |->
                        CASE i \in at .. at + Used - 2 -> Moved(i)
                          [] i = at + Used - 1 -> [Moved(i) EXCEPT ![write] = p]
                          [] i = at + Used -> NewBlock
                          [] OTHER -> Dead]
        /\ write' = 0

\* Queue_PushPair
PushPair(p) ==
    /\ Length < MaxLength
    /\ IF write = BlockPairs - 1
       THEN AppendBlock(p)
       ELSE /\ slots' = [slots EXCEPT ![last][write] = p]
            /\ write' = write + 1
            /\ UNCHANGED <<capacity, first, last>>
    /\ UNCHANGED <<read, out>>

\* Mutant: the first block is freed with its last pair still in it.
TryPopPairMutant ==
    IF Empty
    THEN out' = NoPair /\ UNCHANGED <<slots, capacity, first, last, read, write>>
    ELSE /\ out' = slots[first][read]
         /\ IF read # BlockPairs - 2
            THEN read' = read + 1 /\ UNCHANGED <<slots, first>>
            ELSE /\ slots' = [slots EXCEPT ![first] = Dead]
                 /\ first' = first + 1
                 /\ read' = 0
         /\ UNCHANGED <<capacity, last, write>>

\* Queue_TryPopPair: the last pair of a block takes the block with it.
TryPopPair ==
    IF Empty
    THEN out' = NoPair /\ UNCHANGED <<slots, capacity, first, last, read, write>>
    ELSE /\ out' = slots[first][read]
         /\ IF read # BlockPairs - 1
            THEN read' = read + 1 /\ UNCHANGED <<slots, first>>
            ELSE /\ slots' = [slots EXCEPT ![first] = Dead]
                 /\ first' = first + 1
                 /\ read' = 0
         /\ UNCHANGED <<capacity, last, write>>

Next == (\E p \in Pairs : PushPair(p)) \/ TryPopPair

Spec == Init /\ [][Next]_vars

-----------------------------------------------------------------------------
(* Properties                                                              *)

\* The record is a first-in first-out queue, through every append, free,
\* slide and growth.
Promise == INSTANCE Fifo WITH items <- Contents
IsFifo == Promise!Spec

\* However long the queue is used, the slot array is bounded by the most
\* blocks the queue ever needs at once: drifting alone never grows it.
SlotsAreBounded ==
    LET mostUsed == (MaxLength + BlockPairs - 1) \div BlockPairs + 1
    IN  capacity <= MinSlots \/ capacity <= 4 * mostUsed + 2

=============================================================================
