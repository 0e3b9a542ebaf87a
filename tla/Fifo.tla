--------------------------------- MODULE Fifo ---------------------------------
(***************************************************************************)
(* What a queue record of the engine promises: pairs come out in the order *)
(* in which they were pushed, and a failed pop finds the queue empty.      *)
(***************************************************************************)
EXTENDS Sequences

CONSTANTS
    Pairs,      \* work item and context pointer
    NoPair      \* no pair was popped

VARIABLES
    items,      \* pairs in the queue, oldest first
    out         \* what the last TryPopPair stored, NoPair when it returned false

Init == items = <<>> /\ out = NoPair

Push(p) == items' = Append(items, p) /\ UNCHANGED out

Pop ==
    \/ items # <<>> /\ out' = Head(items) /\ items' = Tail(items)
    \/ items = <<>> /\ out' = NoPair /\ UNCHANGED items

Next == (\E p \in Pairs : Push(p)) \/ Pop

Spec == Init /\ [][Next]_<<items, out>>

===============================================================================
