--------------------------- MODULE CompletionQueue ---------------------------
(***************************************************************************)
(* The completed-operation queue pair of the engine and its consumers.     *)
(*                                                                         *)
(* Producers (worker threads) enqueue work items; the client thread polls  *)
(* with RunCompletedOperationQueue(nonBlocking = true); queue threads, when *)
(* the constructor is given a count, run RunCompletedOperationQueue(false)  *)
(* and wait on an auto-reset event.  StopQueueThreads ends them with a     *)
(* null work item that each thread passes on.                              *)
(*                                                                         *)
(* The queue lock makes a critical section one step; the event is signalled *)
(* after the lock is left, and waited for after the lock is left, so those *)
(* are steps of their own.                                                 *)
(***************************************************************************)
EXTENDS Naturals, Sequences, FiniteSets

CONSTANTS
    Producers,
    QueueThreads,   \* queue threads the constructor may be asked for
    Client,         \* the client thread
    Sentinel,       \* the null work item
    NoItem,         \* nothing in hand
    MaxItems        \* bound: items one producer enqueues

ASSUME QueueThreadsAssumption ==
    /\ Client \notin QueueThreads
    /\ Producers \cap (QueueThreads \cup {Client}) = {}
    /\ MaxItems \in Nat
    /\ IsFiniteSet(QueueThreads)

Consumers == QueueThreads \cup {Client}

\* The n-th item of producer p.
WorkItems == Producers \X (1 .. MaxItems)
Entries == WorkItems \cup {Sentinel}

ASSUME EntriesAssumption == Sentinel \notin WorkItems /\ NoItem \notin Entries

VARIABLES
    queue0C,    \* the queue every caller in the launcher uses
    queue34,    \* the queue that is looked at first
    event,      \* the auto-reset event behind queueWaitHelper5c_
    started,    \* the queue threads the constructor started
    pc,         \* where a consumer is
    hand,       \* the work item a consumer is dispatching
    stop,       \* where StopQueueThreads is
    signals,    \* producers that have pushed and not signalled yet
    made,       \* items made, per producer
    delivered,  \* items passed to OnOperationCompleted
    before      \* items enqueued before StopQueueThreads began

queues == <<queue0C, queue34>>
vars == <<queue0C, queue34, event, started, pc, hand, stop, signals, made, delivered, before>>

ConsumerSteps ==
    {"idle", "check", "wait", "woken", "handle", "cascade", "cascadeSignal", "done", "gaveUp"}

StopSteps == {"no", "drain", "signal", "join", "stopped"}

TypeOK ==
    /\ queue0C \in Seq(Entries)
    /\ queue34 \in Seq(Entries)
    /\ event \in BOOLEAN
    /\ started \subseteq QueueThreads
    /\ pc \in [Consumers -> ConsumerSteps]
    /\ hand \in [Consumers -> Entries \cup {NoItem}]
    /\ stop \in StopSteps
    /\ signals \subseteq Producers
    /\ made \in [Producers -> 0 .. MaxItems]
    /\ delivered \subseteq WorkItems
    /\ before \subseteq WorkItems

\* The constructor may be asked for any number of queue threads; the shipped
\* engine asks for none.
Init ==
    /\ queue0C = <<>>
    /\ queue34 = <<>>
    /\ event = FALSE
    /\ started \in SUBSET QueueThreads
    /\ pc = [t \in Consumers |-> IF t \in started THEN "check" ELSE "idle"]
    /\ hand = [t \in Consumers |-> NoItem]
    /\ stop = "no"
    /\ signals = {}
    /\ made = [p \in Producers |-> 0]
    /\ delivered = {}
    /\ before = {}

-----------------------------------------------------------------------------
(* Helpers                                                                 *)

NothingQueued == queue0C = <<>> /\ queue34 = <<>>

Queued(e) ==
    \/ \E i \in DOMAIN queue0C : queue0C[i] = e
    \/ \E i \in DOMAIN queue34 : queue34[i] = e

\* Queue 34 is preferred.
NextEntry == IF queue34 # <<>> THEN Head(queue34) ELSE Head(queue0C)

\* Mutant: the pair is taken out of the other queue.
RemoveNextMutant ==
    IF queue0C # <<>>
    THEN queue0C' = Tail(queue0C) /\ UNCHANGED queue34
    ELSE queue34' = Tail(queue34) /\ UNCHANGED queue0C

RemoveNext ==
    IF queue34 # <<>>
    THEN queue34' = Tail(queue34) /\ UNCHANGED queue0C
    ELSE queue0C' = Tail(queue0C) /\ UNCHANGED queue34

Moves(t, step) == pc' = [pc EXCEPT ![t] = step]

\* A consumer that has nothing more to do: a queue thread's Run returns, the
\* client's poll returns to the client.
Returns(t) == Moves(t, IF t = Client THEN "idle" ELSE "done")

-----------------------------------------------------------------------------
(* EnqueueCompletedOperation, on a producer                                *)

\* Mutant: the emptiness of the pair is looked at after the push.
EnqueueMutant(p) ==
    /\ p \notin signals
    /\ made[p] < MaxItems
    /\ made' = [made EXCEPT ![p] = @ + 1]
    /\ queue0C' = Append(queue0C, <<p, made'[p]>>)
    /\ UNCHANGED <<queue34, event, started, pc, hand, stop, signals, delivered, before>>

\* The push, with the emptiness of the pair looked at under the same lock.
Enqueue(p) ==
    /\ p \notin signals
    /\ made[p] < MaxItems
    /\ made' = [made EXCEPT ![p] = @ + 1]
    /\ \/ queue0C' = Append(queue0C, <<p, made'[p]>>) /\ UNCHANGED queue34
       \/ queue34' = Append(queue34, <<p, made'[p]>>) /\ UNCHANGED queue0C
    /\ signals' = IF NothingQueued THEN signals \cup {p} ELSE signals
    /\ UNCHANGED <<event, started, pc, hand, stop, delivered, before>>

\* The event, after the lock has been left.
Signal(p) ==
    /\ p \in signals
    /\ signals' = signals \ {p}
    /\ event' = TRUE
    /\ UNCHANGED <<queues, started, pc, hand, stop, made, delivered, before>>

-----------------------------------------------------------------------------
(* RunCompletedOperationQueue, on a consumer                               *)

Poll ==
    /\ pc[Client] = "idle"
    /\ stop = "no"
    /\ Moves(Client, "check")
    /\ UNCHANGED <<queues, event, started, hand, stop, signals, made, delivered, before>>

\* Mutant: the null item is dispatched like any other.
TakeMutant(t) ==
    /\ RemoveNext
    /\ hand' = [hand EXCEPT ![t] = NextEntry]
    /\ Moves(t, "handle")
    /\ UNCHANGED <<event, started, stop, signals, made, delivered, before>>

Take(t) ==
    /\ RemoveNext
    /\ hand' = [hand EXCEPT ![t] = NextEntry]
    /\ Moves(t, IF NextEntry = Sentinel THEN "cascade" ELSE "handle")
    /\ UNCHANGED <<event, started, stop, signals, made, delivered, before>>

TakeNext(t) ==
    /\ pc[t] = "check"
    /\ ~NothingQueued
    /\ Take(t)

\* Both queues are empty: a poll returns, a queue thread leaves the lock to
\* wait.
FindEmpty(t) ==
    /\ pc[t] = "check"
    /\ NothingQueued
    /\ IF t = Client THEN Returns(t) ELSE Moves(t, "wait")
    /\ UNCHANGED <<queues, event, started, hand, stop, signals, made, delivered, before>>

\* WaitForSingleObject takes the signal.
WaitEvent(t) ==
    /\ pc[t] = "wait"
    /\ event
    /\ event' = FALSE
    /\ Moves(t, "woken")
    /\ UNCHANGED <<queues, started, hand, stop, signals, made, delivered, before>>

\* Back under the lock.  With something queued the inner loop is left, but no
\* queue has been selected: the pop fails and RunCompletedOperationQueue
\* returns, with the work still queued.
Woken(t) ==
    /\ pc[t] = "woken"
    /\ Moves(t, IF NothingQueued THEN "check" ELSE "gaveUp")
    /\ UNCHANGED <<queues, event, started, hand, stop, signals, made, delivered, before>>

\* CleanupConnection for a close item, OnOperationCompleted, release.
Handle(t) ==
    /\ pc[t] = "handle"
    /\ delivered' = delivered \cup {hand[t]}
    /\ hand' = [hand EXCEPT ![t] = NoItem]
    /\ Moves(t, "check")
    /\ UNCHANGED <<queues, event, started, stop, signals, made, before>>

\* Mutant: the null item is kept.
CascadeMutant(t) ==
    /\ pc[t] = "cascade"
    /\ hand' = [hand EXCEPT ![t] = NoItem]
    /\ Returns(t)
    /\ UNCHANGED <<queues, event, started, stop, signals, made, delivered, before>>

\* The null item is passed on to the next thread.
Cascade(t) ==
    /\ pc[t] = "cascade"
    /\ queue0C' = Append(queue0C, Sentinel)
    /\ hand' = [hand EXCEPT ![t] = NoItem]
    /\ IF NothingQueued THEN Moves(t, "cascadeSignal") ELSE Returns(t)
    /\ UNCHANGED <<queue34, event, started, stop, signals, made, delivered, before>>

CascadeSignal(t) ==
    /\ pc[t] = "cascadeSignal"
    /\ event' = TRUE
    /\ Returns(t)
    /\ UNCHANGED <<queues, started, hand, stop, signals, made, delivered, before>>

-----------------------------------------------------------------------------
(* StopQueueThreads, on the client thread                                  *)

MadeItems == {w \in WorkItems : w[2] <= made[w[1]]}

\* Mutant: the null item is pushed and nobody is woken for it.
StopBeginMutant ==
    /\ stop = "no"
    /\ pc[Client] = "idle"
    /\ before' = MadeItems
    /\ queue0C' = IF started = {} THEN queue0C ELSE Append(queue0C, Sentinel)
    /\ stop' = IF started = {} THEN "drain" ELSE "join"
    /\ UNCHANGED <<queue34, event, started, pc, hand, signals, made, delivered>>

\* Without queue threads the queues are drained here; with them the null item
\* is queued and the threads are joined.
StopBegin ==
    /\ stop = "no"
    /\ pc[Client] = "idle"
    /\ before' = MadeItems
    /\ IF started = {}
       THEN stop' = "drain" /\ UNCHANGED queues
       ELSE /\ queue0C' = Append(queue0C, Sentinel)
            /\ stop' = IF NothingQueued THEN "signal" ELSE "join"
            /\ UNCHANGED queue34
    /\ UNCHANGED <<event, started, pc, hand, signals, made, delivered>>

StopSignal ==
    /\ stop = "signal"
    /\ event' = TRUE
    /\ stop' = "join"
    /\ UNCHANGED <<queues, started, pc, hand, signals, made, delivered, before>>

\* TryPopCompletedOperation and the dispatch of what it popped.
DrainNext ==
    /\ stop = "drain"
    /\ ~NothingQueued
    /\ RemoveNext
    /\ delivered' = delivered \cup ({NextEntry} \ {Sentinel})
    /\ UNCHANGED <<event, started, pc, hand, stop, signals, made, before>>

\* Mutant: only the preferred queue is drained.
DrainedMutant ==
    /\ stop = "drain"
    /\ queue34 = <<>>
    /\ stop' = "stopped"
    /\ UNCHANGED <<queues, event, started, pc, hand, signals, made, delivered, before>>

Drained ==
    /\ stop = "drain"
    /\ NothingQueued
    /\ stop' = "stopped"
    /\ UNCHANGED <<queues, event, started, pc, hand, signals, made, delivered, before>>

\* Wait() for every thread in turn.
Joined ==
    /\ stop = "join"
    /\ \A t \in started : pc[t] \in {"done", "gaveUp"}
    /\ stop' = "stopped"
    /\ UNCHANGED <<queues, event, started, pc, hand, signals, made, delivered, before>>

-----------------------------------------------------------------------------

Produce(p) == Enqueue(p) \/ Signal(p)

Consume(t) ==
    \/ TakeNext(t) \/ FindEmpty(t) \/ WaitEvent(t) \/ Woken(t) \/ Handle(t)
    \/ Cascade(t) \/ CascadeSignal(t)

Stop == StopBegin \/ StopSignal \/ DrainNext \/ Drained \/ Joined

Next ==
    \/ \E p \in Producers : Produce(p)
    \/ \E t \in Consumers : Consume(t)
    \/ Poll
    \/ Stop

Spec == Init /\ [][Next]_vars

\* Threads are scheduled and finish the call they are in.  When a producer
\* enqueues and when the client polls or stops is their own choice.
FairSpec ==
    /\ Spec
    /\ \A p \in Producers : WF_vars(Signal(p))
    /\ \A t \in Consumers : WF_vars(Consume(t))
    /\ WF_vars(StopSignal \/ DrainNext \/ Drained \/ Joined)

-----------------------------------------------------------------------------
(* Properties                                                              *)

\* A thread waits in vain only when another one gave up: with work queued
\* and a queue thread waiting, the event is set or about to be set, or a
\* thread that has been woken is on its way to the queues, or some thread
\* was woken and returned without taking the work.
NoLostWakeup ==
    ~NothingQueued /\ (\E t \in QueueThreads : pc[t] = "wait") =>
        \/ event
        \/ signals # {}
        \/ stop = "signal"
        \/ \E t \in Consumers : pc[t] \in {"woken", "cascadeSignal", "gaveUp"}

\* Once StopQueueThreads has queued the null item it is never lost: every
\* thread that still looks at the queues finds it.
SentinelStays ==
    stop \in {"signal", "join"} =>
        Queued(Sentinel) \/ \E t \in Consumers : hand[t] = Sentinel

\* A work item is in one place: queued once, in one hand, or delivered.
ItemsAreUnique ==
    LET InHand(e) == {t \in Consumers : hand[t] = e}
        At0C(e) == {i \in DOMAIN queue0C : queue0C[i] = e}
        At34(e) == {i \in DOMAIN queue34 : queue34[i] = e}
        Copies(e) == Cardinality(InHand(e)) + Cardinality(At0C(e)) + Cardinality(At34(e))
    IN  \A w \in WorkItems :
           Copies(w) = IF w \in MadeItems \ delivered THEN 1 ELSE 0

\* Without queue threads, everything enqueued before StopQueueThreads began
\* has been delivered when it returns.
StopDelivers == stop = "stopped" /\ started = {} => before \subseteq delivered

\* StopQueueThreads returns when there is at most one queue thread.
StopEndsAlone ==
    stop # "no" /\ Cardinality(started) <= 1 ~> stop = "stopped"

\* What the header says of StopQueueThreads: it waits for each queue thread
\* to terminate, and they do.
StopEnds == stop # "no" ~> stop = "stopped"

=============================================================================
