----------------------- MODULE CompletionQueue_proofs -----------------------
(***************************************************************************)
(* Theorems about CompletionQueue for any number of producers and queue    *)
(* threads and any number of items.                                        *)
(***************************************************************************)
EXTENDS CompletionQueue, SequenceTheorems, FiniteSetTheorems, TLAPS

\* Whatever consumers do to the queues, they stay queues of entries.
LEMMA RemoveNextTypes ==
    ASSUME TypeOK, ~NothingQueued, RemoveNext
    PROVE  /\ queue0C' \in Seq(Entries)
           /\ queue34' \in Seq(Entries)
           /\ NextEntry \in Entries
<1>1. queue0C \in Seq(Entries) /\ queue34 \in Seq(Entries) BY DEF TypeOK
<1>2. CASE queue34 # <<>>
  <2>1. queue34' = Tail(queue34) /\ queue0C' = queue0C BY <1>2 DEF RemoveNext
  <2>2. Tail(queue34) \in Seq(Entries) /\ Head(queue34) \in Entries
    BY <1>1, <1>2, HeadTailProperties
  <2>3. QED BY <1>1, <1>2, <2>1, <2>2 DEF NextEntry
<1>3. CASE queue34 = <<>>
  <2>1. queue0C' = Tail(queue0C) /\ queue34' = queue34 BY <1>3 DEF RemoveNext
  <2>2. queue0C # <<>> BY <1>3 DEF NothingQueued
  <2>3. Tail(queue0C) \in Seq(Entries) /\ Head(queue0C) \in Entries
    BY <1>1, <2>2, HeadTailProperties
  <2>4. QED BY <1>1, <1>3, <2>1, <2>3 DEF NextEntry
<1>4. QED BY <1>2, <1>3

\* The initial state is well typed.
LEMMA InitialTypes == Init => TypeOK
<1> SUFFICES ASSUME Init PROVE TypeOK
  OBVIOUS
<1>1. <<>> \in Seq(Entries) BY EmptySeq
<1>2. \A t \in Consumers : (IF t \in started THEN "check" ELSE "idle") \in ConsumerSteps
  BY DEF ConsumerSteps
<1>3. pc \in [Consumers -> ConsumerSteps] BY <1>2 DEF Init
<1>4. made \in [Producers -> 0 .. MaxItems] BY QueueThreadsAssumption DEF Init
<1>5. QED BY <1>1, <1>3, <1>4 DEF Init, TypeOK, StopSteps

\* The constants of the queues: entries, items, consumers.
LEMMA EntryFacts ==
    /\ Sentinel \in Entries
    /\ \A p \in Producers : \A n \in 1 .. MaxItems : <<p, n>> \in WorkItems
    /\ WorkItems \subseteq Entries
    /\ Client \in Consumers
BY DEF Entries, WorkItems, Consumers

\* What is enqueued is an entry.
LEMMA EnqueueKeepsTypes ==
    ASSUME TypeOK, NEW p \in Producers, Enqueue(p)
    PROVE  TypeOK'
<1> USE QueueThreadsAssumption
<1>1. made'[p] = made[p] + 1 /\ made' = [made EXCEPT ![p] = made[p] + 1]
  BY DEF Enqueue, TypeOK
<1>2. made[p] + 1 \in 1 .. MaxItems BY DEF Enqueue, TypeOK
<1>3. <<p, made'[p]>> \in Entries BY <1>1, <1>2, EntryFacts
<1>4. queue0C' \in Seq(Entries) /\ queue34' \in Seq(Entries)
  <2>1. queue0C \in Seq(Entries) /\ queue34 \in Seq(Entries) BY DEF TypeOK
  <2>2. \/ queue0C' = Append(queue0C, <<p, made'[p]>>) /\ queue34' = queue34
        \/ queue34' = Append(queue34, <<p, made'[p]>>) /\ queue0C' = queue0C
    BY DEF Enqueue
  <2>3. \A q \in Seq(Entries) : \A e \in Entries : Append(q, e) \in Seq(Entries)
    OBVIOUS
  <2>4. QED BY <1>3, <2>1, <2>2, <2>3
<1>5. made' \in [Producers -> 0 .. MaxItems] BY <1>1, <1>2 DEF TypeOK
<1>6. signals' \subseteq Producers BY DEF Enqueue, TypeOK
<1>7. QED BY <1>4, <1>5, <1>6 DEF Enqueue, TypeOK

\* A consumer takes an entry.
LEMMA TakeKeepsTypes ==
    ASSUME TypeOK, NEW t \in Consumers, TakeNext(t)
    PROVE  TypeOK'
<1>1. ~NothingQueued /\ Take(t) BY DEF TakeNext
<1>2. queue0C' \in Seq(Entries) /\ queue34' \in Seq(Entries) /\ NextEntry \in Entries
  BY <1>1, RemoveNextTypes DEF Take
<1>3. hand' = [hand EXCEPT ![t] = NextEntry] BY <1>1 DEF Take
<1>4. hand' \in [Consumers -> Entries \cup {NoItem}]
  BY <1>2, <1>3 DEF TypeOK
<1>5. pc' \in [Consumers -> ConsumerSteps]
  BY <1>1 DEF Take, Moves, ConsumerSteps, TypeOK
<1>6. UNCHANGED <<event, started, stop, signals, made, delivered, before>>
  BY <1>1 DEF Take
<1>7. QED BY <1>2, <1>4, <1>5, <1>6 DEF TypeOK

\* A consumer's step other than taking an item.
LEMMA ConsumerKeepsTypes ==
    ASSUME TypeOK, NEW t \in Consumers, Consume(t), ~TakeNext(t),
           Handle(t) => hand[t] \in WorkItems
    PROVE  TypeOK'
<1>1. UNCHANGED <<queue34, started, stop, signals, made, before>>
  BY DEF Consume, FindEmpty, WaitEvent, Woken, Handle, Cascade, CascadeSignal, queues
<1>2. queue0C' \in Seq(Entries)
  <2>1. Append(queue0C, Sentinel) \in Seq(Entries) BY EntryFacts DEF TypeOK
  <2>2. QED BY <2>1 DEF Consume, FindEmpty, WaitEvent, Woken, Handle, Cascade,
                        CascadeSignal, queues, TypeOK
<1>3. pc' \in [Consumers -> ConsumerSteps]
  <2>1. \E s \in ConsumerSteps : pc' = [pc EXCEPT ![t] = s]
    BY DEF Consume, FindEmpty, WaitEvent, Woken, Handle, Cascade, CascadeSignal,
           Moves, Returns, ConsumerSteps
  <2>2. QED BY <2>1 DEF TypeOK
<1>4. hand' \in [Consumers -> Entries \cup {NoItem}]
  <2>1. hand' = hand \/ hand' = [hand EXCEPT ![t] = NoItem]
    BY DEF Consume, FindEmpty, WaitEvent, Woken, Handle, Cascade, CascadeSignal
  <2>2. QED BY <2>1 DEF TypeOK
<1>5. event' \in BOOLEAN
  BY DEF Consume, FindEmpty, WaitEvent, Woken, Handle, Cascade, CascadeSignal, TypeOK
<1>6. delivered' \subseteq WorkItems
  BY DEF Consume, FindEmpty, WaitEvent, Woken, Handle, Cascade, CascadeSignal, TypeOK
<1>7. QED BY <1>1, <1>2, <1>3, <1>4, <1>5, <1>6 DEF TypeOK

\* A consumer's program counter says what it has in hand: a work item while it
\* dispatches, the null item while it passes that on, else nothing.
HandsMatch ==
    \A t \in Consumers :
        /\ pc[t] = "handle" => hand[t] \in WorkItems
        /\ pc[t] = "cascade" => hand[t] = Sentinel
        /\ pc[t] \notin {"handle", "cascade"} => hand[t] = NoItem

\* No consumer holds anything at first.
LEMMA InitialHands == Init => HandsMatch
BY DEF Init, HandsMatch

\* A consumer holds an item exactly where its step says so.
LEMMA ConsumerHands ==
    ASSUME TypeOK, HandsMatch, NEW t \in Consumers, Consume(t)
    PROVE  HandsMatch'
<1>1. /\ \A u \in Consumers \ {t} : pc'[u] = pc[u] /\ hand'[u] = hand[u]
      /\ \/ pc'[t] = "handle" /\ hand'[t] \in WorkItems
         \/ pc'[t] = "cascade" /\ hand'[t] = Sentinel
         \/ pc'[t] \notin {"handle", "cascade"} /\ hand'[t] = NoItem
  <2>1. CASE TakeNext(t)
    <3>1. NextEntry \in Entries BY <2>1, RemoveNextTypes DEF TakeNext, Take
    <3>2. /\ hand' = [hand EXCEPT ![t] = NextEntry]
          /\ pc' = [pc EXCEPT ![t] = IF NextEntry = Sentinel THEN "cascade" ELSE "handle"]
      BY <2>1 DEF TakeNext, Take, Moves
    <3>3. NextEntry # Sentinel => NextEntry \in WorkItems BY <3>1 DEF Entries
    <3>4. QED BY <3>2, <3>3 DEF TypeOK
  <2>2. CASE FindEmpty(t) \/ WaitEvent(t) \/ Woken(t) \/ CascadeSignal(t)
    <3>1. /\ pc[t] \in {"check", "wait", "woken", "cascadeSignal"}
          /\ hand' = hand
          /\ \E s \in ConsumerSteps \ {"handle", "cascade"} : pc' = [pc EXCEPT ![t] = s]
      BY <2>2 DEF FindEmpty, WaitEvent, Woken, CascadeSignal, Moves, Returns, ConsumerSteps
    <3>2. hand[t] = NoItem BY <3>1 DEF HandsMatch
    <3>3. QED BY <3>1, <3>2 DEF TypeOK
  <2>3. CASE Handle(t) \/ Cascade(t)
    <3>1. /\ hand' = [hand EXCEPT ![t] = NoItem]
          /\ \E s \in ConsumerSteps \ {"handle", "cascade"} : pc' = [pc EXCEPT ![t] = s]
      BY <2>3 DEF Handle, Cascade, Moves, Returns, ConsumerSteps
    <3>2. QED BY <3>1 DEF TypeOK
  <2>4. QED BY <2>1, <2>2, <2>3 DEF Consume
<1>2. QED BY <1>1 DEF HandsMatch

\* The other consumers hold what they held.
LEMMA OthersKeepHands ==
    ASSUME TypeOK, HandsMatch,
           \/ \E p \in Producers : Produce(p)
           \/ Poll
           \/ Stop
    PROVE  HandsMatch'
<1>1. CASE Poll
  <2>1. /\ pc[Client] = "idle" /\ hand' = hand
        /\ pc' = [pc EXCEPT ![Client] = "check"]
    BY <1>1 DEF Poll, Moves
  <2>2. hand[Client] = NoItem BY <2>1, EntryFacts DEF HandsMatch
  <2>3. QED BY <2>1, <2>2 DEF HandsMatch, TypeOK
<1>2. CASE Stop \/ \E p \in Producers : Produce(p)
  <2>1. UNCHANGED <<pc, hand>>
    BY <1>2 DEF Stop, StopBegin, StopSignal, DrainNext, Drained, Joined,
                Produce, Enqueue, Signal
  <2>2. QED BY <2>1 DEF HandsMatch
<1>3. QED BY <1>1, <1>2

\* The stopping thread keeps the types.
LEMMA StopKeepsTypes ==
    ASSUME TypeOK, Stop
    PROVE  TypeOK'
<1>1. CASE StopBegin
  <2>1. Append(queue0C, Sentinel) \in Seq(Entries) BY EntryFacts DEF TypeOK
  <2>2. queue0C' \in Seq(Entries) /\ queue34' = queue34
    BY <1>1, <2>1 DEF StopBegin, queues, TypeOK
  <2>3. stop' \in StopSteps BY <1>1 DEF StopBegin, StopSteps
  <2>4. before' \subseteq WorkItems BY <1>1 DEF StopBegin, MadeItems
  <2>5. QED BY <1>1, <2>2, <2>3, <2>4 DEF StopBegin, TypeOK
<1>2. CASE DrainNext
  <2>1. /\ queue0C' \in Seq(Entries) /\ queue34' \in Seq(Entries)
        /\ NextEntry \in Entries
    BY <1>2, RemoveNextTypes DEF DrainNext
  <2>2. delivered' \subseteq WorkItems BY <1>2, <2>1 DEF DrainNext, Entries, TypeOK
  <2>3. QED BY <1>2, <2>1, <2>2 DEF DrainNext, TypeOK
<1>3. CASE StopSignal \/ Drained \/ Joined
  BY <1>3 DEF StopSignal, Drained, Joined, queues, StopSteps, TypeOK
<1>4. QED BY <1>1, <1>2, <1>3 DEF Stop

\* Every step keeps types and hands.
LEMMA TypesAndHandsInductive ==
    TypeOK /\ HandsMatch /\ [Next]_vars => TypeOK' /\ HandsMatch'
<1> SUFFICES ASSUME TypeOK, HandsMatch, [Next]_vars PROVE TypeOK' /\ HandsMatch'
  OBVIOUS
<1>1. ASSUME NEW p \in Producers, Produce(p) PROVE TypeOK'
  <2>1. CASE Enqueue(p) BY <2>1, EnqueueKeepsTypes
  <2>2. CASE Signal(p) BY <2>2 DEF Signal, queues, TypeOK
  <2>3. QED BY <1>1, <2>1, <2>2 DEF Produce
<1>2. ASSUME NEW t \in Consumers, Consume(t) PROVE TypeOK' /\ HandsMatch'
  <2>1. Handle(t) => hand[t] \in WorkItems BY DEF Handle, HandsMatch
  <2>2. QED BY <1>2, <2>1, TakeKeepsTypes, ConsumerKeepsTypes, ConsumerHands
<1>3. ASSUME Poll PROVE TypeOK'
  <2>1. pc' = [pc EXCEPT ![Client] = "check"] BY <1>3 DEF Poll, Moves
  <2>2. pc' \in [Consumers -> ConsumerSteps] BY <2>1 DEF ConsumerSteps, TypeOK
  <2>3. QED BY <1>3, <2>2 DEF Poll, queues, TypeOK
<1>4. ASSUME Stop PROVE TypeOK' BY <1>4, StopKeepsTypes
<1>5. CASE UNCHANGED vars BY <1>5 DEF vars, queues, TypeOK, HandsMatch
<1>6. QED BY <1>1, <1>2, <1>3, <1>4, <1>5, OthersKeepHands DEF Next

\* The types hold, and a consumer's hand agrees with its program counter.
THEOREM TypesAreKept == Spec => []TypeOK
<1>1. Spec => [](TypeOK /\ HandsMatch)
  BY InitialTypes, InitialHands, TypesAndHandsInductive, PTL DEF Spec
<1>2. QED BY <1>1, PTL

-----------------------------------------------------------------------------

\* Why a queue thread need not wait any longer.
LEMMA WakeupsInductive ==
    TypeOK /\ NoLostWakeup /\ [Next]_vars => NoLostWakeup'
<1> DEFINE Pending == ~NothingQueued /\ (\E t \in QueueThreads : pc[t] = "wait")
           Coming == {"woken", "cascadeSignal", "gaveUp"}
           Reason == \/ event
                     \/ signals # {}
                     \/ stop = "signal"
                     \/ \E t \in Consumers : pc[t] \in Coming
<1>0. NoLostWakeup <=> (Pending => Reason) BY DEF NoLostWakeup
<1>00. NoLostWakeup' <=> (Pending' => Reason') BY DEF NoLostWakeup
<1> SUFFICES ASSUME TypeOK, Pending => Reason, [Next]_vars, Pending'
             PROVE  Reason'
  BY <1>0, <1>00
<1>1. ASSUME NEW p \in Producers, Produce(p) PROVE Reason'
  <2>1. CASE Signal(p) BY <2>1 DEF Signal
  <2>2. CASE Enqueue(p) /\ NothingQueued BY <2>2 DEF Enqueue
  <2>3. CASE Enqueue(p) /\ ~NothingQueued BY <2>3 DEF Enqueue
  <2>4. QED BY <1>1, <2>1, <2>2, <2>3 DEF Produce
<1>2. ASSUME NEW t \in Consumers, Consume(t) PROVE Reason'
  <2>1. CASE TakeNext(t)
    <3>1. /\ pc[t] = "check" /\ ~NothingQueued
          /\ \E s \in {"cascade", "handle"} : pc' = [pc EXCEPT ![t] = s]
          /\ UNCHANGED <<event, signals, stop>>
      BY <2>1 DEF TakeNext, Take, Moves
    <3>2. Pending BY <3>1 DEF TypeOK
    <3>3. QED BY <3>1, <3>2 DEF TypeOK
  <2>2. CASE FindEmpty(t)
    BY <2>2 DEF FindEmpty, queues, NothingQueued
  <2>3. CASE WaitEvent(t)
    <3>1. pc'[t] = "woken" BY <2>3 DEF WaitEvent, Moves, TypeOK
    <3>2. QED BY <3>1
  <2>4. CASE Woken(t)
    <3>1. ~NothingQueued BY <2>4 DEF Woken, queues, NothingQueued
    <3>2. pc'[t] = "gaveUp" BY <2>4, <3>1 DEF Woken, Moves, TypeOK
    <3>3. QED BY <3>2
  <2>5. CASE Handle(t)
    <3>1. /\ pc[t] = "handle" /\ pc' = [pc EXCEPT ![t] = "check"]
          /\ UNCHANGED <<queue0C, queue34, event, signals, stop>>
      BY <2>5 DEF Handle, Moves, queues
    <3>2. Pending BY <3>1 DEF NothingQueued, TypeOK
    <3>3. QED BY <3>1, <3>2 DEF TypeOK
  <2>6. CASE Cascade(t) /\ NothingQueued
    <3>1. pc'[t] = "cascadeSignal" BY <2>6 DEF Cascade, Moves, TypeOK
    <3>2. QED BY <3>1
  <2>7. CASE Cascade(t) /\ ~NothingQueued
    <3>1. /\ pc[t] = "cascade"
          /\ \E s \in {"idle", "done"} : pc' = [pc EXCEPT ![t] = s]
          /\ UNCHANGED <<event, signals, stop>>
      BY <2>7 DEF Cascade, Returns, Moves
    <3>2. Pending BY <2>7, <3>1 DEF TypeOK
    <3>3. QED BY <3>1, <3>2 DEF TypeOK
  <2>8. CASE CascadeSignal(t) BY <2>8 DEF CascadeSignal
  <2>9. QED BY <1>2, <2>1, <2>2, <2>3, <2>4, <2>5, <2>6, <2>7, <2>8 DEF Consume
<1>3. CASE Poll
  <2>1. /\ pc[Client] = "idle" /\ pc' = [pc EXCEPT ![Client] = "check"]
        /\ UNCHANGED <<queue0C, queue34, event, signals, stop>>
    BY <1>3 DEF Poll, Moves, queues
  <2>2. Pending BY <2>1 DEF NothingQueued, TypeOK
  <2>3. QED BY <2>1, <2>2 DEF TypeOK
<1>4. CASE Stop
  <2>1. CASE StopBegin /\ NothingQueued
    <3>1. started # {} BY <2>1 DEF StopBegin, queues, NothingQueued
    <3>2. QED BY <2>1, <3>1 DEF StopBegin
  <2>2. CASE StopBegin /\ ~NothingQueued BY <2>2 DEF StopBegin
  <2>3. CASE StopSignal BY <2>3 DEF StopSignal
  <2>4. CASE DrainNext BY <2>4 DEF DrainNext
  <2>5. CASE Drained \/ Joined BY <2>5 DEF Drained, Joined, queues, NothingQueued
  <2>6. QED BY <1>4, <2>1, <2>2, <2>3, <2>4, <2>5 DEF Stop
<1>5. CASE UNCHANGED vars BY <1>5 DEF vars, queues, NothingQueued
<1>6. QED BY <1>1, <1>2, <1>3, <1>4, <1>5 DEF Next

\* With work queued no queue thread waits without a wakeup on its way, unless
\* some thread was woken and returned without the work: for any number of
\* threads, although the event is signalled outside the lock.
THEOREM WakeupsAreNotLost == Spec => []NoLostWakeup
<1>1. Init => NoLostWakeup BY DEF Init, NoLostWakeup, NothingQueued
<1>2. QED BY <1>1, TypesAreKept, WakeupsInductive, PTL DEF Spec

-----------------------------------------------------------------------------

\* Taking an entry leaves the null item queued or takes it in hand.
LEMMA RemovedOrStays ==
    ASSUME TypeOK, ~NothingQueued, RemoveNext, Queued(Sentinel)
    PROVE  NextEntry = Sentinel \/ Queued(Sentinel)'
<1>1. queue0C \in Seq(Entries) /\ queue34 \in Seq(Entries) BY DEF TypeOK
<1>2. ASSUME NEW q \in Seq(Entries), q # <<>>, Head(q) # Sentinel,
             NEW i \in DOMAIN q, q[i] = Sentinel
      PROVE  \E j \in DOMAIN Tail(q) : Tail(q)[j] = Sentinel
  <2>1. i \in 1 .. Len(q) /\ Len(q) \in Nat /\ q[1] # Sentinel BY <1>2
  <2>2. i # 1 /\ i - 1 \in 1 .. Len(q) - 1 BY <1>2, <2>1
  <2>3. /\ Tail(q) \in Seq(Entries) /\ Len(Tail(q)) = Len(q) - 1
        /\ \A j \in 1 .. Len(q) - 1 : Tail(q)[j] = q[j + 1]
    BY <1>2, HeadTailProperties
  <2>4. Tail(q)[i - 1] = Sentinel BY <1>2, <2>1, <2>2, <2>3
  <2>5. DOMAIN Tail(q) = 1 .. Len(q) - 1 BY <2>1, <2>3
  <2>6. QED BY <2>2, <2>4, <2>5
<1>3. CASE queue34 # <<>>
  <2>1. queue34' = Tail(queue34) /\ queue0C' = queue0C BY <1>3 DEF RemoveNext
  <2>2. NextEntry = Head(queue34) BY <1>3 DEF NextEntry
  <2>3. QED BY <1>1, <1>2, <1>3, <2>1, <2>2 DEF Queued
<1>4. CASE queue34 = <<>>
  <2>1. queue0C' = Tail(queue0C) /\ queue34' = queue34 BY <1>4 DEF RemoveNext
  <2>2. NextEntry = Head(queue0C) /\ queue0C # <<>>
    BY <1>4 DEF NextEntry, NothingQueued
  <2>3. DOMAIN queue34 = {} BY <1>4
  <2>4. QED BY <1>1, <1>2, <2>1, <2>2, <2>3 DEF Queued
<1>5. QED BY <1>3, <1>4

\* Appending moves no entry and adds one.
LEMMA AppendKeepsEntries ==
    ASSUME NEW q \in Seq(Entries), NEW e \in Entries
    PROVE  /\ \A i \in DOMAIN q : i \in DOMAIN Append(q, e) /\ Append(q, e)[i] = q[i]
           /\ \E i \in DOMAIN Append(q, e) : Append(q, e)[i] = e
<1>1. /\ Append(q, e) \in Seq(Entries) /\ Len(Append(q, e)) = Len(q) + 1
      /\ Len(q) \in Nat /\ DOMAIN q = 1 .. Len(q)
      /\ Append(q, e)[Len(q) + 1] = e
      /\ \A i \in 1 .. Len(q) : Append(q, e)[i] = q[i]
  OBVIOUS
<1>2. DOMAIN Append(q, e) = 1 .. Len(q) + 1 BY <1>1
<1>3. QED BY <1>1, <1>2

\* Every step keeps SentinelStays.
LEMMA SentinelStaysInductive ==
    TypeOK /\ HandsMatch /\ SentinelStays /\ [Next]_vars => SentinelStays'
<1> DEFINE Stopping == stop \in {"signal", "join"}
           Held == \E t \in Consumers : hand[t] = Sentinel
<1>0. /\ SentinelStays <=> (Stopping => Queued(Sentinel) \/ Held)
      /\ SentinelStays' <=> (Stopping' => Queued(Sentinel)' \/ Held')
  BY DEF SentinelStays
<1> SUFFICES ASSUME TypeOK, HandsMatch, Stopping => Queued(Sentinel) \/ Held,
                    [Next]_vars, Stopping'
             PROVE  Queued(Sentinel)' \/ Held'
  BY <1>0
<1>1. queue0C \in Seq(Entries) /\ queue34 \in Seq(Entries) /\ Sentinel \in Entries
  BY EntryFacts DEF TypeOK
<1>2. ASSUME NEW p \in Producers, Produce(p) PROVE Queued(Sentinel)' \/ Held'
  <2>1. Stopping /\ hand' = hand BY <1>2 DEF Produce, Enqueue, Signal
  <2>2. CASE Signal(p) BY <2>1, <2>2 DEF Signal, queues, Queued
  <2>3. CASE Enqueue(p)
    <3>1. <<p, made'[p]>> \in Entries
      <4>1. made'[p] \in 1 .. MaxItems
        BY <2>3, QueueThreadsAssumption DEF Enqueue, TypeOK
      <4>2. QED BY <4>1, EntryFacts
    <3>2. \/ queue0C' = Append(queue0C, <<p, made'[p]>>) /\ queue34' = queue34
          \/ queue34' = Append(queue34, <<p, made'[p]>>) /\ queue0C' = queue0C
      BY <2>3 DEF Enqueue
    <3>3. Queued(Sentinel) => Queued(Sentinel)'
      <4>1. CASE queue0C' = Append(queue0C, <<p, made'[p]>>) /\ queue34' = queue34
        BY <1>1, <3>1, <4>1, AppendKeepsEntries DEF Queued
      <4>2. CASE queue34' = Append(queue34, <<p, made'[p]>>) /\ queue0C' = queue0C
        BY <1>1, <3>1, <4>2, AppendKeepsEntries DEF Queued
      <4>3. QED BY <3>2, <4>1, <4>2
    <3>4. QED BY <2>1, <3>3
  <2>4. QED BY <1>2, <2>2, <2>3 DEF Produce
<1>3. ASSUME NEW t \in Consumers, Consume(t) PROVE Queued(Sentinel)' \/ Held'
  <2>1. Stopping
    BY <1>3 DEF Consume, TakeNext, Take, FindEmpty, WaitEvent, Woken, Handle,
                Cascade, CascadeSignal
  <2>2. CASE TakeNext(t)
    <3>1. /\ hand[t] = NoItem /\ hand' = [hand EXCEPT ![t] = NextEntry]
          /\ ~NothingQueued /\ RemoveNext
      BY <2>2 DEF TakeNext, Take, HandsMatch
    <3>2. CASE Held
      <4>1. PICK u \in Consumers : hand[u] = Sentinel BY <3>2
      <4>2. u # t BY <1>1, <3>1, <4>1, EntriesAssumption
      <4>3. hand'[u] = Sentinel BY <3>1, <4>1, <4>2 DEF TypeOK
      <4>4. QED BY <4>3
    <3>3. CASE Queued(Sentinel)
      <4>1. NextEntry = Sentinel => hand'[t] = Sentinel BY <3>1 DEF TypeOK
      <4>2. QED BY <3>1, <3>3, <4>1, RemovedOrStays
    <3>4. QED BY <2>1, <3>2, <3>3
  <2>3. CASE FindEmpty(t) \/ WaitEvent(t) \/ Woken(t) \/ CascadeSignal(t)
    <3>1. UNCHANGED <<queue0C, queue34, hand>>
      BY <2>3 DEF FindEmpty, WaitEvent, Woken, CascadeSignal, queues
    <3>2. QED BY <2>1, <3>1 DEF Queued
  <2>4. CASE Handle(t)
    <3>1. /\ hand[t] \in WorkItems /\ hand' = [hand EXCEPT ![t] = NoItem]
          /\ UNCHANGED <<queue0C, queue34>>
      BY <2>4 DEF Handle, HandsMatch, queues
    <3>2. ASSUME NEW u \in Consumers, hand[u] = Sentinel PROVE hand'[u] = Sentinel
      <4>1. u # t BY <3>1, <3>2, EntriesAssumption
      <4>2. QED BY <3>1, <3>2, <4>1 DEF TypeOK
    <3>3. QED BY <2>1, <3>1, <3>2 DEF Queued
  <2>5. CASE Cascade(t)
    <3>1. queue0C' = Append(queue0C, Sentinel) BY <2>5 DEF Cascade
    <3>2. QED BY <1>1, <3>1, AppendKeepsEntries DEF Queued
  <2>6. QED BY <1>3, <2>2, <2>3, <2>4, <2>5 DEF Consume
<1>4. CASE Poll BY <1>4 DEF Poll, queues, Queued
<1>5. CASE Stop
  <2>1. CASE StopBegin
    <3>1. queue0C' = Append(queue0C, Sentinel) BY <2>1 DEF StopBegin
    <3>2. QED BY <1>1, <3>1, AppendKeepsEntries DEF Queued
  <2>2. CASE StopSignal BY <2>2 DEF StopSignal, queues, Queued
  <2>3. CASE DrainNext \/ Drained \/ Joined BY <2>3 DEF DrainNext, Drained, Joined
  <2>4. QED BY <1>5, <2>1, <2>2, <2>3 DEF Stop
<1>6. CASE UNCHANGED vars BY <1>6 DEF vars, queues, Queued
<1>7. QED BY <1>2, <1>3, <1>4, <1>5, <1>6 DEF Next

\* Once StopQueueThreads has queued the null item it stays in a queue or in
\* the hand of a thread that passes it on.
THEOREM NullItemIsKept == Spec => []SentinelStays
<1>1. Init => SentinelStays BY DEF Init, SentinelStays
<1>2. Spec => [](TypeOK /\ HandsMatch /\ SentinelStays)
  BY <1>1, InitialTypes, InitialHands, TypesAndHandsInductive,
     SentinelStaysInductive, PTL DEF Spec
<1>3. QED BY <1>2, PTL
-----------------------------------------------------------------------------

InQueue(q, w) == \E i \in DOMAIN q : q[i] = w
NoTwice(q) == \A i, j \in DOMAIN q : q[i] = q[j] /\ q[i] \in WorkItems => i = j

\* Appending an entry adds one place for it.
LEMMA AppendOnce ==
    ASSUME NEW q \in Seq(Entries), NEW e \in Entries, NoTwice(q), e \in WorkItems => ~InQueue(q, e)
    PROVE  /\ NoTwice(Append(q, e))
           /\ \A w : InQueue(Append(q, e), w) <=> InQueue(q, w) \/ w = e
<1> DEFINE r == Append(q, e)
<1>1. /\ Len(q) \in Nat /\ DOMAIN q = 1 .. Len(q) /\ DOMAIN r = 1 .. Len(q) + 1
      /\ r[Len(q) + 1] = e
      /\ \A i \in 1 .. Len(q) : r[i] = q[i]
  OBVIOUS
<1> HIDE DEF r
<1>2. NoTwice(r)
  <2> SUFFICES ASSUME NEW i \in DOMAIN r, NEW j \in DOMAIN r, r[i] = r[j], r[i] \in WorkItems
               PROVE  i = j
    BY DEF NoTwice
  <2>1. CASE i \in 1 .. Len(q) /\ j \in 1 .. Len(q) BY <1>1, <2>1 DEF NoTwice
  <2>2. CASE i = Len(q) + 1 /\ j \in 1 .. Len(q) BY <1>1, <2>2 DEF InQueue
  <2>3. CASE j = Len(q) + 1 /\ i \in 1 .. Len(q) BY <1>1, <2>3 DEF InQueue
  <2>4. QED BY <1>1, <2>1, <2>2, <2>3
<1>3. ASSUME NEW w PROVE InQueue(r, w) <=> InQueue(q, w) \/ w = e
  <2>1. \A i \in DOMAIN r : i \in DOMAIN q \/ i = Len(q) + 1 BY <1>1
  <2>2. \A i \in DOMAIN q : i \in DOMAIN r BY <1>1
  <2>3. Len(q) + 1 \in DOMAIN r BY <1>1
  <2>4. QED BY <1>1, <2>1, <2>2, <2>3 DEF InQueue
<1>4. QED BY <1>2, <1>3 DEF r

\* Removing the head removes one place, the head's.
LEMMA TailOnce ==
    ASSUME NEW q \in Seq(Entries), q # <<>>, NoTwice(q)
    PROVE  /\ NoTwice(Tail(q))
           /\ InQueue(q, Head(q))
           /\ \A w \in WorkItems : InQueue(Tail(q), w) <=> InQueue(q, w) /\ w # Head(q)
<1> DEFINE r == Tail(q)
<1>1. /\ Len(q) \in Nat /\ Len(q) >= 1 /\ DOMAIN q = 1 .. Len(q)
      /\ DOMAIN r = 1 .. Len(q) - 1 /\ Head(q) = q[1]
      /\ \A i \in 1 .. Len(q) - 1 : r[i] = q[i + 1]
  BY HeadTailProperties
<1> HIDE DEF r
<1>2. NoTwice(r)
  <2> SUFFICES ASSUME NEW i \in DOMAIN r, NEW j \in DOMAIN r, r[i] = r[j], r[i] \in WorkItems
               PROVE  i = j
    BY DEF NoTwice
  <2>1. i + 1 \in DOMAIN q /\ j + 1 \in DOMAIN q /\ r[i] = q[i + 1] /\ r[j] = q[j + 1] BY <1>1
  <2>2. i + 1 = j + 1 BY <2>1 DEF NoTwice
  <2>3. QED BY <1>1, <2>2
<1>3. 1 \in DOMAIN q BY <1>1
<1>4. ASSUME NEW w \in WorkItems PROVE InQueue(r, w) <=> InQueue(q, w) /\ w # Head(q)
  <2>1. ASSUME InQueue(r, w) PROVE InQueue(q, w) /\ w # Head(q)
    <3>1. PICK i \in DOMAIN r : r[i] = w BY <2>1 DEF InQueue
    <3>2. i + 1 \in DOMAIN q /\ q[i + 1] = w /\ i + 1 # 1 BY <1>1, <3>1
    <3>3. QED BY <1>1, <1>3, <3>2 DEF InQueue, NoTwice
  <2>2. ASSUME InQueue(q, w), w # Head(q) PROVE InQueue(r, w)
    <3>1. PICK i \in DOMAIN q : q[i] = w BY <2>2 DEF InQueue
    <3>2. i - 1 \in DOMAIN r /\ i - 1 + 1 = i BY <1>1, <2>2, <3>1
    <3>3. r[i - 1] = q[i - 1 + 1] BY <1>1, <3>2
    <3>4. QED BY <3>1, <3>2, <3>3 DEF InQueue
  <2>3. QED BY <2>1, <2>2
<1>5. QED BY <1>1, <1>2, <1>3, <1>4 DEF r, InQueue

InHand(w) == \E t \in Consumers : hand[t] = w

\* The inductive form of ItemsAreUnique: no work item has two places, and those
\* that have one are the ones made and not delivered.
Conserved ==
    /\ NoTwice(queue0C)
    /\ NoTwice(queue34)
    /\ \A t, u \in Consumers : hand[t] = hand[u] /\ hand[t] \in WorkItems => t = u
    /\ \A w \in WorkItems : ~(InQueue(queue0C, w) /\ InQueue(queue34, w))
    /\ \A w \in WorkItems : InHand(w) => ~InQueue(queue0C, w) /\ ~InQueue(queue34, w)
    /\ \A w \in WorkItems :
          w \in MadeItems \ delivered <=> InQueue(queue0C, w) \/ InQueue(queue34, w) \/ InHand(w)
    /\ delivered \subseteq MadeItems

\* Taking the next entry leaves every other one where it is.
LEMMA RemovedOnce ==
    ASSUME TypeOK, Conserved, ~NothingQueued, RemoveNext
    PROVE  /\ NoTwice(queue0C)' /\ NoTwice(queue34)'
           /\ NextEntry \in Entries
           /\ InQueue(queue0C, NextEntry) \/ InQueue(queue34, NextEntry)
           /\ \A w \in WorkItems :
                 /\ InQueue(queue0C, w)' => InQueue(queue0C, w)
                 /\ InQueue(queue34, w)' => InQueue(queue34, w)
                 /\ (InQueue(queue0C, w) \/ InQueue(queue34, w))' <=>
                       (InQueue(queue0C, w) \/ InQueue(queue34, w)) /\ w # NextEntry
<1>1. queue0C \in Seq(Entries) /\ queue34 \in Seq(Entries) /\ NoTwice(queue0C) /\ NoTwice(queue34)
  BY DEF TypeOK, Conserved
<1>2. NextEntry \in Entries BY RemoveNextTypes
<1>3. \A w \in WorkItems : ~(InQueue(queue0C, w) /\ InQueue(queue34, w)) BY DEF Conserved
<1>4. CASE queue34 # <<>>
  <2>1. queue34' = Tail(queue34) /\ queue0C' = queue0C /\ NextEntry = Head(queue34)
    BY <1>4 DEF RemoveNext, NextEntry
  <2>2. /\ NoTwice(Tail(queue34)) /\ InQueue(queue34, NextEntry)
        /\ \A w \in WorkItems :
              InQueue(Tail(queue34), w) <=> InQueue(queue34, w) /\ w # NextEntry
    BY <1>1, <1>4, <2>1, TailOnce
  <2>3. /\ NoTwice(queue34)' <=> NoTwice(Tail(queue34))
        /\ NoTwice(queue0C)' <=> NoTwice(queue0C)
        /\ \A w : /\ InQueue(queue34, w)' <=> InQueue(Tail(queue34), w)
                  /\ InQueue(queue0C, w)' <=> InQueue(queue0C, w)
    BY <2>1 DEF NoTwice, InQueue
  <2>4. QED BY <1>1, <1>2, <1>3, <2>2, <2>3
<1>5. CASE queue34 = <<>>
  <2>1. queue0C' = Tail(queue0C) /\ queue34' = queue34 /\ NextEntry = Head(queue0C) /\ queue0C # <<>>
    BY <1>5 DEF RemoveNext, NextEntry, NothingQueued
  <2>2. /\ NoTwice(Tail(queue0C)) /\ InQueue(queue0C, NextEntry)
        /\ \A w \in WorkItems :
              InQueue(Tail(queue0C), w) <=> InQueue(queue0C, w) /\ w # NextEntry
    BY <1>1, <2>1, TailOnce
  <2>3. /\ NoTwice(queue0C)' <=> NoTwice(Tail(queue0C))
        /\ NoTwice(queue34)' <=> NoTwice(queue34)
        /\ \A w : /\ InQueue(queue0C, w)' <=> InQueue(Tail(queue0C), w)
                  /\ InQueue(queue34, w)' <=> InQueue(queue34, w)
    BY <2>1 DEF NoTwice, InQueue
  <2>4. QED BY <1>1, <1>2, <1>3, <2>2, <2>3
<1>6. QED BY <1>4, <1>5

\* A push of the null item leaves the places of work items as they are.
LEMMA SentinelPushed ==
    ASSUME TypeOK, Conserved, queue0C' = Append(queue0C, Sentinel), queue34' = queue34,
           made' = made, delivered' = delivered,
           \A w \in WorkItems : \A t \in Consumers : hand'[t] = w <=> hand[t] = w
    PROVE  Conserved'
<1>1. /\ queue0C \in Seq(Entries) /\ NoTwice(queue0C) /\ Sentinel \in Entries
      /\ Sentinel \notin WorkItems
  BY EntryFacts, EntriesAssumption DEF TypeOK, Conserved
<1>2. /\ NoTwice(Append(queue0C, Sentinel))
      /\ \A w : InQueue(Append(queue0C, Sentinel), w) <=> InQueue(queue0C, w) \/ w = Sentinel
  BY <1>1, AppendOnce
<1>3. NoTwice(queue0C)' /\ NoTwice(queue34)' BY <1>2 DEF NoTwice, Conserved
<1>4. \A w \in WorkItems : /\ InQueue(queue0C, w)' <=> InQueue(queue0C, w)
                           /\ InQueue(queue34, w)' <=> InQueue(queue34, w)
                           /\ InHand(w)' <=> InHand(w)
  BY <1>1, <1>2 DEF InQueue, InHand
<1>5. MadeItems' = MadeItems BY DEF MadeItems
<1>6. \A t, u \in Consumers : hand'[t] = hand'[u] /\ hand'[t] \in WorkItems => t = u
  BY DEF Conserved
<1>7. QED BY <1>3, <1>4, <1>5, <1>6 DEF Conserved

\* What leaves queue, hands and deliveries alone moves no item.
LEMMA SamePlaces ==
    ASSUME Conserved, UNCHANGED <<queue0C, queue34, hand, made, delivered>>
    PROVE  Conserved'
BY DEF Conserved, NoTwice, InQueue, InHand, MadeItems

\* A new item is in one place, the end of the queue.
LEMMA EnqueueConserves ==
    ASSUME TypeOK, Conserved, NEW p \in Producers, Enqueue(p)
    PROVE  Conserved'
<1> DEFINE e == <<p, made[p] + 1>>
<1>1. /\ made[p] \in Nat /\ made[p] + 1 \in 1 .. MaxItems /\ MaxItems \in Nat
      /\ made' = [made EXCEPT ![p] = made[p] + 1] /\ made'[p] = made[p] + 1
  BY QueueThreadsAssumption DEF Enqueue, TypeOK
<1>2. e \in WorkItems /\ e \in Entries /\ e \notin MadeItems
  BY <1>1, EntryFacts DEF MadeItems
<1>3. MadeItems' = MadeItems \cup {e}
  <2>1. ASSUME NEW w \in WorkItems PROVE w \in MadeItems' <=> w \in MadeItems \/ w = e
    <3>1. w = <<w[1], w[2]>> /\ w[1] \in Producers /\ w[2] \in 1 .. MaxItems BY DEF WorkItems
    <3>2. CASE w[1] # p
      <4>1. made'[w[1]] = made[w[1]] BY <1>1, <3>1, <3>2 DEF TypeOK
      <4>2. QED BY <3>2, <4>1 DEF MadeItems
    <3>3. CASE w[1] = p
      <4>1. w[2] <= made[p] + 1 <=> w[2] <= made[p] \/ w[2] = made[p] + 1 BY <1>1, <3>1
      <4>2. QED BY <1>1, <3>1, <3>3, <4>1 DEF MadeItems
    <3>4. QED BY <3>2, <3>3
  <2>2. MadeItems \subseteq WorkItems /\ MadeItems' \subseteq WorkItems BY DEF MadeItems
  <2>3. QED BY <1>2, <2>1, <2>2
<1>4. e \notin delivered /\ ~InQueue(queue0C, e) /\ ~InQueue(queue34, e) /\ ~InHand(e)
  BY <1>2 DEF Conserved
<1>5. queue0C \in Seq(Entries) /\ queue34 \in Seq(Entries) /\ hand' = hand /\ delivered' = delivered
  BY DEF TypeOK, Enqueue
<1>6. \A w : InHand(w)' <=> InHand(w) BY <1>5 DEF InHand
<1>7. \/ queue0C' = Append(queue0C, e) /\ queue34' = queue34
      \/ queue34' = Append(queue34, e) /\ queue0C' = queue0C
  BY <1>1 DEF Enqueue
<1> HIDE DEF e
<1>8. ASSUME queue0C' = Append(queue0C, e), queue34' = queue34 PROVE Conserved'
  <2>1. /\ NoTwice(Append(queue0C, e))
        /\ \A w : InQueue(Append(queue0C, e), w) <=> InQueue(queue0C, w) \/ w = e
    BY <1>2, <1>4, <1>5, AppendOnce DEF Conserved
  <2>2. NoTwice(queue0C)' /\ NoTwice(queue34)' BY <1>8, <2>1 DEF NoTwice, Conserved
  <2>3. \A w : /\ InQueue(queue0C, w)' <=> InQueue(queue0C, w) \/ w = e
               /\ InQueue(queue34, w)' <=> InQueue(queue34, w)
    BY <1>8, <2>1 DEF InQueue
  <2>4. QED BY <1>2, <1>3, <1>4, <1>5, <1>6, <2>2, <2>3 DEF Conserved
<1>9. ASSUME queue34' = Append(queue34, e), queue0C' = queue0C PROVE Conserved'
  <2>1. /\ NoTwice(Append(queue34, e))
        /\ \A w : InQueue(Append(queue34, e), w) <=> InQueue(queue34, w) \/ w = e
    BY <1>2, <1>4, <1>5, AppendOnce DEF Conserved
  <2>2. NoTwice(queue0C)' /\ NoTwice(queue34)' BY <1>9, <2>1 DEF NoTwice, Conserved
  <2>3. \A w : /\ InQueue(queue34, w)' <=> InQueue(queue34, w) \/ w = e
               /\ InQueue(queue0C, w)' <=> InQueue(queue0C, w)
    BY <1>9, <2>1 DEF InQueue
  <2>4. QED BY <1>2, <1>3, <1>4, <1>5, <1>6, <2>2, <2>3 DEF Conserved
<1>10. QED BY <1>7, <1>8, <1>9

\* A consumer moves an item from one place to the next.
LEMMA ConsumerConserves ==
    ASSUME TypeOK, HandsMatch, Conserved, NEW t \in Consumers, Consume(t)
    PROVE  Conserved'
<1>1. made' = made /\ MadeItems' = MadeItems
  BY DEF Consume, TakeNext, Take, FindEmpty, WaitEvent, Woken, Handle, Cascade, CascadeSignal,
         MadeItems
<1>2. CASE TakeNext(t)
  <2>1. /\ hand[t] = NoItem /\ hand' = [hand EXCEPT ![t] = NextEntry]
        /\ ~NothingQueued /\ RemoveNext /\ delivered' = delivered
    BY <1>2 DEF TakeNext, Take, HandsMatch
  <2> DEFINE e == NextEntry
  <2>2. /\ NoTwice(queue0C)' /\ NoTwice(queue34)'
        /\ e \in Entries
        /\ InQueue(queue0C, e) \/ InQueue(queue34, e)
        /\ \A w \in WorkItems :
              /\ InQueue(queue0C, w)' => InQueue(queue0C, w)
              /\ InQueue(queue34, w)' => InQueue(queue34, w)
              /\ (InQueue(queue0C, w) \/ InQueue(queue34, w))' <=>
                    (InQueue(queue0C, w) \/ InQueue(queue34, w)) /\ w # e
    BY <2>1, RemovedOnce
  <2> HIDE DEF e
  <2>3. /\ hand'[t] = e /\ \A u \in Consumers \ {t} : hand'[u] = hand[u]
        /\ \A w \in WorkItems : hand[t] # w
    BY <2>1, EntriesAssumption DEF TypeOK, e, Entries
  <2>4. \A w \in WorkItems : InHand(w)' <=> InHand(w) \/ w = e BY <2>3 DEF InHand
  <2>5. e \in WorkItems => ~InHand(e) BY <2>2 DEF Conserved
  <2>6. \A u, v \in Consumers : hand'[u] = hand'[v] /\ hand'[u] \in WorkItems => u = v
    BY <2>3, <2>5 DEF Conserved, InHand
  <2>7. QED BY <1>1, <2>1, <2>2, <2>4, <2>5, <2>6 DEF Conserved
<1>3. CASE FindEmpty(t) \/ WaitEvent(t) \/ Woken(t) \/ CascadeSignal(t)
  BY <1>3, SamePlaces DEF FindEmpty, WaitEvent, Woken, CascadeSignal, queues
<1>4. CASE Handle(t)
  <2>1. /\ hand[t] \in WorkItems /\ delivered' = delivered \cup {hand[t]}
        /\ hand' = [hand EXCEPT ![t] = NoItem]
        /\ UNCHANGED <<queue0C, queue34>>
    BY <1>4 DEF Handle, HandsMatch, queues
  <2> DEFINE e == hand[t]
  <2>2. /\ \A u \in Consumers : u # t => hand'[u] = hand[u] /\ hand[u] # e
        /\ \A w \in WorkItems : hand'[t] # w
        /\ InHand(e)
    BY <2>1, EntriesAssumption DEF TypeOK, Entries, Conserved, InHand
  <2> HIDE DEF e
  <2>3. \A w \in WorkItems : InHand(w)' <=> InHand(w) /\ w # e BY <2>2 DEF InHand, e
  <2>4. \A u, v \in Consumers : hand'[u] = hand'[v] /\ hand'[u] \in WorkItems => u = v
    BY <2>2 DEF Conserved
  <2>5. \A w : /\ InQueue(queue0C, w)' <=> InQueue(queue0C, w)
               /\ InQueue(queue34, w)' <=> InQueue(queue34, w)
    BY <2>1 DEF InQueue
  <2>6. NoTwice(queue0C)' /\ NoTwice(queue34)' BY <2>1 DEF NoTwice, Conserved
  <2>7. e \in WorkItems /\ delivered' = delivered \cup {e} BY <2>1 DEF e
  <2>8. QED BY <1>1, <2>2, <2>3, <2>4, <2>5, <2>6, <2>7 DEF Conserved
<1>5. CASE Cascade(t)
  <2>1. /\ queue0C' = Append(queue0C, Sentinel) /\ queue34' = queue34 /\ delivered' = delivered
        /\ hand[t] = Sentinel /\ hand' = [hand EXCEPT ![t] = NoItem]
    BY <1>5 DEF Cascade, HandsMatch
  <2>2. \A w \in WorkItems : \A u \in Consumers : hand'[u] = w <=> hand[u] = w
    BY <2>1, EntriesAssumption DEF TypeOK, Entries
  <2>3. QED BY <1>1, <2>1, <2>2, SentinelPushed
<1>6. QED BY <1>2, <1>3, <1>4, <1>5 DEF Consume

\* Stopping moves no item.
LEMMA StopConserves ==
    ASSUME TypeOK, HandsMatch, Conserved, Stop
    PROVE  Conserved'
<1>1. CASE StopBegin /\ started # {}
  BY <1>1, SentinelPushed DEF StopBegin
<1>2. CASE StopBegin /\ started = {}
  BY <1>2, SamePlaces DEF StopBegin, queues
<1>3. CASE StopSignal \/ Drained \/ Joined
  BY <1>3, SamePlaces DEF StopSignal, Drained, Joined, queues
<1>4. CASE DrainNext
  <2> DEFINE e == NextEntry
  <2>1. /\ hand' = hand /\ made' = made /\ MadeItems' = MadeItems /\ ~NothingQueued /\ RemoveNext
        /\ delivered' = delivered \cup ({e} \ {Sentinel})
    BY <1>4 DEF DrainNext, MadeItems
  <2>2. /\ NoTwice(queue0C)' /\ NoTwice(queue34)'
        /\ e \in Entries
        /\ InQueue(queue0C, e) \/ InQueue(queue34, e)
        /\ \A w \in WorkItems :
              /\ InQueue(queue0C, w)' => InQueue(queue0C, w)
              /\ InQueue(queue34, w)' => InQueue(queue34, w)
              /\ (InQueue(queue0C, w) \/ InQueue(queue34, w))' <=>
                    (InQueue(queue0C, w) \/ InQueue(queue34, w)) /\ w # e
    BY <2>1, RemovedOnce
  <2> HIDE DEF e
  <2>3. \A w : InHand(w)' <=> InHand(w) BY <2>1 DEF InHand
  <2>4. \A u, v \in Consumers : hand'[u] = hand'[v] /\ hand'[u] \in WorkItems => u = v
    BY <2>1 DEF Conserved
  <2>5. \A w \in WorkItems : w \in delivered' <=> w \in delivered \/ w = e
    BY <2>1, EntriesAssumption
  <2>6. e \in WorkItems => e \in MadeItems /\ ~InHand(e) BY <2>2 DEF Conserved
  <2>7. delivered' \subseteq MadeItems' BY <2>1, <2>2, <2>6 DEF Conserved, Entries
  <2>8. QED BY <2>1, <2>2, <2>3, <2>4, <2>5, <2>6, <2>7 DEF Conserved
<1>5. QED BY <1>1, <1>2, <1>3, <1>4 DEF Stop

\* Every step keeps the items where they count once.
LEMMA ConservedInductive ==
    TypeOK /\ HandsMatch /\ Conserved /\ [Next]_vars => Conserved'
<1> SUFFICES ASSUME TypeOK, HandsMatch, Conserved, [Next]_vars PROVE Conserved'
  OBVIOUS
<1>1. ASSUME NEW p \in Producers, Produce(p) PROVE Conserved'
  BY <1>1, EnqueueConserves, SamePlaces DEF Produce, Signal, queues
<1>2. CASE Poll BY <1>2, SamePlaces DEF Poll, queues
<1>3. CASE UNCHANGED vars BY <1>3, SamePlaces DEF vars
<1>4. QED BY <1>1, <1>2, <1>3, ConsumerConserves, StopConserves DEF Next

\* There are no items at first.
LEMMA InitiallyConserved == Init => Conserved
<1> SUFFICES ASSUME Init PROVE Conserved
  OBVIOUS
<1>1. queue0C = <<>> /\ queue34 = <<>> /\ DOMAIN queue0C = {} /\ DOMAIN queue34 = {} BY DEF Init
<1>2. NoTwice(queue0C) /\ NoTwice(queue34) BY <1>1 DEF NoTwice
<1>3. \A w : ~InQueue(queue0C, w) /\ ~InQueue(queue34, w) BY <1>1 DEF InQueue
<1>4. \A t \in Consumers : hand[t] = NoItem /\ NoItem \notin WorkItems
  BY EntriesAssumption DEF Init, Entries
<1>5. MadeItems = {}
  <2>1. ASSUME NEW w \in WorkItems PROVE w \notin MadeItems
    <3>1. w[1] \in Producers /\ w[2] \in 1 .. MaxItems BY DEF WorkItems
    <3>2. made[w[1]] = 0 /\ ~(w[2] <= 0) BY <3>1, QueueThreadsAssumption DEF Init
    <3>3. QED BY <3>2 DEF MadeItems
  <2>2. QED BY <2>1 DEF MadeItems
<1>6. delivered = {} BY DEF Init
<1>7. QED BY <1>2, <1>3, <1>4, <1>5, <1>6 DEF Conserved, InHand

\* A queue that holds nothing twice has one place for an entry, or none.
LEMMA PlacesInQueue ==
    ASSUME NEW q \in Seq(Entries), NoTwice(q), NEW w \in WorkItems
    PROVE  Cardinality({i \in DOMAIN q : q[i] = w}) = IF InQueue(q, w) THEN 1 ELSE 0
<1>1. CASE InQueue(q, w)
  <2>1. PICK i \in DOMAIN q : q[i] = w BY <1>1 DEF InQueue
  <2>2. {j \in DOMAIN q : q[j] = w} = {i} BY <2>1 DEF NoTwice
  <2>3. QED BY <1>1, <2>2, FS_Singleton
<1>2. CASE ~InQueue(q, w)
  <2>1. {j \in DOMAIN q : q[j] = w} = {} BY <1>2 DEF InQueue
  <2>2. QED BY <1>2, <2>1, FS_EmptySet
<1>3. QED BY <1>1, <1>2

\* An item that counts once is in one place.
LEMMA ConservedIsUnique == TypeOK /\ Conserved => ItemsAreUnique
<1> SUFFICES ASSUME TypeOK, Conserved, NEW w \in WorkItems
             PROVE  Cardinality({t \in Consumers : hand[t] = w})
                    + Cardinality({i \in DOMAIN queue0C : queue0C[i] = w})
                    + Cardinality({i \in DOMAIN queue34 : queue34[i] = w})
                    = IF w \in MadeItems \ delivered THEN 1 ELSE 0
  BY DEF ItemsAreUnique
<1>1. Cardinality({t \in Consumers : hand[t] = w}) = IF InHand(w) THEN 1 ELSE 0
  <2>1. CASE InHand(w)
    <3>1. PICK t \in Consumers : hand[t] = w BY <2>1 DEF InHand
    <3>2. {u \in Consumers : hand[u] = w} = {t} BY <3>1 DEF Conserved
    <3>3. QED BY <2>1, <3>2, FS_Singleton
  <2>2. CASE ~InHand(w)
    <3>1. {u \in Consumers : hand[u] = w} = {} BY <2>2 DEF InHand
    <3>2. QED BY <2>2, <3>1, FS_EmptySet
  <2>3. QED BY <2>1, <2>2
<1>2. /\ Cardinality({i \in DOMAIN queue0C : queue0C[i] = w}) = IF InQueue(queue0C, w) THEN 1 ELSE 0
      /\ Cardinality({i \in DOMAIN queue34 : queue34[i] = w}) = IF InQueue(queue34, w) THEN 1 ELSE 0
  BY PlacesInQueue DEF TypeOK, Conserved
<1>3. QED BY <1>1, <1>2 DEF Conserved

\* A work item is queued once, in one hand or delivered, never twice and never
\* lost, for any number of producers, threads and items.
THEOREM ItemsAreNeitherLostNorDoubled == Spec => []ItemsAreUnique
<1>1. Spec => [](TypeOK /\ HandsMatch /\ Conserved)
  BY InitialTypes, InitialHands, InitiallyConserved, TypesAndHandsInductive, ConservedInductive,
     PTL DEF Spec
<1>2. QED BY <1>1, ConservedIsUnique, PTL

-----------------------------------------------------------------------------

\* Without queue threads nobody but StopQueueThreads touches the queues once it
\* has begun; what was made before is made for good.
StoppingAlone ==
    /\ started = {} => \A t \in QueueThreads : pc[t] = "idle"
    /\ stop # "no" => pc[Client] = "idle"
    /\ stop \in {"signal", "join"} => started # {}
    /\ before \subseteq MadeItems
    /\ stop = "stopped" /\ started = {} => before \subseteq delivered

\* Every step keeps StoppingAlone.
LEMMA StoppingAloneInductive ==
    TypeOK /\ HandsMatch /\ Conserved /\ StoppingAlone /\ [Next]_vars => StoppingAlone'
<1> SUFFICES ASSUME TypeOK, HandsMatch, Conserved, StoppingAlone, [Next]_vars PROVE StoppingAlone'
  OBVIOUS
<1>1. MadeItems \subseteq MadeItems'
  <2>1. ASSUME NEW p \in Producers, Enqueue(p), NEW w \in MadeItems PROVE w \in MadeItems'
    <3>1. w \in WorkItems /\ w[1] \in Producers /\ w[2] \in Nat BY DEF MadeItems, WorkItems
    <3>2. made[w[1]] \in Nat /\ made' = [made EXCEPT ![p] = made[p] + 1] /\ made[p] \in Nat
      BY <2>1, <3>1 DEF Enqueue, TypeOK
    <3>3. made'[w[1]] >= made[w[1]] /\ made'[w[1]] \in Nat BY <3>1, <3>2 DEF TypeOK
    <3>4. w[2] <= made[w[1]] BY DEF MadeItems
    <3>5. w[2] <= made'[w[1]] BY <3>1, <3>2, <3>3, <3>4
    <3>6. QED BY <3>1, <3>5 DEF MadeItems
  <2>2. made' = made \/ \E p \in Producers : Enqueue(p)
    BY DEF Next, vars, Produce, Signal, Consume, TakeNext, Take, FindEmpty, WaitEvent, Woken, Handle,
           Cascade, CascadeSignal, Poll, Stop, StopBegin, StopSignal, DrainNext, Drained, Joined
  <2>3. made' = made => MadeItems' = MadeItems BY DEF MadeItems
  <2>4. QED BY <2>1, <2>2, <2>3
<1>2. CASE UNCHANGED vars
  BY <1>2 DEF vars, StoppingAlone, MadeItems
<1>3. ASSUME NEW p \in Producers, Produce(p) PROVE StoppingAlone'
  <2>1. UNCHANGED <<started, pc, stop, delivered, before>> BY <1>3 DEF Produce, Enqueue, Signal
  <2>2. QED BY <1>1, <2>1 DEF StoppingAlone
<1>4. ASSUME NEW t \in Consumers, Consume(t) PROVE StoppingAlone'
  <2>1. UNCHANGED <<started, stop, before>>
    BY <1>4 DEF Consume, TakeNext, Take, FindEmpty, WaitEvent, Woken, Handle, Cascade, CascadeSignal
  <2>2. delivered \subseteq delivered'
    BY <1>4 DEF Consume, TakeNext, Take, FindEmpty, WaitEvent, Woken, Handle, Cascade, CascadeSignal
  <2>3. \E s \in ConsumerSteps : pc' = [pc EXCEPT ![t] = s]
    BY <1>4 DEF Consume, TakeNext, Take, FindEmpty, WaitEvent, Woken, Handle, Cascade, CascadeSignal,
                Moves, Returns, ConsumerSteps
  <2>4. pc[t] # "idle"
    BY <1>4 DEF Consume, TakeNext, FindEmpty, WaitEvent, Woken, Handle, Cascade, CascadeSignal
  <2>5. stop # "no" => pc'[Client] = "idle"
    BY <2>3, <2>4, EntryFacts DEF StoppingAlone, TypeOK
  <2>6. started = {} => \A u \in QueueThreads : pc'[u] = "idle"
    BY <2>3, <2>4 DEF StoppingAlone, TypeOK, Consumers
  <2>7. QED BY <1>1, <2>1, <2>2, <2>5, <2>6 DEF StoppingAlone
<1>5. CASE Poll
  <2>1. /\ stop = "no" /\ UNCHANGED <<started, stop, delivered, before>>
        /\ pc' = [pc EXCEPT ![Client] = "check"]
    BY <1>5 DEF Poll, Moves
  <2>2. \A u \in QueueThreads : pc'[u] = pc[u]
    BY <2>1, QueueThreadsAssumption DEF TypeOK, Consumers
  <2>3. QED BY <1>1, <2>1, <2>2 DEF StoppingAlone
<1>6. CASE StopBegin
  <2>1. /\ pc[Client] = "idle" /\ UNCHANGED <<started, pc, made>> /\ before' = MadeItems
        /\ stop' = "drain" \/ (stop' \in {"signal", "join"} /\ started # {})
    BY <1>6 DEF StopBegin
  <2>2. QED BY <1>1, <2>1 DEF StoppingAlone
<1>7. CASE StopSignal
  BY <1>1, <1>7 DEF StopSignal, StoppingAlone
<1>8. CASE DrainNext
  <2>1. /\ UNCHANGED <<started, pc, stop, before>> /\ stop = "drain" BY <1>8 DEF DrainNext
  <2>2. QED BY <1>1, <2>1 DEF StoppingAlone
<1>9. CASE Drained
  <2>1. /\ UNCHANGED <<started, pc, before, delivered>> /\ stop = "drain" /\ stop' = "stopped"
        /\ NothingQueued
    BY <1>9 DEF Drained
  <2>2. ASSUME started = {}, NEW w \in before PROVE w \in delivered
    <3>1. w \in MadeItems /\ w \in WorkItems BY DEF StoppingAlone, MadeItems
    <3>2. \A t \in Consumers : pc[t] = "idle" BY <2>1, <2>2 DEF StoppingAlone, Consumers
    <3>3. \A t \in Consumers : hand[t] = NoItem BY <3>2 DEF HandsMatch
    <3>4. ~InHand(w) BY <3>1, <3>3, EntriesAssumption DEF InHand, Entries
    <3>5. DOMAIN queue0C = {} /\ DOMAIN queue34 = {} BY <2>1 DEF NothingQueued
    <3>6. ~InQueue(queue0C, w) /\ ~InQueue(queue34, w) BY <3>5 DEF InQueue
    <3>7. QED BY <3>1, <3>4, <3>6 DEF Conserved
  <2>3. QED BY <1>1, <2>1, <2>2 DEF StoppingAlone
<1>10. CASE Joined
  BY <1>1, <1>10 DEF Joined, StoppingAlone
<1>11. QED BY <1>2, <1>3, <1>4, <1>5, <1>6, <1>7, <1>8, <1>9, <1>10 DEF Next, Stop

\* Without queue threads StopQueueThreads returns only when everything that was
\* enqueued before has been delivered, for any number of producers and items.
THEOREM StopLosesNothing == Spec => []StopDelivers
<1>1. Init => StoppingAlone BY EntryFacts DEF Init, StoppingAlone, Consumers
<1>2. StoppingAlone => StopDelivers BY DEF StoppingAlone, StopDelivers
<1>3. QED BY <1>1, <1>2, InitialTypes, InitialHands, InitiallyConserved, TypesAndHandsInductive,
             ConservedInductive, StoppingAloneInductive, PTL DEF Spec

=============================================================================
