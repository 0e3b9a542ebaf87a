# mxo-launcher: formal models

TLA+ models of the network core and the login of the Matrix Online launcher
(`src/code/matrix_launcher`), the TLC configurations that check them on small
instances, and TLAPS proofs of what must hold for every instance. Paths below
are relative to `src/code/matrix_launcher`; RT is `matrixstaging/runtime/src`,
GM is `matrixstaging/game/src`.

## 1. The system

The launcher connects to an authentication server and to margin servers,
carries out the login dialogue and starts the game client. It is
single-threaded but for the network engine: the client thread runs the login
state machine and polls the engine; the engine has one worker thread for each
connection.

| Component | State it keeps | Operations | Interacts with |
|---|---|---|---|
| TCP engine (`RT/liblttcp/ltthreadperclienttcpengine.*`) | context tree of workers, completed-operation queues, queue event, queue threads | Connect, Close, SendBuffer, RunCompletedOperationQueue, CleanupConnection, StopQueueThreads, destructor; MonitorPort and UnmonitorPort (no caller) | workers, connections, sockets |
| Worker thread (same file, `WorkerThread::Run`) | a few locals, a wakeup socket, an exit flag | one loop: take a send, deferred half-close, select, receive, connect completion, send, drain wakeups | the connection's fields (shared, unlocked), the queue |
| Queue record (same file, `Queue_*`) | slot array of blocks, two cursors | init, push, append block, recentre or grow, pop, free | the completed-operation queues |
| TCP connection (`RT/liblttcp/lttcpconnection.*`) | state, socket handle, pending sends and their empty flag, endpoints, parser | Connect, Close, SendBuffer, OnReceive, OnClose | engine, parser, message connection |
| Stream parser (`RT/libltmessaging/variablelengthprefixedtcpstreamparser.*`) | cursor, unread count, current work item, shared read fragments | Parse, ResetAfterPacket, destructor | OnReceive (worker), the client thread that reads finished items |
| IP address list (`RT/liblttcp/ltipaddresslist.cpp`) | addresses with use counts | round-robin and least-recently-used choice | mediator |
| Message connection (`RT/libltmessaging/messageconnection.*`) | reply copy, its private key, packet agenda with the encryption module, verdict | OnOperationCompleted, SendPacketMessageRef, handlers of the codes 2, 4 and 5 | parser items, login states |
| Login mediator (`GM/libltclientlogin/loginmediator*`) | current state, both connections, address lists, expected-close flags, slot table, profile, observers | login, play, delete, create, cancel; state switch; connect and close; post events and errors | login states, engine, launcher or game client |
| Login states (`GM/libltclientlogin/loginstate*`) | the state that sent them, section counters | Slot1 and Slot2 (status and close of either connection), Slot3 (entering), AuthMessageDispatch, Slot6 (margin messages) | mediator, bootstrap |
| Authentication bootstrap (`authbootstrap680.cpp`) | server key, Twofish seed and transforms, reply copy, private exponent | PrepareAndDispatch, HandleInboundAuthMessage | states 2 and 5, both servers |
| Text-mode flow (`src/textmode_launcher_flow.cpp`) | observer with the expected event, selection rows | prompts, blocking waits with a deadline, deletion, selection | mediator, engine queue |
| Base library (`RT/libltbase`), configuration, dialogs, launch pad, diagnostics, crash stub | values and files | parsing, I/O | everything, at start |

`PROJECT.json` lists each of them with its status.

### What is hard here

* **Connection fields are plain memory.** `state_`, the handle, the worker
  pointer and the send queue's empty flag are written by the client thread
  and by the worker without a common lock. Every read and write the other
  thread can overtake is a step of its own in the model.
* **Ownership of workers.** The worker object is reachable from the tree and
  from the connection; it is deleted by `CleanupConnection` on the client
  thread or by the destructor.
* **Ordering of reports.** A worker handles one `select` result read-first, so
  packets, the status of a connect and the close are queued from several
  places of the loop.
* **Socket handles are reused** by the operating system while a worker still
  holds one in a local variable.
* **Blocking waits without timeout**: `select` in the worker, `Wait` on a
  worker, the queue event. Each relies on one wakeup not being lost.
* **A queue without bounds on a window that drifts** through an array.
* **Boundaries of a byte stream**: a packet, or its prefix, may be cut
  anywhere.
* **A shutdown in stages**: drain, then stop each worker, while workers queue.
* **States that call each other.** Entering a state may open a connection, send
  or switch again; a state that needs another remembers who sent it, and a lost
  connection leaves in the middle of such a chain.
* **Late items.** A connection that was replaced still delivers a status,
  packets and its close; a request that was given up still takes place.
* **Expected closes.** One flag for each connection tells an expected close from
  a lost connection; it outlives the reason it was set for.
* **Chained ciphers.** A transform is right only at the position where the other
  side is; seeds change while packets under the old one are on their way.

`PROJECT.json` has the full list of hazards with their lines.

### What makes each component correct

* Engine: a worker exists exactly as long as something can reach it; a close
  callback finds the connection quiet; reports are in order and complete; a
  worker whose socket nobody closed under it never touches a foreign one; sends,
  connects, peer closes and the destructor are not forgotten.
* Queue record: it is a first-in first-out queue; its cursors stay inside live
  blocks; its array does not grow with age.
* Completion queue: no wakeup is lost; an item is delivered once; the shutdown
  item reaches every thread; stopping ends.
* Stream parser: what comes out is what was framed; nothing is held back; a
  fragment is freed by its last holder.
* Mediator and flow: a margin server is asked what the client waits for, for the
  character it chose, in a session; an outcome is posted to one who waits for
  it; every request is answered; the list of characters is complete; a profile
  is whole; a row is removed only when the server has deleted the character.
* Handshake: an answer fits its challenge; the private key belongs to the copy;
  every packet of a session is readable where it arrives; every wait ends, but in
  the situations the code has no answer to, which are named.

## 2. The modules

| Module | Models | Composition |
|---|---|---|
| `TcpEngine` | engine, worker threads, connection state, OnReceive at packet level, sockets and peers as environment | the queue is an abstract sequence, justified by the next two modules |
| `Fifo` | what a queue promises | abstract |
| `QueueRecord` | `Queue_*` | implements `Fifo` (`IsFifo`) |
| `CompletionQueue` | both queues, their lock and event, consumers, StopQueueThreads | its queues are sequences, as `QueueRecord` promises |
| `StreamParser` | Parse, its helpers, OnReceive's loop, the client's copy | refines what `TcpEngine` calls one received packet or a corrupt prefix |
| `LoginMediator` | the mediator with states 0 to 13, the engine as it shows itself to them, both servers as one request and one reply each | the engine's promises are those of `TcpEngine`: one status, packets, one close |
| `TextModeFlow` | the text-mode launcher, or a client that calls as it likes | on top of `LoginMediator` |
| `AuthBootstrap` | the packets and keys of a login | operators on the child |
| `MarginSession` | a margin connection from the copy to the encrypted session | a specification of its own, `MarginSpec` |
| `Handshake` | states 2, 5 and 6 with both dialogues and servers | refines the "login" and "copy" exchanges that `LoginMediator` takes as one step; implements `MarginSpec` |
| `LoginMediator_proofs` | lemmas about the mediator's handlers: what each returns, leaves alone, opens, asks and posts | used by the next |
| `TextModeFlow_proofs` | theorems about the mediator under the text-mode flow and its client | |
| other `*_proofs` | theorems of the module named before the underscore | |
| `MCTcpEngine`, `MCTextModeFlow` | symmetry and values for TLC | |

### TcpEngine

Per connection: `state` is `state_`, `handle` is `socketHandle_`, `workerPtr`
says that `workerThread08_` is not null, `sendQ` and `emptyFlag` are
`pendingSendQueue3c_` and `sendQueueEmptyFlag38_`. Per worker: `wpc` is the
place in `Run`, `pending`, `statusQd`, `closeQd`, `socket`, `current` and
`ready` are its locals, `wake` counts datagrams on the wakeup socket, `exitReq`
is `exitRequested_`. `tree` is the set of keys of the context tree.

The client thread's calls are sequences of actions linked by `mpc`:

* `Connect`: `ConnectRejected`, `ConnectNoSocket`, `ConnectRefusedAtOnce` with
  `ConnectStatus`, `ConnectStarted` with `RegisterWorker`. The last is one step
  although it writes several fields: the worker that could see them is started
  as its last effect, or already parked.
* `Close`: `CloseBegin` (test), `CloseMark`, then `CloseShutdown` or
  `CloseSocketNow`.
* `SendBuffer`: `SendBegin` (test), `SendPush` (under the send queue's mutex),
  `SendSignal`.
* `RunCompletedOperationQueue`: `Poll`, for a close item the four steps of
  `CleanupConnection` (`CleanupDetach`, `CleanupRequestExit`, `CleanupSignal`,
  `CleanupJoin`), then `Deliver`.
* the destructor: `Shutdown`, the polls above until `Drained`, then
  `StopRequestExit`, `StopSignal`, `StopJoin` for each worker, `Destroy`.

A worker's loop is `WorkerTop`, `WorkerHalfClose`, `WorkerSelect`, the
`Receive` actions, `WriteConnect` or `WriteSend`, `WorkerDrain`, and the ways
out: `WorkerFail*`, `WorkerEnd*`, `WorkerQueueClose`, `WorkerParked`,
`WorkerLeave`. A peer accepts, refuses, sends and closes at any time.

A worker that is parked still has its handle, a connection closed hard too:
`closesocket` frees the number whoever holds it, and `NewSocket` may give it to
another connection.

Three histories count for the properties: `pushed` and `written` are the chunks
that were ever queued and that `send()` has taken, `cut` the connections whose
socket was closed by anything but the orderly end of their own worker.

Abstracted: payloads (a queued send is `Chunks` chunks so that a send can be
partial), addresses, log lines, allocation failures. Sockets are external,
modelled from how the engine calls them. The callback `OnOperationCompleted` is
the step `Deliver`; what a callback calls are the client actions that may
follow it.

### QueueRecord

`slots` is the slot array with the contents of each block; slots outside the
window are `Dead`, where the code leaves stale pointers. `first`, `last`,
`read`, `write` are the cursors as indices. The refinement mapping is
`Contents`: the pairs between the cursors, read through blocks by quotient and
remainder.

### CompletionQueue

A critical section under the queue lock is one step; setting the event and
waiting for it are steps of their own, because the code does both outside the
lock. `gaveUp` is a thread that was woken and returned without popping. The
shipped engine starts no queue threads (`started = {}`), the code supports any
number.

### StreamParser

A fragment is the sequence of its bytes; a pointer is a fragment and an offset.
`refs` counts the calls of AddRef and Release, it is not computed from the
holders: that they agree is the property `RefsMatchHolders`. One call of `Parse`
is a few steps, split where it decides: `TakeFragment` or `Drain`, then `Prefix`,
`Second` and `EndPrefix` unless a prefix was decoded before, then `Body`;
`EndReceive` is the rest of `OnReceive`. All the two threads share is the
reference counts, which the code changes atomically, and a temporary reference
that one step would take and give back is left out. The thresholds (values of a byte,
first long length, longest body, fragment size) are constants.

### LoginMediator

`m` is the mediator with its states and connection objects; its fields carry the
code's names. A handler is one operator from the record to the next, because the
client thread runs it without interruption: `Completed` is
`OnOperationCompleted` down to the handler of the current state, `Switch` notes
the state a handler goes to, `Settled` enters it (`Enter1` ... `Enter11`, the
`Slot3` of the states) until no further switch is asked for, as
`SetCurrentState` does recursively. `posted` and `after` are the events and
errors in the order the observers get them. An action of the client or of the
queue is `Take(h, ...)` with the handler's result.

A connection object is a `link`: replaced ones stay until their last item is
delivered, which is what makes late items possible; the objects in use at a time
are bounded by `Links`, and an action that would need another is disabled
(`full`). Workers report with `Connected`, `ConnectFails`, `Ends`. Servers
answer the requests of a connection in order (`Replies`), well or with a
refusal, and on the way one message of a reply may become unreadable or longer
than a connection takes (`Damaged`). An unreadable one is dropped and the state
waits on (`Unread`, which only notes that it was the answer the state waits
for). An oversized one makes the connection close its socket hard
(`CloseHard`): it is `Dead`, and no worker reports its end.

States 8 and 11 load a profile in numbered sections: a body, a list that grows
up to the 16 bits of its length (`ListRoom`, where it starts over) and a chunk
buffer with room for `MaxChunks`. The sections are counted
(`Counted`), the final one tells how many there are and may come at any place,
and the state leaves when the counters agree. `SessionChallenge` may fail to
hash the client's files, `State9SubmitFollowup` needs callbacks that the client
sets late.

Histories: `wish` is what the client waits for, `left` what an attempt left
behind, each kind of which excuses exactly the properties that name it.

### TextModeFlow

`stage` is the place in the flow, `observer` is `TextModeBlockingLoginObserver`.
`WaitFor` registers the observer, makes the request and so sees the events
posted inside the call; `WaitDelivers` drains the queue; `WaitTimesOut` is the
deadline, which the code tests after a drain; `LoginEnds`, `CloseEnds` and
`DeleteEnds` go on with the result. A login that did not succeed is given up in
any state: the authentication connection, if there is one, is asked to close
and the mediator goes to state 0. While the user types, nothing is polled. The
menu is `SelectionRows`, built from the mediator's getters, which show nothing
in states 0 to 2. In the stage `client` the game client calls the mediator as it
likes and polls all the time.

### AuthBootstrap, MarginSession, Handshake

A key is a number, a chained transform a key and a position: something decrypted
elsewhere is garbage, which the code notices for the challenge of a margin
server and for packets (checksum), and not for the challenge of a login or for
the private exponent. What a side has sent is the field `out` of its record, what is on
its way to the client `replies` and `inbound`.

`Handshake` has the control of states 2, 5 and 6, the two expected-close flags,
the silent return of `SendAuthRequest`, and the missing check of
`PrepareState5MarginConnectionCopySend` (`crashed`). The states that use neither
dialogue are one state, `rest`.

One thing may be wrong with a packet: a key or private key is damaged, a copy
has expired, the layout is not that of its code, there is nothing in it, or it is
longer than 0x1000 bytes (`Defects`, `MarginDefects`). The code refuses the
first two; it drops what it cannot parse and an empty challenge or verdict and
waits on (`unhandled`, `PassedOver`); the last closes the connection hard
(`CloseHard`, or the link's `dead`), after which nothing is sent or reported any
more and only what had arrived is delivered.

## 3. What is checked

All runs finish within five minutes with the bounds in their `.cfg`.

| Run | Question | Bounds, and why they are enough |
|---|---|---|
| `engine_calls` | Ownership, quiescence, order of reports, exit only on request, nothing lost by a deferred half-close, under every interleaving, with reconnects, hard closes, corrupt streams and failing wakeup sockets | one connection: the properties are per connection and workers share only the queue, the tree and handles. Two Connects (reconnect while the old worker is parked), one send of two chunks (partial send), two handles, one fragment per socket. `VIEW` forgets the histories (which no guard reads) of a connection that was connected again: the properties read them of the first attempt only |
| `engine_pair` | Foreign sockets, with hard closes and corrupt streams | two connections, one Connect each, and one handle, so that every socket opened later reuses it, however the earlier one came to its end. No sends: what a worker does to a socket it does in the places the property names, whatever it has to send. `VIEW` leaves out the histories but `cut`, the item the client has in hand, and which type a work item has that is not a close: no guard and not the property tells them apart |
| `engine_live` | Connects and peer closes are reported, sends are written, the destructor ends | one connection, one of each call, graceful closes only: a hard close is never reported (a hazard of its own) |
| `engine_close_lost` | *violation*: `GracefulCloseSendsAll` | |
| `queue_record` | Cursors, array bound, refinement of `Fifo` | blocks of 3, smallest array 8 as in the code, length up to 8: every branch (append, free, slide, growth to a larger array) is taken |
| `queue_threads` | No lost wakeup, no lost or doubled item, the null item, StopQueueThreads with at most one thread | two producers with two items, zero to two queue threads |
| `queue_threads_stop` | *violation*: `StopEnds` | two queue threads |
| `parser_frames` | Framing, nothing held back, reference counts, no unused buffers | byte values 0..3, long prefix from 2, bodies up to 3, all streams of at most 5 bytes in fragments of 1 to 4: packets, prefixes and bodies are cut at every place, several packets share a fragment and one packet spans several |
| `parser_cursor` | *violation*: `CursorInItsFragment` | 3 bytes suffice |
| `login_session` | Requests are sent as asked, in a session, and answered; outcomes reach who waits; lists and profiles are whole; rows are removed only when deleted; under the flow and under a free client | three connection objects (one in use and two that still deliver), two addresses of the authentication server, worlds with one and two addresses (a retry), one closed to the user; three characters of which one exists at first, a table of two (full, and not full); requests and faults are four together, at most three of either: three requests (one to leave something behind, one to meet it, one cancel) with one fault anywhere, or faults on top of one another in a session of one or two requests, without which two of the situations `NotAnswered` names never arise; up to four sections and two chunks (every order of body, list, chunk and final), a list that starts over at three |
| `login_stale_sender` | *violation*: `AskingStateIsRestored` | the same |
| `handshake` | Answers fit challenges, keys fit copies, packets are readable, waits end, with damaged, expired, malformed, empty and oversized packets | key ids 0 (the one the code takes for none) and two others; three logins (a second crosses the first, a third meets what both left); three faults of any kind, which include cancels, requests, expiry and rotation; five seeds, more than three faults can use up, so that the bound never stops a server that must answer |

Every property of a passing run has a mutant: a definition beside the original
that changes it as a plausible bug would (a guard or reset dropped, a signal
forgotten, an off-by-one), under which TLC finds the property violated. The
operators named `...Mutant` or `...Keeps...` are these and nothing else uses
them.

`CHECK_DEADLOCK FALSE` stands in the queue and parser configurations: there the
producers have made all their items, or the connection is gone, and the system
really stops. It also stands in the login configurations, where all requests are
made, the mediator has forgotten its engine (`ClearEngine`), the launcher has
ended for want of rows, or a wait is one of the named hangs. The largest runs
are `engine_pair` (3.0 million distinct states, three minutes), `engine_calls` (1.9 million),
`login_session` (662 thousand, two minutes) and `handshake` (323 thousand). `TcpEngine` ends in
`Destroyed`, so deadlock is checked.

### Fairness

`TcpEngine!FairSpec`: the client thread finishes an engine call it is in and
keeps polling (the launcher's loops do so every few milliseconds), each started
worker is scheduled, and the system resolves a connect attempt, which TCP does
by its own timeout. A worker that offers bytes to a usable socket again and again
is not refused for ever (`WriteSome`, the one strong fairness): the peer's TCP
takes them or the connection breaks. No peer is assumed to send or close; the
client is not assumed to make any call. `CompletionQueue!FairSpec`: a thread that can
take a step of a call it is in takes it; producing, polling and stopping are
free choices. Weak fairness is enough but for `send()`, which may take nothing:
no lock is contended in a way that could starve a thread in the models, since
critical sections are single steps. `SendsAreWritten` counts what `send()` took,
not what left the queue, and is over when the connection is closed or lost
(`Broken`).

`TextModeFlow!FlowSpec`: a loop that waits polls, a wait that is over is left, a
connect is resolved, a server that was asked answers (a bounded number of times
badly or not at all: the connection is lost), a connection that is being closed
ends, unless it was closed hard. The flow is not assumed to type anything, the
game client not to call; while the user types nothing is delivered. The deadline
may always strike. `EveryRequestIsAnswered` names the situations in which the
code gives no answer (`NotAnswered`): the answer was unreadable; it was
oversized, and the connection it came on is dead; a connection's close is taken
for one that was asked for; the client has given no callbacks; the slot table is
full; state 6 starts over and over. They are states the code never leaves by
itself.

`Handshake!FairSpec`: the client thread delivers what has arrived, each server
acts while it has something to answer, and a connection that was closed
gracefully delivers its close; one that was closed hard has none to deliver.
`Hangs` names the situations where a wait ends by no answer: the server's key
has the id that means none; an earlier answer made the mediator expect the
close; verdicts on earlier copies keep it sending another; the client closed the
socket itself over an oversized packet; the answer could not be parsed, or was
empty. Each is a hazard in `PROJECT.json`.

### Disagreements with the code's comments

1. **`engine_close_lost`.** Close half-closes at once if the send queue's empty
   flag is set, but the flag is set when the last send is taken out of the queue
   (`lttcpconnection.cpp:566`), before it is written. The comment at
   `ltthreadperclienttcpengine.cpp:2453` promises that the worker issues the
   half-close once the queue drains.
2. **`queue_threads_stop`.** A woken queue thread leaves the inner loop without
   selecting a queue and returns with work queued; StopQueueThreads with two
   threads may wait for ever (`ltthreadperclienttcpengine.h:558`).
3. **`parser_cursor`.** A fragment that ends right behind a two-byte prefix
   wedges the parser for good: its cursor moves to the next fragment, the
   fragment reference does not
   (`variablelengthprefixedtcpstreamparser.h:64`).
4. **`login_stale_sender`.** State 4 remembers who sent it only if it remembers
   nobody, and the close gate forgets to clear that. A delete whose margin
   connection closes before it is up leaves state 7 there; the next request to
   play is restored to state 7, which deletes the character that was to be
   played (`docs/launcher.exe/VTABLES/0x004b503c.md:76-77` says that the state that
   asked is restored).

`TcpEngine` also has a Close that a completing connect overwrites
(`ltthreadperclienttcpengine.cpp:1522`), against the same comment as 1.

## 4. What is proved

TLAPS checks these for every value of the constants that satisfies the named
assumptions (`EngineAssumption`, `QueueAssumption`, `QueueThreadsAssumption`,
`EntriesAssumption`, `ParserAssumption`, `BootstrapAssumption`,
`MarginAssumption`, `HandshakeAssumption`, `LoginAssumption`, `FlowAssumption`); TLC evaluates the assumptions on every run.

| Theorem | States | Argument |
|---|---|---|
| `TcpEngine_proofs!TypesAreKept` | `Spec => []TypeOK` | `TypeInv`: types, `ClientInv` (inside a call the client thread has a connection) and `WakeInv` (a worker about to drain has seen a datagram, and nobody else takes it). Without `WakeInv` the drain could go below zero |
| `WorkersAreOwned` | `Spec => []WorkerOwnership` | `OwnershipInv` adds `JoinInv`: while the client joins a worker, that worker is not in the tree during a cleanup and is in it during the destructor, and still exists. Needed because the join deletes the object in a later step than the one that unlinked it |
| `WorkersLeaveOnRequest` | `Spec => []LeavesOnRequest` | `LeaveInv` adds `LostSocketInv`: a worker inside its loop without a socket has reported something or its connection is closed. Thus the silent `break` is unreachable |
| `DeferredHalfCloseComesLast` | `Spec => [][DeferredHalfCloseIsLast]_vars` | at a half-close by the worker nothing is queued or in hand, and on a connection connected once `send()` has taken every chunk ever queued. `FlagInv`: the flag of an empty send queue is never set while something is queued, and a worker comes back to its half-close with nothing in hand; it holds because the worker takes a send and sets the flag in one critical section. `BalanceInv`: until the worker of a connection connected once is over with it, what was pushed is what is queued, in hand or written; that sends are dropped only after that follows from `AttemptInv`, below |
| `SocketsAreOwn` | `Spec => []OwnSocketOnly` | no assumption on closes or streams. `SocketInv`: a handle that a connection, or a worker about to use it, has is open for that connection unless the connection is in `cut`. Only the orderly end of a worker frees a socket without cutting its connection off, and that worker then uses it no more. What a worker that was cut off does with a number that is another's by then is not excluded: it is listed as a hazard |
| `AttemptsAreReportedInOrder`, `ClosesAreQuiescent` | `Spec => []ReportsInOrder`, `Spec => []CloseIsQuiescent` | `AttemptInv` says of every attempt where its reports are, wherever they are: delivered, in the client's hand or queued are one numbered history (`Reports`), to which an enqueue adds at the end and a dequeue moves only the place. An attempt was not made, failed at once, or made a worker whose reports follow its two flags, and a worker that has reported its close has only steps left that report nothing. At most one status and one close, nothing behind the close but the failure status of an attempt refused at once: a close may come without a status, when the end is read before the connect is reported |
| `QueueRecord_proofs!CursorsStayInside` | `Spec => []TypeOK` | `TypeOK` is inductive; `PlacementFits` shows that there is room behind the window after a slide or a growth |
| `DriftNeverGrows` | `Spec => []SlotsAreBounded` | from `TypeOK` and the length bound: the array grows only when at least half of it is needed |
| `RecordIsFifo` | `Spec => IsFifo` | refinement: `ContentsShape` (the mapping is a sequence of cells), then a push appends one cell (`PushAppends`, through `AppendMovesWindow` and quotient lemmas) and a pop removes the first (`PopTakesFirst`) |
| `CompletionQueue_proofs!TypesAreKept` | `Spec => []TypeOK` | with `HandsMatch`: what a consumer holds agrees with its place |
| `WakeupsAreNotLost` | `Spec => []NoLostWakeup` | inductive together with the types: each step that empties, fills, waits or signals has its case |
| `NullItemIsKept` | `Spec => []SentinelStays` | with `HandsMatch`; an append keeps entries, a removal keeps all but the head, and the head goes to a hand |
| `ItemsAreNeitherLostNorDoubled` | `Spec => []ItemsAreUnique` | `Conserved`: what was made and not delivered is in exactly one place, once. Uniqueness alone is not inductive: an item made again or taken back would break it |
| `StopLosesNothing` | `Spec => []StopDelivers` | `StoppingAlone` on top: without queue threads nobody else takes from the queues once the stop has begun |
| `StreamParser_proofs!ParserTypes`, `FragmentsAreCounted` | `Spec => []TypeOK`, `Spec => []RefsMatchHolders` | `Holding`: the types (of fragments, counts and places; where the cursor may stand is `CursorInItsFragment`, which the code breaks) need the counts (a count that is released was held), the counts need to know that a list names a fragment once and that the parser has a fragment exactly as long as its work item has any (`Shaped`), and the steps of Parse need that the unread bytes are those ahead of the cursor (`Ahead`) and not more than arrived (`Bounded`) |
| `BuffersAreUsed`, `NoItemIsDropped` | `Spec => []NoUnusedBuffers`, `Spec => []ItemsAreWhole` | `Fitting` on top: between two packets the cursor is in the last fragment or on the last byte of the one before it, and a body that is not complete is not held by the fragments there are |
| `PacketsComeOutAsFramed`, `CompletePacketsComeOut` | `Spec => []PacketsAreFramed`, `Spec => []NothingHeldBack` | `Decoding` on top. `Laid`: each fragment's bytes are in the stream behind those before it. `Gapless`: a work item's fragments follow one another and the one in hand ends with the last that was taken, so that a place in it has an offset in the stream and the cursor's is behind what was consumed (`NormalizedIs`, `LandsIs`). `Standing`: a parser that waits for no body has a cursor exactly as long as bytes are unread. `Decoded`: however the stream goes on, its first packets are those that came out (`Reaches`), and Parse is at its place in the next one (`InPacket`). `Reaches` speaks of every extension because bytes that arrive must not change what was decoded |
| `MarginSession_proofs!MarginTypes`, `PacketsReadable` | `MarginSpec => []MarginTypeOK`, `MarginSpec => []PacketsAreReadable` | `IInv` follows the keys along the queue to the client: each packet is under the key the one before it leaves behind, the last leaves behind the server's (`Chain`); keys are seeds that were drawn (`Drawn`), a session has one (`Keyed`), nothing happens before a copy (`Quiet`). Towards the server the danger is a plain packet behind a challenge: until the first challenge is answered at most one packet is on its way (`First`), which fails once a second copy crosses the first, hence the condition in the property |
| `Handshake_proofs!TypedAlways` | `Spec => []ChildTyped` | inductive; gives the copies and private keys that `CopySent` takes |
| `HandshakeIsSession`, `HandshakeIsReadable` | `Spec => MarginSpec`, `Spec => []PacketsAreReadable` | refinement with the identity as mapping: each step of the composition is a step of `MarginNext` or leaves the margin variables alone (`StepIsSession`); a refusal answered by another copy in the same call is why `Delivered` allows a copy |
| `MarginSession_proofs!ChallengesFit` | `MarginSpec => []` the challenge is of the client's copy | `Exchange`: until a second copy crosses the first, copy, challenge, answer and verdict are one step in one place |
| `Handshake_proofs!HandshakeTypes` | `Spec => []HandshakeTypeOK` | `Keyed8`: a login request is sent under a key only |
| `AnswersAreRight` | `Spec => []AnswersFit` | `InDialogue`: until a login crosses another the dialogue is one packet long, and either side's cipher is where the other's was when it sent it |
| `KeysAlwaysFit` | `Spec => []KeysFitTheCopy` | `KeyFits` of the dialogue for the private key, `ChallengesFit` through the refinement for the margin server's |
| `NoNullUnlessRefused` | `Spec => []NullOnlyAfterRefusal` | `Waited`: a login for state 5 has a margin connection, or the flag of a refusal is set; only the close item takes the connection away, and without the flag it takes the state along |
| `TextModeFlow_proofs!FlowTypes` | `FlowSpec => []FlowTypeOK` | `LoginMediator_proofs` gives each handler by what it makes of the record (the `...Is` lemmas: closing, opening, entering each state, each operation), so that no step expands more than one. The types alone are not inductive: `Core` adds that between two handlers nothing is pending (`AtRest`), that the two pointers name connections of their kind and every request on a connection is one that is sent there (`Fit`), that states 10 and 11 know the character they create (`CreateKnown`) and that a queued message fits its connection (`QueueFit`). `SettledFit` shows that the folding over at most five switches keeps them |
| `RequestsInSession` | `FlowSpec => []RequestsNeedASession` | `SessionInv`: while no session was lost, the gate flag means that the margin connection in use has been challenged, or that it is gone and no other has come up yet (`SessionFrom`, which also speaks of the record in the middle of a handler). Every step is a call of the client, a delivered operation or one of the network's (`NextSteps`), and each kind of operation has its lemma |
| `OutcomesToTheAsker` | `FlowSpec => []OutcomesAreAsked` | `PurposeInv`: whatever state the mediator is in, on its way to, or will come back to through its cached senders is the one for the request under way (`Purposed`), unless state 4 was once left with a sender cached. For that it must be known which state may have which for a sender (`Shape`) and that nothing but states 0 to 2 is reached before the first login (`Gate`). Both hold at any point of a handler, so entering one state keeps them and so does a chain of five. A completed operation announces only what its state is for, and then the state it goes to is one that waits for nothing (`TurnedOutcomes`); `WishFit` ties the flow's own calls, which the mediator does not refuse, to the stage they are made in |
| `WishesAreSent` | `FlowSpec => OnlyTheWishIsSent` | from the same invariants: a request is the last thing a handler does, in the state it ends in (`Sent`), which is for the request under way; a handler that switches to no other state sends nothing but the answer to a challenge (`CompletedAsks`), and the network only takes requests away |
| `DeletedRowsAreRemoved` | `FlowSpec => RemovedRowsAreDeleted` | `RemovalInv`, for the stages in which the flow has control and no wait was given up. Before a login has succeeded the mediator has no margin connection (`Calm`). After it, the one margin connection in use is either where the row's character is being deleted, and then every deletion asked there and every consent on its way is that character's (`Own`); or it carries nothing of a deletion (`Spare`); or it is being closed (`Shut`), which is why a consent that comes late, for an earlier row, is never taken for the next one's (`Removing`). Consents come after the connect was reported (`Heard`), so no new connection object inherits them. The observer of the wait ends well only at the event it waits for (`ObserveOk`), which the mediator posts only in state 7 for a consent on its current connection (`ConsentAnnounced`) |

Recursion over data is reasoned about without the induction theorems of the
library, which take an operator as a parameter: `LeastNumber` gives a least
counterexample, `GreatestNumber` the maximum of a set, and the definitions that recurse (`FlattenSeq`, `Framed`) are
shown to be the functions their equations describe (`JoinsIs`, `FramedIs`).

Only model-checked: everything under fairness (liveness and ENABLED are outside
the prover), and `EveryCharacterIsListed` and `ProfileIsWhole`. These two are
not true of every value of the constants. `EveryCharacterIsListed` needs an account that fits the
slot table. Both need no more faults than the run allows: with four or more, a
copy that expires makes state 5 log in again on a connection whose close is then
not expected, and when that closes while state 8 or 11 waits for its sections,
the mediator goes to state 0 and the request is given up without the client
having done so, which `left` does not tell. The bounds of the runs are in section 3.

## 5. State of the plan

Done: `TcpEngine`, `QueueRecord`, `CompletionQueue`, `StreamParser`,
`LoginMediator` with `TextModeFlow`, `AuthBootstrap`, `MarginSession` and
`Handshake`, with the proofs above: every safety property of the runs of the
first four and of the handshake is a theorem, and of the login mediator all but
the two that a constant can break.

What could follow, in this order: a history of the requests that a lost
authentication connection leaves behind, under which the two properties above
hold with any number of faults; `Thread` (Start, Wait, Stop, Resume), the use
counts of `IPAddressList`, the pools of work items and read operations, an
observer set that is changed while it is walked, endpoint monitoring.

## 6. What is not modelled, and why

Packet layouts, cipher arithmetic and the text of names are data: the models say
with which key something is encrypted, never how. Sockets and name resolution
are the operating system's. Dialogs, registry, launch pad, diagnostics and the
crash stub are I/O without a protocol, configuration and string tables are
read once. Failed allocations are left out of all models (the code mostly
ignores them). MonitorPort, UnmonitorPort and the accept thread have no caller
in the launcher; `Queue_Free` only ends a record's life; no reachable code
switches to states 14 to 19 (the switches to 16 stand behind the unconditional
return of ProcessLoginRequest). The public key file is written after a key reply and
never read back, and the characters' file is written only, so a restart of the
launcher begins at `Init`. Several observers, and one that unregisters from its
own callback, do not occur in the launcher: it registers one at a time and
unregisters it after its wait.
