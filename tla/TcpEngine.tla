------------------------------ MODULE TcpEngine ------------------------------
(***************************************************************************)
(* CLTThreadPerClientTCPEngine: the launcher's network engine.             *)
(*                                                                         *)
(* Two kinds of threads touch a connection.  The client thread calls       *)
(* Connect, Close and SendBuffer and polls the completed-operation queue;  *)
(* every connection that got past Connect has one WorkerThread that waits  *)
(* in select() on the connection's socket and on a wakeup socket, moves    *)
(* bytes, and reports through the queue.  Connection fields are plain      *)
(* memory written by both, so each read and each write of one that the     *)
(* other thread could overtake is a step of its own.                       *)
(*                                                                         *)
(* Payloads are abstracted: a queued send is a number of chunks, a         *)
(* received fragment is one complete packet or a corrupt prefix.           *)
(***************************************************************************)
EXTENDS Naturals, Sequences, FiniteSets

CONSTANTS
    Conns,              \* connection objects
    Handles,            \* socket handles the operating system can give out
    NoHandle,           \* kInvalidSocketHandle
    NoConn,             \* no connection
    MaxConnects,        \* bound: Connect calls per connection object; the mediator makes one
    MaxSends,           \* bound: SendBuffer calls per connection object
    Chunks,             \* chunks in one queued send, so that a send can be partial
    MaxFragments,       \* bound: fragments a peer sends on one socket
    CorruptStreams,     \* may a peer send a prefix the stream parser rejects?
    HardClose,          \* does the client thread call Close(graceful = false)?
    WakeupMayFail       \* may the creation of a wakeup socket fail?

ASSUME EngineAssumption ==
    /\ NoHandle \notin Handles
    /\ NoConn \notin Conns
    /\ MaxConnects \in Nat
    /\ MaxSends \in Nat
    /\ Chunks \in Nat \ {0}
    /\ MaxFragments \in Nat
    /\ CorruptStreams \in BOOLEAN
    /\ HardClose \in BOOLEAN
    /\ WakeupMayFail \in BOOLEAN

VARIABLES
    \* the engine
    queue,      \* completed-operation queue 0C
    tree,       \* keys of the context tree: connections with a registered worker
    \* one connection object
    state,      \* LTTCPEngineConnectionState
    handle,     \* socketHandle_
    workerPtr,  \* workerThread08_ is not null
    sendQ,      \* length of pendingSendQueue3c_
    emptyFlag,  \* sendQueueEmptyFlag38_
    \* one worker thread and the locals of its Run
    wpc,        \* where it is
    pending,    \* connectCompletionPending
    statusQd,   \* connectStatusQueued
    closeQd,    \* closeQueued
    socket,     \* the handle read at the head of the loop
    current,    \* chunks of currentSend not sent yet
    ready,      \* descriptor sets select() returned
    wake,       \* datagrams waiting on the wakeup socket
    exitReq,    \* exitRequested_
    \* the client thread
    mpc,        \* where it is
    mconn,      \* the connection it works for
    item,       \* the work item it is dispatching
    closing,    \* the engine's destructor has begun
    \* the operating system and the peers
    sock,       \* the sockets
    \* history and bounds
    delivered,  \* work item types passed to OnOperationCompleted, per connection
    connects,   \* Connect calls made
    sends,      \* SendBuffer calls made
    pushed,     \* chunks queued, per connection
    written,    \* chunks send() took, per connection
    cut         \* connections whose open socket somebody else closed: a hard
                \* close, or the worker of another connection

connVars   == <<state, handle, workerPtr, sendQ, emptyFlag>>
localVars  == <<pending, statusQd, closeQd, socket, current, ready>>
workerVars == <<wpc, localVars, wake, exitReq>>
clientVars == <<mpc, mconn, item, closing>>
auxVars    == <<delivered, connects, sends, pushed, written, cut>>
vars == <<queue, tree, connVars, workerVars, clientVars, sock, auxVars>>

-----------------------------------------------------------------------------
(* Types                                                                   *)

States == {"Closed", "ConnectActive", "UdpMonitorActive", "Closing"}

\* StatusFail is a type-2 item with a socket error or 1 as payload,
\* StatusRejected the one with payload 0x7000001.
ItemTypes == {"Close", "StatusOk", "StatusFail", "StatusRejected", "Packet"}
Items == [conn : Conns, type : ItemTypes]

ClientSteps ==
    {"idle", "closeMark", "closeShutdown", "closeSocket", "sendPush", "sendSignal",
     "connectStatus", "dispatch", "cleanupExit", "cleanupSignal", "cleanupJoin",
     "deliver", "stopNext", "stopSignal", "stopJoin", "destroyed"}

\* "off" is no thread object; "exited" is one whose Run has returned.
WorkerSteps ==
    {"off", "top", "halfClose", "select", "failState", "failStatus", "failClose",
     "receive", "hardClose", "endSocket", "endState", "endClose", "write",
     "connected", "drain", "wakeupOnly", "leave", "exited"}

Descriptors == {"except", "read", "write", "wakeup"}

\* A socket slot of the operating system.  shut: shutdown(SD_SEND) was
\* called; sent: fragments the peer has sent so far.
Sockets ==
    [status : {"free", "connecting", "up", "failed"},
     owner  : Conns \cup {NoConn},
     rx     : Seq({"packet", "corrupt"}),
     eof    : {"none", "fin", "reset"},
     shut   : BOOLEAN,
     sent   : Nat]

FreeSocket ==
    [status |-> "free", owner |-> NoConn, rx |-> <<>>, eof |-> "none",
     shut |-> FALSE, sent |-> 0]

NewSocket(c, status) == [FreeSocket EXCEPT !.status = status, !.owner = c]

ReportTypes ==
    /\ queue \in Seq(Items)
    /\ delivered \in [Conns -> Seq(ItemTypes)]

ConnTypes ==
    /\ state \in [Conns -> States]
    /\ handle \in [Conns -> Handles \cup {NoHandle}]
    /\ workerPtr \in [Conns -> BOOLEAN]
    /\ sendQ \in [Conns -> Nat]
    /\ emptyFlag \in [Conns -> BOOLEAN]
    /\ connects \in [Conns -> Nat]
    /\ sends \in [Conns -> Nat]

HistoryTypes ==
    /\ pushed \in [Conns -> Nat]
    /\ written \in [Conns -> Nat]
    /\ cut \subseteq Conns \cup {NoConn}

WorkerTypes ==
    /\ tree \subseteq Conns
    /\ wpc \in [Conns -> WorkerSteps]
    /\ pending \in [Conns -> BOOLEAN]
    /\ statusQd \in [Conns -> BOOLEAN]
    /\ closeQd \in [Conns -> BOOLEAN]
    /\ socket \in [Conns -> Handles \cup {NoHandle}]
    /\ current \in [Conns -> Nat]
    /\ ready \in [Conns -> SUBSET Descriptors]
    /\ wake \in [Conns -> Nat]
    /\ exitReq \in [Conns -> BOOLEAN]

ClientTypes ==
    /\ mpc \in ClientSteps
    /\ mconn \in Conns \cup {NoConn}
    /\ item \in ItemTypes
    /\ closing \in BOOLEAN

\* Every variable holds a value of the kind the code gives it.  That wake is
\* a natural number says that no recv() on a wakeup socket finds it empty.
TypeOK ==
    /\ ReportTypes
    /\ ConnTypes
    /\ WorkerTypes
    /\ ClientTypes
    /\ HistoryTypes
    /\ sock \in [Handles -> Sockets]

Init ==
    /\ queue = <<>>
    /\ tree = {}
    /\ state = [c \in Conns |-> "Closed"]
    /\ handle = [c \in Conns |-> NoHandle]
    /\ workerPtr = [c \in Conns |-> FALSE]
    /\ sendQ = [c \in Conns |-> 0]
    /\ emptyFlag = [c \in Conns |-> TRUE]
    /\ wpc = [c \in Conns |-> "off"]
    /\ pending = [c \in Conns |-> FALSE]
    /\ statusQd = [c \in Conns |-> FALSE]
    /\ closeQd = [c \in Conns |-> FALSE]
    /\ socket = [c \in Conns |-> NoHandle]
    /\ current = [c \in Conns |-> 0]
    /\ ready = [c \in Conns |-> {}]
    /\ wake = [c \in Conns |-> 0]
    /\ exitReq = [c \in Conns |-> FALSE]
    /\ mpc = "idle"
    /\ mconn = NoConn
    /\ item = "Packet"
    /\ closing = FALSE
    /\ sock = [h \in Handles |-> FreeSocket]
    /\ delivered = [c \in Conns |-> <<>>]
    /\ connects = [c \in Conns |-> 0]
    /\ sends = [c \in Conns |-> 0]
    /\ pushed = [c \in Conns |-> 0]
    /\ written = [c \in Conns |-> 0]
    /\ cut = {}

-----------------------------------------------------------------------------
(* Helpers                                                                 *)

\* EnqueueCompletedOperation: the push is one critical section under the
\* queue lock.  Nobody waits on the queue event in this configuration.
Enqueue(c, type) == queue' = Append(queue, [conn |-> c, type |-> type])

IsOpen(h) == h \in Handles /\ sock[h].status # "free"

\* closesocket(h): the handle becomes free whoever opened it; a handle that
\* is not open makes the call fail without effect.
CloseSocket(h) ==
    sock' = IF IsOpen(h) THEN [sock EXCEPT ![h] = FreeSocket] ELSE sock

\* What the history keeps of a closesocket(h) that is not the orderly end the
\* workers in `own` make of their own sockets.
CutOff(h, own) ==
    /\ cut' = IF IsOpen(h) THEN cut \cup ({sock[h].owner} \ own) ELSE cut
    /\ UNCHANGED <<delivered, connects, sends, pushed, written>>

\* shutdown(h, SD_SEND): fails without effect unless connected.
ShutdownSend(h) ==
    sock' = IF IsOpen(h) /\ sock[h].status = "up"
            THEN [sock EXCEPT ![h].shut = TRUE]
            ELSE sock

Active(c) == state[c] \in {"ConnectActive", "UdpMonitorActive"}

ClientMoves(step, c) == mpc' = step /\ mconn' = c /\ UNCHANGED <<item, closing>>
WorkerMoves(c, step) == wpc' = [wpc EXCEPT ![c] = step]

-----------------------------------------------------------------------------
(* Client thread: Connect                                                  *)

MayConnect(c) == mpc = "idle" /\ connects[c] < MaxConnects

CountConnect(c) ==
    /\ connects' = [connects EXCEPT ![c] = @ + 1]
    /\ UNCHANGED <<delivered, sends, pushed, written, cut>>

\* The connection is not closed: a type-2 item with payload 0x7000001.
ConnectRejected(c) ==
    /\ MayConnect(c)
    /\ state[c] # "Closed"
    /\ Enqueue(c, "StatusRejected")
    /\ CountConnect(c)
    /\ UNCHANGED <<tree, connVars, workerVars, clientVars, sock>>

\* socket() or bind() fails: the connection holds no socket; payload 1.
ConnectNoSocket(c) ==
    /\ MayConnect(c)
    /\ state[c] = "Closed"
    /\ handle' = [handle EXCEPT ![c] = NoHandle]
    /\ Enqueue(c, "StatusFail")
    /\ CountConnect(c)
    /\ UNCHANGED <<tree, state, workerPtr, sendQ, emptyFlag, workerVars, clientVars, sock>>

\* connect() fails at once: the socket is closed and a close item is queued
\* first; the status item follows in a second critical section.
ConnectRefusedAtOnce(c) ==
    /\ MayConnect(c)
    /\ state[c] = "Closed"
    /\ \E h \in Handles : ~IsOpen(h)
    /\ handle' = [handle EXCEPT ![c] = NoHandle]
    /\ Enqueue(c, "Close")
    /\ ClientMoves("connectStatus", c)
    /\ CountConnect(c)
    /\ UNCHANGED <<tree, state, workerPtr, sendQ, emptyFlag, workerVars, sock>>

ConnectStatus ==
    /\ mpc = "connectStatus"
    /\ Enqueue(mconn, "StatusFail")
    /\ ClientMoves("idle", NoConn)
    /\ UNCHANGED <<tree, connVars, workerVars, sock, auxVars>>

\* CreateAndInsertWorkerThread keeps the worker that is already registered
\* for the connection and drops the new one; Start does nothing to a thread
\* that runs.  A fresh worker whose wakeup socket could not be made returns
\* from Run at once.
RegisterWorker(c) ==
    /\ tree' = tree \cup {c}
    /\ workerPtr' = [workerPtr EXCEPT ![c] = TRUE]
    /\ IF c \in tree
       THEN UNCHANGED workerVars
       ELSE /\ \/ WorkerMoves(c, "top")
               \/ WakeupMayFail /\ WorkerMoves(c, "exited")
            /\ pending' = [pending EXCEPT ![c] = TRUE]
            /\ statusQd' = [statusQd EXCEPT ![c] = FALSE]
            /\ closeQd' = [closeQd EXCEPT ![c] = FALSE]
            /\ socket' = [socket EXCEPT ![c] = NoHandle]
            /\ current' = [current EXCEPT ![c] = 0]
            /\ ready' = [ready EXCEPT ![c] = {}]
            /\ wake' = [wake EXCEPT ![c] = 0]
            /\ exitReq' = [exitReq EXCEPT ![c] = FALSE]

\* connect() is in progress or has succeeded: register the worker, mark the
\* connection active, start the thread.
ConnectStarted(c) ==
    /\ MayConnect(c)
    /\ state[c] = "Closed"
    /\ \E h \in Handles, status \in {"connecting", "up"} :
          /\ ~IsOpen(h)
          /\ sock' = [sock EXCEPT ![h] = NewSocket(c, status)]
          /\ handle' = [handle EXCEPT ![c] = h]
    /\ RegisterWorker(c)
    /\ state' = [state EXCEPT ![c] = "ConnectActive"]
    /\ CountConnect(c)
    /\ UNCHANGED <<queue, sendQ, emptyFlag, clientVars>>

-----------------------------------------------------------------------------
(* Client thread: Close                                                    *)

\* The state test; the worker may change the state before it is marked.
CloseBegin(c) ==
    /\ mpc = "idle"
    /\ Active(c)
    /\ ClientMoves("closeMark", c)
    /\ UNCHANGED <<queue, tree, connVars, workerVars, sock, auxVars>>

CloseMark ==
    /\ mpc = "closeMark"
    /\ state' = [state EXCEPT ![mconn] = "Closing"]
    /\ \/ ClientMoves("closeShutdown", mconn)
       \/ HardClose /\ ClientMoves("closeSocket", mconn)
    /\ UNCHANGED <<queue, tree, handle, workerPtr, sendQ, emptyFlag, workerVars, sock, auxVars>>

\* Mutant: a graceful close closes the socket.
CloseShutdownMutant ==
    /\ mpc = "closeShutdown"
    /\ CloseSocket(handle[mconn])
    /\ ClientMoves("idle", NoConn)
    /\ UNCHANGED <<queue, tree, connVars, workerVars, auxVars>>

\* Graceful: half-close now if the send queue is flagged empty, else leave
\* it to the worker.
CloseShutdown ==
    /\ mpc = "closeShutdown"
    /\ IF emptyFlag[mconn] THEN ShutdownSend(handle[mconn]) ELSE UNCHANGED sock
    /\ ClientMoves("idle", NoConn)
    /\ UNCHANGED <<queue, tree, connVars, workerVars, auxVars>>

\* Not graceful: the socket is closed, the connection keeps the handle.
CloseSocketNow ==
    /\ mpc = "closeSocket"
    /\ CloseSocket(handle[mconn])
    /\ CutOff(handle[mconn], {})
    /\ ClientMoves("idle", NoConn)
    /\ UNCHANGED <<queue, tree, connVars, workerVars>>

-----------------------------------------------------------------------------
(* Client thread: SendBuffer                                               *)

SendBegin(c) ==
    /\ mpc = "idle"
    /\ Active(c)
    /\ sends[c] < MaxSends
    /\ sends' = [sends EXCEPT ![c] = @ + 1]
    /\ ClientMoves("sendPush", c)
    /\ UNCHANGED <<queue, tree, connVars, workerVars, sock, delivered, connects,
                   pushed, written, cut>>

\* QueueSendBuffer under the send queue's mutex.
SendPush ==
    /\ mpc = "sendPush"
    /\ sendQ' = [sendQ EXCEPT ![mconn] = @ + 1]
    /\ emptyFlag' = [emptyFlag EXCEPT ![mconn] = FALSE]
    /\ pushed' = [pushed EXCEPT ![mconn] = @ + Chunks]
    /\ ClientMoves("sendSignal", mconn)
    /\ UNCHANGED <<queue, tree, state, handle, workerPtr, workerVars, sock, delivered, connects,
                   sends, written, cut>>

\* Mutant: the send is queued and the worker is not woken.
SendSignalMutant ==
    /\ mpc = "sendSignal"
    /\ ClientMoves("idle", NoConn)
    /\ UNCHANGED <<queue, tree, connVars, workerVars, sock, auxVars>>

\* Without a worker the send stays queued and SendBuffer reports failure.
SendSignal ==
    /\ mpc = "sendSignal"
    /\ wake' = IF workerPtr[mconn] THEN [wake EXCEPT ![mconn] = @ + 1] ELSE wake
    /\ ClientMoves("idle", NoConn)
    /\ UNCHANGED <<queue, tree, connVars, wpc, localVars, exitReq, sock, auxVars>>

-----------------------------------------------------------------------------
(* Client thread: RunCompletedOperationQueue(nonBlocking) and              *)
(* CleanupConnection.  The destructor's drain takes the same steps.        *)

Poll ==
    /\ mpc = "idle"
    /\ queue # <<>>
    /\ queue' = Tail(queue)
    /\ mconn' = Head(queue).conn
    /\ item' = Head(queue).type
    /\ mpc' = IF item' = "Close" THEN "dispatch" ELSE "deliver"
    /\ UNCHANGED <<closing, tree, connVars, workerVars, sock, auxVars>>

\* Mutant: the worker stays in the tree.
CleanupDetachKeepsTree ==
    /\ mpc = "dispatch"
    /\ state' = [state EXCEPT ![mconn] = "Closed"]
    /\ handle' = [handle EXCEPT ![mconn] = NoHandle]
    /\ workerPtr' = [workerPtr EXCEPT ![mconn] = FALSE]
    /\ sendQ' = [sendQ EXCEPT ![mconn] = 0]
    /\ emptyFlag' = [emptyFlag EXCEPT ![mconn] = TRUE]
    /\ ClientMoves(IF mconn \in tree THEN "cleanupExit" ELSE "deliver", mconn)
    /\ UNCHANGED <<queue, tree, workerVars, sock, auxVars>>

\* Mutant: queued sends survive the cleanup.
CleanupDetachKeepsSends ==
    /\ mpc = "dispatch"
    /\ state' = [state EXCEPT ![mconn] = "Closed"]
    /\ handle' = [handle EXCEPT ![mconn] = NoHandle]
    /\ workerPtr' = [workerPtr EXCEPT ![mconn] = FALSE]
    /\ tree' = tree \ {mconn}
    /\ ClientMoves(IF mconn \in tree THEN "cleanupExit" ELSE "deliver", mconn)
    /\ UNCHANGED <<queue, sendQ, emptyFlag, workerVars, sock, auxVars>>

\* The part of CleanupConnection under the cleanup lock: the connection is
\* reset and its worker taken out of the tree.  The socket is not closed.
CleanupDetach ==
    /\ mpc = "dispatch"
    /\ state' = [state EXCEPT ![mconn] = "Closed"]
    /\ handle' = [handle EXCEPT ![mconn] = NoHandle]
    /\ workerPtr' = [workerPtr EXCEPT ![mconn] = FALSE]
    /\ tree' = tree \ {mconn}
    /\ sendQ' = [sendQ EXCEPT ![mconn] = 0]
    /\ emptyFlag' = [emptyFlag EXCEPT ![mconn] = TRUE]
    /\ ClientMoves(IF mconn \in tree THEN "cleanupExit" ELSE "deliver", mconn)
    /\ UNCHANGED <<queue, workerVars, sock, auxVars>>

CleanupRequestExit ==
    /\ mpc = "cleanupExit"
    /\ exitReq' = [exitReq EXCEPT ![mconn] = TRUE]
    /\ ClientMoves("cleanupSignal", mconn)
    /\ UNCHANGED <<queue, tree, connVars, wpc, localVars, wake, sock, auxVars>>

CleanupSignal ==
    /\ mpc = "cleanupSignal"
    /\ wake' = [wake EXCEPT ![mconn] = @ + 1]
    /\ ClientMoves("cleanupJoin", mconn)
    /\ UNCHANGED <<queue, tree, connVars, wpc, localVars, exitReq, sock, auxVars>>

\* Wait() returns once Run has; the thread object is deleted.
CleanupJoin ==
    /\ mpc = "cleanupJoin"
    /\ wpc[mconn] = "exited"
    /\ WorkerMoves(mconn, "off")
    /\ workerPtr' = [workerPtr EXCEPT ![mconn] = FALSE]
    /\ ClientMoves("deliver", mconn)
    /\ UNCHANGED <<queue, tree, state, handle, sendQ, emptyFlag, localVars, wake, exitReq,
                   sock, auxVars>>

\* connection->OnOperationCompleted(workItem); what the callback does next
\* are the client-thread actions above.
Deliver ==
    /\ mpc = "deliver"
    /\ delivered' = [delivered EXCEPT ![mconn] = Append(@, item)]
    /\ ClientMoves("idle", NoConn)
    /\ UNCHANGED <<queue, tree, connVars, workerVars, sock, connects, sends, pushed,
                   written, cut>>

-----------------------------------------------------------------------------
(* Client thread: the engine's destructor                                  *)

\* StopQueueThreads drains the queue: Poll and Deliver as above until it is
\* empty.  What a worker queues after that is never delivered.
Shutdown ==
    /\ mpc = "idle"
    /\ ~closing
    /\ closing' = TRUE
    /\ UNCHANGED <<queue, tree, connVars, workerVars, mpc, mconn, item, sock, auxVars>>

Drained ==
    /\ mpc = "idle"
    /\ closing
    /\ queue = <<>>
    /\ ClientMoves("stopNext", NoConn)
    /\ UNCHANGED <<queue, tree, connVars, workerVars, sock, auxVars>>

StopRequestExit(c) ==
    /\ mpc = "stopNext"
    /\ c \in tree
    /\ exitReq' = [exitReq EXCEPT ![c] = TRUE]
    /\ ClientMoves("stopSignal", c)
    /\ UNCHANGED <<queue, tree, connVars, wpc, localVars, wake, sock, auxVars>>

\* Mutant: the destructor joins a worker it has not woken.
StopSignalMutant ==
    /\ mpc = "stopSignal"
    /\ ClientMoves("stopJoin", mconn)
    /\ UNCHANGED <<queue, tree, connVars, workerVars, sock, auxVars>>

StopSignal ==
    /\ mpc = "stopSignal"
    /\ wake' = [wake EXCEPT ![mconn] = @ + 1]
    /\ ClientMoves("stopJoin", mconn)
    /\ UNCHANGED <<queue, tree, connVars, wpc, localVars, exitReq, sock, auxVars>>

StopJoin ==
    /\ mpc = "stopJoin"
    /\ wpc[mconn] = "exited"
    /\ WorkerMoves(mconn, "off")
    /\ workerPtr' = [workerPtr EXCEPT ![mconn] = FALSE]
    /\ tree' = tree \ {mconn}
    /\ ClientMoves("stopNext", NoConn)
    /\ UNCHANGED <<queue, state, handle, sendQ, emptyFlag, localVars, wake, exitReq,
                   sock, auxVars>>

Destroy ==
    /\ mpc = "stopNext"
    /\ tree = {}
    /\ ClientMoves("destroyed", NoConn)
    /\ UNCHANGED <<queue, tree, connVars, workerVars, sock, auxVars>>

\* The end: the engine is gone.
Destroyed == mpc = "destroyed" /\ UNCHANGED vars

-----------------------------------------------------------------------------
(* Worker thread: WorkerThread::Run                                        *)

\* The head of the loop, not in wakeup-only mode.  Without a socket the
\* worker parks or, if it never reported anything, leaves.  With nothing in
\* hand and no connect outstanding it takes the next queued send.
WorkerTop(c) ==
    /\ wpc[c] = "top"
    /\ socket' = [socket EXCEPT ![c] = handle[c]]
    /\ ready' = [ready EXCEPT ![c] = {}]
    /\ IF handle[c] = NoHandle
       THEN /\ WorkerMoves(c, IF closeQd[c] \/ statusQd[c] \/ state[c] = "Closed"
                              THEN "wakeupOnly" ELSE "leave")
            /\ UNCHANGED <<sendQ, emptyFlag, current>>
       ELSE \/ /\ pending[c] \/ current[c] > 0
               /\ WorkerMoves(c, "select")
               /\ UNCHANGED <<sendQ, emptyFlag, current>>
            \/ /\ ~pending[c] /\ current[c] = 0 /\ sendQ[c] > 0
               /\ sendQ' = [sendQ EXCEPT ![c] = @ - 1]
               /\ emptyFlag' = [emptyFlag EXCEPT ![c] = (sendQ[c] = 1)]
               /\ current' = [current EXCEPT ![c] = Chunks]
               /\ WorkerMoves(c, "select")
            \/ /\ ~pending[c] /\ current[c] = 0 /\ sendQ[c] = 0
               /\ emptyFlag' = [emptyFlag EXCEPT ![c] = TRUE]
               /\ WorkerMoves(c, "halfClose")
               /\ UNCHANGED <<sendQ, current>>
    /\ UNCHANGED <<queue, tree, state, handle, workerPtr, pending, statusQd, closeQd,
                   wake, exitReq, clientVars, sock, auxVars>>

\* Mutant: the empty flag is not looked at again.
WorkerHalfCloseMutant(c) ==
    /\ wpc[c] = "halfClose"
    /\ IF state[c] = "Closing" THEN ShutdownSend(socket[c]) ELSE UNCHANGED sock
    /\ WorkerMoves(c, "select")
    /\ UNCHANGED <<queue, tree, connVars, localVars, wake, exitReq, clientVars, auxVars>>

\* issueDeferredShutdownIfClosing
WorkerHalfClose(c) ==
    /\ wpc[c] = "halfClose"
    /\ IF state[c] = "Closing" /\ emptyFlag[c]
       THEN ShutdownSend(socket[c])
       ELSE UNCHANGED sock
    /\ WorkerMoves(c, "select")
    /\ UNCHANGED <<queue, tree, connVars, localVars, wake, exitReq, clientVars, auxVars>>

\* Mutant: the socket is not in the except set.
ReadySetMutant(c) ==
    LET s == sock[socket[c]]
    IN  {d \in Descriptors :
           \/ d = "read"   /\ s.status = "up" /\ (s.rx # <<>> \/ s.eof # "none")
           \/ d = "write"  /\ s.status = "up" /\ (pending[c] \/ current[c] > 0)
           \/ d = "wakeup" /\ wake[c] > 0}

\* What select() would return for the worker of c right now.
ReadySet(c) ==
    LET s == sock[socket[c]]
    IN  {d \in Descriptors :
           \/ d = "except" /\ s.status = "failed"
           \/ d = "read"   /\ s.status = "up" /\ (s.rx # <<>> \/ s.eof # "none")
           \/ d = "write"  /\ s.status = "up" /\ (pending[c] \/ current[c] > 0)
           \/ d = "wakeup" /\ wake[c] > 0}

AfterWrite(c) == IF "wakeup" \in ready'[c] THEN "drain" ELSE "top"
AfterRead(c)  == IF "write" \in ready'[c] THEN "write" ELSE AfterWrite(c)

\* select() blocks until something is ready; on a handle that is not a
\* socket any more it fails and the worker parks, reporting nothing.
WorkerSelect(c) ==
    /\ wpc[c] = "select"
    /\ IF IsOpen(socket[c])
       THEN /\ ReadySet(c) # {}
            /\ ready' = [ready EXCEPT ![c] = ReadySet(c)]
            /\ WorkerMoves(c,
                 IF pending[c] /\ "except" \in ReadySet(c) THEN "failState"
                 ELSE IF "read" \in ReadySet(c) THEN "receive"
                 ELSE AfterRead(c))
       ELSE WorkerMoves(c, "wakeupOnly") /\ UNCHANGED ready
    /\ UNCHANGED <<queue, tree, connVars, pending, statusQd, closeQd, socket, current, wake, exitReq,
                   clientVars, sock, auxVars>>

\* The connect failed: closed, status item, close item, parked.  The socket
\* stays open.
WorkerFailState(c) ==
    /\ wpc[c] = "failState"
    /\ state' = [state EXCEPT ![c] = "Closed"]
    /\ WorkerMoves(c, "failStatus")
    /\ UNCHANGED <<queue, tree, handle, workerPtr, sendQ, emptyFlag, localVars, wake, exitReq,
                   clientVars, sock, auxVars>>

QueueStatus(c, type) ==
    /\ IF statusQd[c] THEN UNCHANGED queue ELSE Enqueue(c, type)
    /\ statusQd' = [statusQd EXCEPT ![c] = TRUE]

QueueClose(c) ==
    /\ IF closeQd[c] THEN UNCHANGED queue ELSE Enqueue(c, "Close")
    /\ closeQd' = [closeQd EXCEPT ![c] = TRUE]

WorkerFailStatus(c) ==
    /\ wpc[c] = "failStatus"
    /\ QueueStatus(c, "StatusFail")
    /\ WorkerMoves(c, "failClose")
    /\ UNCHANGED <<tree, connVars, pending, closeQd, socket, current, ready, wake, exitReq,
                   clientVars, sock, auxVars>>

\* queueClose() and waitWakeupOnly, the end of both ways to lose a socket.
WorkerQueueClose(c) ==
    /\ wpc[c] \in {"failClose", "endClose"}
    /\ QueueClose(c)
    /\ WorkerMoves(c, "wakeupOnly")
    /\ UNCHANGED <<tree, connVars, pending, statusQd, socket, current, ready, wake, exitReq,
                   clientVars, sock, auxVars>>

\* recv() on the handle read at the head of the loop, and OnReceive for what
\* it returned.
ReceivePacket(c) ==
    /\ wpc[c] = "receive"
    /\ IsOpen(socket[c])
    /\ sock[socket[c]].rx # <<>>
    /\ Head(sock[socket[c]].rx) = "packet"
    /\ Enqueue(c, "Packet")
    /\ sock' = [sock EXCEPT ![socket[c]].rx = Tail(@)]
    /\ UNCHANGED <<tree, connVars, workerVars, clientVars, auxVars>>

\* The stream parser rejects the prefix: Close(false) on the worker thread,
\* which does nothing unless the connection is active.
ReceiveCorrupt(c) ==
    /\ wpc[c] = "receive"
    /\ IsOpen(socket[c])
    /\ sock[socket[c]].rx # <<>>
    /\ Head(sock[socket[c]].rx) = "corrupt"
    /\ sock' = [sock EXCEPT ![socket[c]].rx = Tail(@)]
    /\ IF Active(c)
       THEN /\ state' = [state EXCEPT ![c] = "Closing"]
            /\ WorkerMoves(c, "hardClose")
       ELSE UNCHANGED <<state, wpc>>
    /\ UNCHANGED <<queue, tree, handle, workerPtr, sendQ, emptyFlag, localVars, wake, exitReq,
                   clientVars, auxVars>>

\* Mutant: the hard close reports itself, and the receive loop does again.
WorkerHardCloseMutant(c) ==
    /\ wpc[c] = "hardClose"
    /\ CloseSocket(handle[c])
    /\ Enqueue(c, "Close")
    /\ WorkerMoves(c, "receive")
    /\ UNCHANGED <<tree, connVars, localVars, wake, exitReq, clientVars, auxVars>>

WorkerHardClose(c) ==
    /\ wpc[c] = "hardClose"
    /\ CloseSocket(handle[c])
    /\ CutOff(handle[c], {})
    /\ WorkerMoves(c, "receive")
    /\ UNCHANGED <<queue, tree, connVars, localVars, wake, exitReq, clientVars>>

\* recv() returned 0 or an error other than WSAEWOULDBLOCK.
ReceiveEnd(c) ==
    /\ wpc[c] = "receive"
    /\ \/ ~IsOpen(socket[c])
       \/ sock[socket[c]].rx = <<>> /\ sock[socket[c]].eof # "none"
    /\ WorkerMoves(c, "endSocket")
    /\ UNCHANGED <<queue, tree, connVars, localVars, wake, exitReq, clientVars, sock, auxVars>>

ReceiveWouldBlock(c) ==
    /\ wpc[c] = "receive"
    /\ IsOpen(socket[c])
    /\ sock[socket[c]].rx = <<>>
    /\ sock[socket[c]].eof = "none"
    /\ UNCHANGED ready
    /\ WorkerMoves(c, AfterRead(c))
    /\ UNCHANGED <<queue, tree, connVars, pending, statusQd, closeQd, socket, current, wake, exitReq,
                   clientVars, sock, auxVars>>

\* closeAndInvalidateSocket
WorkerEndSocket(c) ==
    /\ wpc[c] = "endSocket"
    /\ CloseSocket(handle[c])
    /\ CutOff(handle[c], {c})
    /\ handle' = [handle EXCEPT ![c] = NoHandle]
    /\ WorkerMoves(c, "endState")
    /\ UNCHANGED <<queue, tree, state, workerPtr, sendQ, emptyFlag, localVars, wake, exitReq,
                   clientVars>>

\* Mutant: the lost socket is not reported.
WorkerEndStateMutant(c) ==
    /\ wpc[c] = "endState"
    /\ state' = [state EXCEPT ![c] = "Closed"]
    /\ WorkerMoves(c, "wakeupOnly")
    /\ UNCHANGED <<queue, tree, handle, workerPtr, sendQ, emptyFlag, localVars, wake, exitReq,
                   clientVars, sock, auxVars>>

WorkerEndState(c) ==
    /\ wpc[c] = "endState"
    /\ state' = [state EXCEPT ![c] = "Closed"]
    /\ WorkerMoves(c, "endClose")
    /\ UNCHANGED <<queue, tree, handle, workerPtr, sendQ, emptyFlag, localVars, wake, exitReq,
                   clientVars, sock, auxVars>>

SocketUsable(h) == IsOpen(h) /\ sock[h].status = "up" /\ sock[h].eof # "reset"

\* The connect is complete: SO_ERROR decides.
WriteConnect(c) ==
    /\ wpc[c] = "write"
    /\ pending[c]
    /\ IF SocketUsable(socket[c])
       THEN /\ state' = [state EXCEPT ![c] = "UdpMonitorActive"]
            /\ WorkerMoves(c, "connected")
       ELSE /\ WorkerMoves(c, "failState")
            /\ UNCHANGED state
    /\ UNCHANGED <<queue, tree, handle, workerPtr, sendQ, emptyFlag, localVars, wake, exitReq,
                   clientVars, sock, auxVars>>

WorkerConnected(c) ==
    /\ wpc[c] = "connected"
    /\ QueueStatus(c, "StatusOk")
    /\ pending' = [pending EXCEPT ![c] = FALSE]
    /\ UNCHANGED ready
    /\ WorkerMoves(c, AfterWrite(c))
    /\ UNCHANGED <<tree, connVars, closeQd, socket, current, wake, exitReq, clientVars, sock, auxVars>>

\* send(): some of the chunks go out, or none: it would block, or fails with
\* an error that is only logged.
WriteSend(c) ==
    /\ wpc[c] = "write"
    /\ ~pending[c]
    /\ \E n \in 0 .. Chunks :
          /\ n <= current[c]
          /\ n > 0 => SocketUsable(socket[c]) /\ ~sock[socket[c]].shut
          /\ current' = [current EXCEPT ![c] = @ - n]
          /\ written' = [written EXCEPT ![c] = @ + n]
    /\ UNCHANGED ready
    /\ WorkerMoves(c, AfterWrite(c))
    /\ UNCHANGED <<queue, tree, connVars, pending, statusQd, closeQd, socket, wake, exitReq,
                   clientVars, sock, delivered, connects, sends, pushed, cut>>

\* Mutant: any wakeup ends the worker.
WorkerDrainMutant(c) ==
    /\ wpc[c] = "drain"
    /\ wake' = [wake EXCEPT ![c] = @ - 1]
    /\ WorkerMoves(c, "leave")
    /\ UNCHANGED <<queue, tree, connVars, localVars, exitReq, clientVars, sock, auxVars>>

WorkerDrain(c) ==
    /\ wpc[c] = "drain"
    /\ wake' = [wake EXCEPT ![c] = @ - 1]
    /\ WorkerMoves(c, IF exitReq[c] THEN "leave" ELSE "top")
    /\ UNCHANGED <<queue, tree, connVars, localVars, exitReq, clientVars, sock, auxVars>>

\* Mutant: the parked worker drains without select().
WorkerParkedMutant(c) ==
    /\ wpc[c] = "wakeupOnly"
    /\ wake' = [wake EXCEPT ![c] = @ - 1]
    /\ WorkerMoves(c, IF exitReq[c] THEN "leave" ELSE "wakeupOnly")
    /\ UNCHANGED <<queue, tree, connVars, localVars, exitReq, clientVars, sock, auxVars>>

WorkerParked(c) ==
    /\ wpc[c] = "wakeupOnly"
    /\ wake[c] > 0
    /\ wake' = [wake EXCEPT ![c] = @ - 1]
    /\ WorkerMoves(c, IF exitReq[c] THEN "leave" ELSE "wakeupOnly")
    /\ UNCHANGED <<queue, tree, connVars, localVars, exitReq, clientVars, sock, auxVars>>

WorkerLeave(c) ==
    /\ wpc[c] = "leave"
    /\ workerPtr' = [workerPtr EXCEPT ![c] = FALSE]
    /\ WorkerMoves(c, "exited")
    /\ UNCHANGED <<queue, tree, state, handle, sendQ, emptyFlag, localVars, wake, exitReq,
                   clientVars, sock, auxVars>>

-----------------------------------------------------------------------------
(* The peers and the network                                               *)

SocketChanges(h, s) ==
    /\ sock' = [sock EXCEPT ![h] = s]
    /\ UNCHANGED <<queue, tree, connVars, workerVars, clientVars, auxVars>>

PeerAccepts(h) ==
    /\ sock[h].status = "connecting"
    /\ SocketChanges(h, [sock[h] EXCEPT !.status = "up"])

PeerRefuses(h) ==
    /\ sock[h].status = "connecting"
    /\ SocketChanges(h, [sock[h] EXCEPT !.status = "failed"])

PeerSends(h) ==
    /\ sock[h].status = "up"
    /\ sock[h].eof = "none"
    /\ sock[h].sent < MaxFragments
    /\ \E fragment \in {"packet"} \cup IF CorruptStreams THEN {"corrupt"} ELSE {} :
          SocketChanges(h, [sock[h] EXCEPT !.rx = Append(@, fragment), !.sent = @ + 1])

PeerCloses(h) ==
    /\ sock[h].status = "up"
    /\ sock[h].eof = "none"
    /\ \E eof \in {"fin", "reset"} : SocketChanges(h, [sock[h] EXCEPT !.eof = eof])

-----------------------------------------------------------------------------

Client ==
    \/ \E c \in Conns :
          \/ ConnectRejected(c) \/ ConnectNoSocket(c) \/ ConnectRefusedAtOnce(c)
          \/ ConnectStarted(c) \/ CloseBegin(c) \/ SendBegin(c) \/ StopRequestExit(c)
    \/ ConnectStatus \/ CloseMark \/ CloseShutdown \/ CloseSocketNow
    \/ SendPush \/ SendSignal
    \/ Poll \/ CleanupDetach \/ CleanupRequestExit \/ CleanupSignal \/ CleanupJoin \/ Deliver
    \/ Shutdown \/ Drained \/ StopSignal \/ StopJoin \/ Destroy \/ Destroyed

Receive(c) == ReceivePacket(c) \/ ReceiveCorrupt(c) \/ ReceiveEnd(c) \/ ReceiveWouldBlock(c)

Worker(c) ==
    \/ WorkerTop(c) \/ WorkerHalfClose(c) \/ WorkerSelect(c)
    \/ WorkerFailState(c) \/ WorkerFailStatus(c) \/ WorkerQueueClose(c)
    \/ Receive(c) \/ WorkerHardClose(c) \/ WorkerEndSocket(c) \/ WorkerEndState(c)
    \/ WriteConnect(c) \/ WorkerConnected(c) \/ WriteSend(c)
    \/ WorkerDrain(c) \/ WorkerParked(c) \/ WorkerLeave(c)

Peer(h) == PeerAccepts(h) \/ PeerRefuses(h) \/ PeerSends(h) \/ PeerCloses(h)

Next ==
    \/ Client
    \/ \E c \in Conns : Worker(c)
    \/ \E h \in Handles : Peer(h)

Spec == Init /\ [][Next]_vars

\* The client thread is never stopped inside an engine call, keeps polling,
\* and finishes the destructor once it began; what it calls and when the
\* destructor begins is its own choice.
ClientProgress ==
    \/ ConnectStatus \/ CloseMark \/ CloseShutdown \/ CloseSocketNow
    \/ SendPush \/ SendSignal
    \/ Poll \/ CleanupDetach \/ CleanupRequestExit \/ CleanupSignal \/ CleanupJoin \/ Deliver
    \/ Drained \/ \E c \in Conns : StopRequestExit(c)
    \/ StopSignal \/ StopJoin \/ Destroy

\* send() takes something of what is in hand.
WriteSome(c) == WriteSend(c) /\ written' # written

\* A started thread is scheduled; the system resolves every connect attempt:
\* accepted, refused or timed out; and a worker that offers bytes to a usable
\* socket again and again is not refused for ever: the peer's TCP takes them
\* or the connection breaks.  Nothing else is assumed of a peer.
Fairness ==
    /\ WF_vars(ClientProgress)
    /\ \A c \in Conns : WF_vars(Worker(c)) /\ SF_vars(WriteSome(c))
    /\ \A h \in Handles : WF_vars(PeerAccepts(h) \/ PeerRefuses(h))

FairSpec == Spec /\ Fairness

-----------------------------------------------------------------------------
(* Properties                                                              *)

Joining == {"cleanupExit", "cleanupSignal", "cleanupJoin"}

\* A worker object is reachable exactly as long as it exists: a pointer in
\* the connection or an entry in the context tree never outlives the delete
\* in CleanupConnection or the destructor, and no thread is left running
\* that neither the tree nor a join in progress knows.
WorkerOwnership ==
    \A c \in Conns :
        /\ workerPtr[c] \/ c \in tree => wpc[c] # "off"
        /\ wpc[c] # "off" => c \in tree \/ (mpc \in Joining /\ mconn = c)

\* When a connection that was connected once, as the mediator does, is told
\* that it closed, its worker has been joined and deleted, its socket and its
\* queued sends are gone: the callback may release the connection.
CloseIsQuiescent ==
    mpc = "deliver" /\ item = "Close" /\ connects[mconn] = 1 =>
        /\ wpc[mconn] = "off"
        /\ ~workerPtr[mconn]
        /\ mconn \notin tree
        /\ state[mconn] = "Closed"
        /\ handle[mconn] = NoHandle
        /\ sendQ[mconn] = 0

\* Everything queued for connection c so far, in its order: what was delivered,
\* what the client thread has in hand and what waits in the queue.
Reports(c) ==
    LET n == Len(delivered[c])
    IN  {[at |-> i, type |-> delivered[c][i]] : i \in DOMAIN delivered[c]}
        \cup (IF mconn = c /\ mpc \in Joining \cup {"dispatch", "deliver"}
              THEN {[at |-> n + 1, type |-> item]} ELSE {})
        \cup {[at |-> n + 1 + i, type |-> queue[i].type] :
                 i \in {j \in DOMAIN queue : queue[j].conn = c}}

StatusTypes == {"StatusOk", "StatusFail", "StatusRejected"}

\* One attempt is reported in order: at most one status and one close, and
\* nothing after the close; the refused-at-once attempt alone has its status
\* after its close.
ReportsInOrder ==
    \A c \in Conns : connects[c] <= 1 =>
        \A r, s \in Reports(c) : r.at < s.at =>
            /\ ~(r.type \in StatusTypes /\ s.type \in StatusTypes)
            /\ r.type = "Close" => s.type = "StatusFail" /\ Reports(c) = {r, s}

\* A worker leaves its loop only when it was told to, so every other way out
\* is reported first: the bare break at the head of the loop is dead code.
LeavesOnRequest ==
    \A c \in Conns : wpc[c] = "leave" => exitReq[c]

\* Handles are reused, and a hard close leaves its handle in the connection
\* and in the worker's local: that worker may then read from, write to and
\* close the socket of another connection.  The damage reaches no further: a
\* connection whose socket nobody closed under it selects on, reads from,
\* writes to and closes a socket that is open and its own.
OwnSocketOnly ==
    \A c \in Conns :
        /\ wpc[c] \in {"halfClose", "select", "receive", "write", "endSocket"}
        /\ c \notin cut
        => IsOpen(socket[c]) /\ sock[socket[c]].owner = c

\* The half-close a worker issues comes last: nothing is in hand and nothing
\* is queued, and on a connection that was connected once send() took every
\* chunk that was ever queued.  A send queued between the worker's look at
\* the queue and its look at the state is not overtaken.
DeferredHalfCloseIsLast ==
    [][\A c \in Conns :
          WorkerHalfClose(c) /\ sock' # sock =>
              /\ current[c] = 0
              /\ sendQ[c] = 0
              /\ connects[c] <= 1 => written[c] = pushed[c]]_vars

\* What the comment in Close promises: with sends pending the half-close
\* waits for the worker to write them.  The code's flag says the queue is
\* empty while the last send is still in the worker's hand.
GracefulCloseSendsAll ==
    [][CloseShutdown /\ sock' # sock => sendQ[mconn] = 0 /\ current[mconn] = 0]_vars

\* A connect that was started is reported, unless the engine goes away.
ConnectIsReported ==
    \A c \in Conns : state[c] = "ConnectActive" ~> delivered[c] # <<>> \/ closing

\* When the peer ends a connection the owner is told and the connection can
\* be reused, unless the engine goes away.
PeerCloseIsReported ==
    \A c \in Conns :
        (\E h \in Handles : sock[h].owner = c /\ sock[h].eof # "none" /\ handle[c] = h)
            ~> (\E i \in DOMAIN delivered[c] : delivered[c][i] = "Close") \/ closing

\* The connection can carry no more bytes: it has no socket, its connect
\* failed, the peer ended it, or its sending side was shut down.
Broken(c) ==
    \/ ~IsOpen(handle[c])
    \/ LET s == sock[handle[c]] IN s.status = "failed" \/ s.eof # "none" \/ s.shut

\* Every chunk of every queued send is handed to the socket until the
\* connection is closed or lost: the wakeup is not lost between the worker's
\* look at the queue and its select.  What an early half-close loses is the
\* subject of GracefulCloseSendsAll.
SendsAreWritten ==
    \A c \in Conns :
        written[c] < pushed[c] ~> written[c] = pushed[c] \/ Broken(c) \/ closing

\* The destructor joins every worker and ends.
DestructorEnds == closing ~> mpc = "destroyed"

=============================================================================
