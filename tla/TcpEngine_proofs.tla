-------------------------- MODULE TcpEngine_proofs --------------------------
(***************************************************************************)
(* Theorems about TcpEngine, for any set of connections, any number of     *)
(* Connect and SendBuffer calls, graceful and hard closes, and peers that  *)
(* send anything.                                                          *)
(***************************************************************************)
EXTENDS TcpEngine, TLAPS

-----------------------------------------------------------------------------
(* Types                                                                   *)

\* Inside an engine call the client thread works for a connection.
ClientInv == mpc \notin {"idle", "stopNext", "destroyed"} => mconn \in Conns

\* A worker that is going to drain the wakeup socket has seen it readable.
WakeInv ==
    \A c \in Conns :
        /\ wpc[c] = "drain" => "wakeup" \in ready[c]
        /\ wpc[c] \in {"receive", "hardClose", "write", "connected", "drain"}
           /\ "wakeup" \in ready[c] => wake[c] > 0

TypeInv == TypeOK /\ ClientInv /\ WakeInv

\* The initial state is well typed.
LEMMA TypeInit == Init => TypeInv
<1> SUFFICES ASSUME Init PROVE TypeInv
  OBVIOUS
<1> USE EngineAssumption DEF Init
<1>1. ReportTypes BY DEF ReportTypes
<1>2. ConnTypes BY DEF ConnTypes, States
<1>3. WorkerTypes BY DEF WorkerTypes, WorkerSteps
<1>4. ClientTypes BY DEF ClientTypes, ClientSteps, ItemTypes
<1>5. sock \in [Handles -> Sockets] BY DEF Sockets, FreeSocket
<1>6. ClientInv /\ WakeInv BY DEF ClientInv, WakeInv
<1>7. HistoryTypes BY DEF HistoryTypes
<1>8. QED BY <1>1, <1>2, <1>3, <1>4, <1>5, <1>6, <1>7 DEF TypeInv, TypeOK

\* What is enqueued is an item.
LEMMA EnqueueType ==
    ASSUME ReportTypes, NEW c \in Conns, NEW t \in ItemTypes, Enqueue(c, t)
    PROVE  queue' \in Seq(Items)
<1>1. [conn |-> c, type |-> t] \in Items BY DEF Items
<1>2. QED BY <1>1 DEF Enqueue, ReportTypes

\* A worker keeps the types of queue and deliveries.
LEMMA WorkerKeepsReports ==
    ASSUME TypeInv, NEW c \in Conns, Worker(c)
    PROVE  ReportTypes'
<1>1. delivered' = delivered /\ (queue' = queue \/ \E t \in ItemTypes : Enqueue(c, t))
  BY DEF Worker, WorkerTop, WorkerHalfClose, WorkerSelect, WorkerFailState, WorkerFailStatus,
         WorkerQueueClose, Receive, ReceivePacket, ReceiveCorrupt, ReceiveEnd,
         ReceiveWouldBlock, WorkerHardClose, WorkerEndSocket, WorkerEndState, WriteConnect,
         WorkerConnected, WriteSend, WorkerDrain, WorkerParked, WorkerLeave, auxVars, CutOff,
         QueueStatus, QueueClose, ItemTypes
<1>2. QED BY <1>1, EnqueueType DEF ReportTypes, TypeInv, TypeOK

\* A worker keeps the types of the connections.
LEMMA WorkerKeepsConns ==
    ASSUME TypeInv, NEW c \in Conns, Worker(c)
    PROVE  ConnTypes'
<1>1. ConnTypes BY DEF TypeInv, TypeOK
<1>2. UNCHANGED <<connects, sends>>
  BY DEF Worker, WorkerTop, WorkerHalfClose, WorkerSelect, WorkerFailState, WorkerFailStatus,
         WorkerQueueClose, Receive, ReceivePacket, ReceiveCorrupt, ReceiveEnd,
         ReceiveWouldBlock, WorkerHardClose, WorkerEndSocket, WorkerEndState, WriteConnect,
         WorkerConnected, WriteSend, WorkerDrain, WorkerParked, WorkerLeave, auxVars, CutOff
<1>3. CASE WorkerTop(c)
  <2>1. UNCHANGED <<state, handle, workerPtr>> BY <1>3 DEF WorkerTop
  <2>2. \/ sendQ' = sendQ
        \/ sendQ[c] > 0 /\ sendQ' = [sendQ EXCEPT ![c] = @ - 1]
    BY <1>3 DEF WorkerTop
  <2>3. sendQ' \in [Conns -> Nat] BY <1>1, <2>2 DEF ConnTypes
  <2>4. emptyFlag' \in [Conns -> BOOLEAN] BY <1>1, <1>3 DEF WorkerTop, ConnTypes
  <2>5. QED BY <1>1, <1>2, <2>1, <2>3, <2>4 DEF ConnTypes
<1>4. ASSUME UNCHANGED connVars PROVE ConnTypes'
  BY <1>1, <1>2, <1>4 DEF ConnTypes, connVars
<1>5. CASE WorkerFailState(c) \/ ReceiveCorrupt(c) \/ WorkerEndState(c) \/ WriteConnect(c)
  BY <1>1, <1>2, <1>5 DEF ConnTypes, States, WorkerFailState, ReceiveCorrupt, WorkerEndState,
                          WriteConnect
<1>6. CASE WorkerEndSocket(c) BY <1>1, <1>2, <1>6 DEF ConnTypes, WorkerEndSocket
<1>7. CASE WorkerLeave(c) BY <1>1, <1>2, <1>7 DEF ConnTypes, WorkerLeave
<1>8. QED
  BY <1>3, <1>4, <1>5, <1>6, <1>7
  DEF Worker, WorkerHalfClose, WorkerSelect, WorkerFailStatus, WorkerQueueClose, Receive,
      ReceivePacket, ReceiveEnd, ReceiveWouldBlock, WorkerHardClose, WorkerConnected,
      WriteSend, WorkerDrain, WorkerParked

\* One socket changes to another value of its type.
LEMMA SocketUpdate ==
    ASSUME sock \in [Handles -> Sockets], NEW h \in Handles, NEW s \in Sockets
    PROVE  [sock EXCEPT ![h] = s] \in [Handles -> Sockets]
OBVIOUS

\* System calls keep the types of the sockets.
LEMMA SystemCallTypes ==
    ASSUME sock \in [Handles -> Sockets], NEW h
    PROVE  /\ CloseSocket(h) => sock' \in [Handles -> Sockets]
           /\ ShutdownSend(h) => sock' \in [Handles -> Sockets]
<1>1. FreeSocket \in Sockets BY DEF FreeSocket, Sockets
<1>2. h \in Handles => [sock[h] EXCEPT !.shut = TRUE] \in Sockets BY DEF Sockets
<1>3. QED BY <1>1, <1>2, SocketUpdate DEF CloseSocket, ShutdownSend, IsOpen

\* A worker keeps the types of the sockets.
LEMMA WorkerKeepsSockets ==
    ASSUME TypeInv, NEW c \in Conns, Worker(c)
    PROVE  sock' \in [Handles -> Sockets]
<1>1. sock \in [Handles -> Sockets] BY DEF TypeInv, TypeOK
<1>2. CASE /\ IsOpen(socket[c]) /\ sock[socket[c]].rx # <<>>
           /\ sock' = [sock EXCEPT ![socket[c]].rx = Tail(@)]
  <2>1. socket[c] \in Handles BY <1>2 DEF IsOpen
  <2>2. sock[socket[c]] \in Sockets BY <1>1, <2>1
  <2>3. Tail(sock[socket[c]].rx) \in Seq({"packet", "corrupt"}) BY <1>2, <2>2 DEF Sockets
  <2>4. [sock[socket[c]] EXCEPT !.rx = Tail(@)] \in Sockets BY <2>2, <2>3 DEF Sockets
  <2>5. QED BY <1>1, <1>2, <2>1, <2>4, SocketUpdate
<1>3. CASE sock' = sock BY <1>1, <1>3
<1>4. CASE \E h : CloseSocket(h) \/ ShutdownSend(h) BY <1>1, <1>4, SystemCallTypes
<1>5. QED
  BY <1>2, <1>3, <1>4
  DEF Worker, WorkerTop, WorkerHalfClose, WorkerSelect, WorkerFailState, WorkerFailStatus,
      WorkerQueueClose, Receive, ReceivePacket, ReceiveCorrupt, ReceiveEnd, ReceiveWouldBlock,
      WorkerHardClose, WorkerEndSocket, WorkerEndState, WriteConnect, WorkerConnected,
      WriteSend, WorkerDrain, WorkerParked, WorkerLeave

\* A worker keeps the types of the workers.
LEMMA WorkerKeepsWorkers ==
    ASSUME TypeInv, NEW c \in Conns, Worker(c)
    PROVE  WorkerTypes' /\ WakeInv'
<1> USE DEF WorkerTypes, WakeInv, WorkerMoves, WorkerSteps, localVars
<1>1. WorkerTypes /\ WakeInv BY DEF TypeInv, TypeOK
<1>2. ConnTypes BY DEF TypeInv, TypeOK
<1>3. Chunks \in Nat BY EngineAssumption
<1>4. CASE WorkerTop(c) BY <1>1, <1>2, <1>3, <1>4 DEF WorkerTop, ConnTypes
<1>5. CASE WorkerHalfClose(c) BY <1>1, <1>5 DEF WorkerHalfClose
<1>6. CASE WorkerSelect(c)
  <2>1. CASE ~IsOpen(socket[c]) BY <1>1, <1>6, <2>1 DEF WorkerSelect
  <2>2. CASE IsOpen(socket[c])
    <3>1. ReadySet(c) \in SUBSET Descriptors BY DEF ReadySet
    <3>2. ready' = [ready EXCEPT ![c] = ReadySet(c)] BY <1>6, <2>2 DEF WorkerSelect
    <3>3. ready'[c] = ReadySet(c) BY <1>1, <3>2
    <3>4. "wakeup" \in ReadySet(c) => wake[c] > 0
      BY DEF ReadySet
    <3>5. PICK s \in {"failState", "receive", "write", "drain", "top"} :
             /\ wpc' = [wpc EXCEPT ![c] = s]
             /\ s = "drain" => "wakeup" \in ReadySet(c)
      BY <1>6, <2>2, <3>3 DEF WorkerSelect, AfterRead, AfterWrite
    <3>6. UNCHANGED <<tree, pending, statusQd, closeQd, socket, current, wake, exitReq>>
      BY <1>6 DEF WorkerSelect
    <3>7. WorkerTypes' BY <1>1, <3>1, <3>2, <3>5, <3>6
    <3>8. WakeInv' BY <1>1, <3>2, <3>4, <3>5, <3>6
    <3>9. QED BY <3>7, <3>8
  <2>3. QED BY <2>1, <2>2
<1>7. CASE WorkerFailState(c) BY <1>1, <1>7 DEF WorkerFailState
<1>8. CASE WorkerFailStatus(c) BY <1>1, <1>8 DEF WorkerFailStatus, QueueStatus
<1>9. CASE WorkerQueueClose(c) BY <1>1, <1>9 DEF WorkerQueueClose, QueueClose
<1>10. CASE ReceivePacket(c) BY <1>1, <1>10 DEF ReceivePacket, workerVars
<1>11. CASE ReceiveCorrupt(c) BY <1>1, <1>11 DEF ReceiveCorrupt
<1>12. CASE ReceiveEnd(c) BY <1>1, <1>12 DEF ReceiveEnd
<1>13. CASE ReceiveWouldBlock(c)
  BY <1>1, <1>13 DEF ReceiveWouldBlock, AfterRead, AfterWrite
<1>14. CASE WorkerHardClose(c) BY <1>1, <1>14 DEF WorkerHardClose
<1>15. CASE WorkerEndSocket(c) BY <1>1, <1>15 DEF WorkerEndSocket
<1>16. CASE WorkerEndState(c) BY <1>1, <1>16 DEF WorkerEndState
<1>17. CASE WriteConnect(c) BY <1>1, <1>17 DEF WriteConnect
<1>18. CASE WorkerConnected(c) BY <1>1, <1>18 DEF WorkerConnected, QueueStatus, AfterWrite
<1>19. CASE WriteSend(c) BY <1>1, <1>3, <1>19 DEF WriteSend, AfterWrite
<1>20. CASE WorkerDrain(c) BY <1>1, <1>20 DEF WorkerDrain
<1>21. CASE WorkerParked(c) BY <1>1, <1>21 DEF WorkerParked
<1>22. CASE WorkerLeave(c) BY <1>1, <1>22 DEF WorkerLeave
<1>23. QED
  BY <1>4, <1>5, <1>6, <1>7, <1>8, <1>9, <1>10, <1>11, <1>12, <1>13, <1>14, <1>15, <1>16,
     <1>17, <1>18, <1>19, <1>20, <1>21, <1>22 DEF Worker, Receive

\* No step takes a written chunk back, and what is cut off is an owner.
LEMMA HistoryKeepsTypes ==
    ASSUME TypeInv, Next
    PROVE  HistoryTypes'
<1>1. /\ HistoryTypes /\ ConnTypes /\ WorkerTypes /\ sock \in [Handles -> Sockets]
      /\ mpc \notin {"idle", "stopNext", "destroyed"} => mconn \in Conns
  BY DEF TypeInv, TypeOK, ClientInv
<1>2. CASE UNCHANGED <<pushed, written, cut>> BY <1>1, <1>2 DEF HistoryTypes
<1>3. ASSUME NEW g, NEW own, CutOff(g, own) PROVE HistoryTypes'
  <2>1. g \in Handles => sock[g].owner \in Conns \cup {NoConn}
    BY <1>1 DEF Sockets
  <2>2. QED BY <1>1, <1>3, <2>1 DEF CutOff, HistoryTypes, IsOpen
<1>4. CASE SendPush
  BY <1>1, <1>4, EngineAssumption DEF SendPush, HistoryTypes
<1>5. ASSUME NEW c \in Conns, WriteSend(c) PROVE HistoryTypes'
  BY <1>1, <1>5, EngineAssumption DEF WriteSend, HistoryTypes
<1>6. CASE Client
  BY <1>2, <1>3, <1>4, <1>6
  DEF Client, ConnectRejected, ConnectNoSocket, ConnectRefusedAtOnce, ConnectStarted, CountConnect,
      CloseBegin, SendBegin, StopRequestExit, ConnectStatus, CloseMark, CloseShutdown,
      CloseSocketNow, SendSignal, Poll, CleanupDetach, CleanupRequestExit, CleanupSignal,
      CleanupJoin, Deliver, Shutdown, Drained, StopSignal, StopJoin, Destroy, Destroyed,
      auxVars, vars
<1>7. ASSUME NEW c \in Conns, Worker(c) PROVE HistoryTypes'
  BY <1>2, <1>3, <1>5, <1>7
  DEF Worker, WorkerTop, WorkerHalfClose, WorkerSelect, WorkerFailState, WorkerFailStatus,
      WorkerQueueClose, Receive, ReceivePacket, ReceiveCorrupt, ReceiveEnd, ReceiveWouldBlock,
      WorkerHardClose, WorkerEndSocket, WorkerEndState, WriteConnect, WorkerConnected,
      WorkerDrain, WorkerParked, WorkerLeave, auxVars
<1>8. ASSUME NEW h \in Handles, Peer(h) PROVE HistoryTypes'
  BY <1>2, <1>8 DEF Peer, PeerAccepts, PeerRefuses, PeerSends, PeerCloses, SocketChanges, auxVars
<1>9. QED BY <1>6, <1>7, <1>8 DEF Next

\* A worker keeps the types.
LEMMA WorkerKeepsTypes ==
    ASSUME TypeInv, NEW c \in Conns, Worker(c)
    PROVE  TypeInv'
<1>1. UNCHANGED clientVars
  BY DEF Worker, WorkerTop, WorkerHalfClose, WorkerSelect, WorkerFailState, WorkerFailStatus,
      WorkerQueueClose, Receive, ReceivePacket, ReceiveCorrupt, ReceiveEnd, ReceiveWouldBlock,
      WorkerHardClose, WorkerEndSocket, WorkerEndState, WriteConnect, WorkerConnected,
      WriteSend, WorkerDrain, WorkerParked, WorkerLeave
<1>2. ClientTypes' /\ ClientInv'
  BY <1>1 DEF TypeInv, TypeOK, ClientTypes, ClientInv, clientVars
<1>3. QED
  BY <1>2, WorkerKeepsReports, WorkerKeepsConns, WorkerKeepsWorkers, WorkerKeepsSockets,
     HistoryKeepsTypes DEF TypeInv, TypeOK, Next

\* The client thread's steps, group by group.
LEMMA ClientKeepsReports ==
    ASSUME TypeInv, Client
    PROVE  ReportTypes'
<1> USE DEF ItemTypes
<1>1. /\ ReportTypes
      /\ mpc \notin {"idle", "stopNext", "destroyed"} => mconn \in Conns
  BY DEF TypeInv, TypeOK, ClientInv
<1>2. CASE \E c \in Conns : ConnectRejected(c) \/ ConnectNoSocket(c) \/ ConnectRefusedAtOnce(c)
  <2>1. PICK c \in Conns : ConnectRejected(c) \/ ConnectNoSocket(c) \/ ConnectRefusedAtOnce(c)
    BY <1>2
  <2>2. UNCHANGED delivered /\ \E t \in ItemTypes : Enqueue(c, t)
    BY <2>1 DEF ConnectRejected, ConnectNoSocket, ConnectRefusedAtOnce, CountConnect
  <2>3. QED BY <1>1, <2>2, EnqueueType DEF ReportTypes
<1>3. CASE ConnectStatus
  <2>1. UNCHANGED delivered /\ Enqueue(mconn, "StatusFail") /\ mconn \in Conns
    BY <1>1, <1>3 DEF ConnectStatus, auxVars
  <2>2. QED BY <1>1, <2>1, EnqueueType DEF ReportTypes
<1>4. CASE Poll
  <2>1. UNCHANGED delivered /\ queue # <<>> /\ queue' = Tail(queue)
    BY <1>4 DEF Poll, auxVars
  <2>2. QED BY <1>1, <2>1 DEF ReportTypes
<1>5. CASE Deliver
  <2>1. UNCHANGED queue /\ delivered' = [delivered EXCEPT ![mconn] = Append(@, item)]
    BY <1>5 DEF Deliver
  <2>2. mconn \in Conns /\ item \in ItemTypes
    BY <1>1, <1>5 DEF Deliver, TypeInv, TypeOK, ClientTypes
  <2>3. Append(delivered[mconn], item) \in Seq(ItemTypes)
    BY <1>1, <2>2 DEF ReportTypes
  <2>4. QED BY <1>1, <2>1, <2>2, <2>3 DEF ReportTypes
<1>6. CASE UNCHANGED <<queue, delivered>>
  BY <1>1, <1>6 DEF ReportTypes
<1>7. QED
  BY <1>2, <1>3, <1>4, <1>5, <1>6
  DEF Client, ConnectStarted, CountConnect, CloseBegin, SendBegin, StopRequestExit, CloseMark,
      CloseShutdown, CloseSocketNow, SendPush, SendSignal, CleanupDetach, CleanupRequestExit,
      CleanupSignal, CleanupJoin, Shutdown, Drained, StopSignal, StopJoin, Destroy, Destroyed,
      CutOff, auxVars, vars

\* The client thread keeps the types of the connections.
LEMMA ClientKeepsConns ==
    ASSUME TypeInv, Client
    PROVE  ConnTypes'
<1> USE DEF ConnTypes, States
<1>1. ConnTypes BY DEF TypeInv, TypeOK
<1>2. CASE \E c \in Conns : ConnectRejected(c) \/ ConnectNoSocket(c) \/ ConnectRefusedAtOnce(c)
  BY <1>1, <1>2 DEF ConnectRejected, ConnectNoSocket, ConnectRefusedAtOnce, CountConnect, connVars
<1>3. CASE \E c \in Conns : ConnectStarted(c)
  BY <1>1, <1>3 DEF ConnectStarted, RegisterWorker, CountConnect
<1>4. CASE \E c \in Conns : SendBegin(c)
  BY <1>1, <1>4 DEF SendBegin, connVars
<1>5. CASE CloseMark
  BY <1>1, <1>5 DEF CloseMark, auxVars
<1>51. CASE SendPush
  <2>1. mconn \in Conns BY <1>51 DEF SendPush, TypeInv, ClientInv
  <2>2. UNCHANGED <<state, handle, workerPtr, connects, sends>> BY <1>51 DEF SendPush, auxVars
  <2>3. sendQ' \in [Conns -> Nat] BY <1>1, <1>51, <2>1 DEF SendPush
  <2>4. emptyFlag' \in [Conns -> BOOLEAN] BY <1>1, <1>51 DEF SendPush
  <2>5. QED BY <1>1, <2>2, <2>3, <2>4
<1>6. CASE CleanupDetach
  BY <1>1, <1>6 DEF CleanupDetach, auxVars
<1>61. CASE CleanupJoin \/ StopJoin
  BY <1>1, <1>61 DEF CleanupJoin, StopJoin, auxVars
<1>7. CASE UNCHANGED <<connVars, connects, sends>>
  BY <1>1, <1>7 DEF connVars
<1>8. QED
  BY <1>2, <1>3, <1>4, <1>5, <1>51, <1>6, <1>61, <1>7
  DEF Client, CloseBegin, StopRequestExit, ConnectStatus, CloseShutdown, CloseSocketNow,
      SendSignal, Poll, CleanupRequestExit, CleanupSignal, Deliver, Shutdown, Drained,
      StopSignal, Destroy, Destroyed, CutOff, auxVars, vars

\* The client thread keeps the types of the workers.
LEMMA ClientKeepsWorkers ==
    ASSUME TypeInv, Client
    PROVE  WorkerTypes' /\ WakeInv'
<1> USE DEF WorkerTypes, WakeInv, WorkerSteps, WorkerMoves
<1>1. WorkerTypes /\ WakeInv BY DEF TypeInv, TypeOK
<1>2. CASE \E c \in Conns : ConnectStarted(c)
  <2>1. PICK c \in Conns : ConnectStarted(c) BY <1>2
  <2>2. tree' = tree \cup {c} BY <2>1 DEF ConnectStarted, RegisterWorker
  <2>3. CASE c \in tree
    BY <1>1, <2>1, <2>2, <2>3 DEF ConnectStarted, RegisterWorker, workerVars, localVars
  <2>4. CASE c \notin tree
    <3>1. PICK s \in {"top", "exited"} : wpc' = [wpc EXCEPT ![c] = s]
      BY <2>1, <2>4 DEF ConnectStarted, RegisterWorker
    <3>2. WorkerTypes'
      <4>1. tree' \subseteq Conns /\ wpc' \in [Conns -> WorkerSteps]
        BY <1>1, <2>2, <3>1
      <4>2. /\ pending' \in [Conns -> BOOLEAN]
            /\ statusQd' \in [Conns -> BOOLEAN]
            /\ closeQd' \in [Conns -> BOOLEAN]
            /\ exitReq' \in [Conns -> BOOLEAN]
        BY <1>1, <2>1, <2>4 DEF ConnectStarted, RegisterWorker
      <4>3. socket' \in [Conns -> Handles \cup {NoHandle}]
        BY <1>1, <2>1, <2>4 DEF ConnectStarted, RegisterWorker
      <4>4. current' \in [Conns -> Nat] /\ wake' \in [Conns -> Nat]
        BY <1>1, <2>1, <2>4 DEF ConnectStarted, RegisterWorker
      <4>5. ready' \in [Conns -> SUBSET Descriptors]
        BY <1>1, <2>1, <2>4 DEF ConnectStarted, RegisterWorker
      <4>6. QED BY <4>1, <4>2, <4>3, <4>4, <4>5
    <3>3. WakeInv'
      BY <1>1, <2>1, <2>4, <3>1 DEF ConnectStarted, RegisterWorker
    <3>4. QED BY <3>2, <3>3
  <2>5. QED BY <2>3, <2>4
<1>3. CASE \E c \in Conns : StopRequestExit(c)
  BY <1>1, <1>3 DEF StopRequestExit, localVars
<1>4. CASE CleanupRequestExit
  BY <1>1, <1>4 DEF CleanupRequestExit, localVars
<1>5. CASE SendSignal
  <2>1. CASE wake' = wake BY <1>1, <1>5, <2>1 DEF SendSignal, localVars
  <2>2. CASE wake' = [wake EXCEPT ![mconn] = @ + 1]
    <3>1. mconn \in Conns BY <1>5 DEF SendSignal, TypeInv, ClientInv
    <3>2. wake' \in [Conns -> Nat] BY <1>1, <2>2, <3>1
    <3>3. \A c \in Conns : wake[c] > 0 => wake'[c] > 0 BY <1>1, <2>2, <3>1
    <3>4. QED BY <1>1, <1>5, <3>2, <3>3 DEF SendSignal, localVars
  <2>3. QED BY <1>5, <2>1, <2>2 DEF SendSignal
<1>51. CASE CleanupSignal \/ StopSignal
  BY <1>1, <1>51 DEF CleanupSignal, StopSignal, localVars
<1>6. CASE CleanupDetach
  BY <1>1, <1>6 DEF CleanupDetach, workerVars, localVars
<1>7. CASE CleanupJoin \/ StopJoin
  BY <1>1, <1>7 DEF CleanupJoin, StopJoin, localVars
<1>8. CASE UNCHANGED <<tree, workerVars>>
  BY <1>1, <1>8 DEF workerVars, localVars
<1>9. QED
  BY <1>2, <1>3, <1>4, <1>5, <1>51, <1>6, <1>7, <1>8
  DEF Client, ConnectRejected, ConnectNoSocket, ConnectRefusedAtOnce, CloseBegin, SendBegin,
      ConnectStatus, CloseMark, CloseShutdown, CloseSocketNow, SendPush, Poll, Deliver,
      Shutdown, Drained, Destroy, Destroyed, vars

\* The client thread keeps its own types.
LEMMA ClientKeepsClient ==
    ASSUME TypeInv, Client
    PROVE  ClientTypes' /\ ClientInv'
<1> USE DEF ClientTypes, ClientInv, ClientSteps, ClientMoves
<1>1. ClientTypes /\ ClientInv BY DEF TypeInv, TypeOK
<1>2. tree \subseteq Conns BY DEF TypeInv, TypeOK, WorkerTypes
<1>3. CASE Poll
  <2>1. Head(queue) \in Items
    BY <1>3 DEF Poll, TypeInv, TypeOK, ReportTypes
  <2>2. mconn' \in Conns /\ item' \in ItemTypes
    BY <1>3, <2>1 DEF Poll, Items
  <2>3. mpc' \in {"dispatch", "deliver"} /\ closing' = closing
    BY <1>3 DEF Poll
  <2>4. QED BY <1>1, <2>2, <2>3
<1>4. CASE Shutdown BY <1>1, <1>4 DEF Shutdown
<1>5. CASE \E s \in ClientSteps, c \in Conns \cup {NoConn} :
           /\ ClientMoves(s, c)
           /\ s \notin {"idle", "stopNext", "destroyed"} => c \in Conns
  BY <1>1, <1>5
<1>6. CASE UNCHANGED clientVars BY <1>1, <1>6 DEF clientVars
<1>7. QED
  BY <1>1, <1>2, <1>3, <1>4, <1>5, <1>6
  DEF Client, ConnectRejected, ConnectNoSocket, ConnectRefusedAtOnce, ConnectStarted,
      CloseBegin, SendBegin, StopRequestExit, ConnectStatus, CloseMark, CloseShutdown,
      CloseSocketNow, SendPush, SendSignal, CleanupDetach, CleanupRequestExit, CleanupSignal,
      CleanupJoin, Deliver, Drained, StopSignal, StopJoin, Destroy, Destroyed, vars

\* The client thread keeps the types of the sockets.
LEMMA ClientKeepsSockets ==
    ASSUME TypeInv, Client
    PROVE  sock' \in [Handles -> Sockets]
<1>1. sock \in [Handles -> Sockets] BY DEF TypeInv, TypeOK
<1>2. CASE \E c \in Conns : ConnectStarted(c)
  <2>1. PICK c \in Conns, h \in Handles, status \in {"connecting", "up"} :
           sock' = [sock EXCEPT ![h] = NewSocket(c, status)]
    BY <1>2 DEF ConnectStarted
  <2>2. NewSocket(c, status) \in Sockets
    <3>1. FreeSocket \in Sockets BY DEF FreeSocket, Sockets
    <3>2. QED BY <3>1 DEF NewSocket, Sockets
  <2>3. QED BY <1>1, <2>1, <2>2, SocketUpdate
<1>3. CASE sock' = sock BY <1>1, <1>3
<1>4. CASE \E h : CloseSocket(h) \/ ShutdownSend(h) BY <1>1, <1>4, SystemCallTypes
<1>5. QED
  BY <1>2, <1>3, <1>4
  DEF Client, ConnectRejected, ConnectNoSocket, ConnectRefusedAtOnce, CloseBegin, SendBegin,
      StopRequestExit, ConnectStatus, CloseMark, CloseShutdown, CloseSocketNow, SendPush,
      SendSignal, Poll, CleanupDetach, CleanupRequestExit, CleanupSignal, CleanupJoin, Deliver,
      Shutdown, Drained, StopSignal, StopJoin, Destroy, Destroyed, vars

\* The peer keeps the types.
LEMMA PeerKeepsTypes ==
    ASSUME TypeInv, NEW h \in Handles, Peer(h)
    PROVE  TypeInv'
<1>1. sock[h] \in Sockets /\ sock \in [Handles -> Sockets] BY DEF TypeInv, TypeOK
<1>2. \E s \in Sockets : SocketChanges(h, s)
  <2>1. CASE PeerAccepts(h) \/ PeerRefuses(h)
    BY <1>1, <2>1 DEF PeerAccepts, PeerRefuses, Sockets
  <2>2. CASE PeerSends(h)
    <3>1. PICK f \in {"packet", "corrupt"} :
             SocketChanges(h, [sock[h] EXCEPT !.rx = Append(@, f), !.sent = @ + 1])
      BY <2>2 DEF PeerSends
    <3>2. Append(sock[h].rx, f) \in Seq({"packet", "corrupt"}) BY <1>1 DEF Sockets
    <3>3. sock[h].sent + 1 \in Nat BY <1>1 DEF Sockets
    <3>4. [sock[h] EXCEPT !.rx = Append(@, f)] \in Sockets BY <1>1, <3>2 DEF Sockets
    <3>5. [sock[h] EXCEPT !.rx = Append(@, f), !.sent = @ + 1] \in Sockets
      BY <3>3, <3>4 DEF Sockets
    <3>6. QED BY <3>1, <3>5
  <2>3. CASE PeerCloses(h)
    BY <1>1, <2>3 DEF PeerCloses, Sockets
  <2>4. QED BY <2>1, <2>2, <2>3 DEF Peer
<1>3. sock' \in [Handles -> Sockets]
  BY <1>1, <1>2, SocketUpdate DEF SocketChanges
<1>4. UNCHANGED <<queue, tree, connVars, workerVars, clientVars, auxVars>>
  BY <1>2 DEF SocketChanges
<1>5. QED
  BY <1>3, <1>4 DEF TypeInv, TypeOK, ReportTypes, ConnTypes, WorkerTypes, ClientTypes, ClientInv,
                    HistoryTypes, WakeInv, connVars, workerVars, localVars, clientVars, auxVars

\* Every step keeps the types.
LEMMA TypesInductive == TypeInv /\ [Next]_vars => TypeInv'
<1> SUFFICES ASSUME TypeInv, [Next]_vars PROVE TypeInv'
  OBVIOUS
<1>1. CASE Client
  BY <1>1, ClientKeepsReports, ClientKeepsConns, ClientKeepsWorkers, ClientKeepsClient,
     ClientKeepsSockets, HistoryKeepsTypes DEF TypeInv, TypeOK, Next
<1>2. CASE \E c \in Conns : Worker(c) BY <1>2, WorkerKeepsTypes
<1>3. CASE \E h \in Handles : Peer(h) BY <1>3, PeerKeepsTypes
<1>4. CASE UNCHANGED vars
  BY <1>4 DEF vars, connVars, workerVars, localVars, clientVars, auxVars, TypeInv, TypeOK,
              ReportTypes, ConnTypes, WorkerTypes, ClientTypes, HistoryTypes, ClientInv, WakeInv
<1>5. QED BY <1>1, <1>2, <1>3, <1>4 DEF Next

\* Every variable keeps its type, and no recv() on a wakeup socket blocks: a
\* worker drains the wakeup socket only after select() reported a datagram,
\* and nobody else takes it.
THEOREM TypesAreKept == Spec => []TypeOK
<1>1. TypeInv => TypeOK BY DEF TypeInv
<1>2. QED BY TypeInit, TypesInductive, <1>1, PTL DEF Spec

-----------------------------------------------------------------------------
(* Ownership of worker threads                                             *)

\* The part of the type invariant the argument needs.
OwnershipTypes ==
    /\ wpc \in [Conns -> WorkerSteps]
    /\ workerPtr \in [Conns -> BOOLEAN]
    /\ tree \subseteq Conns
    /\ mconn \in Conns \cup {NoConn}

\* While a join is in progress the worker is out of the tree and still
\* exists; while the destructor stops one it is still in the tree.
JoinInv ==
    /\ mpc \in Joining => mconn \in Conns \ tree /\ wpc[mconn] # "off"
    /\ mpc \in {"stopSignal", "stopJoin"} => mconn \in tree

\* WorkerOwnership is not inductive by itself: deleting a worker keeps it
\* only because the worker being joined is out of the tree (JoinInv).
OwnershipInv == OwnershipTypes /\ JoinInv /\ WorkerOwnership

\* It holds initially.
LEMMA OwnershipInit == Init => OwnershipInv
BY DEF Init, OwnershipInv, OwnershipTypes, JoinInv, WorkerOwnership, Joining, WorkerSteps

\* A worker's own steps never delete it and never create it.
LEMMA WorkerStepKeepsOwnership ==
    ASSUME OwnershipInv, NEW c \in Conns, Worker(c)
    PROVE  OwnershipInv'
<1>1. /\ wpc[c] # "off"
      /\ \E s \in WorkerSteps \ {"off"} : wpc' = [wpc EXCEPT ![c] = s]
  <2> USE DEF OwnershipInv, OwnershipTypes, WorkerSteps, WorkerMoves
  <2>1. CASE WorkerTop(c) BY <2>1 DEF WorkerTop
  <2>2. CASE WorkerHalfClose(c) BY <2>2 DEF WorkerHalfClose
  <2>3. CASE WorkerSelect(c) BY <2>3 DEF WorkerSelect, AfterRead, AfterWrite
  <2>4. CASE WorkerFailState(c) BY <2>4 DEF WorkerFailState
  <2>5. CASE WorkerFailStatus(c) BY <2>5 DEF WorkerFailStatus
  <2>6. CASE WorkerQueueClose(c) BY <2>6 DEF WorkerQueueClose
  <2>7. CASE Receive(c)
    BY <2>7 DEF Receive, ReceivePacket, ReceiveCorrupt, ReceiveEnd, ReceiveWouldBlock,
                AfterRead, AfterWrite, workerVars
  <2>8. CASE WorkerHardClose(c) BY <2>8 DEF WorkerHardClose
  <2>9. CASE WorkerEndSocket(c) BY <2>9 DEF WorkerEndSocket
  <2>10. CASE WorkerEndState(c) BY <2>10 DEF WorkerEndState
  <2>11. CASE WriteConnect(c) BY <2>11 DEF WriteConnect
  <2>12. CASE WorkerConnected(c) BY <2>12 DEF WorkerConnected, AfterWrite
  <2>13. CASE WriteSend(c) BY <2>13 DEF WriteSend, AfterWrite
  <2>14. CASE WorkerDrain(c) BY <2>14 DEF WorkerDrain
  <2>15. CASE WorkerParked(c) BY <2>15 DEF WorkerParked
  <2>16. CASE WorkerLeave(c) BY <2>16 DEF WorkerLeave
  <2>17. QED
    BY <2>1, <2>2, <2>3, <2>4, <2>5, <2>6, <2>7, <2>8, <2>9, <2>10, <2>11, <2>12, <2>13,
       <2>14, <2>15, <2>16 DEF Worker
<1>2. /\ UNCHANGED <<tree, mpc, mconn>>
      /\ workerPtr' = workerPtr \/ workerPtr' = [workerPtr EXCEPT ![c] = FALSE]
  BY DEF Worker, WorkerTop, WorkerHalfClose, WorkerSelect, WorkerFailState, WorkerFailStatus,
         WorkerQueueClose, Receive, ReceivePacket, ReceiveCorrupt, ReceiveEnd,
         ReceiveWouldBlock, WorkerHardClose, WorkerEndSocket, WorkerEndState, WriteConnect,
         WorkerConnected, WriteSend, WorkerDrain, WorkerParked, WorkerLeave, connVars,
         clientVars
<1>3. PICK s \in WorkerSteps \ {"off"} : wpc' = [wpc EXCEPT ![c] = s]
  BY <1>1
<1>4. \A d \in Conns : wpc'[d] # "off" <=> wpc[d] # "off"
  BY <1>1, <1>3 DEF OwnershipInv, OwnershipTypes
<1>5. \A d \in Conns : workerPtr'[d] => workerPtr[d]
  BY <1>2 DEF OwnershipInv, OwnershipTypes
<1>6. OwnershipTypes'
  BY <1>2, <1>3 DEF OwnershipInv, OwnershipTypes
<1>7. JoinInv'
  BY <1>2, <1>4 DEF OwnershipInv, JoinInv
<1>8. WorkerOwnership'
  BY <1>2, <1>4, <1>5 DEF OwnershipInv, WorkerOwnership
<1>9. QED
  BY <1>6, <1>7, <1>8 DEF OwnershipInv

\* The client thread creates a worker when it puts it in the tree, and deletes
\* one only after taking it out.
LEMMA ClientStepKeepsOwnership ==
    ASSUME OwnershipInv, OwnershipTypes', Client
    PROVE  OwnershipInv'
<1> USE DEF OwnershipInv, OwnershipTypes, JoinInv, WorkerOwnership, Joining
<1>1. ASSUME NEW c \in Conns, ConnectRejected(c)  PROVE OwnershipInv'
  BY <1>1 DEF ConnectRejected, connVars, workerVars, clientVars
<1>2. ASSUME NEW c \in Conns, ConnectNoSocket(c)  PROVE OwnershipInv'
  BY <1>2 DEF ConnectNoSocket, workerVars, clientVars
<1>3. ASSUME NEW c \in Conns, ConnectRefusedAtOnce(c)  PROVE OwnershipInv'
  BY <1>3 DEF ConnectRefusedAtOnce, MayConnect, workerVars, ClientMoves
<1>4. ASSUME NEW c \in Conns, ConnectStarted(c)  PROVE OwnershipInv'
  <2>1. mpc = "idle" /\ UNCHANGED <<mpc, mconn>>
    BY <1>4 DEF ConnectStarted, MayConnect, clientVars
  <2>2. tree' = tree \cup {c} /\ workerPtr' = [workerPtr EXCEPT ![c] = TRUE]
    BY <1>4 DEF ConnectStarted, RegisterWorker
  <2>3. CASE c \in tree
    <3>1. wpc' = wpc
      BY <1>4, <2>3 DEF ConnectStarted, RegisterWorker, workerVars
    <3>2. QED BY <2>1, <2>2, <2>3, <3>1
  <2>4. CASE c \notin tree
    <3>1. wpc' = [wpc EXCEPT ![c] = "top"] \/ wpc' = [wpc EXCEPT ![c] = "exited"]
      BY <1>4, <2>4 DEF ConnectStarted, RegisterWorker, WorkerMoves
    <3>2. wpc' \in [Conns -> WorkerSteps]
      BY <3>1 DEF WorkerSteps
    <3>3. \A d \in Conns : (d # c => wpc'[d] = wpc[d]) /\ wpc'[c] # "off"
      BY <3>1
    <3>4. QED BY <2>1, <2>2, <3>2, <3>3
  <2>5. QED BY <2>3, <2>4
<1>5. ASSUME NEW c \in Conns, CloseBegin(c)  PROVE OwnershipInv'
  BY <1>5 DEF CloseBegin, connVars, workerVars, ClientMoves
<1>6. ASSUME NEW c \in Conns, SendBegin(c)  PROVE OwnershipInv'
  BY <1>6 DEF SendBegin, connVars, workerVars, ClientMoves
<1>7. ASSUME NEW c \in Conns, StopRequestExit(c)  PROVE OwnershipInv'
  BY <1>7 DEF StopRequestExit, connVars, ClientMoves
<1>8. CASE ConnectStatus
  BY <1>8 DEF ConnectStatus, connVars, workerVars, ClientMoves
<1>9. CASE CloseMark
  BY <1>9 DEF CloseMark, workerVars, ClientMoves
<1>10. CASE CloseShutdown
  BY <1>10 DEF CloseShutdown, connVars, workerVars, ClientMoves
<1>11. CASE CloseSocketNow
  BY <1>11 DEF CloseSocketNow, connVars, workerVars, ClientMoves
<1>12. CASE SendPush
  BY <1>12 DEF SendPush, workerVars, ClientMoves
<1>13. CASE SendSignal
  BY <1>13 DEF SendSignal, connVars, ClientMoves
<1>14. CASE Poll
  BY <1>14 DEF Poll, connVars, workerVars
<1>15. CASE CleanupDetach
  BY <1>15 DEF CleanupDetach, workerVars, ClientMoves
<1>16. CASE CleanupRequestExit
  BY <1>16 DEF CleanupRequestExit, connVars, ClientMoves
<1>17. CASE CleanupSignal
  BY <1>17 DEF CleanupSignal, connVars, ClientMoves
<1>18. CASE CleanupJoin
  BY <1>18 DEF CleanupJoin, WorkerMoves, WorkerSteps, ClientMoves
<1>19. CASE Deliver
  BY <1>19 DEF Deliver, connVars, workerVars, ClientMoves
<1>20. CASE Shutdown
  BY <1>20 DEF Shutdown, connVars, workerVars
<1>21. CASE Drained
  BY <1>21 DEF Drained, connVars, workerVars, ClientMoves
<1>22. CASE StopSignal
  BY <1>22 DEF StopSignal, connVars, ClientMoves
<1>23. CASE StopJoin
  BY <1>23 DEF StopJoin, WorkerMoves, WorkerSteps, ClientMoves
<1>24. CASE Destroy
  BY <1>24 DEF Destroy, connVars, workerVars, ClientMoves
<1>25. CASE Destroyed
  BY <1>25 DEF Destroyed, vars, connVars, workerVars, clientVars
<1>26. QED
  BY <1>1, <1>2, <1>3, <1>4, <1>5, <1>6, <1>7, <1>8, <1>9, <1>10, <1>11, <1>12, <1>13,
     <1>14, <1>15, <1>16, <1>17, <1>18, <1>19, <1>20, <1>21, <1>22, <1>23, <1>24, <1>25
  DEF Client

\* Peers touch only sockets.
LEMMA PeerStepKeepsOwnership ==
    ASSUME OwnershipInv, NEW h \in Handles, Peer(h)
    PROVE  OwnershipInv'
BY DEF Peer, PeerAccepts, PeerRefuses, PeerSends, PeerCloses, SocketChanges, connVars,
       workerVars, clientVars, OwnershipInv, OwnershipTypes, JoinInv, WorkerOwnership, Joining

\* No worker is reachable after its deletion and none runs unowned
\* (CreateAndInsertWorkerThread, CleanupConnection, the destructor and the
\* worker's own exit, in any interleaving).
THEOREM WorkersAreOwned == Spec => []WorkerOwnership
<1>1. OwnershipInv /\ TypeOK' /\ [Next]_vars => OwnershipInv'
  <2> SUFFICES ASSUME OwnershipInv, TypeOK', [Next]_vars PROVE OwnershipInv'
    OBVIOUS
  <2>1. OwnershipTypes'
    BY DEF TypeOK, WorkerTypes, ConnTypes, ClientTypes, OwnershipTypes
  <2>2. CASE Client BY <2>1, <2>2, ClientStepKeepsOwnership
  <2>3. CASE \E c \in Conns : Worker(c) BY <2>3, WorkerStepKeepsOwnership
  <2>4. CASE \E h \in Handles : Peer(h) BY <2>4, PeerStepKeepsOwnership
  <2>5. CASE UNCHANGED vars
    BY <2>5 DEF vars, connVars, workerVars, clientVars, OwnershipInv, OwnershipTypes, JoinInv,
                WorkerOwnership, Joining
  <2>6. QED BY <2>2, <2>3, <2>4, <2>5 DEF Next
<1>2. OwnershipInv => WorkerOwnership
  BY DEF OwnershipInv
<1>3. QED
  BY OwnershipInit, <1>1, <1>2, TypesAreKept, PTL DEF Spec

-----------------------------------------------------------------------------
(* Leaving the loop                                                        *)

\* The steps from which a worker comes back to the head of its loop.
InLoop == {"top", "halfClose", "select", "receive", "hardClose", "write", "drain"}

\* A worker in its loop whose connection has lost its socket has reported
\* something, or the connection is closed and no Close is about to mark it.
\* This is what the test at the head of the loop looks at, so its other
\* branch is never taken.
LostSocketInv ==
    \A c \in Conns :
        wpc[c] \in InLoop /\ handle[c] = NoHandle =>
            \/ statusQd[c] \/ closeQd[c]
            \/ state[c] = "Closed" /\ ~(mpc = "closeMark" /\ mconn = c)

LeaveInv == LostSocketInv /\ LeavesOnRequest

\* It holds initially.
LEMMA LeaveInit == Init => LeaveInv
BY DEF Init, LeaveInv, LostSocketInv, LeavesOnRequest, InLoop

\* A worker keeps LeaveInv.
LEMMA WorkerKeepsLeave ==
    ASSUME TypeOK, LeaveInv, NEW c \in Conns, Worker(c)
    PROVE  LeaveInv'
<1> USE DEF LeaveInv, LostSocketInv, LeavesOnRequest, InLoop, WorkerMoves, clientVars, connVars,
            localVars
<1>1. /\ ConnTypes /\ WorkerTypes
  BY DEF TypeOK
<1>2. CASE WorkerTop(c)
  BY <1>1, <1>2 DEF WorkerTop, WorkerTypes
<1>3. CASE WorkerHalfClose(c) BY <1>1, <1>3 DEF WorkerHalfClose, WorkerTypes
<1>4. CASE WorkerSelect(c)
  BY <1>1, <1>4 DEF WorkerSelect, AfterRead, AfterWrite, WorkerTypes
<1>5. CASE WorkerFailState(c) BY <1>1, <1>5 DEF WorkerFailState, WorkerTypes, ConnTypes
<1>6. CASE WorkerFailStatus(c)
  BY <1>1, <1>6 DEF WorkerFailStatus, QueueStatus, WorkerTypes
<1>7. CASE WorkerQueueClose(c)
  BY <1>1, <1>7 DEF WorkerQueueClose, QueueClose, WorkerTypes
<1>8. CASE ReceivePacket(c) BY <1>8 DEF ReceivePacket, workerVars
<1>9. CASE ReceiveCorrupt(c)
  BY <1>1, <1>9 DEF ReceiveCorrupt, Active, WorkerTypes, ConnTypes
<1>10. CASE ReceiveEnd(c) BY <1>1, <1>10 DEF ReceiveEnd, WorkerTypes
<1>11. CASE ReceiveWouldBlock(c)
  BY <1>1, <1>11 DEF ReceiveWouldBlock, AfterRead, AfterWrite, WorkerTypes
<1>12. CASE WorkerHardClose(c) BY <1>1, <1>12 DEF WorkerHardClose, WorkerTypes
<1>13. CASE WorkerEndSocket(c) BY <1>1, <1>13 DEF WorkerEndSocket, WorkerTypes, ConnTypes
<1>14. CASE WorkerEndState(c) BY <1>1, <1>14 DEF WorkerEndState, WorkerTypes, ConnTypes
<1>15. CASE WriteConnect(c) BY <1>1, <1>15 DEF WriteConnect, WorkerTypes, ConnTypes
<1>16. CASE WorkerConnected(c)
  BY <1>1, <1>16 DEF WorkerConnected, QueueStatus, AfterWrite, WorkerTypes
<1>17. CASE WriteSend(c) BY <1>1, <1>17 DEF WriteSend, AfterWrite, WorkerTypes
<1>18. CASE WorkerDrain(c) BY <1>1, <1>18 DEF WorkerDrain, WorkerTypes
<1>19. CASE WorkerParked(c) BY <1>1, <1>19 DEF WorkerParked, WorkerTypes
<1>20. CASE WorkerLeave(c) BY <1>1, <1>20 DEF WorkerLeave, WorkerTypes
<1>21. QED
  BY <1>2, <1>3, <1>4, <1>5, <1>6, <1>7, <1>8, <1>9, <1>10, <1>11, <1>12, <1>13, <1>14,
     <1>15, <1>16, <1>17, <1>18, <1>19, <1>20 DEF Worker, Receive

\* The client thread keeps LeaveInv.
LEMMA ClientKeepsLeave ==
    ASSUME TypeInv, LeaveInv, Client
    PROVE  LeaveInv'
<1> USE DEF LeaveInv, LostSocketInv, LeavesOnRequest, InLoop, ClientMoves
<1>1. /\ ConnTypes /\ WorkerTypes
      /\ mpc \notin {"idle", "stopNext", "destroyed"} => mconn \in Conns
  BY DEF TypeInv, TypeOK, ClientInv
<1>2. ASSUME NEW c \in Conns, ConnectStarted(c)  PROVE LeaveInv'
  <2>1. /\ handle'[c] # NoHandle
        /\ \A d \in Conns \ {c} : handle'[d] = handle[d] /\ state'[d] = state[d]
    BY <1>1, <1>2, EngineAssumption DEF ConnectStarted, ConnTypes
  <2>2. UNCHANGED <<mpc, mconn>> BY <1>2 DEF ConnectStarted, clientVars
  <2>3. \A d \in Conns \ {c} :
           UNCHANGED <<wpc[d], statusQd[d], closeQd[d], exitReq[d]>>
    BY <1>1, <1>2 DEF ConnectStarted, RegisterWorker, WorkerMoves, workerVars, localVars,
                      WorkerTypes
  <2>4. wpc'[c] = "leave" => exitReq'[c]
    BY <1>1, <1>2 DEF ConnectStarted, RegisterWorker, WorkerMoves, workerVars, localVars,
                      WorkerTypes
  <2>5. QED BY <2>1, <2>2, <2>3, <2>4
<1>3. ASSUME NEW c \in Conns, ConnectNoSocket(c)  PROVE LeaveInv'
  BY <1>1, <1>3 DEF ConnectNoSocket, MayConnect, workerVars, localVars, clientVars, ConnTypes
<1>4. ASSUME NEW c \in Conns, ConnectRefusedAtOnce(c)  PROVE LeaveInv'
  BY <1>1, <1>4 DEF ConnectRefusedAtOnce, MayConnect, workerVars, localVars, ConnTypes
<1>5. ASSUME NEW c \in Conns, CloseBegin(c)  PROVE LeaveInv'
  BY <1>1, <1>5 DEF CloseBegin, Active, connVars, workerVars, localVars
<1>6. ASSUME NEW c \in Conns, StopRequestExit(c)  PROVE LeaveInv'
  BY <1>1, <1>6 DEF StopRequestExit, connVars, localVars, WorkerTypes
<1>7. CASE CloseMark
  BY <1>1, <1>7 DEF CloseMark, workerVars, localVars, ConnTypes
<1>8. CASE CleanupDetach
  BY <1>1, <1>8 DEF CleanupDetach, workerVars, localVars, ConnTypes
<1>9. CASE CleanupRequestExit
  BY <1>1, <1>9 DEF CleanupRequestExit, connVars, localVars, WorkerTypes
<1>10. CASE CleanupJoin \/ StopJoin
  BY <1>1, <1>10 DEF CleanupJoin, StopJoin, WorkerMoves, localVars, WorkerTypes
<1>11. CASE /\ UNCHANGED <<wpc, localVars, exitReq, state, handle>>
            /\ (mpc' = "closeMark" => UNCHANGED <<mpc, mconn>>)
  BY <1>11 DEF localVars
<1>12. QED
  BY <1>2, <1>3, <1>4, <1>5, <1>6, <1>7, <1>8, <1>9, <1>10, <1>11
  DEF Client, ConnectRejected, SendBegin, ConnectStatus, CloseShutdown, CloseSocketNow,
      SendPush, SendSignal, Poll, CleanupSignal, Deliver, Shutdown, Drained, StopSignal,
      Destroy, Destroyed, vars, connVars, workerVars, clientVars

\* A worker leaves its loop only when it was asked to: a lost connection is
\* reported before the thread goes away, and the bare break at the head of
\* WorkerThread::Run is dead code.
THEOREM WorkersLeaveOnRequest == Spec => []LeavesOnRequest
<1>1. TypeInv /\ LeaveInv /\ [Next]_vars => LeaveInv'
  <2> SUFFICES ASSUME TypeInv, LeaveInv, [Next]_vars PROVE LeaveInv'
    OBVIOUS
  <2>1. CASE Client BY <2>1, ClientKeepsLeave
  <2>2. CASE \E c \in Conns : Worker(c) BY <2>2, WorkerKeepsLeave DEF TypeInv
  <2>3. CASE \E h \in Handles : Peer(h)
    BY <2>3 DEF Peer, PeerAccepts, PeerRefuses, PeerSends, PeerCloses, SocketChanges, connVars,
                workerVars, localVars, clientVars, LeaveInv, LostSocketInv, LeavesOnRequest,
                InLoop
  <2>4. CASE UNCHANGED vars
    BY <2>4 DEF vars, connVars, workerVars, localVars, clientVars, LeaveInv, LostSocketInv,
                LeavesOnRequest, InLoop
  <2>5. QED BY <2>1, <2>2, <2>3, <2>4 DEF Next
<1>2. LeaveInv => LeavesOnRequest BY DEF LeaveInv
<1>3. QED BY TypeInit, TypesInductive, LeaveInit, <1>1, <1>2, PTL DEF Spec

-----------------------------------------------------------------------------
(* The deferred half-close                                                 *)

\* The flag never claims an empty queue while something is queued, and a
\* worker looks at the flag again only with nothing in hand.
FlagInv ==
    \A c \in Conns :
        /\ emptyFlag[c] => sendQ[c] = 0
        /\ wpc[c] = "halfClose" => current[c] = 0

\* It holds initially.
LEMMA FlagInit == Init => FlagInv
BY DEF Init, FlagInv

\* The worker takes a send and sets the flag in one critical section.
LEMMA WorkerKeepsFlag ==
    ASSUME TypeOK, FlagInv, NEW c \in Conns, Worker(c)
    PROVE  FlagInv'
<1> USE DEF FlagInv, WorkerMoves, connVars, localVars
<1>1. ConnTypes /\ WorkerTypes BY DEF TypeOK
<1>2. CASE WorkerTop(c)
  <2>1. CASE UNCHANGED <<sendQ, emptyFlag, current>> /\ wpc'[c] # "halfClose"
    BY <1>1, <1>2, <2>1 DEF WorkerTop, WorkerTypes
  <2>2. CASE sendQ[c] > 0 /\ sendQ' = [sendQ EXCEPT ![c] = @ - 1]
    <3>1. /\ emptyFlag' = [emptyFlag EXCEPT ![c] = (sendQ[c] = 1)]
          /\ wpc' = [wpc EXCEPT ![c] = "select"]
          /\ \A d \in Conns \ {c} : current'[d] = current[d]
      BY <1>1, <1>2, <2>2 DEF WorkerTop, WorkerTypes, ConnTypes
    <3>2. emptyFlag'[c] => sendQ'[c] = 0
      BY <1>1, <2>2, <3>1 DEF ConnTypes
    <3>3. wpc'[c] # "halfClose"
      BY <1>1, <3>1 DEF WorkerTypes
    <3>4. \A d \in Conns \ {c} :
             UNCHANGED <<sendQ[d], emptyFlag[d], current[d], wpc[d]>>
      BY <1>1, <2>2, <3>1 DEF ConnTypes, WorkerTypes
    <3>5. QED BY <3>2, <3>3, <3>4
  <2>3. CASE /\ sendQ[c] = 0 /\ current[c] = 0
             /\ emptyFlag' = [emptyFlag EXCEPT ![c] = TRUE]
             /\ WorkerMoves(c, "halfClose")
             /\ UNCHANGED <<sendQ, current>>
    BY <1>1, <2>3 DEF ConnTypes, WorkerTypes
  <2>4. QED BY <1>1, <1>2, <2>1, <2>2, <2>3 DEF WorkerTop, WorkerTypes
<1>3. CASE WriteSend(c)
  BY <1>1, <1>3 DEF WriteSend, AfterWrite, WorkerTypes
<1>4. CASE \E s \in WorkerSteps \ {"halfClose"} :
              /\ wpc' = wpc \/ WorkerMoves(c, s)
              /\ UNCHANGED <<sendQ, emptyFlag, current>>
  BY <1>1, <1>4 DEF WorkerTypes
<1>5. QED
  BY <1>2, <1>3, <1>4
  DEF Worker, WorkerHalfClose, WorkerSelect, WorkerFailState, WorkerFailStatus,
      WorkerQueueClose, Receive, ReceivePacket, ReceiveCorrupt, ReceiveEnd, ReceiveWouldBlock,
      WorkerHardClose, WorkerEndSocket, WorkerEndState, WriteConnect, WorkerConnected,
      WorkerDrain, WorkerParked, WorkerLeave, AfterRead, AfterWrite, WorkerSteps, workerVars

\* SendPush lowers the flag with the push, CleanupDetach empties the queue.
LEMMA ClientKeepsFlag ==
    ASSUME TypeInv, FlagInv, Client
    PROVE  FlagInv'
<1> USE DEF FlagInv
<1>1. /\ ConnTypes /\ WorkerTypes
      /\ mpc \notin {"idle", "stopNext", "destroyed"} => mconn \in Conns
  BY DEF TypeInv, TypeOK, ClientInv
<1>2. CASE \E c \in Conns : ConnectStarted(c)
  BY <1>1, <1>2 DEF ConnectStarted, RegisterWorker, WorkerMoves, workerVars, localVars,
                    WorkerTypes
<1>3. CASE SendPush
  BY <1>1, <1>3 DEF SendPush, workerVars, localVars, ConnTypes
<1>4. CASE CleanupDetach
  BY <1>1, <1>4 DEF CleanupDetach, workerVars, localVars, ConnTypes
<1>5. CASE CleanupJoin \/ StopJoin
  BY <1>1, <1>5 DEF CleanupJoin, StopJoin, WorkerMoves, localVars, WorkerTypes
<1>6. CASE UNCHANGED <<sendQ, emptyFlag, wpc, current>>
  BY <1>6
<1>7. QED
  BY <1>2, <1>3, <1>4, <1>5, <1>6
  DEF Client, ConnectRejected, ConnectNoSocket, ConnectRefusedAtOnce, CloseBegin, SendBegin,
      StopRequestExit, ConnectStatus, CloseMark, CloseShutdown, CloseSocketNow, SendSignal,
      Poll, CleanupRequestExit, CleanupSignal, Deliver, Shutdown, Drained, StopSignal,
      Destroy, Destroyed, vars, connVars, workerVars, localVars

\* Every step keeps FlagInv.
LEMMA FlagInductive == TypeInv /\ FlagInv /\ [Next]_vars => FlagInv'
<1> SUFFICES ASSUME TypeInv, FlagInv, [Next]_vars PROVE FlagInv'
  OBVIOUS
<1>1. CASE Client BY <1>1, ClientKeepsFlag
<1>2. CASE \E c \in Conns : Worker(c) BY <1>2, WorkerKeepsFlag DEF TypeInv
<1>3. CASE (\E h \in Handles : Peer(h)) \/ UNCHANGED vars
  BY <1>3 DEF Peer, PeerAccepts, PeerRefuses, PeerSends, PeerCloses, SocketChanges, vars,
              connVars, workerVars, localVars, FlagInv
<1>4. QED BY <1>1, <1>2, <1>3 DEF Next

-----------------------------------------------------------------------------
(* Sockets                                                                 *)

\* The steps in which a worker may still use the handle it read at the head
\* of its loop.
SocketSteps == {"halfClose", "select", "receive", "hardClose", "write", "endSocket"}

\* While nobody closed its socket under it, the handle a connection keeps is
\* an open socket of its own.
HandlesAreOpen ==
    \A c \in Conns \ cut :
        handle[c] # NoHandle => IsOpen(handle[c]) /\ sock[handle[c]].owner = c

\* So is the handle its worker has read.
ReadHandlesAreOpen ==
    \A c \in Conns \ cut :
        wpc[c] \in SocketSteps =>
            IsOpen(socket[c]) /\ sock[socket[c]].owner = c

SocketInv == HandlesAreOpen /\ ReadHandlesAreOpen

\* It holds initially.
LEMMA SocketInit == Init => SocketInv
BY DEF Init, SocketInv, HandlesAreOpen, ReadHandlesAreOpen, SocketSteps

\* A step that closes no socket but of owners it counts as cut off keeps it,
\* if it opens none.
LEMMA SocketsSurvive ==
    ASSUME SocketInv,
           cut \subseteq cut',
           \A h \in Handles : IsOpen(h) =>
               \/ sock'[h].status # "free" /\ sock'[h].owner = sock[h].owner
               \/ sock[h].owner \in cut',
           \A c \in Conns : handle'[c] = handle[c] \/ handle'[c] = NoHandle,
           \A c \in Conns :
               wpc'[c] \in SocketSteps =>
                   \/ wpc[c] \in SocketSteps /\ socket'[c] = socket[c]
                   \/ handle[c] # NoHandle /\ socket'[c] = handle[c]
    PROVE  SocketInv'
BY DEF SocketInv, HandlesAreOpen, ReadHandlesAreOpen, IsOpen

\* shutdown() neither opens nor closes a socket.
LEMMA HalfCloseKeepsTheRest ==
    ASSUME sock \in [Handles -> Sockets], NEW g, ShutdownSend(g)
    PROVE  \A h \in Handles :
               sock'[h].status = sock[h].status /\ sock'[h].owner = sock[h].owner
<1>1. sock' = sock \/ (g \in Handles /\ sock' = [sock EXCEPT ![g].shut = TRUE])
  BY DEF ShutdownSend, IsOpen
<1>2. CASE sock' = sock BY <1>2
<1>3. CASE g \in Handles /\ sock' = [sock EXCEPT ![g].shut = TRUE]
  BY <1>3 DEF Sockets
<1>4. QED BY <1>1, <1>2, <1>3

\* A socket that is closed is another one's loss only if the history says so.
LEMMA ClosedIsCut ==
    ASSUME sock \in [Handles -> Sockets], NEW g, NEW own, CloseSocket(g), CutOff(g, own)
    PROVE  /\ cut \subseteq cut'
           /\ \A h \in Handles : IsOpen(h) =>
                 \/ sock'[h] = sock[h]
                 \/ h = g /\ (sock[h].owner \in cut' \/ sock[h].owner \in own)
<1>1. CASE IsOpen(g)
  <2>1. g \in Handles /\ sock' = [sock EXCEPT ![g] = FreeSocket] BY <1>1 DEF CloseSocket, IsOpen
  <2>2. cut' = cut \cup ({sock[g].owner} \ own) BY <1>1 DEF CutOff
  <2>3. QED BY <2>1, <2>2
<1>2. CASE ~IsOpen(g) BY <1>2 DEF CloseSocket, CutOff
<1>3. QED BY <1>1, <1>2

\* A worker closes its own socket, or one whose owner is cut off by that.
LEMMA WorkerKeepsSocketInv ==
    ASSUME TypeOK, SocketInv, NEW c \in Conns, Worker(c)
    PROVE  SocketInv'
<1> USE DEF WorkerMoves
<1>1. ConnTypes /\ WorkerTypes /\ sock \in [Handles -> Sockets] BY DEF TypeOK
<1>2. CASE WorkerEndSocket(c)
  <2>1. /\ handle' = [handle EXCEPT ![c] = NoHandle]
        /\ wpc' = [wpc EXCEPT ![c] = "endState"]
        /\ socket' = socket
        /\ CloseSocket(handle[c]) /\ CutOff(handle[c], {c})
    BY <1>2 DEF WorkerEndSocket, localVars
  <2>2. /\ cut \subseteq cut'
        /\ \A h \in Handles : IsOpen(h) =>
              \/ sock'[h] = sock[h]
              \/ sock[h].owner \in cut' \/ sock[h].owner = c
    BY <1>1, <2>1, ClosedIsCut
  <2>3. /\ \A d \in Conns \ {c} :
              handle'[d] = handle[d] /\ wpc'[d] = wpc[d] /\ socket'[d] = socket[d]
        /\ handle'[c] = NoHandle /\ wpc'[c] = "endState"
    BY <1>1, <2>1 DEF ConnTypes, WorkerTypes
  <2>4. HandlesAreOpen'
    BY <2>2, <2>3 DEF SocketInv, HandlesAreOpen, IsOpen
  <2>5. ReadHandlesAreOpen'
    BY <2>2, <2>3 DEF SocketInv, ReadHandlesAreOpen, SocketSteps, IsOpen
  <2>6. QED BY <2>4, <2>5 DEF SocketInv
<1>3. CASE WorkerTop(c)
  <2>1. sock' = sock /\ handle' = handle /\ cut' = cut BY <1>3 DEF WorkerTop, auxVars
  <2>2. \A d \in Conns :
           wpc'[d] \in SocketSteps =>
               \/ wpc[d] \in SocketSteps /\ socket'[d] = socket[d]
               \/ handle[d] # NoHandle /\ socket'[d] = handle[d]
    BY <1>1, <1>3 DEF WorkerTop, WorkerTypes, SocketSteps
  <2>3. QED BY <2>1, <2>2, SocketsSurvive DEF IsOpen
<1>4. CASE WorkerHalfClose(c)
  <2>1. handle' = handle /\ socket' = socket /\ cut' = cut /\ wpc' = [wpc EXCEPT ![c] = "select"]
    BY <1>4 DEF WorkerHalfClose, connVars, localVars, auxVars
  <2>2. \A h \in Handles :
           sock'[h].status = sock[h].status /\ sock'[h].owner = sock[h].owner
    BY <1>1, <1>4, HalfCloseKeepsTheRest DEF WorkerHalfClose
  <2>3. wpc[c] \in SocketSteps BY <1>4 DEF WorkerHalfClose, SocketSteps
  <2>4. QED BY <1>1, <2>1, <2>2, <2>3, SocketsSurvive DEF IsOpen, WorkerTypes
<1>5. CASE ReceivePacket(c) \/ ReceiveCorrupt(c)
  <2>1. /\ UNCHANGED <<handle, socket, cut>>
        /\ IsOpen(socket[c])
        /\ sock' = [sock EXCEPT ![socket[c]].rx = Tail(@)]
        /\ wpc[c] \in SocketSteps
        /\ wpc' = wpc \/ wpc' = [wpc EXCEPT ![c] = "hardClose"]
    BY <1>5 DEF ReceivePacket, ReceiveCorrupt, connVars, workerVars, localVars, auxVars, SocketSteps
  <2>2. \A h \in Handles :
           sock'[h].status = sock[h].status /\ sock'[h].owner = sock[h].owner
    BY <1>1, <2>1 DEF Sockets, IsOpen
  <2>3. QED BY <1>1, <2>1, <2>2, SocketsSurvive DEF IsOpen, WorkerTypes, SocketSteps
<1>6. CASE WorkerHardClose(c)
  <2>1. /\ UNCHANGED <<handle, socket>>
        /\ wpc[c] = "hardClose" /\ wpc' = [wpc EXCEPT ![c] = "receive"]
        /\ CloseSocket(handle[c]) /\ CutOff(handle[c], {})
    BY <1>6 DEF WorkerHardClose, connVars, localVars
  <2>2. /\ cut \subseteq cut'
        /\ \A h \in Handles : IsOpen(h) => sock'[h] = sock[h] \/ sock[h].owner \in cut'
    BY <1>1, <2>1, ClosedIsCut
  <2>3. QED BY <1>1, <2>1, <2>2, SocketsSurvive DEF IsOpen, WorkerTypes, SocketSteps
<1>7. CASE UNCHANGED <<handle, sock, socket, cut>>
           /\ \/ wpc' = wpc
              \/ \E s \in WorkerSteps :
                    wpc' = [wpc EXCEPT ![c] = s] /\ (s \in SocketSteps => wpc[c] \in SocketSteps)
  BY <1>1, <1>7, SocketsSurvive DEF IsOpen, WorkerTypes
<1>8. CASE WorkerSelect(c)
  BY <1>7, <1>8 DEF WorkerSelect, AfterRead, AfterWrite, SocketSteps, WorkerSteps, connVars, auxVars
<1>9. CASE ReceiveEnd(c) \/ ReceiveWouldBlock(c)
  BY <1>7, <1>9 DEF ReceiveEnd, ReceiveWouldBlock, AfterRead, AfterWrite, SocketSteps,
                    WorkerSteps, connVars, localVars, auxVars
<1>10. QED
  BY <1>2, <1>3, <1>4, <1>5, <1>6, <1>7, <1>8, <1>9
  DEF Worker, WorkerFailState, WorkerFailStatus, WorkerQueueClose, Receive,
      WorkerEndState, WriteConnect, WorkerConnected, WriteSend, WorkerDrain, WorkerParked,
      WorkerLeave, AfterWrite, SocketSteps, WorkerSteps, connVars, localVars, auxVars

\* Connect opens a socket where none was open; a hard close cuts its owner
\* off; no other step of the client thread touches who owns one.
LEMMA ClientKeepsSocketInv ==
    ASSUME TypeInv, SocketInv, Client
    PROVE  SocketInv'
<1> USE DEF ClientMoves, WorkerMoves
<1>1. /\ ConnTypes /\ WorkerTypes /\ sock \in [Handles -> Sockets]
      /\ mpc \notin {"idle", "stopNext", "destroyed"} => mconn \in Conns
  BY DEF TypeInv, TypeOK, ClientInv
<1>2. CASE \E c \in Conns : ConnectStarted(c)
  <2>1. PICK c \in Conns : ConnectStarted(c) BY <1>2
  <2>2. PICK h \in Handles, status \in {"connecting", "up"} :
           /\ ~IsOpen(h)
           /\ sock' = [sock EXCEPT ![h] = NewSocket(c, status)]
           /\ handle' = [handle EXCEPT ![c] = h]
    BY <2>1 DEF ConnectStarted
  <2>3. /\ sock'[h].status # "free" /\ sock'[h].owner = c
        /\ \A g \in Handles \ {h} : sock'[g] = sock[g]
    BY <1>1, <2>2 DEF NewSocket, FreeSocket
  <2>4. \A g \in Handles : IsOpen(g) => g # h BY <2>2
  <2>5. cut' = cut /\ \A d \in Conns :
           /\ wpc'[d] = wpc[d] \/ wpc'[d] \in {"top", "exited"}
           /\ socket'[d] = socket[d] \/ wpc'[d] \in {"top", "exited"}
    BY <1>1, <2>1
    DEF ConnectStarted, RegisterWorker, CountConnect, workerVars, localVars, WorkerTypes
  <2>6. HandlesAreOpen'
    BY <1>1, <2>2, <2>3, <2>4, <2>5 DEF SocketInv, HandlesAreOpen, IsOpen, ConnTypes
  <2>7. ReadHandlesAreOpen'
    BY <1>1, <2>3, <2>4, <2>5 DEF SocketInv, ReadHandlesAreOpen, IsOpen, SocketSteps
  <2>8. QED BY <2>6, <2>7 DEF SocketInv
<1>3. CASE CloseShutdown
  <2>1. handle' = handle /\ socket' = socket /\ wpc' = wpc /\ cut' = cut
    BY <1>3 DEF CloseShutdown, connVars, workerVars, localVars, auxVars
  <2>2. \A h \in Handles :
           sock'[h].status = sock[h].status /\ sock'[h].owner = sock[h].owner
    BY <1>1, <1>3, HalfCloseKeepsTheRest DEF CloseShutdown
  <2>3. QED BY <2>1, <2>2, SocketsSurvive DEF IsOpen
<1>4. CASE CloseSocketNow
  <2>1. /\ handle' = handle /\ socket' = socket /\ wpc' = wpc
        /\ CloseSocket(handle[mconn]) /\ CutOff(handle[mconn], {})
    BY <1>4 DEF CloseSocketNow, connVars, workerVars, localVars
  <2>2. /\ cut \subseteq cut'
        /\ \A h \in Handles : IsOpen(h) => sock'[h] = sock[h] \/ sock[h].owner \in cut'
    BY <1>1, <2>1, ClosedIsCut
  <2>3. QED BY <2>1, <2>2, SocketsSurvive DEF IsOpen
<1>5. CASE /\ UNCHANGED <<sock, socket, cut>>
           /\ \/ wpc' = wpc
              \/ mconn \in Conns /\ wpc' = [wpc EXCEPT ![mconn] = "off"]
           /\ \/ handle' = handle
              \/ \E c \in Conns : handle' = [handle EXCEPT ![c] = NoHandle]
  <2>1. \A c \in Conns : handle'[c] = handle[c] \/ handle'[c] = NoHandle
    BY <1>1, <1>5 DEF ConnTypes
  <2>2. \A c \in Conns : wpc'[c] = wpc[c] \/ wpc'[c] = "off"
    BY <1>1, <1>5 DEF WorkerTypes
  <2>3. QED BY <1>5, <2>1, <2>2, SocketsSurvive DEF IsOpen, SocketSteps
<1>6. CASE CloseMark
  BY <1>5, <1>6 DEF CloseMark, workerVars, localVars, auxVars
<1>7. CASE Poll \/ CleanupDetach \/ CleanupJoin \/ StopJoin
  BY <1>1, <1>5, <1>7 DEF Poll, CleanupDetach, CleanupJoin, StopJoin, connVars, workerVars,
                          localVars, auxVars
<1>8. CASE Shutdown \/ Destroyed
  BY <1>5, <1>8 DEF Shutdown, Destroyed, vars, connVars, workerVars, localVars, auxVars
<1>9. CASE \E c \in Conns :
              ConnectRejected(c) \/ ConnectNoSocket(c) \/ ConnectRefusedAtOnce(c)
              \/ CloseBegin(c) \/ SendBegin(c) \/ StopRequestExit(c)
  BY <1>5, <1>9 DEF ConnectRejected, ConnectNoSocket, ConnectRefusedAtOnce, CloseBegin,
                    SendBegin, StopRequestExit, CountConnect, connVars, workerVars, localVars,
                    auxVars
<1>10. CASE ConnectStatus \/ SendPush \/ SendSignal \/ CleanupRequestExit \/ CleanupSignal
            \/ Deliver \/ Drained \/ StopSignal \/ Destroy
  BY <1>5, <1>10 DEF ConnectStatus, SendPush, SendSignal, CleanupRequestExit, CleanupSignal,
                     Deliver, Drained, StopSignal, Destroy, connVars, workerVars, localVars,
                     auxVars
<1>11. QED
  BY <1>2, <1>3, <1>4, <1>6, <1>7, <1>8, <1>9, <1>10 DEF Client

\* A peer opens and closes no socket.
LEMMA PeerKeepsSocketInv ==
    ASSUME TypeOK, SocketInv, NEW h \in Handles, Peer(h)
    PROVE  SocketInv'
<1>1. sock \in [Handles -> Sockets] BY DEF TypeOK
<1>2. UNCHANGED <<handle, socket, wpc, cut>>
  BY DEF Peer, PeerAccepts, PeerRefuses, PeerSends, PeerCloses, SocketChanges, connVars,
         workerVars, localVars, auxVars
<1>3. \A g \in Handles :
         IsOpen(g) => sock'[g].status # "free" /\ sock'[g].owner = sock[g].owner
  <2>1. CASE PeerAccepts(h) \/ PeerRefuses(h)
    <3>1. PICK status \in {"up", "failed"} :
             sock' = [sock EXCEPT ![h] = [sock[h] EXCEPT !.status = status]]
      BY <2>1 DEF PeerAccepts, PeerRefuses, SocketChanges
    <3>2. QED BY <1>1, <3>1 DEF Sockets, IsOpen
  <2>2. CASE PeerSends(h)
    BY <1>1, <2>2 DEF PeerSends, SocketChanges, Sockets, IsOpen
  <2>3. CASE PeerCloses(h)
    BY <1>1, <2>3 DEF PeerCloses, SocketChanges, Sockets, IsOpen
  <2>4. QED BY <2>1, <2>2, <2>3 DEF Peer
<1>4. QED BY <1>2, <1>3, SocketsSurvive

\* A connection whose socket nobody closed under it works on an open socket of
\* its own, though handles are reused and workers of other connections may
\* still hold the handle of a socket that was closed the hard way.  This holds
\* with hard closes by either thread and with corrupt streams.
THEOREM SocketsAreOwn == Spec => []OwnSocketOnly
<1>1. TypeInv /\ SocketInv /\ [Next]_vars => SocketInv'
  <2> SUFFICES ASSUME TypeInv, SocketInv, [Next]_vars PROVE SocketInv'
    OBVIOUS
  <2>1. CASE Client BY <2>1, ClientKeepsSocketInv
  <2>2. CASE \E c \in Conns : Worker(c) BY <2>2, WorkerKeepsSocketInv DEF TypeInv
  <2>3. CASE \E h \in Handles : Peer(h) BY <2>3, PeerKeepsSocketInv DEF TypeInv
  <2>4. CASE UNCHANGED vars
    BY <2>4 DEF vars, connVars, workerVars, localVars, auxVars, SocketInv, HandlesAreOpen,
                ReadHandlesAreOpen, IsOpen
  <2>5. QED BY <2>1, <2>2, <2>3, <2>4 DEF Next
<1>2. SocketInv => OwnSocketOnly
  BY DEF SocketInv, ReadHandlesAreOpen, SocketSteps, OwnSocketOnly
<1>3. QED BY TypeInit, TypesInductive, SocketInit, <1>1, <1>2, PTL DEF Spec

-----------------------------------------------------------------------------
(***************************************************************************)
(* What the TCP engine reports about a connection attempt, and in which    *)
(* state the connection is when its close is delivered: ReportsInOrder and *)
(* CloseIsQuiescent of TcpEngine, for any number of connections, sockets,  *)
(* sends and fragments, graceful and hard closes, corrupt streams and      *)
(* wakeup sockets that cannot be made.                                     *)
(***************************************************************************)

-----------------------------------------------------------------------------
(* Reports as sets of numbered records                                     *)

Numbered == [at : Nat, type : ItemTypes]

\* S is R with other numbers, in the same order.
SameOrder(R, S) ==
    \E f \in [Nat -> Nat] :
        /\ \A r, s \in R : r.at < s.at => f[r.at] < f[s.at]
        /\ S = {[at |-> f[r.at], type |-> r.type] : r \in R}

OneReport(R, t) == \E r \in R : R = {r} /\ r.type = t

CloseThenFail(R) ==
    \E r, s \in R :
        R = {r, s} /\ r.at < s.at /\ r.type = "Close" /\ s.type = "StatusFail"

\* What a worker has reported, given its two flags: a status only if statusQd,
\* one close only if closeQd, and the close last.
WorkerReports(R, statusQueued, closeQueued) ==
    /\ \A r, s \in R : r.at = s.at => r = s
    /\ \A r, s \in R : r.type \in StatusTypes /\ s.type \in StatusTypes => r = s
    /\ \A r \in R : r.type \in StatusTypes => statusQueued
    /\ \A r \in R : r.type = "Close" => closeQueued /\ \A s \in R : s = r \/ s.at < r.at

\* Two records of R with one image are one record: numbers that differ are
\* ordered, and f keeps the order.
LEMMA OrderIsKept ==
    ASSUME NEW R \in SUBSET Numbered, NEW S, SameOrder(R, S)
    PROVE  /\ S \subseteq Numbered
           /\ R = {} => S = {}
           /\ \A t : OneReport(R, t) => OneReport(S, t)
           /\ CloseThenFail(R) => CloseThenFail(S)
           /\ \A a, b : WorkerReports(R, a, b) => WorkerReports(S, a, b)
<1>1. PICK f \in [Nat -> Nat] :
         /\ \A r, s \in R : r.at < s.at => f[r.at] < f[s.at]
         /\ S = {[at |-> f[r.at], type |-> r.type] : r \in R}
  BY DEF SameOrder
<1> DEFINE Image(r) == [at |-> f[r.at], type |-> r.type]
<1>2. \A r \in R : r.at \in Nat /\ f[r.at] \in Nat /\ r.type \in ItemTypes
  BY <1>1 DEF Numbered
<1>3. \A r \in R : Image(r) \in S /\ Image(r).at = f[r.at] /\ Image(r).type = r.type
  BY <1>1
<1>4. \A x \in S : \E r \in R : x = Image(r)
  BY <1>1
<1>5. S \subseteq Numbered
  BY <1>2, <1>4 DEF Numbered
<1>6. R = {} => S = {}
  BY <1>4
<1>7. ASSUME NEW t, OneReport(R, t) PROVE OneReport(S, t)
  <2>1. PICK r \in R : R = {r} /\ r.type = t BY <1>7 DEF OneReport
  <2>2. S = {Image(r)} BY <1>3, <1>4, <2>1
  <2>3. QED BY <1>3, <2>1, <2>2 DEF OneReport
<1>8. ASSUME CloseThenFail(R) PROVE CloseThenFail(S)
  <2>1. PICK r \in R, s \in R :
           R = {r, s} /\ r.at < s.at /\ r.type = "Close" /\ s.type = "StatusFail"
    BY <1>8 DEF CloseThenFail
  <2>2. S = {Image(r), Image(s)} BY <1>3, <1>4, <2>1
  <2>3. Image(r).at < Image(s).at BY <1>1, <1>3, <2>1
  <2>4. QED BY <1>3, <2>1, <2>2, <2>3 DEF CloseThenFail
<1>9. ASSUME NEW a, NEW b, WorkerReports(R, a, b) PROVE WorkerReports(S, a, b)
  <2>1. ASSUME NEW r \in R, NEW s \in R, Image(r).at = Image(s).at PROVE r = s
    <3>1. ~(r.at < s.at) /\ ~(s.at < r.at)
      BY <1>1, <1>2, <1>3, <2>1
    <3>2. r.at = s.at BY <1>2, <3>1
    <3>3. QED BY <1>9, <3>2 DEF WorkerReports
  <2>2. \A x, y \in S : x.at = y.at => x = y
    BY <1>4, <2>1
  <2>3. \A x, y \in S : x.type \in StatusTypes /\ y.type \in StatusTypes => x = y
    BY <1>3, <1>4, <1>9 DEF WorkerReports
  <2>4. \A x \in S : x.type \in StatusTypes => a
    BY <1>3, <1>4, <1>9 DEF WorkerReports
  <2>5. ASSUME NEW x \in S, x.type = "Close"
        PROVE  b /\ \A y \in S : y = x \/ y.at < x.at
    <3>1. PICK r \in R : x = Image(r) BY <1>4
    <3>2. b /\ \A s \in R : s = r \/ s.at < r.at
      BY <1>3, <1>9, <2>5, <3>1 DEF WorkerReports
    <3>3. \A s \in R : s = r \/ Image(s).at < Image(r).at
      BY <1>1, <1>3, <3>2
    <3>4. QED BY <1>4, <3>1, <3>2, <3>3
  <2>6. QED BY <2>2, <2>3, <2>4, <2>5 DEF WorkerReports
<1>10. QED BY <1>5, <1>6, <1>7, <1>8, <1>9

-----------------------------------------------------------------------------
(* What a step does to the reports of a connection                         *)

Holding == Joining \cup {"dispatch", "deliver"}

InHand(c) == mconn = c /\ mpc \in Holding

\* How many operations of c were delivered.
Past(c) == Len(delivered[c])

\* The three places a report can be: delivered, in the client's hand, queued.
DeliveredReports(c) == {[at |-> i, type |-> delivered[c][i]] : i \in DOMAIN delivered[c]}
ReportInHand(c) ==
    IF InHand(c) THEN {[at |-> Past(c) + 1, type |-> item]} ELSE {}
PlacesOf(c) == {j \in DOMAIN queue : queue[j].conn = c}
QueuedReports(c) ==
    {[at |-> Past(c) + 1 + i, type |-> queue[i].type] : i \in PlacesOf(c)}

\* The number of what would be queued next.
NextNumber(c) == Past(c) + 1 + (Len(queue) + 1)

\* A report was delivered, or is in hand, or in the queue.
LEMMA ReportsByPlace ==
    ASSUME NEW c \in Conns
    PROVE  Reports(c) = DeliveredReports(c) \cup ReportInHand(c) \cup QueuedReports(c)
BY DEF Reports, DeliveredReports, ReportInHand, QueuedReports, PlacesOf, InHand, Holding, Past

\* What is known of the places of the reports, from their types.
LEMMA ReportParts ==
    ASSUME TypeOK, NEW c \in Conns
    PROVE  /\ Len(queue) \in Nat /\ Past(c) \in Nat
           /\ \A i \in PlacesOf(c) :
                 i \in Nat /\ 1 <= i /\ i <= Len(queue) /\ queue[i].type \in ItemTypes
           /\ \A i \in DOMAIN delivered[c] :
                 i \in Nat /\ i <= Past(c) /\ delivered[c][i] \in ItemTypes
           /\ item \in ItemTypes
<1>1. /\ queue \in Seq(Items) /\ delivered[c] \in Seq(ItemTypes) /\ item \in ItemTypes
  BY DEF TypeOK, ReportTypes, ClientTypes
<1>2. \A i \in DOMAIN queue : queue[i] \in Items /\ i \in Nat /\ 1 <= i /\ i <= Len(queue)
  BY <1>1
<1>3. \A i \in DOMAIN queue : queue[i].type \in ItemTypes
  BY <1>2 DEF Items
<1>4. QED BY <1>1, <1>2, <1>3 DEF PlacesOf, Past

\* Reports are numbered below the next number.
LEMMA ReportsAreNumbered ==
    ASSUME TypeOK, NEW c \in Conns
    PROVE  /\ Reports(c) \subseteq Numbered
           /\ \A r \in Reports(c) : r.at < NextNumber(c)
<1>1. ASSUME NEW r \in DeliveredReports(c) PROVE r \in Numbered /\ r.at < NextNumber(c)
  BY ReportParts DEF DeliveredReports, Numbered, NextNumber
<1>2. ASSUME NEW r \in ReportInHand(c) PROVE r \in Numbered /\ r.at < NextNumber(c)
  BY ReportParts DEF ReportInHand, Numbered, NextNumber
<1>3. ASSUME NEW r \in QueuedReports(c) PROVE r \in Numbered /\ r.at < NextNumber(c)
  BY ReportParts DEF QueuedReports, Numbered, NextNumber
<1>4. QED BY <1>1, <1>2, <1>3, ReportsByPlace

\* Steps that move no report of a connection leave its reports alone.
LEMMA ReportsUnchanged ==
    ASSUME NEW c \in Conns, UNCHANGED queue, delivered'[c] = delivered[c],
           InHand(c)' <=> InHand(c), InHand(c) => item' = item
    PROVE  Reports(c)' = Reports(c)
BY DEF Reports, InHand, Holding

\* A queued item of another connection is no report of c; one of c gets the
\* largest number.
LEMMA EnqueueAddsLast ==
    ASSUME TypeOK, NEW c \in Conns, NEW d \in Conns, NEW t \in ItemTypes, Enqueue(d, t),
           delivered'[c] = delivered[c], InHand(c)' <=> InHand(c), InHand(c) => item' = item
    PROVE  Reports(c)' =
              Reports(c) \cup (IF d = c THEN {[at |-> NextNumber(c), type |-> t]} ELSE {})
<1>1. queue \in Seq(Items) /\ Len(queue) \in Nat
  BY DEF TypeOK, ReportTypes
<1>2. queue' = Append(queue, [conn |-> d, type |-> t]) /\ [conn |-> d, type |-> t] \in Items
  BY DEF Enqueue, Items
<1>3. /\ DOMAIN queue' = DOMAIN queue \cup {Len(queue) + 1}
      /\ Len(queue) + 1 \notin DOMAIN queue
      /\ \A i \in DOMAIN queue : queue'[i] = queue[i]
      /\ queue'[Len(queue) + 1] = [conn |-> d, type |-> t]
  BY <1>1, <1>2
<1>4. /\ PlacesOf(c)' = PlacesOf(c) \cup (IF d = c THEN {Len(queue) + 1} ELSE {})
      /\ \A i \in PlacesOf(c) : queue'[i] = queue[i]
  BY <1>3 DEF PlacesOf
<1>5. ASSUME NEW r
      PROVE  r \in QueuedReports(c)' <=>
                r \in QueuedReports(c) \/ (d = c /\ r = [at |-> NextNumber(c), type |-> t])
  <2>1. Past(c)' = Past(c) BY DEF Past
  <2>2. r \in QueuedReports(c)' <=>
           \E i \in PlacesOf(c)' : r = [at |-> Past(c) + 1 + i, type |-> queue'[i].type]
    BY <2>1 DEF QueuedReports
  <2>3. QED BY <1>3, <1>4, <2>2 DEF QueuedReports, NextNumber
<1>6. QueuedReports(c)' =
        QueuedReports(c) \cup (IF d = c THEN {[at |-> NextNumber(c), type |-> t]} ELSE {})
  BY <1>5
<1>7. DeliveredReports(c)' = DeliveredReports(c) /\ ReportInHand(c)' = ReportInHand(c)
  BY DEF DeliveredReports, ReportInHand, Past
<1>8. Reports(c)' = DeliveredReports(c)' \cup ReportInHand(c)' \cup QueuedReports(c)'
  BY DEF Reports, DeliveredReports, ReportInHand, QueuedReports, PlacesOf, InHand, Holding, Past
<1>9. QED BY <1>6, <1>7, <1>8, ReportsByPlace

\* Taking the head of the queue moves it, or the place it had, one down.
LEMMA PollKeepsOrder ==
    ASSUME TypeOK, NEW c \in Conns, Poll
    PROVE  SameOrder(Reports(c), Reports(c)')
<1>0. PICK n \in Nat : n = Past(c) BY ReportParts
<1> DEFINE f == [a \in Nat |-> IF a > n THEN a - 1 ELSE a]
           q == Head(queue)
<1>1. /\ queue \in Seq(Items) /\ queue # <<>> /\ Len(queue) \in Nat
      /\ mpc = "idle" /\ queue' = Tail(queue) /\ mconn' = q.conn /\ item' = q.type
      /\ mpc' \in {"dispatch", "deliver"} /\ delivered' = delivered
      /\ Past(c)' = n
  BY <1>0 DEF Poll, TypeOK, ReportTypes, auxVars, Past
<1>2. /\ q = queue[1] /\ 1 \in DOMAIN queue
      /\ \A i \in DOMAIN queue : i \in Nat /\ i >= 1 /\ (i # 1 => i - 1 \in DOMAIN queue')
      /\ \A i \in DOMAIN queue' : i \in Nat /\ i >= 1 /\ i + 1 \in DOMAIN queue
                                  /\ queue'[i] = queue[i + 1]
  BY <1>1
<1>3. f \in [Nat -> Nat]
  BY <1>1
<1>4. ~InHand(c) /\ (InHand(c)' <=> q.conn = c)
  BY <1>1 DEF InHand, Holding, Joining
<1>41. /\ DeliveredReports(c)' = DeliveredReports(c)
       /\ ReportInHand(c)' = IF q.conn = c THEN {[at |-> n + 1, type |-> q.type]} ELSE {}
       /\ Reports(c)' = DeliveredReports(c)' \cup ReportInHand(c)' \cup QueuedReports(c)'
  BY <1>1, <1>4
  DEF DeliveredReports, ReportInHand, Reports, QueuedReports, PlacesOf, InHand, Holding, Past
<1>42. \A r : r \in QueuedReports(c)' <=>
                 \E j \in DOMAIN queue' :
                    queue'[j].conn = c /\ r = [at |-> n + 1 + j, type |-> queue'[j].type]
  BY <1>1 DEF QueuedReports, PlacesOf
<1>43. \A r : r \in QueuedReports(c) <=>
                 \E i \in DOMAIN queue :
                    queue[i].conn = c /\ r = [at |-> n + 1 + i, type |-> queue[i].type]
  BY <1>0 DEF QueuedReports, PlacesOf
<1>44. \A r \in DeliveredReports(c) : r.at \in Nat /\ r.at <= n /\ r = [at |-> r.at, type |-> r.type]
  BY <1>0, ReportParts DEF DeliveredReports
<1>5. ASSUME NEW r \in Reports(c)
      PROVE  /\ r.at \in Nat /\ r.at # n + 1
             /\ [at |-> f[r.at], type |-> r.type] \in Reports(c)'
  <2>1. CASE r \in DeliveredReports(c)
    <3>1. f[r.at] = r.at BY <1>44, <2>1
    <3>2. QED BY <1>41, <1>44, <2>1, <3>1
  <2>2. CASE r \in QueuedReports(c)
    <3>1. PICK i \in DOMAIN queue :
             queue[i].conn = c /\ r = [at |-> n + 1 + i, type |-> queue[i].type]
      BY <1>43, <2>2
    <3>2. r.at \in Nat /\ r.at > n + 1 /\ f[r.at] = n + i
      BY <1>2, <3>1
    <3>3. CASE i = 1
      <4>1. [at |-> f[r.at], type |-> r.type] = [at |-> n + 1, type |-> q.type]
        BY <1>2, <3>1, <3>2, <3>3
      <4>2. q.conn = c BY <1>2, <3>1, <3>3
      <4>3. QED BY <1>41, <3>2, <4>1, <4>2
    <3>4. CASE i # 1
      <4>1. i - 1 \in DOMAIN queue' /\ queue'[i - 1] = queue[i]
        BY <1>2, <3>4
      <4>2. n + 1 + (i - 1) = n + i
        BY <1>2
      <4>3. [at |-> f[r.at], type |-> r.type] \in QueuedReports(c)'
        BY <1>42, <3>1, <3>2, <4>1, <4>2
      <4>4. QED BY <1>41, <3>2, <4>3
    <3>5. QED BY <3>3, <3>4
  <2>3. QED BY <1>4, <2>1, <2>2, ReportsByPlace DEF ReportInHand
<1>6. ASSUME NEW s \in Reports(c)'
      PROVE  \E r \in Reports(c) : s = [at |-> f[r.at], type |-> r.type]
  <2>1. CASE s \in DeliveredReports(c)
    <3>1. f[s.at] = s.at BY <1>44, <2>1
    <3>2. s \in Reports(c) BY <2>1, ReportsByPlace
    <3>3. QED BY <1>44, <2>1, <3>1, <3>2
  <2>2. CASE q.conn = c /\ s = [at |-> n + 1, type |-> q.type]
    <3>1. [at |-> n + 1 + 1, type |-> queue[1].type] \in Reports(c)
      BY <1>2, <1>43, <2>2, ReportsByPlace
    <3>2. f[n + 1 + 1] = n + 1 OBVIOUS
    <3>3. s = [at |-> f[n + 1 + 1], type |-> queue[1].type] BY <1>2, <2>2, <3>2
    <3>4. QED BY <3>1, <3>3
  <2>3. ASSUME NEW j \in DOMAIN queue', queue'[j].conn = c,
               s = [at |-> n + 1 + j, type |-> queue'[j].type]
        PROVE  \E r \in Reports(c) : s = [at |-> f[r.at], type |-> r.type]
    <3>1. [at |-> n + 1 + (j + 1), type |-> queue[j + 1].type] \in Reports(c)
      BY <1>2, <1>43, <2>3, ReportsByPlace
    <3>2. f[n + 1 + (j + 1)] = n + 1 + j BY <1>2
    <3>3. s = [at |-> f[n + 1 + (j + 1)], type |-> queue[j + 1].type] BY <1>2, <2>3, <3>2
    <3>4. QED BY <3>1, <3>3
  <2>4. QED BY <1>41, <1>42, <2>1, <2>2, <2>3
<1>7. \A r, s \in Reports(c) : r.at < s.at => f[r.at] < f[s.at]
  <2> SUFFICES ASSUME NEW r \in Reports(c), NEW s \in Reports(c), r.at < s.at
               PROVE  f[r.at] < f[s.at]
    OBVIOUS
  <2>1. r.at \in Nat /\ s.at \in Nat /\ r.at # n + 1 /\ s.at # n + 1 BY <1>5
  <2>2. \A a, b \in Nat : a < b /\ a # n + 1 /\ b # n + 1 => f[a] < f[b]
    OBVIOUS
  <2>3. QED BY <2>1, <2>2
<1>8. Reports(c)' = {[at |-> f[r.at], type |-> r.type] : r \in Reports(c)}
  BY <1>5, <1>6
<1>9. QED BY <1>3, <1>7, <1>8 DEF SameOrder

\* What was in hand becomes the last thing delivered under the number it had;
\* what is queued moves one up.
LEMMA DeliverKeepsOrder ==
    ASSUME TypeOK, NEW c \in Conns, Deliver, mconn = c
    PROVE  SameOrder(Reports(c), Reports(c)')
<1>0. PICK n \in Nat : n = Past(c) BY ReportParts
<1> DEFINE f == [a \in Nat |-> IF a > n + 1 THEN a + 1 ELSE a]
<1>1. /\ delivered[c] \in Seq(ItemTypes)
      /\ queue' = queue
      /\ delivered'[c] = Append(delivered[c], item)
      /\ mpc = "deliver" /\ mpc' = "idle"
  BY DEF Deliver, ClientMoves, TypeOK, ReportTypes
<1>2. /\ Past(c)' = n + 1
      /\ \A i \in DOMAIN delivered[c] : i \in Nat /\ i <= n
      /\ DOMAIN delivered'[c] = DOMAIN delivered[c] \cup {n + 1}
      /\ \A i \in DOMAIN delivered[c] : delivered'[c][i] = delivered[c][i]
      /\ delivered'[c][n + 1] = item
  <2>1. n = Len(delivered[c]) BY <1>0 DEF Past
  <2>2. ASSUME NEW d \in Seq(ItemTypes), NEW x, NEW e, e = Append(d, x), n = Len(d)
        PROVE  /\ Len(e) = n + 1
               /\ \A i \in DOMAIN d : i \in Nat /\ i <= n
               /\ DOMAIN e = DOMAIN d \cup {n + 1}
               /\ \A i \in DOMAIN d : e[i] = d[i]
               /\ e[n + 1] = x
    BY <2>2
  <2>3. QED BY <1>1, <2>1, <2>2 DEF Past
<1>3. f \in [Nat -> Nat] OBVIOUS
<1>4. /\ ReportInHand(c) = {[at |-> n + 1, type |-> item]}
      /\ ReportInHand(c)' = {}
  BY <1>0, <1>1 DEF InHand, Holding, Joining, ReportInHand
<1>5. /\ Reports(c)' = DeliveredReports(c)' \cup ReportInHand(c)' \cup QueuedReports(c)'
      /\ DeliveredReports(c)' = DeliveredReports(c) \cup {[at |-> n + 1, type |-> item]}
  <2>1. Reports(c)' = DeliveredReports(c)' \cup ReportInHand(c)' \cup QueuedReports(c)'
    BY DEF Reports, DeliveredReports, ReportInHand, QueuedReports, PlacesOf, InHand, Holding,
           Past
  <2>2. \A r : r \in DeliveredReports(c)' <=>
                  r \in DeliveredReports(c) \/ r = [at |-> n + 1, type |-> item]
    BY <1>2 DEF DeliveredReports
  <2>3. QED BY <2>1, <2>2
<1>6. \A r : r \in QueuedReports(c)' <=>
                \E i \in PlacesOf(c) : r = [at |-> n + 1 + 1 + i, type |-> queue[i].type]
  BY <1>1, <1>2 DEF QueuedReports, PlacesOf
<1>7. \A r : r \in QueuedReports(c) <=>
                \E i \in PlacesOf(c) : r = [at |-> n + 1 + i, type |-> queue[i].type]
  BY <1>0 DEF QueuedReports
<1>8. \A i \in PlacesOf(c) : i \in Nat /\ 1 <= i /\ n + 1 + i > n + 1
                             /\ f[n + 1 + i] = n + 1 + 1 + i
  <2>1. \A i \in Nat : 1 <= i => n + 1 + i > n + 1 /\ f[n + 1 + i] = n + 1 + 1 + i
    OBVIOUS
  <2>2. \A i \in PlacesOf(c) : i \in Nat /\ 1 <= i BY ReportParts
  <2>3. QED BY <2>1, <2>2
<1>9. \A r \in DeliveredReports(c) \cup ReportInHand(c) :
         r.at \in Nat /\ f[r.at] = r.at /\ r = [at |-> r.at, type |-> r.type]
  <2>1. \A r \in DeliveredReports(c) : r.at \in Nat /\ r.at <= n /\ r = [at |-> r.at, type |-> r.type]
    BY <1>2 DEF DeliveredReports
  <2>2. f[n + 1] = n + 1 OBVIOUS
  <2>3. QED BY <1>4, <2>1, <2>2
<1>10. \A r \in QueuedReports(c) : [at |-> f[r.at], type |-> r.type] \in QueuedReports(c)'
  <2> SUFFICES ASSUME NEW r \in QueuedReports(c)
               PROVE  [at |-> f[r.at], type |-> r.type] \in QueuedReports(c)'
    OBVIOUS
  <2>1. PICK i \in PlacesOf(c) : r = [at |-> n + 1 + i, type |-> queue[i].type]
    BY <1>7
  <2>2. [at |-> n + 1 + 1 + i, type |-> queue[i].type] \in QueuedReports(c)'
    BY <1>6
  <2>3. /\ f[r.at] = n + 1 + 1 + i
        /\ r.type = queue[i].type
    BY <1>8, <2>1
  <2>4. QED BY <2>2, <2>3
<1>11. \A s \in QueuedReports(c)' :
          \E r \in QueuedReports(c) : s = [at |-> f[r.at], type |-> r.type]
  <2> SUFFICES ASSUME NEW s \in QueuedReports(c)'
               PROVE  \E r \in QueuedReports(c) : s = [at |-> f[r.at], type |-> r.type]
    OBVIOUS
  <2>1. PICK i \in PlacesOf(c) : s = [at |-> n + 1 + 1 + i, type |-> queue[i].type]
    BY <1>6
  <2>2. [at |-> n + 1 + i, type |-> queue[i].type] \in QueuedReports(c)
    BY <1>7
  <2>3. s = [at |-> f[n + 1 + i], type |-> queue[i].type]
    BY <1>8, <2>1
  <2>4. QED BY <2>2, <2>3
<1>12. Reports(c)' = {[at |-> f[r.at], type |-> r.type] : r \in Reports(c)}
  <2> DEFINE D == DeliveredReports(c) \cup ReportInHand(c)
             Image(S) == {[at |-> f[r.at], type |-> r.type] : r \in S}
  <2>1. Image(D) = D
    <3>1. \A r \in D : [at |-> f[r.at], type |-> r.type] = r
      BY <1>9
    <3>2. QED BY <3>1, Zenon
  <2>2. Image(QueuedReports(c)) = QueuedReports(c)' BY <1>10, <1>11
  <2>3. Reports(c) = D \cup QueuedReports(c) BY ReportsByPlace
  <2>4. Reports(c)' = D \cup QueuedReports(c)' BY <1>4, <1>5
  <2>5. Image(D \cup QueuedReports(c)) = Image(D) \cup Image(QueuedReports(c)) OBVIOUS
  <2>6. QED BY <2>1, <2>2, <2>3, <2>4, <2>5
<1>13. \A r, s \in Reports(c) : r.at < s.at => f[r.at] < f[s.at]
  <2>1. \A r \in Reports(c) : r.at \in Nat
    BY ReportsAreNumbered DEF Numbered
  <2>2. \A a, b \in Nat : a < b => f[a] < f[b]
    OBVIOUS
  <2>3. QED BY <2>1, <2>2
<1>14. QED BY <1>3, <1>12, <1>13 DEF SameOrder

-----------------------------------------------------------------------------
(* One attempt                                                             *)

\* Nothing holds or waits for the connection any more.
Cleaned(c) ==
    /\ ~workerPtr[c]
    /\ c \notin tree
    /\ state[c] = "Closed"
    /\ handle[c] = NoHandle
    /\ sendQ[c] = 0

Waits(c) == mpc = "connectStatus" /\ mconn = c

\* No worker was ever made, and the client does nothing with the connection
\* but report.
Unstarted(c) ==
    /\ wpc[c] = "off"
    /\ Cleaned(c)
    /\ mconn = c => mpc \in Holding \cup {"connectStatus"}

\* Its close is through CleanupConnection.
HandedOver(c) == mconn = c /\ item = "Close" /\ mpc \in Joining \cup {"deliver"}

\* The steps of a worker that reports nothing any more.
Over == {"wakeupOnly", "leave", "exited", "off"}

NotAttempted(c) ==
    connects[c] = 0 /\ Unstarted(c) /\ Reports(c) = {} /\ mconn # c

\* Connect failed before it made a worker: with a status alone, or with a
\* close that its status follows.
FailedAtOnce(c) ==
    /\ connects[c] = 1
    /\ Unstarted(c)
    /\ \/ ~Waits(c) /\ OneReport(Reports(c), "StatusFail")
       \/ Waits(c) /\ OneReport(Reports(c), "Close")
       \/ ~Waits(c) /\ CloseThenFail(Reports(c))

\* Connect made a worker, which reports; its close, once reported, is the
\* last thing it does, so the cleanup finds nothing changing.
Started(c) ==
    /\ connects[c] = 1
    /\ ~Waits(c)
    /\ WorkerReports(Reports(c), statusQd[c], closeQd[c])
    /\ closeQd[c] => wpc[c] \in Over
    /\ HandedOver(c) => Cleaned(c)

Attempt(c) == NotAttempted(c) \/ FailedAtOnce(c) \/ Started(c)

\* Only a close is cleaned up after.
ItemInv == mpc \in Joining \cup {"dispatch"} => item = "Close"

AttemptInv == ItemInv /\ \A c \in Conns : connects[c] <= 1 => Attempt(c)

\* It holds initially.
LEMMA AttemptInit == Init => AttemptInv
<1> SUFFICES ASSUME Init PROVE AttemptInv
  OBVIOUS
<1>1. ItemInv BY DEF Init, ItemInv, Joining
<1>2. ASSUME NEW c \in Conns PROVE NotAttempted(c)
  <2>1. Reports(c) = {}
    BY DEF Init, Reports, Joining
  <2>2. mconn # c BY EngineAssumption DEF Init
  <2>3. QED BY <2>1, <2>2 DEF Init, NotAttempted, Unstarted, Cleaned
<1>3. QED BY <1>1, <1>2 DEF AttemptInv, Attempt

\* A step that reports nothing on c and takes nothing back leaves the attempt
\* where it was.
LEMMA AttemptStands ==
    ASSUME TypeInv, NEW c \in Conns, Attempt(c), connects'[c] = connects[c],
           Reports(c)' = Reports(c) \/ SameOrder(Reports(c), Reports(c)'),
           wpc'[c] = wpc[c] \/ wpc'[c] = "off",
           statusQd'[c] = statusQd[c], closeQd'[c] = closeQd[c],
           Unstarted(c) => Unstarted(c)',
           Waits(c)' <=> Waits(c),
           mconn' = c => mconn = c \/ Reports(c) # {} \/ ~Unstarted(c),
           HandedOver(c)' => Cleaned(c)' \/ (HandedOver(c) /\ (Cleaned(c) => Cleaned(c)'))
    PROVE  Attempt(c)'
<1>1. Reports(c) \in SUBSET Numbered
  BY ReportsAreNumbered DEF TypeInv
<1>2. /\ Reports(c) = {} => Reports(c)' = {}
      /\ \A t : OneReport(Reports(c), t) => OneReport(Reports(c)', t)
      /\ CloseThenFail(Reports(c)) => CloseThenFail(Reports(c)')
      /\ \A a, b : WorkerReports(Reports(c), a, b) => WorkerReports(Reports(c)', a, b)
  BY <1>1, OrderIsKept
<1>3. CASE NotAttempted(c)
  BY <1>2, <1>3 DEF NotAttempted, Attempt
<1>4. CASE FailedAtOnce(c)
  <2>1. OneReport(Reports(c), "StatusFail") => OneReport(Reports(c), "StatusFail")'
    BY <1>2 DEF OneReport
  <2>2. OneReport(Reports(c), "Close") => OneReport(Reports(c), "Close")'
    BY <1>2 DEF OneReport
  <2>3. CloseThenFail(Reports(c)) => CloseThenFail(Reports(c))'
    BY <1>2 DEF CloseThenFail
  <2>4. QED BY <1>4, <2>1, <2>2, <2>3 DEF FailedAtOnce, Attempt
<1>5. CASE Started(c)
  <2>1. WorkerReports(Reports(c)', statusQd[c], closeQd[c])
    BY <1>2, <1>5 DEF Started
  <2>2. WorkerReports(Reports(c), statusQd[c], closeQd[c])'
    BY <2>1 DEF WorkerReports
  <2>3. Started(c)'
    BY <1>5, <2>2 DEF Started, Over
  <2>4. QED BY <2>3 DEF Attempt
<1>6. QED BY <1>3, <1>4, <1>5 DEF Attempt

\* Nor does a step that is not about c at all.
LEMMA BystandersStand ==
    ASSUME TypeInv, NEW c \in Conns, Attempt(c), Reports(c)' = Reports(c),
           connects'[c] = connects[c], wpc'[c] = wpc[c], workerPtr'[c] = workerPtr[c],
           state'[c] = state[c], handle'[c] = handle[c], sendQ'[c] = sendQ[c],
           statusQd'[c] = statusQd[c], closeQd'[c] = closeQd[c],
           c \in tree' <=> c \in tree,
           (mconn # c /\ mconn' # c) \/ UNCHANGED <<mpc, mconn, item>>
    PROVE  Attempt(c)'
BY AttemptStands DEF Unstarted, Cleaned, Waits, HandedOver

-----------------------------------------------------------------------------
(* The worker's steps                                                      *)

\* k is a number beyond those of R.
Beyond(k, R) == k \in Nat /\ R \subseteq Numbered /\ \A r \in R : r.at < k

\* R with one more report, numbered k.
Added(R, k, t) == R \cup {[at |-> k, type |-> t]}

\* One more report at the end keeps the order, if no close was reported.
LEMMA ReportAdded ==
    ASSUME NEW R, NEW k, Beyond(k, R), NEW t, NEW a, WorkerReports(R, a, FALSE)
    PROVE  /\ \A r, s \in Added(R, k, t) : r.at = s.at => r = s
           /\ \A r \in Added(R, k, t) :
                 /\ r.type = "Close" => r.at = k /\ t = "Close"
                 /\ r.at = k \/ r.at < k
                 /\ r \in R \/ (r.at = k /\ r.type = t)
<1> DEFINE x == [at |-> k, type |-> t]
           S == Added(R, k, t)
<1>1. x.at = k /\ x.type = t /\ S = R \cup {x} BY DEF Added
<1>2. \A r \in R : r.at \in Nat /\ r.at < k /\ r.at # k /\ r.type # "Close"
  BY DEF WorkerReports, Numbered, Beyond
<1> HIDE DEF x, S
<1>3. \A r, s \in S : r.at = s.at => r = s
  BY <1>1, <1>2 DEF WorkerReports
<1>4. \A r \in S : r.type = "Close" => r.at = k /\ t = "Close"
  BY <1>1, <1>2
<1>5. \A r \in S : r.at = k \/ r.at < k
  BY <1>1, <1>2
<1>6. \A r \in S : r \in R \/ (r.at = k /\ r.type = t)
  BY <1>1
<1>7. QED BY <1>3, <1>4, <1>5, <1>6 DEF S

\* A packet leaves the flags alone.
LEMMA PacketAdded ==
    ASSUME NEW R, NEW k, Beyond(k, R), NEW a, WorkerReports(R, a, FALSE)
    PROVE  WorkerReports(Added(R, k, "Packet"), a, FALSE)
<1> DEFINE S == Added(R, k, "Packet")
<1>1. /\ \A r, s \in S : r.at = s.at => r = s
      /\ \A r \in S : r.type # "Close"
      /\ \A r \in S : r \in R \/ r.type = "Packet"
  BY ReportAdded
<1> HIDE DEF S
<1>2. WorkerReports(S, a, FALSE) BY <1>1 DEF WorkerReports, StatusTypes
<1>3. QED BY <1>2 DEF S

\* A close sets its flag.
LEMMA CloseAdded ==
    ASSUME NEW R, NEW k, Beyond(k, R), NEW a, WorkerReports(R, a, FALSE)
    PROVE  WorkerReports(Added(R, k, "Close"), a, TRUE)
<1> DEFINE S == Added(R, k, "Close")
<1>1. /\ \A r, s \in S : r.at = s.at => r = s
      /\ \A r \in S : r.type = "Close" => r.at = k
      /\ \A r \in S : r.at = k \/ r.at < k
      /\ \A r \in S : r \in R \/ r.type = "Close"
  BY ReportAdded
<1> HIDE DEF S
<1>2. WorkerReports(S, a, TRUE) BY <1>1 DEF WorkerReports, StatusTypes
<1>3. QED BY <1>2 DEF S

\* A first status sets its own.
LEMMA StatusAdded ==
    ASSUME NEW R, NEW k, Beyond(k, R), NEW t \in StatusTypes, WorkerReports(R, FALSE, FALSE)
    PROVE  WorkerReports(Added(R, k, t), TRUE, FALSE)
<1> DEFINE S == Added(R, k, t)
<1>1. t # "Close" BY DEF StatusTypes
<1>2. /\ \A r, s \in S : r.at = s.at => r = s
      /\ \A r \in S : r.type # "Close"
      /\ \A r \in S : r \in R \/ r.at = k
  BY <1>1, ReportAdded
<1> HIDE DEF S
<1>3. \A r \in R : r.type \notin StatusTypes BY DEF WorkerReports
<1>4. \A r, s \in S : r.type \in StatusTypes /\ s.type \in StatusTypes => r = s
  BY <1>2, <1>3
<1>5. WorkerReports(S, TRUE, FALSE) BY <1>2, <1>4 DEF WorkerReports
<1>6. QED BY <1>5 DEF S

\* The worker of d touches no other connection, and no history.
OwnOnly(d) ==
    /\ UNCHANGED <<delivered, connects, mpc, mconn, item, tree>>
    /\ \A c \in Conns \ {d} :
          /\ wpc'[c] = wpc[c] /\ workerPtr'[c] = workerPtr[c] /\ state'[c] = state[c]
          /\ handle'[c] = handle[c] /\ sendQ'[c] = sendQ[c]
          /\ statusQd'[c] = statusQd[c] /\ closeQd'[c] = closeQd[c]

\* A worker changes nothing of another connection.
LEMMA WorkerTouchesItsOwn ==
    ASSUME TypeInv, NEW d \in Conns, Worker(d)
    PROVE  OwnOnly(d)
<1> USE DEF OwnOnly, WorkerMoves, connVars, workerVars, localVars, clientVars, auxVars, ConnTypes,
            WorkerTypes
<1>1. ConnTypes /\ WorkerTypes BY DEF TypeInv, TypeOK
<1>2. CASE WorkerTop(d) BY <1>1, <1>2 DEF WorkerTop
<1>3. CASE WorkerHalfClose(d) BY <1>1, <1>3 DEF WorkerHalfClose
<1>4. CASE WorkerSelect(d) BY <1>1, <1>4 DEF WorkerSelect, AfterRead, AfterWrite
<1>5. CASE WorkerFailState(d) BY <1>1, <1>5 DEF WorkerFailState
<1>6. CASE WorkerFailStatus(d) BY <1>1, <1>6 DEF WorkerFailStatus, QueueStatus
<1>7. CASE WorkerQueueClose(d) BY <1>1, <1>7 DEF WorkerQueueClose, QueueClose
<1>8. CASE ReceivePacket(d) BY <1>1, <1>8 DEF ReceivePacket
<1>9. CASE ReceiveCorrupt(d) BY <1>1, <1>9 DEF ReceiveCorrupt
<1>10. CASE ReceiveEnd(d) BY <1>1, <1>10 DEF ReceiveEnd
<1>11. CASE ReceiveWouldBlock(d) BY <1>1, <1>11 DEF ReceiveWouldBlock, AfterRead, AfterWrite
<1>12. CASE WorkerHardClose(d) BY <1>1, <1>12 DEF WorkerHardClose, CutOff
<1>13. CASE WorkerEndSocket(d) BY <1>1, <1>13 DEF WorkerEndSocket, CutOff
<1>14. CASE WorkerEndState(d) BY <1>1, <1>14 DEF WorkerEndState
<1>15. CASE WriteConnect(d) BY <1>1, <1>15 DEF WriteConnect
<1>16. CASE WorkerConnected(d) BY <1>1, <1>16 DEF WorkerConnected, QueueStatus, AfterWrite
<1>17. CASE WriteSend(d) BY <1>1, <1>17 DEF WriteSend, AfterWrite
<1>18. CASE WorkerDrain(d) BY <1>1, <1>18 DEF WorkerDrain
<1>19. CASE WorkerParked(d) BY <1>1, <1>19 DEF WorkerParked
<1>20. CASE WorkerLeave(d) BY <1>1, <1>20 DEF WorkerLeave
<1>21. QED
  BY <1>2, <1>3, <1>4, <1>5, <1>6, <1>7, <1>8, <1>9, <1>10, <1>11, <1>12, <1>13, <1>14,
     <1>15, <1>16, <1>17, <1>18, <1>19, <1>20
  DEF Worker, Receive

\* What a worker's step does to the reports and to the flags that guard them.
ReportStep(d) ==
    \/ /\ UNCHANGED queue
       /\ statusQd'[d] = statusQd[d] /\ closeQd'[d] = closeQd[d]
    \/ /\ Enqueue(d, "Packet")
       /\ statusQd'[d] = statusQd[d] /\ closeQd'[d] = closeQd[d]
    \/ /\ Enqueue(d, "Close") /\ ~closeQd[d] /\ wpc'[d] \in Over
       /\ statusQd'[d] = statusQd[d] /\ closeQd'[d] = TRUE
    \/ \E t \in StatusTypes :
          /\ Enqueue(d, t) /\ ~statusQd[d]
          /\ statusQd'[d] = TRUE /\ closeQd'[d] = closeQd[d]

\* A worker that is over stays so and leaves what was cleaned alone; before
\* that it makes one of the report steps.
LEMMA WorkerReportsByItsFlags ==
    ASSUME TypeInv, NEW d \in Conns, Worker(d)
    PROVE  /\ wpc[d] # "off"
           /\ wpc[d] \in Over =>
                 /\ wpc'[d] \in Over
                 /\ Cleaned(d) => Cleaned(d)'
           /\ ReportStep(d)
           /\ wpc[d] \in Over => UNCHANGED queue
<1> USE DEF ReportStep, Over, Cleaned, StatusTypes, WorkerMoves, connVars, workerVars, localVars,
            clientVars, auxVars, ConnTypes, WorkerTypes
<1>1. ConnTypes /\ WorkerTypes BY DEF TypeInv, TypeOK
<1>2. CASE WorkerTop(d) BY <1>1, <1>2 DEF WorkerTop
<1>3. CASE WorkerHalfClose(d) BY <1>1, <1>3 DEF WorkerHalfClose
<1>4. CASE WorkerSelect(d) BY <1>1, <1>4 DEF WorkerSelect, AfterRead, AfterWrite
<1>5. CASE WorkerFailState(d) BY <1>1, <1>5 DEF WorkerFailState
<1>6. CASE WorkerFailStatus(d) BY <1>1, <1>6 DEF WorkerFailStatus, QueueStatus
<1>7. CASE WorkerQueueClose(d) BY <1>1, <1>7 DEF WorkerQueueClose, QueueClose
<1>8. CASE ReceivePacket(d) BY <1>1, <1>8 DEF ReceivePacket
<1>9. CASE ReceiveCorrupt(d) BY <1>1, <1>9 DEF ReceiveCorrupt
<1>10. CASE ReceiveEnd(d) BY <1>1, <1>10 DEF ReceiveEnd
<1>11. CASE ReceiveWouldBlock(d) BY <1>1, <1>11 DEF ReceiveWouldBlock, AfterRead, AfterWrite
<1>12. CASE WorkerHardClose(d) BY <1>1, <1>12 DEF WorkerHardClose, CutOff
<1>13. CASE WorkerEndSocket(d) BY <1>1, <1>13 DEF WorkerEndSocket, CutOff
<1>14. CASE WorkerEndState(d) BY <1>1, <1>14 DEF WorkerEndState
<1>15. CASE WriteConnect(d) BY <1>1, <1>15 DEF WriteConnect
<1>16. CASE WorkerConnected(d) BY <1>1, <1>16 DEF WorkerConnected, QueueStatus, AfterWrite
<1>17. CASE WriteSend(d) BY <1>1, <1>17 DEF WriteSend, AfterWrite
<1>18. CASE WorkerDrain(d) BY <1>1, <1>18 DEF WorkerDrain
<1>19. CASE WorkerParked(d) BY <1>1, <1>19 DEF WorkerParked
<1>20. CASE WorkerLeave(d) BY <1>1, <1>20 DEF WorkerLeave
<1>21. QED
  BY <1>2, <1>3, <1>4, <1>5, <1>6, <1>7, <1>8, <1>9, <1>10, <1>11, <1>12, <1>13, <1>14,
     <1>15, <1>16, <1>17, <1>18, <1>19, <1>20
  DEF Worker, Receive

\* The report a worker adds follows its flags, so its attempt stays in order.
LEMMA WorkerKeepsItsAttempt ==
    ASSUME TypeInv, NEW c \in Conns, Attempt(c), Worker(c)
    PROVE  Attempt(c)'
<1>1. Started(c)
  BY WorkerReportsByItsFlags DEF Attempt, NotAttempted, FailedAtOnce, Unstarted
<1>2. OwnOnly(c) BY WorkerTouchesItsOwn
<1>3. Beyond(NextNumber(c), Reports(c))
  <2>1. Len(queue) \in Nat /\ Past(c) \in Nat BY ReportParts DEF TypeInv
  <2>2. NextNumber(c) \in Nat BY <2>1 DEF NextNumber
  <2>3. QED BY <2>2, ReportsAreNumbered DEF TypeInv, Beyond
<1>4. WorkerReports(Reports(c), statusQd[c], closeQd[c])
  BY <1>1 DEF Started
<1>5. ASSUME NEW t \in ItemTypes, Enqueue(c, t)
      PROVE  Reports(c)' = Added(Reports(c), NextNumber(c), t)
  BY <1>2, <1>5, EnqueueAddsLast DEF OwnOnly, InHand, TypeInv, Added
<1>6. /\ UNCHANGED queue => Reports(c)' = Reports(c)
      /\ wpc[c] \in Over => UNCHANGED queue
  BY <1>2, ReportsUnchanged, WorkerReportsByItsFlags DEF OwnOnly, InHand
<1>7. closeQd[c] => UNCHANGED queue
  BY <1>1, <1>6 DEF Started
<1>8. queue' = queue \/ ~closeQd[c] BY <1>7
<1>9. WorkerReports(Reports(c)', statusQd'[c], closeQd'[c])
  <2>1. CASE /\ UNCHANGED queue
             /\ statusQd'[c] = statusQd[c] /\ closeQd'[c] = closeQd[c]
    BY <1>4, <1>6, <2>1
  <2>2. CASE queue' # queue
    <3>1. PICK t \in ItemTypes :
             /\ Enqueue(c, t)
             /\ \/ t = "Packet" /\ statusQd'[c] = statusQd[c] /\ closeQd'[c] = closeQd[c]
                \/ t = "Close" /\ statusQd'[c] = statusQd[c] /\ closeQd'[c] = TRUE
                \/ t \in StatusTypes /\ statusQd[c] = FALSE /\ statusQd'[c] = TRUE
                   /\ closeQd'[c] = closeQd[c]
      BY <2>2, WorkerReportsByItsFlags
      DEF ReportStep, ItemTypes, StatusTypes, TypeInv, TypeOK, WorkerTypes
    <3>2. Reports(c)' = Added(Reports(c), NextNumber(c), t)
      BY <1>5, <3>1
    <3>3. closeQd[c] = FALSE
      BY <1>8, <2>2 DEF TypeInv, TypeOK, WorkerTypes
    <3>4. CASE t = "Packet" /\ statusQd'[c] = statusQd[c] /\ closeQd'[c] = closeQd[c]
      BY <1>3, <1>4, <3>2, <3>3, <3>4, PacketAdded
    <3>5. CASE t = "Close" /\ statusQd'[c] = statusQd[c] /\ closeQd'[c] = TRUE
      BY <1>3, <1>4, <3>2, <3>3, <3>5, CloseAdded
    <3>6. CASE /\ t \in StatusTypes /\ statusQd[c] = FALSE /\ statusQd'[c] = TRUE
               /\ closeQd'[c] = closeQd[c]
      BY <1>3, <1>4, <3>2, <3>3, <3>6, StatusAdded
    <3>7. QED BY <3>1, <3>4, <3>5, <3>6
  <2>3. CASE UNCHANGED queue
    <3>1. ASSUME NEW t, Enqueue(c, t) PROVE FALSE
      <4>1. queue \in Seq(Items) BY DEF TypeInv, TypeOK, ReportTypes
      <4>2. Len(Append(queue, [conn |-> c, type |-> t])) = Len(queue) + 1 BY <4>1
      <4>3. QED BY <2>3, <3>1, <4>1, <4>2 DEF Enqueue
    <3>2. QED BY <2>1, <2>3, <3>1, WorkerReportsByItsFlags DEF ReportStep
  <2>4. QED BY <2>2, <2>3
<1>10. WorkerReports(Reports(c), statusQd[c], closeQd[c])'
  BY <1>9 DEF WorkerReports
<1>11. closeQd'[c] => wpc'[c] \in Over
  BY <1>1, WorkerReportsByItsFlags DEF ReportStep, Started
<1>12. HandedOver(c)' => Cleaned(c)'
  <2> SUFFICES ASSUME HandedOver(c)' PROVE Cleaned(c)'
    OBVIOUS
  <2>1. HandedOver(c) BY <1>2 DEF HandedOver, OwnOnly
  <2>2. [at |-> Past(c) + 1, type |-> "Close"] \in Reports(c)
    BY <2>1, ReportsByPlace DEF HandedOver, ReportInHand, InHand, Holding
  <2>3. closeQd[c] BY <1>4, <2>2 DEF WorkerReports
  <2>4. QED BY <1>1, <2>1, <2>3, WorkerReportsByItsFlags DEF Started
<1>13. connects'[c] = 1 /\ ~Waits(c)'
  BY <1>1, <1>2 DEF Started, OwnOnly, Waits
<1>14. QED BY <1>10, <1>11, <1>12, <1>13 DEF Attempt, Started, Over

\* A worker keeps the attempts of every connection.
LEMMA WorkerKeepsAttempts ==
    ASSUME TypeInv, AttemptInv, NEW d \in Conns, Worker(d)
    PROVE  AttemptInv'
<1>1. OwnOnly(d) BY WorkerTouchesItsOwn
<1>2. ItemInv' BY <1>1 DEF AttemptInv, ItemInv, OwnOnly
<1>3. ASSUME NEW c \in Conns, connects'[c] <= 1 PROVE Attempt(c)'
  <2>1. Attempt(c) BY <1>1, <1>3 DEF AttemptInv, OwnOnly
  <2>2. CASE c = d BY <2>1, <2>2, WorkerKeepsItsAttempt
  <2>3. CASE c # d
    <3>1. Reports(c)' = Reports(c)
      <4>1. UNCHANGED queue \/ \E t \in ItemTypes : Enqueue(d, t)
        BY WorkerReportsByItsFlags DEF ReportStep, ItemTypes, StatusTypes
      <4>2. ASSUME NEW t \in ItemTypes, Enqueue(d, t) PROVE Reports(c)' = Reports(c)
        BY <1>1, <2>3, <4>2, EnqueueAddsLast DEF OwnOnly, InHand, TypeInv
      <4>3. CASE UNCHANGED queue
        BY <1>1, <4>3, ReportsUnchanged DEF OwnOnly, InHand
      <4>4. QED BY <4>1, <4>2, <4>3
    <3>2. QED BY <1>1, <2>1, <2>3, <3>1, BystandersStand DEF OwnOnly
  <2>4. QED BY <2>2, <2>3
<1>4. QED BY <1>2, <1>3 DEF AttemptInv

-----------------------------------------------------------------------------
(* The client thread's steps                                               *)

\* The client thread keeps ItemInv.
LEMMA ClientKeepsItem ==
    ASSUME ItemInv, Client
    PROVE  ItemInv'
BY DEF Client, ConnectRejected, ConnectNoSocket, ConnectRefusedAtOnce, ConnectStarted,
      CloseBegin, SendBegin, StopRequestExit, ConnectStatus, CloseMark, CloseShutdown,
      CloseSocketNow, SendPush, SendSignal, Poll, CleanupDetach, CleanupRequestExit,
      CleanupSignal, CleanupJoin, Deliver, Shutdown, Drained, StopSignal, StopJoin, Destroy,
      Destroyed, vars, clientVars, ClientMoves, ItemInv, Joining, MayConnect

\* The three ways Connect ends, for the connection it is called on.
LEMMA ConnectAttempts ==
    ASSUME TypeInv, NEW c \in Conns, connects[c] <= 1 => Attempt(c), connects'[c] <= 1,
           \/ ConnectRejected(c) \/ ConnectNoSocket(c) \/ ConnectRefusedAtOnce(c)
           \/ ConnectStarted(c)
    PROVE  Attempt(c)'
<1>1. connects[c] \in Nat /\ connects' = [connects EXCEPT ![c] = @ + 1]
  BY DEF TypeInv, TypeOK, ConnTypes, ConnectRejected, ConnectNoSocket, ConnectRefusedAtOnce,
         ConnectStarted, CountConnect
<1>2. connects'[c] = connects[c] + 1 BY <1>1 DEF TypeInv, TypeOK, ConnTypes
<1>3. connects[c] = 0 /\ connects'[c] = 1
  BY <1>1, <1>2
<1>4. NotAttempted(c)
  BY <1>3 DEF Attempt, FailedAtOnce, Started
<1>5. /\ mpc = "idle" /\ UNCHANGED delivered /\ ~InHand(c)
      /\ ConnTypes /\ WorkerTypes /\ TypeOK /\ Past(c) \in Nat /\ Len(queue) \in Nat
  <2>1. mpc = "idle" /\ UNCHANGED delivered
    BY DEF ConnectRejected, ConnectNoSocket, ConnectRefusedAtOnce, ConnectStarted, CountConnect,
           MayConnect
  <2>2. QED BY <2>1, ReportParts DEF InHand, Holding, Joining, TypeInv, TypeOK
<1>6. ASSUME NEW t \in ItemTypes, Enqueue(c, t), ~InHand(c)'
      PROVE  OneReport(Reports(c)', t)
  <2>1. Reports(c)' = {[at |-> NextNumber(c), type |-> t]}
    BY <1>4, <1>5, <1>6, EnqueueAddsLast DEF NotAttempted
  <2>2. QED BY <2>1 DEF OneReport
<1>7. ~ConnectRejected(c)
  BY <1>4 DEF ConnectRejected, NotAttempted, Unstarted, Cleaned
<1>8. CASE ConnectNoSocket(c)
  <2>1. Unstarted(c)' /\ ~Waits(c)' /\ ~InHand(c)'
    BY <1>4, <1>5, <1>8
    DEF ConnectNoSocket, NotAttempted, Unstarted, Cleaned, Waits, workerVars, clientVars,
        InHand, Holding, Joining, ConnTypes
  <2>2. OneReport(Reports(c)', "StatusFail")
    BY <1>6, <1>8, <2>1 DEF ConnectNoSocket, ItemTypes
  <2>3. OneReport(Reports(c), "StatusFail")'
    BY <2>2 DEF OneReport
  <2>4. QED BY <1>3, <2>1, <2>3 DEF Attempt, FailedAtOnce
<1>9. CASE ConnectRefusedAtOnce(c)
  <2>1. Unstarted(c)' /\ Waits(c)' /\ ~InHand(c)'
    BY <1>4, <1>5, <1>9
    DEF ConnectRefusedAtOnce, NotAttempted, Unstarted, Cleaned, Waits, workerVars, ClientMoves,
        InHand, Holding, Joining, ConnTypes
  <2>2. OneReport(Reports(c)', "Close")
    BY <1>6, <1>9, <2>1 DEF ConnectRefusedAtOnce, ItemTypes
  <2>3. OneReport(Reports(c), "Close")'
    BY <2>2 DEF OneReport
  <2>4. QED BY <1>3, <2>1, <2>3 DEF Attempt, FailedAtOnce
<1>10. CASE ConnectStarted(c)
  <2>1. UNCHANGED <<queue, mpc, mconn, item>>
    BY <1>10 DEF ConnectStarted, clientVars
  <2>2. Reports(c)' = {}
    BY <1>4, <1>5, <2>1, ReportsUnchanged DEF NotAttempted, InHand
  <2>3. ~closeQd'[c]
    BY <1>4, <1>5, <1>10
    DEF ConnectStarted, RegisterWorker, NotAttempted, Unstarted, Cleaned, WorkerTypes
  <2>4. ~Waits(c)' /\ ~HandedOver(c)'
    BY <1>5, <2>1 DEF Waits, HandedOver, Joining
  <2>5. WorkerReports(Reports(c), statusQd[c], closeQd[c])'
    BY <2>2 DEF WorkerReports
  <2>6. QED BY <1>3, <2>3, <2>4, <2>5 DEF Attempt, Started
<1>11. QED BY <1>7, <1>8, <1>9, <1>10

\* The status that follows the close of a Connect refused at once.
LEMMA ConnectStatusFollows ==
    ASSUME TypeInv, NEW c \in Conns, Attempt(c), ConnectStatus, mconn = c
    PROVE  Attempt(c)'
<1>1. /\ mpc = "connectStatus" /\ mpc' = "idle" /\ Enqueue(c, "StatusFail")
      /\ UNCHANGED <<delivered, connects, tree, connVars, workerVars>>
  BY DEF ConnectStatus, ClientMoves, auxVars
<1>2. FailedAtOnce(c) /\ OneReport(Reports(c), "Close") /\ Waits(c)
  BY <1>1 DEF Attempt, NotAttempted, FailedAtOnce, Started, Waits
<1>3. PICK r \in Reports(c) : Reports(c) = {r} /\ r.type = "Close"
  BY <1>2 DEF OneReport
<1> DEFINE s == [at |-> NextNumber(c), type |-> "StatusFail"]
<1>4. Reports(c)' = {r, s}
  <2>1. ~InHand(c) /\ ~InHand(c)' BY <1>1 DEF InHand, Holding, Joining
  <2>2. Reports(c)' = Reports(c) \cup {s}
    BY <1>1, <2>1, EnqueueAddsLast DEF TypeInv, ItemTypes
  <2>3. QED BY <1>3, <2>2
<1>5. r.at < s.at BY ReportsAreNumbered DEF TypeInv
<1>6. CloseThenFail(Reports(c)') BY <1>3, <1>4, <1>5 DEF CloseThenFail
<1>7. CloseThenFail(Reports(c))' BY <1>6 DEF CloseThenFail
<1>8. connects'[c] = 1 /\ Unstarted(c)' /\ ~Waits(c)'
  BY <1>1, <1>2, EngineAssumption
  DEF FailedAtOnce, Unstarted, Cleaned, Waits, connVars, workerVars, ConnectStatus,
      ClientMoves, Holding, Joining
<1>9. QED BY <1>7, <1>8 DEF Attempt, FailedAtOnce

\* Taking a report from the queue.
LEMMA PollKeepsAttempt ==
    ASSUME TypeInv, NEW c \in Conns, Attempt(c), Poll
    PROVE  Attempt(c)'
<1>1. /\ mpc = "idle" /\ queue # <<>> /\ mconn' = Head(queue).conn
      /\ mpc' \in {"dispatch", "deliver"} /\ (mpc' = "deliver" => item' # "Close")
      /\ UNCHANGED <<connects, tree, connVars, workerVars>>
  BY DEF Poll, auxVars
<1>2. SameOrder(Reports(c), Reports(c)') BY PollKeepsOrder DEF TypeInv
<1>3. mconn' = c => Reports(c) # {}
  <2>1. queue \in Seq(Items) BY DEF TypeInv, TypeOK, ReportTypes
  <2>2. Head(queue) = queue[1] /\ 1 \in DOMAIN queue BY <1>1, <2>1
  <2>3. mconn' = c => 1 \in PlacesOf(c) BY <1>1, <2>2 DEF PlacesOf
  <2>4. mconn' = c => QueuedReports(c) # {} BY <2>3 DEF QueuedReports
  <2>5. QED BY <2>4, ReportsByPlace
<1>4. Unstarted(c) => Unstarted(c)'
  BY <1>1 DEF Unstarted, Cleaned, Holding, connVars, workerVars
<1>5. ~Waits(c) /\ ~Waits(c)' /\ ~HandedOver(c)'
  BY <1>1 DEF Waits, HandedOver, Joining
<1>6. QED
  BY <1>1, <1>2, <1>3, <1>4, <1>5, AttemptStands DEF connVars, workerVars, localVars

\* Handing it to the owner.
LEMMA DeliverKeepsAttempt ==
    ASSUME TypeInv, NEW c \in Conns, Attempt(c), Deliver
    PROVE  Attempt(c)'
<1>1. /\ mpc = "deliver" /\ mpc' = "idle" /\ mconn' = NoConn /\ mconn' # c
      /\ UNCHANGED <<queue, connects, tree, connVars, workerVars>>
      /\ delivered' = [delivered EXCEPT ![mconn] = Append(@, item)]
  BY EngineAssumption DEF Deliver, ClientMoves
<1>2. Reports(c)' = Reports(c) \/ SameOrder(Reports(c), Reports(c)')
  <2>1. CASE mconn = c BY <2>1, DeliverKeepsOrder DEF TypeInv
  <2>2. CASE mconn # c
    <3>1. delivered'[c] = delivered[c]
      BY <1>1, <2>2 DEF TypeInv, TypeOK, ReportTypes
    <3>2. ~InHand(c) /\ ~InHand(c)' BY <1>1, <2>2 DEF InHand, Holding, Joining
    <3>3. QED BY <1>1, <3>1, <3>2, ReportsUnchanged
  <2>3. QED BY <2>1, <2>2
<1>3. Unstarted(c) => Unstarted(c)'
  BY <1>1 DEF Unstarted, Cleaned, connVars, workerVars
<1>4. ~Waits(c) /\ ~Waits(c)' /\ ~HandedOver(c)'
  BY <1>1 DEF Waits, HandedOver, Joining
<1>5. QED
  BY <1>1, <1>2, <1>3, <1>4, AttemptStands DEF connVars, workerVars, localVars

\* CleanupConnection resets the connection, then ends its worker.
LEMMA CleanupKeepsAttempt ==
    ASSUME TypeInv, NEW c \in Conns, Attempt(c),
           CleanupDetach \/ CleanupRequestExit \/ CleanupSignal \/ CleanupJoin
    PROVE  Attempt(c)'
<1>1. /\ mpc \in Joining \cup {"dispatch"} /\ mpc' \in Joining \cup {"deliver"}
      /\ UNCHANGED <<queue, delivered, connects, mconn, item, statusQd, closeQd>>
      /\ ConnTypes /\ WorkerTypes
  BY DEF CleanupDetach, CleanupRequestExit, CleanupSignal, CleanupJoin, ClientMoves, Joining,
         workerVars, localVars, auxVars, TypeInv, TypeOK
<1>2. Reports(c)' = Reports(c)
  BY <1>1, ReportsUnchanged DEF InHand, Holding
<1>3. /\ wpc'[c] = wpc[c] \/ wpc'[c] = "off"
      /\ Cleaned(c) => Cleaned(c)'
  BY <1>1 DEF CleanupDetach, CleanupRequestExit, CleanupSignal, CleanupJoin, WorkerMoves,
              workerVars, connVars, Cleaned, ConnTypes, WorkerTypes
<1>4. Unstarted(c) => Unstarted(c)'
  BY <1>1, <1>3 DEF Unstarted, Holding
<1>5. ~Waits(c) /\ ~Waits(c)'
  BY <1>1 DEF Waits, Joining
<1>6. HandedOver(c)' => Cleaned(c)' \/ HandedOver(c)
  <2>1. CASE CleanupDetach
    BY <1>1, <2>1 DEF CleanupDetach, HandedOver, Cleaned, ConnTypes, WorkerTypes
  <2>2. CASE ~CleanupDetach
    BY <1>1, <2>2 DEF HandedOver, CleanupRequestExit, CleanupSignal, CleanupJoin, Joining
  <2>3. QED BY <2>1, <2>2
<1>7. QED BY <1>1, <1>2, <1>3, <1>4, <1>5, <1>6, AttemptStands

\* The rest of Close, SendBuffer and the destructor reports nothing.
LEMMA OtherCallsKeepAttempt ==
    ASSUME TypeInv, NEW c \in Conns, Attempt(c),
           \/ \E d \in Conns : CloseBegin(d) \/ SendBegin(d) \/ StopRequestExit(d)
           \/ CloseMark \/ CloseShutdown \/ CloseSocketNow \/ SendPush \/ SendSignal
           \/ Shutdown \/ Drained \/ StopSignal \/ StopJoin \/ Destroy \/ Destroyed
    PROVE  Attempt(c)'
<1> USE DEF connVars, workerVars, localVars, auxVars, clientVars, vars, ClientMoves, WorkerMoves
<1>1. /\ mpc \notin Holding \cup {"connectStatus"} /\ mpc' \notin Holding \cup {"connectStatus"}
      /\ UNCHANGED <<queue, delivered, connects, statusQd, closeQd>>
      /\ ConnTypes /\ WorkerTypes
  BY DEF CloseBegin, SendBegin, StopRequestExit, CloseMark, CloseShutdown, CloseSocketNow,
         SendPush, SendSignal, Shutdown, Drained, StopSignal, StopJoin, Destroy, Destroyed,
         CutOff, Holding, Joining, TypeInv, TypeOK
<1>2. Reports(c)' = Reports(c)
  BY <1>1, ReportsUnchanged DEF InHand
<1>3. wpc'[c] = wpc[c] \/ wpc'[c] = "off"
  BY <1>1 DEF CloseBegin, SendBegin, StopRequestExit, CloseMark, CloseShutdown, CloseSocketNow,
         SendPush, SendSignal, Shutdown, Drained, StopSignal, StopJoin, Destroy, Destroyed,
         WorkerTypes
<1>4. Unstarted(c) => mconn # c /\ mconn' # c
  BY <1>1, EngineAssumption
  DEF CloseBegin, SendBegin, StopRequestExit, CloseMark, CloseShutdown, CloseSocketNow,
         SendPush, SendSignal, Shutdown, Drained, StopSignal, StopJoin, Destroy, Destroyed,
         Unstarted, Cleaned, Active
<1>5. Unstarted(c) => Unstarted(c)'
  <2> SUFFICES ASSUME Unstarted(c) PROVE Unstarted(c)'
    OBVIOUS
  <2>1. mconn # c /\ mconn' # c BY <1>4
  <2>2. /\ workerPtr'[c] = workerPtr[c] /\ state'[c] = state[c] /\ handle'[c] = handle[c]
        /\ sendQ'[c] = sendQ[c] /\ (c \in tree' <=> c \in tree)
    BY <1>1, <2>1 DEF CloseBegin, SendBegin, StopRequestExit, CloseMark, CloseShutdown,
         CloseSocketNow, SendPush, SendSignal, Shutdown, Drained, StopSignal, StopJoin, Destroy,
         Destroyed, ConnTypes
  <2>3. QED BY <1>3, <2>1, <2>2 DEF Unstarted, Cleaned
<1>6. ~Waits(c) /\ ~Waits(c)' /\ ~HandedOver(c)'
  BY <1>1 DEF Waits, HandedOver, Holding
<1>7. QED BY <1>1, <1>2, <1>3, <1>4, <1>5, <1>6, AttemptStands

\* A Connect on another connection.
LEMMA OtherConnectsKeepAttempt ==
    ASSUME TypeInv, NEW c \in Conns, Attempt(c), NEW d \in Conns, d # c,
           \/ ConnectRejected(d) \/ ConnectNoSocket(d) \/ ConnectRefusedAtOnce(d)
           \/ ConnectStarted(d)
    PROVE  Attempt(c)'
<1> USE DEF ConnectRejected, ConnectNoSocket, ConnectRefusedAtOnce, ConnectStarted, MayConnect,
            CountConnect, connVars, workerVars, localVars, clientVars, ClientMoves, WorkerMoves
<1>1. /\ mpc = "idle" /\ UNCHANGED delivered
      /\ \/ mpc' = "idle" /\ UNCHANGED <<mconn, item>>
         \/ mpc' = "connectStatus" /\ mconn' = d
      /\ ConnTypes /\ WorkerTypes
  <2>1. ConnTypes /\ WorkerTypes BY DEF TypeInv, TypeOK
  <2>2. CASE ConnectRejected(d) \/ ConnectNoSocket(d) \/ ConnectStarted(d) BY <2>1, <2>2
  <2>3. CASE ConnectRefusedAtOnce(d) BY <2>1, <2>3
  <2>4. QED BY <2>2, <2>3
<1>2. /\ connects'[c] = connects[c] /\ wpc'[c] = wpc[c] /\ workerPtr'[c] = workerPtr[c]
      /\ state'[c] = state[c] /\ handle'[c] = handle[c] /\ sendQ'[c] = sendQ[c]
      /\ statusQd'[c] = statusQd[c] /\ closeQd'[c] = closeQd[c]
      /\ c \in tree' <=> c \in tree
  BY <1>1 DEF RegisterWorker, ConnTypes, WorkerTypes
<1>3. ~InHand(c) /\ ~InHand(c)'
  BY <1>1 DEF InHand, Holding, Joining
<1>4. UNCHANGED queue \/ \E t \in ItemTypes : Enqueue(d, t)
  BY DEF ItemTypes
<1>5. Reports(c)' = Reports(c)
  <2>1. CASE UNCHANGED queue BY <1>1, <1>3, <2>1, ReportsUnchanged
  <2>2. ASSUME NEW t \in ItemTypes, Enqueue(d, t) PROVE Reports(c)' = Reports(c)
    BY <1>1, <1>3, <2>2, EnqueueAddsLast DEF TypeInv
  <2>3. QED BY <1>4, <2>1, <2>2
<1>6. Unstarted(c) /\ mconn # c => mconn' # c
  BY <1>1
<1>7. Unstarted(c) => Unstarted(c)'
  BY <1>1, <1>2 DEF Unstarted, Cleaned, Holding, Joining
<1>8. ~Waits(c) /\ ~Waits(c)' /\ ~HandedOver(c)'
  BY <1>1 DEF Waits, HandedOver, Joining
<1>9. mconn' = c => mconn = c BY <1>1
<1>10. QED BY <1>2, <1>5, <1>7, <1>8, <1>9, AttemptStands

\* The second report of a refused Connect, on another connection.
LEMMA OtherStatusKeepsAttempt ==
    ASSUME TypeInv, NEW c \in Conns, Attempt(c), ConnectStatus, mconn # c
    PROVE  Attempt(c)'
<1>1. /\ mpc = "connectStatus" /\ mpc' = "idle" /\ mconn' = NoConn /\ mconn' # c
      /\ Enqueue(mconn, "StatusFail") /\ mconn \in Conns
      /\ UNCHANGED <<tree, connVars, workerVars, auxVars>>
  BY EngineAssumption DEF ConnectStatus, ClientMoves, TypeInv, ClientInv
<1>2. Reports(c)' = Reports(c)
  <2>1. ~InHand(c) /\ ~InHand(c)' BY <1>1 DEF InHand
  <2>2. UNCHANGED delivered BY <1>1 DEF auxVars
  <2>3. QED BY <1>1, <2>1, <2>2, EnqueueAddsLast DEF TypeInv, ItemTypes
<1>3. QED BY <1>1, <1>2, BystandersStand DEF connVars, workerVars, localVars, auxVars

\* The client thread keeps the attempts.
LEMMA ClientKeepsAttempts ==
    ASSUME TypeInv, AttemptInv, Client
    PROVE  AttemptInv'
<1>1. ItemInv' BY ClientKeepsItem DEF AttemptInv
<1>2. ASSUME NEW c \in Conns, connects'[c] <= 1 PROVE Attempt(c)'
  <2>1. CASE \/ ConnectRejected(c) \/ ConnectNoSocket(c) \/ ConnectRefusedAtOnce(c)
             \/ ConnectStarted(c)
    BY <1>2, <2>1, ConnectAttempts DEF AttemptInv
  <2>2. CASE connects'[c] = connects[c]
    <3>1. Attempt(c) BY <1>2, <2>2 DEF AttemptInv
    <3>2. ASSUME NEW d \in Conns,
                 \/ ConnectRejected(d) \/ ConnectNoSocket(d) \/ ConnectRefusedAtOnce(d)
                 \/ ConnectStarted(d)
          PROVE  Attempt(c)'
      BY <2>1, <3>1, <3>2, OtherConnectsKeepAttempt
    <3>3. CASE ConnectStatus
      BY <3>1, <3>3, ConnectStatusFollows, OtherStatusKeepsAttempt
    <3>4. QED
      BY <3>1, <3>2, <3>3, PollKeepsAttempt, DeliverKeepsAttempt, CleanupKeepsAttempt,
         OtherCallsKeepAttempt DEF Client
  <2>3. connects'[c] = connects[c]
        \/ ConnectRejected(c) \/ ConnectNoSocket(c) \/ ConnectRefusedAtOnce(c)
        \/ ConnectStarted(c)
    <3>1. connects \in [Conns -> Nat] BY DEF TypeInv, TypeOK, ConnTypes
    <3>2. ASSUME NEW d \in Conns, d # c,
                 \/ ConnectRejected(d) \/ ConnectNoSocket(d) \/ ConnectRefusedAtOnce(d)
                 \/ ConnectStarted(d)
          PROVE  connects'[c] = connects[c]
      BY <3>1, <3>2 DEF ConnectRejected, ConnectNoSocket, ConnectRefusedAtOnce, ConnectStarted,
                        CountConnect
    <3>3. CASE UNCHANGED connects BY <3>3
    <3>4. QED
      BY <3>2, <3>3
      DEF Client, CloseBegin, SendBegin, StopRequestExit, ConnectStatus, CloseMark,
          CloseShutdown, CloseSocketNow, SendPush, SendSignal, Poll, CleanupDetach,
          CleanupRequestExit, CleanupSignal, CleanupJoin, Deliver, Shutdown, Drained,
          StopSignal, StopJoin, Destroy, Destroyed, CutOff, vars, auxVars
  <2>4. QED BY <2>1, <2>2, <2>3
<1>3. QED BY <1>1, <1>2 DEF AttemptInv

\* Peers and stuttering leave everything the invariant reads alone.
LEMMA NothingElseTouchesAttempts ==
    ASSUME TypeInv, AttemptInv, (\E h \in Handles : Peer(h)) \/ UNCHANGED vars
    PROVE  AttemptInv'
<1>1. UNCHANGED <<queue, tree, connVars, workerVars, clientVars, auxVars>>
  BY DEF Peer, PeerAccepts, PeerRefuses, PeerSends, PeerCloses, SocketChanges, vars
<1> USE DEF connVars, workerVars, localVars, clientVars, auxVars
<1>2. ItemInv' BY <1>1 DEF AttemptInv, ItemInv
<1>3. ASSUME NEW c \in Conns, connects'[c] <= 1 PROVE Attempt(c)'
  <2>1. Attempt(c) BY <1>1, <1>3 DEF AttemptInv
  <2>2. Reports(c)' = Reports(c) BY <1>1, ReportsUnchanged DEF InHand
  <2>3. QED BY <1>1, <2>1, <2>2, BystandersStand
<1>4. QED BY <1>2, <1>3 DEF AttemptInv

\* Every step keeps the attempts.
LEMMA AttemptsInductive == TypeInv /\ AttemptInv /\ [Next]_vars => AttemptInv'
BY ClientKeepsAttempts, WorkerKeepsAttempts, NothingElseTouchesAttempts DEF Next

\* One connection attempt is reported in order: at most one status and one
\* close, nothing after the close but the status of an attempt refused at
\* once (the statusQueued and closeQueued locals of WorkerThread::Run, the
\* two critical sections of Connect, in any interleaving with the client).
THEOREM AttemptsAreReportedInOrder == Spec => []ReportsInOrder
<1>1. TypeInv /\ AttemptInv => ReportsInOrder
  <2> SUFFICES ASSUME TypeInv, AttemptInv, NEW c \in Conns, connects[c] <= 1,
                      NEW r \in Reports(c), NEW s \in Reports(c), r.at < s.at
               PROVE  /\ ~(r.type \in StatusTypes /\ s.type \in StatusTypes)
                      /\ r.type = "Close" => s.type = "StatusFail" /\ Reports(c) = {r, s}
    BY DEF ReportsInOrder
  <2>0. r.at \in Nat /\ s.at \in Nat /\ \A x \in Reports(c) : x.at \in Nat
    BY ReportsAreNumbered DEF Numbered, TypeInv
  <2>1. Attempt(c) BY DEF AttemptInv
  <2>2. CASE NotAttempted(c) BY <2>2 DEF NotAttempted
  <2>3. CASE FailedAtOnce(c)
    <3>1. ASSUME NEW t, OneReport(Reports(c), t) PROVE FALSE
      BY <2>0, <3>1 DEF OneReport
    <3>2. CASE CloseThenFail(Reports(c))
      <4>1. PICK x \in Reports(c), y \in Reports(c) :
               /\ Reports(c) = {x, y}
               /\ x.at < y.at /\ x.type = "Close" /\ y.type = "StatusFail"
        BY <3>2 DEF CloseThenFail
      <4>2. r = x /\ s = y BY <2>0, <4>1
      <4>3. QED BY <4>1, <4>2 DEF StatusTypes
    <3>3. QED BY <2>3, <3>1, <3>2 DEF FailedAtOnce
  <2>4. CASE Started(c)
    <3>1. WorkerReports(Reports(c), statusQd[c], closeQd[c]) BY <2>4 DEF Started
    <3>2. r # s /\ ~(s.at < r.at) BY <2>0
    <3>3. QED BY <3>1, <3>2 DEF WorkerReports
  <2>5. QED BY <2>1, <2>2, <2>3, <2>4 DEF Attempt
<1>2. QED BY TypeInit, TypesInductive, AttemptInit, AttemptsInductive, <1>1, PTL DEF Spec

\* When the close of a connection that was connected once is delivered, its
\* worker is joined and deleted, its socket and its queued sends are gone: the
\* callback may release the connection.
THEOREM ClosesAreQuiescent == Spec => []CloseIsQuiescent
<1>1. TypeInv /\ AttemptInv /\ WorkerOwnership => CloseIsQuiescent
  <2> SUFFICES ASSUME TypeInv, AttemptInv, WorkerOwnership,
                      mpc = "deliver", item = "Close", connects[mconn] = 1
               PROVE  wpc[mconn] = "off" /\ Cleaned(mconn)
    BY DEF CloseIsQuiescent, Cleaned
  <2>1. mconn \in Conns /\ HandedOver(mconn) /\ Attempt(mconn)
    BY DEF TypeInv, ClientInv, AttemptInv, HandedOver
  <2>2. Cleaned(mconn)
    BY <2>1 DEF Attempt, NotAttempted, FailedAtOnce, Started, Unstarted
  <2>3. wpc[mconn] = "off"
    BY <2>1, <2>2 DEF WorkerOwnership, Cleaned, Joining
  <2>4. QED BY <2>2, <2>3
<1>2. QED BY TypeInit, TypesInductive, AttemptInit, AttemptsInductive, WorkersAreOwned, <1>1, PTL
  DEF Spec

-----------------------------------------------------------------------------
(* What was queued and what send() took                                    *)

\* Every chunk queued on c was taken by send(), or is in its worker's hand or
\* in the send queue.
Balanced(c) == pushed[c] = written[c] + Chunks * sendQ[c] + current[c]

\* A first attempt loses nothing as long as its worker is at work: it starts
\* from nothing, and the cleanup that drops what is queued comes when the
\* worker is over.
BalanceInv ==
    \A c \in Conns :
        /\ connects[c] = 0 => pushed[c] = 0 /\ written[c] = 0
        /\ connects[c] = 1 /\ wpc[c] \notin Over => Balanced(c)

\* One send more or less is Chunks chunks more or less.
LEMMA OneMoreSend ==
    ASSUME NEW n \in Nat
    PROVE  Chunks * n \in Nat /\ Chunks * (n + 1) = Chunks * n + Chunks
BY EngineAssumption

LEMMA BalanceInit == Init => BalanceInv
BY DEF Init, BalanceInv

\* A step keeps what it leaves alone.
LEMMA BalanceStands ==
    ASSUME BalanceInv, NEW c \in Conns, connects'[c] = connects[c],
           UNCHANGED <<pushed[c], written[c], sendQ[c], current[c]>>,
           wpc'[c] \notin Over => wpc[c] \notin Over
    PROVE  /\ connects'[c] = 0 => pushed'[c] = 0 /\ written'[c] = 0
           /\ connects'[c] = 1 /\ wpc'[c] \notin Over => Balanced(c)'
BY DEF BalanceInv, Balanced

\* A worker takes a send in hand, or hands some chunks of it to the socket.
LEMMA WorkerKeepsBalance ==
    ASSUME TypeInv, AttemptInv, BalanceInv, NEW d \in Conns, Worker(d)
    PROVE  BalanceInv'
<1> USE DEF WorkerMoves
<1>1. ConnTypes /\ WorkerTypes /\ HistoryTypes BY DEF TypeInv, TypeOK
<1>2. UNCHANGED <<connects, pushed>>
  BY DEF Worker, WorkerTop, WorkerHalfClose, WorkerSelect, WorkerFailState, WorkerFailStatus,
         WorkerQueueClose, Receive, ReceivePacket, ReceiveCorrupt, ReceiveEnd, ReceiveWouldBlock,
         WorkerHardClose, WorkerEndSocket, WorkerEndState, WriteConnect, WorkerConnected,
         WriteSend, WorkerDrain, WorkerParked, WorkerLeave, auxVars, CutOff
<1>3. connects[d] # 0
  BY WorkerReportsByItsFlags, <1>1 DEF AttemptInv, Attempt, NotAttempted, FailedAtOnce, Started,
     Unstarted, ConnTypes
<1>4. wpc[d] \in Over => wpc'[d] \in Over BY WorkerReportsByItsFlags
<1>5. \A c \in Conns \ {d} : UNCHANGED <<written[c], sendQ[c], current[c], wpc[c]>>
  BY <1>1
  DEF Worker, WorkerTop, WorkerHalfClose, WorkerSelect, WorkerFailState, WorkerFailStatus,
      WorkerQueueClose, Receive, ReceivePacket, ReceiveCorrupt, ReceiveEnd, ReceiveWouldBlock,
      WorkerHardClose, WorkerEndSocket, WorkerEndState, WriteConnect, WorkerConnected,
      WriteSend, WorkerDrain, WorkerParked, WorkerLeave, auxVars, CutOff, connVars, workerVars,
      localVars, ConnTypes, WorkerTypes, HistoryTypes
<1>6. CASE Balanced(d) => Balanced(d)'
  BY <1>2, <1>3, <1>4, <1>5, <1>6, BalanceStands DEF BalanceInv
<1>7. CASE UNCHANGED <<written, sendQ, current>>
  BY <1>2, <1>6, <1>7 DEF Balanced
<1>8. CASE WorkerTop(d)
  <2>1. CASE UNCHANGED <<sendQ, current>> BY <1>7, <1>8, <2>1 DEF WorkerTop, auxVars
  <2>2. CASE /\ current[d] = 0 /\ sendQ[d] > 0
             /\ sendQ' = [sendQ EXCEPT ![d] = @ - 1]
             /\ current' = [current EXCEPT ![d] = Chunks]
    <3>1. sendQ'[d] \in Nat /\ sendQ[d] = sendQ'[d] + 1 /\ current'[d] = Chunks
      BY <1>1, <2>2 DEF ConnTypes, WorkerTypes
    <3>2. Chunks * sendQ[d] = Chunks * sendQ'[d] + Chunks /\ Chunks * sendQ'[d] \in Nat
      BY <3>1, OneMoreSend
    <3>3. written'[d] = written[d] /\ written[d] \in Nat
      BY <1>1, <1>8 DEF WorkerTop, auxVars, HistoryTypes
    <3>4. QED BY <1>2, <1>6, <2>2, <3>1, <3>2, <3>3, EngineAssumption DEF Balanced
  <2>3. QED BY <1>8, <2>1, <2>2 DEF WorkerTop
<1>9. CASE WriteSend(d)
  <2>1. PICK n \in 0 .. Chunks :
           /\ n <= current[d]
           /\ current' = [current EXCEPT ![d] = @ - n]
           /\ written' = [written EXCEPT ![d] = @ + n]
    BY <1>9 DEF WriteSend
  <2>2. /\ n \in Nat /\ current[d] \in Nat /\ written[d] \in Nat
        /\ current'[d] = current[d] - n /\ written'[d] = written[d] + n
    BY <1>1, <2>1, EngineAssumption DEF WorkerTypes, HistoryTypes
  <2>3. sendQ' = sendQ /\ Chunks * sendQ[d] \in Nat
    BY <1>1, <1>9, OneMoreSend DEF WriteSend, connVars, ConnTypes
  <2>4. QED BY <1>2, <1>6, <2>2, <2>3 DEF Balanced
<1>10. QED
  BY <1>7, <1>8, <1>9
  DEF Worker, WorkerHalfClose, WorkerSelect, WorkerFailState, WorkerFailStatus,
      WorkerQueueClose, Receive, ReceivePacket, ReceiveCorrupt, ReceiveEnd, ReceiveWouldBlock,
      WorkerHardClose, WorkerEndSocket, WorkerEndState, WriteConnect, WorkerConnected,
      WorkerDrain, WorkerParked, WorkerLeave, auxVars, CutOff, connVars, workerVars, localVars

\* SendBuffer adds a send; a first Connect starts from nothing; the cleanup
\* finds the worker over.
LEMMA ClientKeepsBalance ==
    ASSUME TypeInv, AttemptInv, BalanceInv, Client
    PROVE  BalanceInv'
<1> USE DEF ClientMoves, WorkerMoves
<1>1. /\ ConnTypes /\ WorkerTypes /\ HistoryTypes
      /\ mpc \notin {"idle", "stopNext", "destroyed"} => mconn \in Conns
  BY DEF TypeInv, TypeOK, ClientInv
<1>2. CASE SendPush
  <2>1. /\ mpc = "sendPush" /\ mconn \in Conns
        /\ sendQ' = [sendQ EXCEPT ![mconn] = @ + 1]
        /\ pushed' = [pushed EXCEPT ![mconn] = @ + Chunks]
        /\ UNCHANGED <<wpc, current, written, connects, mconn>>
    BY <1>1, <1>2 DEF SendPush, workerVars, localVars
  <2>2. \A c \in Conns \ {mconn} : sendQ'[c] = sendQ[c] /\ pushed'[c] = pushed[c]
    BY <1>1, <2>1 DEF ConnTypes, HistoryTypes
  <2>3. connects[mconn] # 0
    BY <2>1 DEF AttemptInv, Attempt, NotAttempted, FailedAtOnce, Started
  <2>4. Balanced(mconn) => Balanced(mconn)'
    <3>1. sendQ'[mconn] = sendQ[mconn] + 1 /\ pushed'[mconn] = pushed[mconn] + Chunks
      BY <1>1, <2>1 DEF ConnTypes, HistoryTypes
    <3>2. /\ sendQ[mconn] \in Nat /\ current[mconn] \in Nat /\ written[mconn] \in Nat
          /\ pushed[mconn] \in Nat
      BY <1>1, <2>1 DEF ConnTypes, HistoryTypes, WorkerTypes
    <3>3. Chunks * (sendQ[mconn] + 1) = Chunks * sendQ[mconn] + Chunks
          /\ Chunks * sendQ[mconn] \in Nat
      BY <3>2, OneMoreSend
    <3>4. QED BY <2>1, <3>1, <3>2, <3>3, EngineAssumption DEF Balanced
  <2>5. QED BY <2>1, <2>2, <2>3, <2>4, BalanceStands DEF BalanceInv
<1>3. CASE CleanupDetach
  <2>1. /\ mpc = "dispatch" /\ item = "Close" /\ mconn \in Conns
        /\ sendQ' = [sendQ EXCEPT ![mconn] = 0]
        /\ UNCHANGED <<wpc, current, written, pushed, connects>>
    BY <1>1, <1>3 DEF CleanupDetach, workerVars, localVars, auxVars, AttemptInv, ItemInv
  <2>2. \A c \in Conns \ {mconn} : sendQ'[c] = sendQ[c] BY <1>1, <2>1 DEF ConnTypes
  <2>3. connects[mconn] = 1 => wpc[mconn] \in Over
    <3>1. [at |-> Len(delivered[mconn]) + 1, type |-> item] \in Reports(mconn)
      BY <2>1 DEF Reports
    <3>2. Started(mconn) => closeQd[mconn]
      BY <2>1, <3>1 DEF Started, WorkerReports
    <3>3. connects[mconn] = 1 => FailedAtOnce(mconn) \/ Started(mconn)
      BY <2>1 DEF AttemptInv, Attempt, NotAttempted
    <3>4. QED BY <3>2, <3>3 DEF FailedAtOnce, Unstarted, Started, Over
  <2>4. QED BY <2>1, <2>2, <2>3, BalanceStands DEF BalanceInv
<1>4. CASE \E c \in Conns : ConnectStarted(c)
  <2>1. PICK d \in Conns : ConnectStarted(d) BY <1>4
  <2>2. /\ connects' = [connects EXCEPT ![d] = @ + 1]
        /\ UNCHANGED <<sendQ, pushed, written>>
        /\ RegisterWorker(d)
    BY <2>1 DEF ConnectStarted, CountConnect
  <2>3. \A c \in Conns \ {d} : UNCHANGED <<connects[c], current[c], wpc[c]>>
    BY <1>1, <2>2 DEF RegisterWorker, workerVars, localVars, ConnTypes, WorkerTypes
  <2>4. connects'[d] = connects[d] + 1 /\ connects[d] \in Nat
    BY <1>1, <2>2 DEF ConnTypes
  <2>5. ASSUME connects[d] = 0 PROVE Balanced(d)'
    <3>1. d \notin tree /\ sendQ[d] = 0
      BY <2>5 DEF AttemptInv, Attempt, NotAttempted, FailedAtOnce, Started, Unstarted, Cleaned
    <3>2. current'[d] = 0
      BY <1>1, <2>2, <3>1 DEF RegisterWorker, WorkerTypes
    <3>3. pushed[d] = 0 /\ written[d] = 0 BY <2>5 DEF BalanceInv
    <3>4. Chunks * 0 = 0 BY EngineAssumption
    <3>5. QED BY <2>2, <3>1, <3>2, <3>3, <3>4 DEF Balanced
  <2>6. QED BY <2>2, <2>3, <2>4, <2>5, BalanceStands DEF BalanceInv
<1>5. CASE \E c \in Conns :
              ConnectRejected(c) \/ ConnectNoSocket(c) \/ ConnectRefusedAtOnce(c)
  <2>1. PICK d \in Conns :
           ConnectRejected(d) \/ ConnectNoSocket(d) \/ ConnectRefusedAtOnce(d)
    BY <1>5
  <2>2. /\ connects' = [connects EXCEPT ![d] = @ + 1]
        /\ UNCHANGED <<sendQ, pushed, written, wpc, current>>
    BY <2>1 DEF ConnectRejected, ConnectNoSocket, ConnectRefusedAtOnce, CountConnect, connVars,
                workerVars, localVars
  <2>3. \A c \in Conns \ {d} : connects'[c] = connects[c] BY <1>1, <2>2 DEF ConnTypes
  <2>4. connects'[d] = connects[d] + 1 /\ connects[d] \in Nat BY <1>1, <2>2 DEF ConnTypes
  <2>5. connects[d] = 0 => wpc[d] \in Over
    BY DEF AttemptInv, Attempt, NotAttempted, FailedAtOnce, Started, Unstarted, Over
  <2>6. QED BY <2>2, <2>3, <2>4, <2>5, BalanceStands DEF BalanceInv
<1>6. CASE UNCHANGED <<sendQ, current, written, pushed, connects>>
           /\ (wpc' = wpc \/ wpc' = [wpc EXCEPT ![mconn] = "off"])
  <2>1. \A c \in Conns : wpc'[c] \notin Over => wpc[c] \notin Over
    BY <1>1, <1>6 DEF WorkerTypes, Over
  <2>2. QED BY <1>6, <2>1, BalanceStands DEF BalanceInv
<1>7. QED
  BY <1>2, <1>3, <1>4, <1>5, <1>6
  DEF Client, CloseBegin, SendBegin, StopRequestExit, ConnectStatus, CloseMark, CloseShutdown,
      CloseSocketNow, SendSignal, Poll, CleanupRequestExit, CleanupSignal, CleanupJoin, Deliver,
      Shutdown, Drained, StopSignal, StopJoin, Destroy, Destroyed, CutOff, vars, auxVars,
      connVars, workerVars, localVars

\* Every step keeps BalanceInv.
LEMMA BalanceInductive == TypeInv /\ AttemptInv /\ BalanceInv /\ [Next]_vars => BalanceInv'
<1> SUFFICES ASSUME TypeInv, AttemptInv, BalanceInv, [Next]_vars PROVE BalanceInv'
  OBVIOUS
<1>1. CASE Client BY <1>1, ClientKeepsBalance
<1>2. CASE \E c \in Conns : Worker(c) BY <1>2, WorkerKeepsBalance
<1>3. CASE (\E h \in Handles : Peer(h)) \/ UNCHANGED vars
  BY <1>3 DEF Peer, PeerAccepts, PeerRefuses, PeerSends, PeerCloses, SocketChanges, vars,
              connVars, workerVars, localVars, auxVars, BalanceInv, Balanced
<1>4. QED BY <1>1, <1>2, <1>3 DEF Next

\* The half-close a worker issues finds nothing queued and nothing in hand,
\* however the client's SendBuffer interleaves with the worker's look at the
\* queue (issueDeferredShutdownIfClosing after PopSendBuffer found nothing),
\* and on a connection that was connected once send() has then taken every
\* chunk that was ever queued.
THEOREM DeferredHalfCloseComesLast == Spec => DeferredHalfCloseIsLast
<1>1. TypeInv /\ FlagInv /\ AttemptInv /\ BalanceInv /\ [Next]_vars
      => [\A c \in Conns :
             WorkerHalfClose(c) /\ sock' # sock =>
                 /\ current[c] = 0
                 /\ sendQ[c] = 0
                 /\ connects[c] <= 1 => written[c] = pushed[c]]_vars
  <2> SUFFICES ASSUME TypeInv, FlagInv, AttemptInv, BalanceInv,
                      NEW c \in Conns, WorkerHalfClose(c), sock' # sock
               PROVE  /\ current[c] = 0
                      /\ sendQ[c] = 0
                      /\ connects[c] <= 1 => written[c] = pushed[c]
    OBVIOUS
  <2>1. wpc[c] = "halfClose" /\ current[c] = 0 /\ sendQ[c] = 0
    BY DEF FlagInv, WorkerHalfClose
  <2>2. ASSUME connects[c] <= 1 PROVE written[c] = pushed[c]
    <3>1. connects[c] = 1
      BY <2>1, <2>2 DEF AttemptInv, Attempt, NotAttempted, FailedAtOnce, Started, Unstarted
    <3>2. Balanced(c) BY <2>1, <3>1 DEF BalanceInv, Over
    <3>3. Chunks * 0 = 0 /\ written[c] \in Nat
      BY EngineAssumption DEF TypeInv, TypeOK, HistoryTypes
    <3>4. QED BY <2>1, <3>2, <3>3 DEF Balanced
  <2>3. QED BY <2>1, <2>2
<1>2. QED
  BY TypeInit, TypesInductive, FlagInit, FlagInductive, AttemptInit, AttemptsInductive,
     BalanceInit, BalanceInductive, <1>1, PTL
  DEF Spec, DeferredHalfCloseIsLast

=============================================================================
