---------------------------- MODULE MCTcpEngine ----------------------------
(* Small instances of TcpEngine for TLC. *)
EXTENDS TcpEngine, TLC

ConnSymmetry == Permutations(Conns) \cup Permutations(Handles)

\* The histories guard no action, and the properties read them of a
\* connection that was connected once: states that differ in the rest are one.
Told == [c \in {d \in Conns : connects[d] <= 1} |-> <<delivered[c], pushed[c], written[c]>>]

OfFirstAttempts == <<queue, tree, connVars, workerVars, clientVars, sock, connects, sends, Told>>

\* OwnSocketOnly reads of the histories only who was cut off, and no guard
\* tells two work items apart of which neither is a close.
Closes == [i \in DOMAIN queue |-> <<queue[i].conn, queue[i].type = "Close">>]

Undelivered ==
    <<Closes, tree, connVars, workerVars, mpc, mconn, closing, sock, connects, sends, cut>>

=============================================================================
