------------------------------- MODULE Handshake -------------------------------
(***************************************************************************)
(* A login and the sessions it opens: the login dialogue, the margin       *)
(* connection, and the login states that drive both.                       *)
(*                                                                         *)
(* State 2 runs the dialogue (AuthBootstrap), for the client or for state  *)
(* 5, which needs a copy that has not expired.  State 5 sends the copy     *)
(* (MarginSession) and waits for the verdict.  The states that wait for    *)
(* neither are one, "rest"; LoginMediator tells them apart.                *)
(***************************************************************************)
EXTENDS AuthBootstrap, MarginSession

CONSTANTS
    MaxFaults   \* bound: losses, refusals, damaged packets, and what the user does meanwhile

ASSUME HandshakeAssumption == MaxFaults \in Nat

VARIABLES
    state,      \* currentState_: 2 is "login", 5 is "copy"; "crashed"
    sender,     \* state 5 is the sender state 2 has cached
    link,       \* the authentication connection: "none", "up"; "dead" when its socket is closed
    flag2c,     \* a close of it is expected: authConnectionFlag2c_
    flag2d,     \* marginConnectionFlag2d_
    expired,    \* copies up to this one are stale
    crossed,    \* history: a login was started before the last one was answered
    faults

mediatorVars == <<state, sender, flag2d>>
linkVars == <<link, flag2c, crossed>>
vars == <<authVars, marginVars, mediatorVars, linkVars, expired, faults>>

\* The state of the mediator and of both dialogues has its type.
HandshakeTypeOK ==
    /\ BootstrapTypeOK
    /\ MarginTypeOK
    /\ state \in {"rest", "login", "copy", "crashed"}
    /\ sender \in BOOLEAN
    /\ link \in {"none", "up", "dead"}
    /\ flag2c \in BOOLEAN
    /\ flag2d \in BOOLEAN
    /\ expired \in Nat
    /\ crossed \in BOOLEAN
    /\ faults \in 0..MaxFaults

Init ==
    /\ BootstrapInit
    /\ MarginInit
    /\ state = "rest"
    /\ sender = FALSE
    /\ link = "none"
    /\ flag2c = FALSE
    /\ flag2d = FALSE
    /\ expired = 0
    /\ crossed = FALSE
    /\ faults = 0

-----------------------------------------------------------------------------
(* The login states                                                        *)

LoginIsOpen == child.out # <<>> \/ replies # <<>> \/ server.phase = "answer"

\* State 2.  Without a connection that is ready, state 1 makes one and comes back.
Login(fromState5) ==
    /\ state' = "login"
    /\ sender' = fromState5
    /\ link' = "up"
    /\ crossed' = (crossed \/ (link = "up" /\ LoginIsOpen))
    /\ IF link = "up"
       THEN /\ child' = PrepareAndDispatch(Result(child, "none"))
            /\ UNCHANGED <<replies, server, flag2c>>
       ELSE /\ child' = PrepareAndDispatch([Result(child, "none") EXCEPT !.out = <<>>])
            /\ flag2c' = FALSE
            /\ replies' = <<>>
            /\ server' = [server EXCEPT !.phase = "request"]

\* State5ReplyCopyShadowMissingOrStale
Stale == child.shadow = None \/ child.shadow <= expired

\* State 5, with the copy of child c and the margin connection g.
\* PrepareState5MarginConnectionCopySend does not look whether there is one.
SendsCopy(c, g) ==
    IF g.st = "none"
    THEN /\ state' = "crashed"
         /\ margin' = g
         /\ UNCHANGED marginServer
    ELSE /\ state' = "copy"
         /\ CopySent(g, c.shadow, IF c.private = None THEN 0 ELSE c.private)

Enter5(g) ==
    IF Stale
    THEN /\ Login(TRUE)
         /\ margin' = g
         /\ UNCHANGED marginServer
    ELSE /\ SendsCopy(child, g)
         /\ UNCHANGED <<authVars, linkVars, sender>>

ProcessLogin ==
    /\ state = "rest"
    /\ child.seed < MaxLogins
    /\ Login(FALSE)
    /\ UNCHANGED <<marginVars, flag2d, expired, faults>>

\* State 4
OpenMargin ==
    /\ state = "rest"
    /\ child.shadow # None
    /\ MarginOpens
    /\ flag2d' = FALSE
    /\ UNCHANGED <<authVars, linkVars, state, sender, expired, faults>>

\* State 6 goes back to 5 as long as no copy was accepted.
EnterCopy ==
    /\ state = "rest"
    /\ child.seed < MaxLogins \/ ~Stale
    /\ margin.st = "up"
    /\ ~margin.ok4
    /\ Enter5(margin)
    /\ UNCHANGED <<inbound, flag2d, expired, faults>>

SendRequest ==
    /\ state = "rest"
    /\ faults < MaxFaults
    /\ faults' = faults + 1
    /\ Requested
    /\ UNCHANGED <<authVars, mediatorVars, linkVars, expired>>

\* RequestAuthCloseAndSwitchToState0
Cancel ==
    /\ state \in {"login", "copy"}
    /\ faults < MaxFaults
    /\ faults' = faults + 1
    /\ state' = "rest"
    /\ link' = "none"
    /\ flag2c' = TRUE
    /\ UNCHANGED <<authVars, marginVars, sender, flag2d, crossed, expired>>

\* AuthMessageDispatch.  Every end of the dialogue makes the server's closing
\* the connection an expected one.
AuthMessageDispatch(p) ==
    LET c == HandleInboundAuthMessage(child, p)
        waits == c.result \in {"continue", "unhandled"}
    IN  /\ child' = c
        /\ flag2c' = (flag2c \/ ~waits)
        /\ IF c.result = "success" /\ sender
           THEN SendsCopy(c, margin)
           ELSE /\ state' = IF waits THEN "login" ELSE "rest"
                /\ UNCHANGED <<margin, marginServer>>

\* An oversized packet makes the connection close its socket, in any state; what
\* came behind it is still delivered.  Only state 2 looks at messages.
DeliverAuth ==
    /\ link # "none"
    /\ replies # <<>>
    /\ replies' = Tail(replies)
    /\ LET p == Head(replies)
           oversized == p.defect = "oversized"
       IN  /\ link' = IF oversized THEN "dead" ELSE link
           /\ IF oversized \/ state # "login"
              THEN UNCHANGED <<child, margin, marginServer, state, flag2c>>
              ELSE AuthMessageDispatch(p)
    /\ UNCHANGED <<server, inbound, sender, flag2d, crossed, expired, faults>>

\* A verdict takes state 5 to state 6, and that to 5 again if it was a
\* refusal and the connection is up.
DeliverMargin ==
    /\ state # "crashed"
    /\ inbound # <<>>
    /\ inbound' = Tail(inbound)
    /\ LET p == Head(inbound)
           g == Received(margin, p)
           verdict == p.code = 4 /\ p.defect = "none" /\ Readable(margin, p) /\ state = "copy"
       IN  /\ flag2d' = (flag2d \/ (verdict /\ ~p.ok))
           /\ IF verdict /\ ~p.ok /\ g.st = "up"
              THEN Enter5(g)
              ELSE /\ margin' = g
                   /\ state' = IF verdict THEN "rest" ELSE state
                   /\ UNCHANGED <<marginServer, authVars, linkVars, sender>>
    /\ UNCHANGED <<expired, faults>>

-----------------------------------------------------------------------------
(* The connections, and time                                               *)

Fault == faults < MaxFaults /\ faults' = faults + 1

\* The mediator is told in every state; after an expected close the state stays.
AuthLost ==
    /\ state # "crashed"
    /\ link = "up"
    /\ Fault
    /\ link' = "none"
    /\ state' = IF flag2c THEN state ELSE "rest"
    /\ UNCHANGED <<authVars, marginVars, sender, flag2c, flag2d, crossed, expired>>

MarginEndsSilent ==
    /\ state # "crashed"
    /\ MarginCloses
    /\ UNCHANGED <<authVars, linkVars, state, sender, flag2d, expired>>

MarginEnds ==
    /\ state # "crashed"
    /\ MarginCloses
    /\ state' = IF flag2d THEN state ELSE "rest"
    /\ UNCHANGED <<authVars, linkVars, sender, flag2d, expired>>

MarginLost == margin.st = "up" /\ Fault /\ MarginEnds

CloseCompletes == margin.st = "closing" /\ MarginEnds /\ UNCHANGED faults

Expire ==
    /\ Fault
    /\ child.shadow # None
    /\ expired' = child.shadow
    /\ UNCHANGED <<authVars, marginVars, mediatorVars, linkVars>>

Rotate ==
    /\ Fault
    /\ Rotates
    /\ UNCHANGED <<marginVars, mediatorVars, linkVars, expired>>

\* Anything but the regular answer is a fault.
Spends(regular) == IF regular THEN UNCHANGED faults ELSE Fault

\* One thing is wrong with a packet at a time.
AuthServerStep ==
    /\ link = "up"
    /\ \E ok \in BOOLEAN, defect \in Defects :
        /\ ok \/ defect = "none"
        /\ Spends(ok /\ defect = "none")
        /\ \/ defect # "expired" /\ SendsKey(ok, defect)
           \/ ok /\ defect \notin {"damaged", "expired"} /\ Challenges(defect)
           \/ Replies(ok, defect)
    /\ UNCHANGED <<marginVars, mediatorVars, linkVars, expired>>

MarginServerStep ==
    /\ margin.st = "up"
    /\ \/ /\ UNCHANGED faults
          /\ MarginChallenges("none") \/ Verdict(TRUE, "none") \/ Serves("none") \/ Drops
       \/ /\ Fault
          /\ \/ MarginChallenges("oversized")
             \/ ChallengesEmpty
             \/ \E defect \in MarginDefects : Refuses(defect) \/ Verdict(FALSE, defect)
             \/ \E defect \in MarginDefects \ {"none"} : Verdict(TRUE, defect)
             \/ Serves("oversized")
    /\ UNCHANGED <<authVars, mediatorVars, linkVars, expired>>

\* The answer is not under its last seed.
MarginServerRefuses ==
    /\ margin.st = "up"
    /\ margin.out # <<>>
    /\ Head(margin.out).key # marginServer.key
    /\ Verdict(FALSE, "none")
    /\ UNCHANGED <<authVars, mediatorVars, linkVars, expired, faults>>

ServerRekeys ==
    /\ margin.st = "up"
    /\ Fault
    /\ Rekeys("none")
    /\ UNCHANGED <<authVars, mediatorVars, linkVars, expired>>

-----------------------------------------------------------------------------
Client == ProcessLogin \/ OpenMargin \/ EnterCopy \/ SendRequest \/ Cancel
Deliver == DeliverAuth \/ DeliverMargin \/ CloseCompletes
Servers == AuthServerStep \/ MarginServerStep \/ MarginServerRefuses
Environment == AuthLost \/ MarginLost \/ Expire \/ Rotate \/ ServerRekeys

Next == Client \/ Deliver \/ Servers \/ Environment

Spec == Init /\ [][Next]_vars

\* The queue threads go on, and the servers answer.
Fairness ==
    /\ WF_vars(DeliverAuth)
    /\ WF_vars(DeliverMargin)
    /\ WF_vars(CloseCompletes)
    /\ WF_vars(AuthServerStep)
    /\ WF_vars(MarginServerStep \/ MarginServerRefuses)

FairSpec == Spec /\ Fairness

-----------------------------------------------------------------------------
(* Properties                                                              *)

\* The server is answered the challenge it has sent, with the key it was sent
\* under: a login draws a new one and starts both transforms over, which is
\* right only if no challenge is on its way.
AnswersFit ==
    ~crossed => \A i \in DOMAIN child.out : child.out[i].code = 10 => child.out[i].right

\* The private key the client keeps belongs to the copy it keeps, though it
\* is decrypted where the challenge has left the transform; and what a margin
\* server challenges is the copy whose key the connection has.
KeysFitTheCopy ==
    /\ ~crossed => child.private \in {child.shadow, None}
    /\ margin.st = "up" /\ ~margin.crossed =>
        \A i \in DOMAIN inbound : inbound[i].code = 2 => margin.prep \in {inbound[i].copy, 0}

\* A copy is sent to no connection only if a refused copy had made the
\* mediator expect the close of the connection.
NullOnlyAfterRefusal == state = "crashed" => flag2d

\* The situations no answer ends.  The server's key has the id of no key; an
\* earlier answer made the mediator expect the close it now waits through; verdicts
\* on earlier copies keep it sending another; the client has closed the socket
\* itself, which nobody is told of; the answer could not be parsed.
Hangs ==
    \/ state = "login" /\ child.ready /\ child.worker = None
    \/ state = "login" /\ link = "none" /\ flag2c
    \/ state = "login" /\ link = "dead"
    \/ state = "login" /\ child.result = "unhandled"
    \/ state = "copy" /\ margin.st = "none" /\ flag2d
    \/ state = "copy" /\ margin.crossed
    \/ state = "copy" /\ margin.st = "dead"
    \/ state = "copy" /\ margin.passed

\* A login is answered, and so is a copy: by the next state or an error.
EveryWaitEnds ==
    /\ state = "login" ~> state # "login" \/ Hangs
    /\ state = "copy" ~> state # "copy" \/ Hangs

=============================================================================
