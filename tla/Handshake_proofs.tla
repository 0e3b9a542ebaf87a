------------------------------ MODULE Handshake_proofs ------------------------------
(***************************************************************************)
(* The handshake is a margin session: what is proved of MarginSession holds*)
(* of it.  And the mediator sends a copy to a connection that is not there *)
(* only if a refused copy made it expect the close.                        *)
(***************************************************************************)
EXTENDS Handshake, MarginSession_proofs

-----------------------------------------------------------------------------
(* Types                                                                   *)

ChildTyped == /\ child \in Child
              /\ replies \in Seq(AuthReply)
              /\ server \in AuthServer

\* A packet the child sends is one.
LEMMA SendTyped ==
    ASSUME NEW b \in Child, NEW code \in {6, 8, 10}, NEW id \in Nat \cup {None}, NEW seed \in Nat,
           NEW right \in BOOLEAN
    PROVE  Send(b, code, id, seed, right) \in Child
<1> DEFINE e == [code |-> code, id |-> id, seed |-> seed, right |-> right]
<1>1. e \in AuthRequest /\ b.out \in Seq(AuthRequest)
  BY DEF AuthRequest, Child
<1> HIDE DEF e
<1>2. Append(b.out, e) \in Seq(AuthRequest)
  BY <1>1, AppendFacts
<1>3. Send(b, code, id, seed, right) = [b EXCEPT !.out = Append(b.out, e)]
  BY DEF Send, e
<1> QED
  BY <1>2, <1>3 DEF Child

\* A login request leaves a well-formed child, sent or not.
LEMMA AuthRequestTyped ==
    ASSUME NEW b \in Child
    PROVE  SendAuthRequest(b) \in Child
<1> DEFINE f == [b EXCEPT !.seed = @ + 1, !.pos = 0]
<1>1. f \in Child /\ b.seed + 1 \in Nat /\ b.worker \in Nat \cup {None}
  <2>1. b.seed \in Nat /\ b.worker \in Nat \cup {None}
    BY DEF Child
  <2>2. b.seed + 1 \in Nat
    BY <2>1
  <2>3. f \in Child
    BY <2>2 DEF Child
  <2> QED
    BY <2>1, <2>2, <2>3
<1> HIDE DEF f
<1>2. Send(f, 8, b.worker, b.seed + 1, FALSE) \in Child
  BY <1>1, SendTyped
<1> QED
  BY <1>2 DEF SendAuthRequest, Reseeded, f

\* So does PrepareAndDispatch, whether it asks for a key or logs in.
LEMMA DispatchTyped ==
    ASSUME NEW b \in Child
    PROVE  PrepareAndDispatch(b) \in Child
<1>1. b.keyId \in Nat \cup {None}
  BY DEF Child
<1>2. SendGetPublicKeyRequest(b) \in Child
  BY <1>1, SendTyped DEF SendGetPublicKeyRequest
<1> QED
  BY <1>2, AuthRequestTyped DEF PrepareAndDispatch

\* The verdict on a message touches nothing else.
LEMMA ResultTyped ==
    ASSUME NEW b \in Child, NEW result \in Results
    PROVE  Result(b, result) \in Child
  BY DEF Result, Child

\* Whatever packet is handled, the child is one.
LEMMA InboundTyped ==
    ASSUME NEW b \in Child, NEW p \in AuthReply
    PROVE  HandleInboundAuthMessage(b, p) \in Child
<1>1. /\ p.code \in {7, 9, 11} /\ p.id \in Nat /\ p.copy \in Nat /\ p.defect \in Defects
      /\ b.seed \in Nat /\ b.pos \in Nat
  BY DEF AuthReply, Child
<1>2. KeyReplied(b, p) \in Child
  <2> DEFINE h == HandleGetPublicKeyReply(b, p)
  <2>1. h \in Child
    BY <1>1 DEF HandleGetPublicKeyReply, RebuildReplyPublicKeyWorkers, Signed, Child
  <2> HIDE DEF h
  <2>2. SendAuthRequest(h) \in Child
    BY <2>1, AuthRequestTyped
  <2>3. {"keyReplyError", "workerError", "continue"} \subseteq Results
    BY DEF Results
  <2> QED
    BY <2>1, <2>2, <2>3, ResultTyped DEF KeyReplied, h
<1>3. ChallengeIsAnswered(b, p) \in Child
  <2> DEFINE f == [b EXCEPT !.pos = @ + 1]
  <2>1. f \in Child
    BY <1>1 DEF Child
  <2>2. Decrypts(b, p) \in BOOLEAN
    BY DEF Decrypts
  <2> HIDE DEF f
  <2>3. Send(f, 10, None, b.seed, Decrypts(b, p)) \in Child
    BY <1>1, <2>1, <2>2, SendTyped
  <2> QED
    BY <2>3, ResultTyped DEF ChallengeIsAnswered, AuthChallengeResponse, Results, f
<1>4. AuthReplied(b, p) \in Child
  <2>1. Materialised(b, p) \in Child
    <3> DEFINE private == IF ~PrivateIsWhole(p) THEN None ELSE IF Decrypts(b, p) THEN p.copy ELSE 0
               pos == IF PrivateIsWhole(p) THEN b.pos + 6 ELSE b.pos
    <3>1. private \in Nat \cup {None} /\ pos \in Nat /\ p.copy \in Nat \cup {None}
      BY <1>1
    <3>2. Materialised(b, p) = [b EXCEPT !.shadow = p.copy, !.private = private, !.pos = pos]
      BY DEF Materialised
    <3> HIDE DEF private, pos
    <3>3. [b EXCEPT !.shadow = p.copy, !.private = private, !.pos = pos] \in Child
      BY <3>1 DEF Child
    <3> QED
      BY <3>2, <3>3
  <2>2. {"replyError", "validationError", "success"} \subseteq Results
    BY DEF Results
  <2> QED
    BY <2>1, <2>2, ResultTyped DEF AuthReplied
<1>5. Result(b, "unhandled") \in Child
  BY ResultTyped DEF Results
<1> QED
  BY <1>1, <1>2, <1>3, <1>4, <1>5 DEF HandleInboundAuthMessage

\* The child starts well-formed.
LEMMA InitTyped == Init => ChildTyped
<1> SUFFICES ASSUME Init
             PROVE  ChildTyped
  OBVIOUS
<1>1. BootstrapInit
  BY DEF Init
<1>2. child \in Child
  <2>1. <<>> \in Seq(AuthRequest)
    OBVIOUS
  <2> QED
    BY <1>1, <2>1 DEF BootstrapInit, Child, Results
<1>3. server \in AuthServer
  BY <1>1 DEF BootstrapInit, AuthServer
<1> QED
  BY <1>1, <1>2, <1>3 DEF BootstrapInit, ChildTyped

\* A login starts from a child with an empty or a full queue.
LEMMA LoginTyped ==
    ASSUME ChildTyped, NEW from5, Login(from5)
    PROVE  ChildTyped'
<1> DEFINE r == Result(child, "none")
<1>3. r \in Child
  BY ResultTyped DEF ChildTyped, Results
<1>1. CASE link = "up"
  BY <1>1, <1>3, DispatchTyped DEF Login, ChildTyped
<1>2. CASE link # "up"
  <2>1. [r EXCEPT !.out = <<>>] \in Child
    <3>1. <<>> \in Seq(AuthRequest)
      OBVIOUS
    <3> HIDE DEF r
    <3> QED
      BY <1>3, <3>1 DEF Child
  <2>2. child' \in Child
    BY <1>2, <2>1, DispatchTyped DEF Login
  <2>3. server' \in AuthServer /\ replies' = <<>>
    BY <1>2 DEF Login, ChildTyped, AuthServer
  <2> QED
    BY <2>2, <2>3 DEF ChildTyped
<1> QED
  BY <1>1, <1>2

\* State 5 logs in again if the copy is stale; else it leaves the child alone.
LEMMA Enter5Typed ==
    ASSUME ChildTyped, NEW g, Enter5(g)
    PROVE  ChildTyped'
<1>1. CASE Stale
  BY <1>1, LoginTyped DEF Enter5
<1>2. CASE ~Stale
  BY <1>2 DEF Enter5, authVars, ChildTyped
<1> QED
  BY <1>1, <1>2

\* Every message of the authentication server leaves a well-formed child.
LEMMA DeliverAuthTyped ==
    ASSUME ChildTyped, DeliverAuth
    PROVE  ChildTyped'
<1>1. replies # <<>> /\ replies' = Tail(replies) /\ server' = server
  BY DEF DeliverAuth
<1>2. Head(replies) \in AuthReply /\ Tail(replies) \in Seq(AuthReply)
  BY <1>1, TailFacts DEF ChildTyped
<1>3. child' = child \/ child' = HandleInboundAuthMessage(child, Head(replies))
  BY DEF DeliverAuth, AuthMessageDispatch
<1>4. child' \in Child
  BY <1>2, <1>3, InboundTyped DEF ChildTyped
<1> QED
  BY <1>1, <1>2, <1>4 DEF ChildTyped

\* The authentication server keeps the types, too.
LEMMA AuthServerTyped ==
    ASSUME ChildTyped, AuthServerStep
    PROVE  ChildTyped'
<1>1. PICK ok \in BOOLEAN, defect \in Defects :
          SendsKey(ok, defect) \/ Challenges(defect) \/ Replies(ok, defect)
  BY DEF AuthServerStep
<1>2. child \in Child /\ replies \in Seq(AuthReply) /\ server \in AuthServer
  BY DEF ChildTyped
<1>3. /\ server.key \in Nat /\ server.seed \in Nat /\ server.pos \in Nat
      /\ server.copies \in Nat /\ server.copies + 1 \in Nat
  <2>1. /\ server.key \in KeyIds /\ server.seed \in Nat /\ server.pos \in Nat
        /\ server.copies \in Nat
    BY <1>2 DEF AuthServer
  <2>2. KeyIds \subseteq Nat
    BY BootstrapAssumption
  <2>3. server.key \in Nat
    BY <2>1, <2>2
  <2>4. server.copies + 1 \in Nat
    BY <2>1
  <2> QED
    BY <2>1, <2>3, <2>4
<1>4. ASSUME NEW code \in {7, 9, 11}, NEW o \in BOOLEAN, NEW pos \in Nat, NEW d \in Defects
      PROVE  Answer(code, o, pos, d) \in AuthReply
  BY <1>3 DEF Answer, AuthReply
<1>5. ASSUME NEW e \in AuthReply
      PROVE  Append(replies, e) \in Seq(AuthReply)
  BY <1>2, <1>5, AppendFacts
<1>6. ASSUME child.out # <<>>
      PROVE  Head(child.out) \in AuthRequest /\ [child EXCEPT !.out = Tail(@)] \in Child
  <2>1. child.out \in Seq(AuthRequest)
    BY <1>2 DEF Child
  <2>2. Head(child.out) \in AuthRequest /\ Tail(child.out) \in Seq(AuthRequest)
    BY <1>6, <2>1, TailFacts
  <2> QED
    BY <1>2, <2>2 DEF Child
<1>7. CASE SendsKey(ok, defect)
  <2>1. child' \in Child
    BY <1>6, <1>7 DEF SendsKey, ServerStep
  <2>2. replies' = Append(replies, Answer(7, ok, 0, defect)) /\ server' = server
    BY <1>7 DEF SendsKey
  <2> QED
    BY <1>2, <1>4, <1>5, <2>1, <2>2 DEF ChildTyped
<1>8. CASE Challenges(defect)
  <2> DEFINE p == Head(child.out)
  <2>1. child' \in Child /\ p \in AuthRequest
    BY <1>6, <1>8 DEF Challenges, ServerStep
  <2>2. p.seed \in Nat
    BY <2>1 DEF AuthRequest
  <2>3. CASE p.id = server.key
    <3>1. /\ server' = [server EXCEPT !.phase = "answer", !.seed = p.seed, !.pos = 1]
          /\ replies' = Append(replies, [Answer(9, TRUE, 0, defect) EXCEPT !.seed = p.seed])
      BY <1>8, <2>3 DEF Challenges
    <3> HIDE DEF p
    <3>2. [Answer(9, TRUE, 0, defect) EXCEPT !.seed = p.seed] \in AuthReply
      <4> DEFINE a == Answer(9, TRUE, 0, defect)
      <4>1. a \in AuthReply
        BY <1>4
      <4> HIDE DEF a
      <4>2. [a EXCEPT !.seed = p.seed] \in AuthReply
        BY <2>2, <4>1 DEF AuthReply
      <4> QED
        BY <4>2 DEF a
    <3>3. server' \in AuthServer
      BY <1>2, <2>2, <3>1 DEF AuthServer
    <3> QED
      BY <1>5, <2>1, <3>1, <3>2, <3>3 DEF ChildTyped
  <2>4. CASE p.id # server.key
    <3>1. /\ server' = [server EXCEPT !.phase = "request"]
          /\ replies' = Append(replies, Answer(11, FALSE, 0, defect))
      BY <1>8, <2>4 DEF Challenges
    <3>2. server' \in AuthServer
      BY <1>2, <3>1 DEF AuthServer
    <3> QED
      BY <1>4, <1>5, <2>1, <3>1, <3>2 DEF ChildTyped
  <2> QED
    BY <2>3, <2>4
<1>9. CASE Replies(ok, defect)
  <2> DEFINE p == Head(child.out)
             right == ok /\ p.right /\ p.seed = server.seed
  <2>1. child' \in Child /\ p \in AuthRequest
    BY <1>6, <1>9 DEF Replies, ServerStep
  <2>2. p.right \in BOOLEAN
    BY <2>1 DEF AuthRequest
  <2>3. right \in BOOLEAN
    BY <2>2
  <2>4. CASE server.phase = "answer"
    <3>1. /\ server' = [server EXCEPT !.phase = "request",
                                      !.copies = @ + (IF right THEN 1 ELSE 0)]
          /\ replies' = Append(replies, Answer(11, right, server.pos, defect))
      BY <1>9, <2>4 DEF Replies
    <3> HIDE DEF p, right
    <3>2. server.copies + (IF right THEN 1 ELSE 0) \in Nat
      BY <1>3, <2>3
    <3>3. server' \in AuthServer
      BY <1>2, <3>1, <3>2 DEF AuthServer
    <3>4. Answer(11, right, server.pos, defect) \in AuthReply
      BY <1>3, <1>4, <2>3
    <3> QED
      BY <1>5, <2>1, <3>1, <3>3, <3>4 DEF ChildTyped
  <2>5. CASE server.phase # "answer"
    BY <1>2, <1>9, <2>1, <2>5 DEF Replies, ChildTyped
  <2> QED
    BY <2>4, <2>5
<1> QED
  BY <1>1, <1>7, <1>8, <1>9

\* Well-formedness is inductive.
LEMMA StepTyped == ChildTyped /\ [Next]_vars => ChildTyped'
<1> SUFFICES ASSUME ChildTyped, [Next]_vars
             PROVE  ChildTyped'
  OBVIOUS
<1>1. ASSUME UNCHANGED authVars
      PROVE  ChildTyped'
  BY <1>1 DEF authVars, ChildTyped
<1>2. CASE ProcessLogin
  BY <1>2, LoginTyped DEF ProcessLogin
<1>3. CASE EnterCopy
  BY <1>3, Enter5Typed DEF EnterCopy
<1>4. CASE DeliverAuth
  BY <1>4, DeliverAuthTyped
<1>5. CASE DeliverMargin
  <2>1. UNCHANGED authVars \/ \E g : Enter5(g)
    BY <1>5 DEF DeliverMargin
  <2> QED
    BY <1>1, <2>1, Enter5Typed
<1>6. CASE AuthServerStep
  BY <1>6, AuthServerTyped
<1>7. CASE Rotate
  BY <1>7 DEF Rotate, Rotates, ChildTyped, AuthServer
<1>8. CASE \/ OpenMargin \/ SendRequest \/ Cancel \/ CloseCompletes \/ MarginServerStep
           \/ MarginServerRefuses \/ AuthLost \/ MarginLost \/ Expire \/ ServerRekeys
           \/ UNCHANGED vars
  <2>1. UNCHANGED authVars
    BY <1>8 DEF OpenMargin, SendRequest, Cancel, CloseCompletes, MarginServerStep,
       MarginServerRefuses, AuthLost, MarginLost, MarginEnds, Expire, ServerRekeys, vars
  <2> QED
    BY <1>1, <2>1
<1> QED
  BY <1>2, <1>3, <1>4, <1>5, <1>6, <1>7, <1>8 DEF Next, Client, Deliver, Servers, Environment

\* The child is well-formed always, for any number of logins and keys; what
\* the margin side is given are numbers of copies.
THEOREM TypedAlways == Spec => []ChildTyped
  BY InitTyped, StepTyped, PTL DEF Spec

-----------------------------------------------------------------------------
(* The handshake is a margin session                                       *)

\* The copy state 5 sends, and the private key with it, are there.
LEMMA SendsCopyIsSession ==
    ASSUME NEW c \in Child, c.shadow # None, NEW g, SendsCopy(c, g)
    PROVE  \/ margin' = g /\ UNCHANGED marginServer
           \/ \E copy, private \in Nat : CopySent(g, copy, private)
<1> DEFINE private == IF c.private = None THEN 0 ELSE c.private
<1>1. c.shadow \in Nat /\ private \in Nat
  BY DEF Child
<1>2. CASE g.st = "none"
  BY <1>2 DEF SendsCopy
<1>3. CASE g.st # "none"
  <2>1. CopySent(g, c.shadow, private)
    BY <1>3 DEF SendsCopy
  <2> HIDE DEF private
  <2> QED
    BY <1>1, <2>1
<1> QED
  BY <1>2, <1>3

\* Entering state 5 is a step of MarginSession: it sends a copy, or nothing.
LEMMA Enter5IsSession ==
    ASSUME ChildTyped, NEW g, Enter5(g)
    PROVE  \/ margin' = g /\ UNCHANGED marginServer
           \/ \E copy, private \in Nat : CopySent(g, copy, private)
<1>1. CASE Stale
  BY <1>1 DEF Enter5
<1>2. CASE ~Stale
  BY <1>2, SendsCopyIsSession DEF Enter5, Stale, ChildTyped
<1> QED
  BY <1>1, <1>2

\* A successful reply brings the copy.
LEMMA DeliverAuthIsSession ==
    ASSUME ChildTyped, DeliverAuth
    PROVE  [MarginNext]_marginVars
<1> DEFINE c == HandleInboundAuthMessage(child, Head(replies))
<1>1. replies # <<>> /\ UNCHANGED inbound
  BY DEF DeliverAuth
<1>2. Head(replies) \in AuthReply /\ child \in Child
  BY <1>1, TailFacts DEF ChildTyped
<1>3. c \in Child
  BY <1>2, InboundTyped
<1>4. CASE state = "login" /\ Head(replies).defect # "oversized" /\ c.result = "success" /\ sender
  <2>1. SendsCopy(c, margin)
    BY <1>4 DEF DeliverAuth, AuthMessageDispatch
  <2>2. c.shadow # None
    <3> DEFINE p == Head(replies)
    <3>1. p.code \in {7, 9, 11} /\ p.copy \in Nat
      BY <1>2 DEF AuthReply
    <3>8. p.defect # "malformed"
      <4>1. Result(child, "unhandled").result = "unhandled"
        BY <1>2 DEF Result, Child
      <4> QED
        BY <1>4, <4>1 DEF HandleInboundAuthMessage
    <3>2. p.code # 7
      <4>1. KeyReplied(child, p).result # "success"
        <5>1. ASSUME NEW b \in Child
              PROVE  /\ Result(b, "keyReplyError").result # "success"
                     /\ Result(b, "workerError").result # "success"
                     /\ Result(b, "continue").result # "success"
          BY <5>1 DEF Result, Child
        <5>2. HandleGetPublicKeyReply(child, p) \in Child
          BY <1>2 DEF HandleGetPublicKeyReply, RebuildReplyPublicKeyWorkers, Signed, Child, AuthReply
        <5>3. SendAuthRequest(HandleGetPublicKeyReply(child, p)) \in Child
          BY <5>2, AuthRequestTyped
        <5> QED
          BY <1>2, <5>1, <5>2, <5>3 DEF KeyReplied
      <4> QED
        BY <1>4, <3>8, <4>1 DEF HandleInboundAuthMessage
    <3>3. p.code # 9
      <4>1. ChallengeIsAnswered(child, p).result # "success"
        <5> DEFINE f == Send([child EXCEPT !.pos = @ + 1], 10, None, child.seed, Decrypts(child, p))
        <5>1. f.result = child.result /\ f = [f EXCEPT !.result = f.result]
          BY <1>2 DEF Send, Child
        <5> HIDE DEF f
        <5>2. Result(f, "continue") = [f EXCEPT !.result = "continue"]
          BY DEF Result
        <5>3. f \in Child
          <6>1. [child EXCEPT !.pos = @ + 1] \in Child
            BY <1>2 DEF Child
          <6>2. Decrypts(child, p) \in BOOLEAN /\ child.seed \in Nat
            BY <1>2 DEF Decrypts, Child
          <6> QED
            BY <6>1, <6>2, SendTyped DEF f
        <5>4. Result(f, "continue").result = "continue"
          BY <5>2, <5>3 DEF Child
        <5> QED
          BY <5>4 DEF ChallengeIsAnswered, AuthChallengeResponse, f
      <4> QED
        BY <1>4, <3>8, <4>1 DEF HandleInboundAuthMessage
    <3>4. c = AuthReplied(child, p)
      BY <3>1, <3>2, <3>3, <3>8 DEF HandleInboundAuthMessage
    <3>5. Result(child, "replyError").result # "success" /\ Result(child, "validationError").result # "success"
      BY <1>2 DEF Result, Child
    <3>6. c = Result(Materialised(child, p), "success")
      BY <1>4, <3>4, <3>5 DEF AuthReplied
    <3>7. Result(Materialised(child, p), "success").shadow = p.copy
      BY <1>2 DEF Result, Materialised, Child
    <3> QED
      BY <3>1, <3>6, <3>7, BootstrapAssumption
  <2>3. \/ margin' = margin /\ UNCHANGED marginServer
        \/ \E copy, private \in Nat : CopySent(margin, copy, private)
    BY <1>3, <2>1, <2>2, SendsCopyIsSession
  <2> QED
    BY <1>1, <2>3 DEF MarginNext, CopyIsSent, marginVars
<1>5. CASE ~(state = "login" /\ Head(replies).defect # "oversized" /\ c.result = "success" /\ sender)
  <2>1. UNCHANGED <<margin, marginServer>>
    BY <1>5 DEF DeliverAuth, AuthMessageDispatch
  <2> QED
    BY <1>1, <2>1 DEF marginVars
<1> QED
  BY <1>4, <1>5

\* Every step of the composition is one of MarginSession, or leaves it alone.
LEMMA StepIsSession == ChildTyped /\ [Next]_vars => [MarginNext]_marginVars
<1> SUFFICES ASSUME ChildTyped, [Next]_vars
             PROVE  [MarginNext]_marginVars
  OBVIOUS
<1>1. CASE OpenMargin
  BY <1>1 DEF OpenMargin, MarginNext
<1>2. CASE EnterCopy
  <2>1. Enter5(margin) /\ UNCHANGED inbound
    BY <1>2 DEF EnterCopy
  <2> QED
    BY <2>1, Enter5IsSession DEF MarginNext, CopyIsSent, marginVars
<1>3. CASE SendRequest
  BY <1>3 DEF SendRequest, MarginNext
<1>4. CASE DeliverAuth
  BY <1>4, DeliverAuthIsSession
<1>5. CASE DeliverMargin
  <2> DEFINE g == Received(margin, Head(inbound))
  <2>1. inbound # <<>> /\ inbound' = Tail(inbound)
    BY <1>5 DEF DeliverMargin
  <2>2. Enter5(g) \/ (margin' = g /\ UNCHANGED marginServer)
    BY <1>5 DEF DeliverMargin
  <2> HIDE DEF g
  <2>3. \/ margin' = g /\ UNCHANGED marginServer
        \/ \E copy, private \in Nat : CopySent(g, copy, private)
    BY <2>2, Enter5IsSession
  <2>4. Delivered
    BY <2>1, <2>3 DEF Delivered, g
  <2> QED
    BY <2>4 DEF MarginNext
<1>6. CASE MarginLost \/ CloseCompletes
  BY <1>6 DEF MarginLost, CloseCompletes, MarginEnds, MarginNext
<1>7. CASE MarginServerStep
  <2>1. PICK defect \in MarginDefects : margin.st = "up" /\
            \/ defect # "empty" /\ MarginChallenges(defect)
            \/ ChallengesEmpty \/ Verdict(TRUE, defect) \/ Serves(defect) \/ Drops
            \/ Refuses(defect) \/ Verdict(FALSE, defect)
    BY <1>7 DEF MarginServerStep, MarginDefects
  <2>2. MarginServerActs(TRUE, defect) \/ MarginServerActs(FALSE, defect)
    BY <2>1 DEF MarginServerActs
  <2> QED
    BY <2>2 DEF MarginNext
<1>8. CASE MarginServerRefuses
  <2>1. MarginServerActs(FALSE, "none")
    BY <1>8 DEF MarginServerRefuses, MarginServerActs
  <2> QED
    BY <2>1 DEF MarginNext, MarginDefects
<1>9. CASE ServerRekeys
  <2>1. MarginServerActs(FALSE, "none")
    BY <1>9 DEF ServerRekeys, MarginServerActs
  <2> QED
    BY <2>1 DEF MarginNext, MarginDefects
<1>10. CASE ProcessLogin \/ Cancel \/ AuthServerStep \/ AuthLost \/ Expire \/ Rotate \/ UNCHANGED vars
  BY <1>10 DEF ProcessLogin, Cancel, AuthServerStep, AuthLost, Expire, Rotate, vars
<1> QED
  BY <1>1, <1>2, <1>3, <1>4, <1>5, <1>6, <1>7, <1>8, <1>9, <1>10
     DEF Next, Client, Deliver, Servers, Environment

\* Whatever the login states do, the margin connection is a margin session.
THEOREM HandshakeIsSession == Spec => MarginSpec
<1>1. Init => MarginInit
  BY DEF Init
<1> QED
  BY <1>1, StepIsSession, TypedAlways, PTL DEF Spec, MarginSpec

\* So its packets are readable, for every bound and set of keys.
THEOREM HandshakeIsReadable == Spec => []PacketsAreReadable
  BY HandshakeIsSession, PacketsReadable, PTL

-----------------------------------------------------------------------------
(* The connection a copy is sent to                                        *)

\* The copy of a login for state 5 has a connection, or its close was expected.
Waited ==
    /\ state = "login" /\ sender /\ margin.st = "none" => flag2d
    /\ state = "crashed" => flag2d

\* Nothing but its close item takes the connection away.
LEMMA ReceivedKeepsConnection ==
    ASSUME NEW g \in Margin, NEW p \in Inbound
    PROVE  Received(g, p).st = "none" => g.st = "none"
<1>1. /\ Close(g).st = "none" => g.st = "none"
      /\ CloseHard(g).st = "none" => g.st = "none"
      /\ PassedOver(g).st = g.st
  BY DEF Close, CloseHard, PassedOver, Margin
<1>2. Installed(g, p.seed).st = g.st
  BY DEF Installed, Margin
<1>3. HandleCode2(g, p).st = "none" => g.st = "none"
  <2> DEFINE h == Installed(g, p.seed)
  <2>1. h \in Margin
    BY DEF Installed, Margin, Inbound, Key
  <2>2. ASSUME NEW x \in Margin
        PROVE  SendPacket(x, 3).st = x.st
    BY <2>2 DEF SendPacket, Margin
  <2>3. SendPacket(h, 3).st = h.st
    BY <2>1, <2>2
  <2> QED
    BY <1>1, <1>2, <2>3 DEF HandleCode2, Challenged, Answered, DecryptsChallenge, h
<1>4. HandleCode4(g, p).st = g.st /\ HandleCode5(g, p).st = g.st
  BY <1>1, <1>2 DEF HandleCode4, HandleCode5, Margin
<1>5. p.code \in {2, 4, 5, 6}
  BY DEF Inbound
<1> QED
  BY <1>1, <1>3, <1>4, <1>5 DEF Received, Dispatched, Routed

\* The margin server neither opens nor closes the connection.
LEMMA ServerKeepsConnection ==
    ASSUME MarginTypeOK, NEW ok, NEW defect, MarginServerActs(ok, defect)
    PROVE  margin'.st = margin.st
<1>1. margin' = margin \/ margin' = [margin EXCEPT !.out = Tail(@)]
  BY DEF MarginServerActs, MarginChallenges, ChallengesEmpty, Refuses, Verdict, Serves, Drops, Rekeys, Takes
<1> QED
  BY <1>1 DEF MarginTypeOK, Margin

\* A login leaves the connection as it is; a copy is sent to one that is up.
LEMMA Enter5Waits ==
    ASSUME NEW g, g.st = "up", Enter5(g)
    PROVE  state' \in {"login", "copy"} /\ (state' = "login" => margin' = g)
<1>1. CASE Stale
  BY <1>1 DEF Enter5, Login
<1>2. CASE ~Stale
  BY <1>2 DEF Enter5, SendsCopy
<1> QED
  BY <1>1, <1>2

\* Waited is inductive.
LEMMA StepWaits == Waited /\ MarginTypeOK /\ [Next]_vars => Waited'
<1> SUFFICES ASSUME Waited, MarginTypeOK, [Next]_vars
             PROVE  Waited'
  OBVIOUS
<1>1. CASE ProcessLogin
  BY <1>1 DEF ProcessLogin, Login, Waited
<1>2. CASE OpenMargin
  BY <1>2 DEF OpenMargin, Waited
<1>3. CASE EnterCopy
  BY <1>3, Enter5Waits DEF EnterCopy, Waited
<1>4. CASE SendRequest
  <2>1. SendPacket(margin, 6).st = margin.st
    BY DEF SendPacket, MarginTypeOK, Margin
  <2> QED
    BY <1>4, <2>1 DEF SendRequest, Requested, mediatorVars, Waited
<1>5. CASE Cancel
  BY <1>5 DEF Cancel, Waited
<1>6. CASE DeliverAuth
  <2> DEFINE c == HandleInboundAuthMessage(child, Head(replies))
  <2>1. flag2d' = flag2d /\ sender' = sender
    BY <1>6 DEF DeliverAuth
  <2>2. CASE state # "login" \/ Head(replies).defect = "oversized"
    BY <1>6, <2>1, <2>2 DEF DeliverAuth, Waited
  <2>3. CASE state = "login" /\ Head(replies).defect # "oversized" /\ c.result = "success" /\ sender
    <3>1. SendsCopy(c, margin)
      BY <1>6, <2>3 DEF DeliverAuth, AuthMessageDispatch
    <3> QED
      BY <2>1, <2>3, <3>1 DEF SendsCopy, Waited
  <2>4. CASE /\ state = "login" /\ Head(replies).defect # "oversized"
             /\ ~(c.result = "success" /\ sender)
    <3>1. state' \in {"login", "rest"} /\ margin' = margin
      BY <1>6, <2>4 DEF DeliverAuth, AuthMessageDispatch
    <3> QED
      BY <2>1, <2>4, <3>1 DEF Waited
  <2> QED
    BY <2>2, <2>3, <2>4
<1>7. CASE DeliverMargin
  <2> DEFINE p == Head(inbound)
             g == Received(margin, p)
             verdict == p.code = 4 /\ p.defect = "none" /\ Readable(margin, p) /\ state = "copy"
  <2>1. inbound # <<>> /\ state # "crashed" /\ flag2d' = (flag2d \/ (verdict /\ ~p.ok))
    BY <1>7 DEF DeliverMargin
  <2>2. g.st = "none" => margin.st = "none"
    BY <2>1, TailFacts, ReceivedKeepsConnection DEF MarginTypeOK
  <2>3. CASE verdict /\ ~p.ok /\ g.st = "up"
    BY <2>1, <2>3 DEF Waited
  <2>4. CASE ~(verdict /\ ~p.ok /\ g.st = "up")
    <3>1. margin' = g /\ sender' = sender /\ state' = IF verdict THEN "rest" ELSE state
      BY <1>7, <2>4 DEF DeliverMargin
    <3> HIDE DEF g, p, verdict
    <3> QED
      BY <2>1, <2>2, <3>1 DEF Waited
  <2> QED
    BY <2>3, <2>4
<1>8. CASE MarginLost \/ CloseCompletes
  BY <1>8 DEF MarginLost, CloseCompletes, MarginEnds, Waited
<1>9. CASE MarginServerStep \/ MarginServerRefuses \/ ServerRekeys
  <2>1. \E ok \in BOOLEAN, defect \in MarginDefects : MarginServerActs(ok, defect)
    BY <1>9 DEF MarginServerStep, MarginServerRefuses, ServerRekeys, MarginServerActs, MarginDefects
  <2>2. margin'.st = margin.st
    BY <2>1, ServerKeepsConnection
  <2>3. UNCHANGED mediatorVars
    BY <1>9 DEF MarginServerStep, MarginServerRefuses, ServerRekeys
  <2> QED
    BY <2>2, <2>3 DEF mediatorVars, Waited
<1>10. CASE AuthServerStep \/ AuthLost \/ Expire \/ Rotate \/ UNCHANGED vars
  BY <1>10 DEF AuthServerStep, AuthLost, Expire, Rotate, vars, marginVars, mediatorVars, Waited
<1> QED
  BY <1>1, <1>2, <1>3, <1>4, <1>5, <1>6, <1>7, <1>8, <1>9, <1>10
     DEF Next, Client, Deliver, Servers, Environment

\* A copy is sent to no connection only after a refusal, whatever is lost,
\* expires or is answered late in between.
THEOREM NoNullUnlessRefused == Spec => []NullOnlyAfterRefusal
<1>1. Init => Waited
  BY DEF Init, Waited
<1>2. Spec => []MarginTypeOK
  BY HandshakeIsSession, MarginTypes, PTL
<1>3. Waited => NullOnlyAfterRefusal
  BY DEF Waited, NullOnlyAfterRefusal
<1> QED
  BY <1>1, <1>2, <1>3, StepWaits, PTL DEF Spec

-----------------------------------------------------------------------------
(* The types of the composition                                            *)

\* A login request is encrypted under a key.
Keyed8(out) == \A i \in DOMAIN out : out[i].code = 8 => out[i].id # None

\* What an outgoing queue gains or loses at its ends.
LEMMA KeyedQueue ==
    ASSUME NEW out \in Seq(AuthRequest), Keyed8(out)
    PROVE  /\ \A e \in AuthRequest : (e.code = 8 => e.id # None) => Keyed8(Append(out, e))
           /\ out # <<>> => Keyed8(Tail(out))
<1>1. DOMAIN out = 1..Len(out)
  OBVIOUS
<1>2. ASSUME NEW e \in AuthRequest, e.code = 8 => e.id # None
      PROVE  Keyed8(Append(out, e))
  <2>1. DOMAIN Append(out, e) = 1..(Len(out) + 1) /\ Len(out) \in Nat
    OBVIOUS
  <2>2. \A i \in 1..(Len(out) + 1) : \/ i \in 1..Len(out) /\ Append(out, e)[i] = out[i]
                                     \/ Append(out, e)[i] = e
    BY AppendFacts
  <2> QED
    BY <1>1, <1>2, <2>1, <2>2 DEF Keyed8
<1>3. ASSUME out # <<>>
      PROVE  Keyed8(Tail(out))
  <2>1. Tail(out) \in Seq(AuthRequest)
    BY <1>3, TailFacts
  <2>2. DOMAIN Tail(out) = 1..Len(Tail(out))
    BY <2>1
  <2>3. \A i \in 1..Len(Tail(out)) : i + 1 \in 1..Len(out) /\ Tail(out)[i] = out[i + 1]
    BY <1>3, TailFacts
  <2> QED
    BY <1>1, <2>2, <2>3 DEF Keyed8
<1> QED
  BY <1>2, <1>3

\* The child sends a login request only if it has a key.
LEMMA SendKeyed ==
    ASSUME NEW b \in Child, Keyed8(b.out), NEW code \in {6, 8, 10}, NEW id \in Nat \cup {None},
           NEW seed \in Nat, NEW right \in BOOLEAN, code = 8 => id # None
    PROVE  Keyed8(Send(b, code, id, seed, right).out)
<1> DEFINE e == [code |-> code, id |-> id, seed |-> seed, right |-> right]
<1>1. e \in AuthRequest /\ (e.code = 8 => e.id # None) /\ b.out \in Seq(AuthRequest)
  BY DEF AuthRequest, Child
<1>2. Send(b, code, id, seed, right).out = Append(b.out, e)
  BY DEF Send, Child
<1> HIDE DEF e
<1> QED
  BY <1>1, <1>2, KeyedQueue

\* Keyed8 is kept where the request is sent,
LEMMA AuthRequestKeyed ==
    ASSUME NEW b \in Child, Keyed8(b.out)
    PROVE  Keyed8(SendAuthRequest(b).out)
<1>1. CASE b.worker = None
  BY <1>1 DEF SendAuthRequest
<1>2. CASE b.worker # None
  <2> DEFINE f == [b EXCEPT !.seed = @ + 1, !.pos = 0]
  <2>1. f.out = b.out /\ b.worker \in Nat \cup {None} /\ b.seed \in Nat /\ b.seed + 1 \in Nat
    BY DEF Child
  <2>2. f \in Child
    BY <2>1 DEF Child
  <2> HIDE DEF f
  <2>3. Keyed8(Send(f, 8, b.worker, b.seed + 1, FALSE).out)
    BY <1>2, <2>1, <2>2, SendKeyed
  <2> QED
    BY <1>2, <2>3 DEF SendAuthRequest, Reseeded, f
<1> QED
  BY <1>1, <1>2

\* where the connection is opened,
LEMMA DispatchKeyed ==
    ASSUME NEW b \in Child, Keyed8(b.out)
    PROVE  Keyed8(PrepareAndDispatch(b).out)
<1>1. b.keyId \in Nat \cup {None}
  BY DEF Child
<1>2. Keyed8(Send(b, 6, b.keyId, 0, FALSE).out)
  <2>1. 6 = 8 => b.keyId # None
    OBVIOUS
  <2> QED
    BY <1>1, <2>1, SendKeyed
<1> QED
  BY <1>2, AuthRequestKeyed DEF PrepareAndDispatch, SendGetPublicKeyRequest

\* where a reply is handled,
LEMMA InboundKeyed ==
    ASSUME NEW b \in Child, Keyed8(b.out), NEW p \in AuthReply
    PROVE  Keyed8(HandleInboundAuthMessage(b, p).out)
<1>1. /\ p.code \in {7, 9, 11} /\ p.id \in Nat /\ p.copy \in Nat /\ p.defect \in Defects
      /\ b.seed \in Nat /\ b.pos \in Nat
  BY DEF AuthReply, Child
<1>2. ASSUME NEW c \in Child, NEW r
      PROVE  Result(c, r).out = c.out
  BY <1>2 DEF Result, Child
<1>3. Keyed8(KeyReplied(b, p).out)
  <2> DEFINE h == HandleGetPublicKeyReply(b, p)
  <2>1. h \in Child /\ h.out = b.out
    BY <1>1 DEF HandleGetPublicKeyReply, RebuildReplyPublicKeyWorkers, Signed, Child
  <2> HIDE DEF h
  <2>2. SendAuthRequest(h) \in Child /\ Keyed8(SendAuthRequest(h).out)
    BY <2>1, AuthRequestTyped, AuthRequestKeyed
  <2> QED
    BY <1>2, <2>1, <2>2 DEF KeyReplied, h
<1>4. Keyed8(ChallengeIsAnswered(b, p).out)
  <2> DEFINE f == [b EXCEPT !.pos = @ + 1]
  <2>1. f \in Child /\ f.out = b.out /\ Decrypts(b, p) \in BOOLEAN
    BY <1>1 DEF Child, Decrypts
  <2> HIDE DEF f
  <2>2. /\ Send(f, 10, None, b.seed, Decrypts(b, p)) \in Child
        /\ Keyed8(Send(f, 10, None, b.seed, Decrypts(b, p)).out)
    <3>1. 10 = 8 => None # None
      OBVIOUS
    <3> QED
      BY <1>1, <2>1, <3>1, SendTyped, SendKeyed
  <2>3. f.seed = b.seed
    BY DEF f, Child
  <2> QED
    BY <1>2, <2>2, <2>3 DEF ChallengeIsAnswered, AuthChallengeResponse, f
<1>5. AuthReplied(b, p).out = b.out
  BY DEF AuthReplied, Materialised, Result, Child
<1>6. Result(b, "unhandled").out = b.out
  BY <1>2
<1> QED
  BY <1>1, <1>3, <1>4, <1>5, <1>6 DEF HandleInboundAuthMessage

\* What the mediator keeps is of its type, and every login request has a key.
MediatorTyped ==
    /\ Keyed8(child.out)
    /\ state \in {"rest", "login", "copy", "crashed"}
    /\ sender \in BOOLEAN
    /\ link \in {"none", "up", "dead"}
    /\ flag2c \in BOOLEAN
    /\ flag2d \in BOOLEAN
    /\ expired \in Nat
    /\ crossed \in BOOLEAN
    /\ faults \in 0..MaxFaults

\* where a login begins,
LEMMA LoginKeyed ==
    ASSUME ChildTyped, MediatorTyped, NEW from5 \in BOOLEAN, Login(from5)
    PROVE  /\ Keyed8(child'.out) /\ state' = "login" /\ sender' \in BOOLEAN /\ link' = "up"
           /\ flag2c' \in BOOLEAN /\ crossed' \in BOOLEAN
<1> DEFINE r == Result(child, "none")
<1>3. r \in Child
  BY ResultTyped DEF ChildTyped, Results
<1>4. r.out = child.out
  BY DEF Result, ChildTyped, Child
<1> HIDE DEF r
<1>1. CASE link = "up"
  <2>1. child' = PrepareAndDispatch(r)
    BY <1>1 DEF Login, r
  <2>2. Keyed8(child'.out)
    BY <1>3, <1>4, <2>1, DispatchKeyed DEF MediatorTyped
  <2> QED
    BY <1>1, <2>2 DEF Login, MediatorTyped
<1>2. CASE link # "up"
  <2> DEFINE f == [r EXCEPT !.out = <<>>]
  <2>1. <<>> \in Seq(AuthRequest)
    OBVIOUS
  <2>2. f \in Child /\ f.out = <<>>
    BY <1>3, <2>1 DEF Child
  <2>3. child' = PrepareAndDispatch(f)
    BY <1>2 DEF Login, r
  <2> HIDE DEF f
  <2>4. Keyed8(f.out)
    BY <2>2 DEF Keyed8
  <2>5. Keyed8(child'.out)
    BY <2>2, <2>3, <2>4, DispatchKeyed
  <2> QED
    BY <1>2, <2>5 DEF Login, MediatorTyped
<1> QED
  BY <1>1, <1>2

\* where state 5 is entered,
LEMMA Enter5Keyed ==
    ASSUME ChildTyped, MediatorTyped, NEW g, Enter5(g)
    PROVE  /\ Keyed8(child'.out) /\ state' \in {"login", "copy", "crashed"} /\ sender' \in BOOLEAN
           /\ link' \in {"none", "up", "dead"} /\ flag2c' \in BOOLEAN /\ crossed' \in BOOLEAN
<1>1. CASE Stale
  BY <1>1, LoginKeyed DEF Enter5
<1>2. CASE ~Stale
  BY <1>2 DEF Enter5, SendsCopy, authVars, linkVars, MediatorTyped
<1> QED
  BY <1>1, <1>2

\* and so by every step.
LEMMA StepKeyed == ChildTyped /\ MediatorTyped /\ [Next]_vars => MediatorTyped'
<1> SUFFICES ASSUME ChildTyped, MediatorTyped, [Next]_vars
             PROVE  MediatorTyped'
  OBVIOUS
<1>1. ASSUME Fault
      PROVE  faults' \in 0..MaxFaults
  BY <1>1, HandshakeAssumption DEF Fault, MediatorTyped
<1>2. CASE ProcessLogin
  BY <1>2, LoginKeyed DEF ProcessLogin, MediatorTyped
<1>3. CASE OpenMargin
  BY <1>3 DEF OpenMargin, authVars, linkVars, MediatorTyped
<1>4. CASE EnterCopy
  BY <1>4, Enter5Keyed DEF EnterCopy, MediatorTyped
<1>5. CASE SendRequest \/ Cancel
  <2>1. faults' \in 0..MaxFaults
    BY <1>1, <1>5 DEF SendRequest, Cancel, Fault
  <2> QED
    BY <1>5, <2>1 DEF SendRequest, Cancel, authVars, linkVars, mediatorVars, MediatorTyped
<1>6. CASE DeliverAuth
  <2> DEFINE c == HandleInboundAuthMessage(child, Head(replies))
  <2>1. replies # <<>> /\ UNCHANGED <<sender, flag2d, crossed, expired, faults>>
    BY <1>6 DEF DeliverAuth
  <2>5. link' \in {"none", "up", "dead"}
    BY <1>6 DEF DeliverAuth, MediatorTyped
  <2>2. Keyed8(c.out)
    BY <2>1, TailFacts, InboundKeyed DEF ChildTyped, MediatorTyped
  <2>3. child' \in {child, c} /\ flag2c' \in BOOLEAN
    BY <1>6 DEF DeliverAuth, AuthMessageDispatch, MediatorTyped
  <2>4. state' \in {"rest", "login", "copy", "crashed"}
    BY <1>6 DEF DeliverAuth, AuthMessageDispatch, SendsCopy, MediatorTyped
  <2> HIDE DEF c
  <2> QED
    BY <2>1, <2>2, <2>3, <2>4, <2>5 DEF MediatorTyped
<1>7. CASE DeliverMargin
  <2> DEFINE p == Head(inbound)
             g == Received(margin, p)
             verdict == p.code = 4 /\ p.defect = "none" /\ Readable(margin, p) /\ state = "copy"
  <2>1. flag2d' \in BOOLEAN /\ UNCHANGED <<expired, faults>>
    BY <1>7 DEF DeliverMargin, MediatorTyped
  <2>2. CASE verdict /\ ~p.ok /\ g.st = "up"
    <3>1. Enter5(g)
      BY <1>7, <2>2 DEF DeliverMargin
    <3> QED
      BY <2>1, <3>1, Enter5Keyed DEF MediatorTyped
  <2>3. CASE ~(verdict /\ ~p.ok /\ g.st = "up")
    <3>1. state' \in {"rest", state} /\ UNCHANGED <<authVars, linkVars, sender>>
      BY <1>7, <2>3 DEF DeliverMargin
    <3> QED
      BY <2>1, <3>1 DEF authVars, linkVars, MediatorTyped
  <2> QED
    BY <2>2, <2>3
<1>8. CASE CloseCompletes \/ MarginLost
  <2>1. faults' \in 0..MaxFaults
    BY <1>1, <1>8 DEF CloseCompletes, MarginLost, MediatorTyped
  <2> QED
    BY <1>8, <2>1 DEF CloseCompletes, MarginLost, MarginEnds, authVars, linkVars, MediatorTyped
<1>9. CASE AuthServerStep
  <2>1. faults' \in 0..MaxFaults
    BY <1>1, <1>9 DEF AuthServerStep, Spends, MediatorTyped
  <2>2. child.out # <<>> /\ child' = [child EXCEPT !.out = Tail(child.out)]
    BY <1>9 DEF AuthServerStep, SendsKey, Challenges, Replies, ServerStep
  <2>3. child'.out = Tail(child.out) /\ child.out \in Seq(AuthRequest)
    BY <2>2 DEF ChildTyped, Child
  <2>4. Keyed8(child'.out)
    BY <2>2, <2>3, KeyedQueue DEF MediatorTyped
  <2> QED
    BY <1>9, <2>1, <2>4 DEF AuthServerStep, marginVars, mediatorVars, linkVars, MediatorTyped
<1>10. CASE MarginServerStep \/ MarginServerRefuses
  <2>1. faults' \in 0..MaxFaults
    BY <1>1, <1>10 DEF MarginServerStep, MarginServerRefuses, Spends, MediatorTyped
  <2> QED
    BY <1>10, <2>1 DEF MarginServerStep, MarginServerRefuses, authVars, mediatorVars, linkVars, MediatorTyped
<1>11. CASE AuthLost \/ ServerRekeys
  BY <1>1, <1>11 DEF AuthLost, ServerRekeys, authVars, mediatorVars, linkVars, MediatorTyped
<1>12. CASE Expire
  <2>1. expired' \in Nat
    BY <1>12 DEF Expire, ChildTyped, Child
  <2> QED
    BY <1>1, <1>12, <2>1 DEF Expire, authVars, mediatorVars, linkVars, MediatorTyped
<1>13. CASE Rotate
  BY <1>1, <1>13 DEF Rotate, Rotates, mediatorVars, linkVars, MediatorTyped
<1>14. CASE UNCHANGED vars
  BY <1>14 DEF vars, authVars, mediatorVars, linkVars, MediatorTyped
<1> QED
  BY <1>2, <1>3, <1>4, <1>5, <1>6, <1>7, <1>8, <1>9, <1>10, <1>11, <1>12, <1>13, <1>14
     DEF Next, Client, Deliver, Servers, Environment

\* Every variable keeps its type, for any number of logins, keys, seeds and
\* faults, and no login request is sent before there is a key to encrypt it.
THEOREM HandshakeTypes == Spec => []HandshakeTypeOK
<1>1. Init => MediatorTyped
  <2> SUFFICES ASSUME Init
               PROVE  MediatorTyped
    OBVIOUS
  <2>1. child.out = <<>>
    BY DEF Init, BootstrapInit
  <2>2. Keyed8(child.out)
    BY <2>1 DEF Keyed8
  <2>3. faults \in 0..MaxFaults
    BY HandshakeAssumption DEF Init
  <2> QED
    BY <2>2, <2>3 DEF Init, MediatorTyped
<1>2. ChildTyped /\ MediatorTyped /\ MarginTypeOK => HandshakeTypeOK
  BY DEF ChildTyped, MediatorTyped, Keyed8, BootstrapTypeOK, HandshakeTypeOK
<1>3. Spec => []MarginTypeOK
  BY HandshakeIsSession, MarginTypes, PTL
<1> QED
  BY <1>1, <1>2, <1>3, StepKeyed, TypedAlways, PTL DEF Spec

-----------------------------------------------------------------------------
(* The login dialogue                                                      *)

\* A packet of the child that the server will answer rightly: a request under
\* the child's seed, or the answer to the server's challenge.
Asked(b, p, v) ==
    \/ p.code = 6 /\ v.phase = "request"
    \/ p.code = 8 /\ v.phase = "request" /\ p.seed = b.seed /\ b.pos = 0
    \/ /\ p.code = 10 /\ v.phase = "answer" /\ p.right
       /\ v.seed = b.seed /\ v.pos = 1 /\ b.pos = 1

\* A packet of the server that the child decrypts where its transform is.
Told(b, p, v) ==
    \/ p.code = 7 /\ v.phase = "request"
    \/ /\ p.code = 9 /\ v.phase = "answer" /\ p.seed = b.seed /\ p.pos = 0 /\ b.pos = 0
       /\ v.seed = b.seed /\ v.pos = 1
    \/ p.code = 11 /\ v.phase = "request" /\ (p.ok => p.seed = b.seed /\ p.pos = b.pos)

\* The dialogue is one packet long, and either side's cipher is where the
\* other's was when it was sent.
Dialogue(b, q, v) ==
    \/ b.out = <<>> /\ q = <<>>
    \/ q = <<>> /\ \E p \in AuthRequest : b.out = <<p>> /\ Asked(b, p, v)
    \/ b.out = <<>> /\ \E p \in AuthReply : q = <<p>> /\ Told(b, p, v)

KeyFits(b) == b.private \in {b.shadow, None}

\* As long as no login crosses another.
InDialogue == ~crossed => Dialogue(child, replies, server) /\ KeyFits(child)

\* What a child without anything to send has sent after a login.
Opens(b) ==
    \/ b.out = <<>>
    \/ \E p \in AuthRequest : /\ b.out = <<p>>
                              /\ p.code = 6 \/ (p.code = 8 /\ p.seed = b.seed /\ b.pos = 0)

\* Queues of one packet.
LEMMA OneFacts ==
    ASSUME NEW e
    PROVE  /\ Append(<<>>, e) = <<e>> /\ Head(<<e>>) = e /\ Tail(<<e>>) = <<>> /\ <<e>> # <<>>
  OBVIOUS

\* A session that opens is a dialogue at its beginning.
LEMMA OpensFits ==
    ASSUME NEW b, NEW v, Opens(b), v.phase = "request"
    PROVE  Dialogue(b, <<>>, v)
  BY DEF Opens, Dialogue, Asked

\* h is b with one such packet to send.
Holds(h, b, code, seed, right) ==
    \E p \in AuthRequest : /\ h = [b EXCEPT !.out = <<p>>]
                           /\ p.code = code /\ p.seed = seed /\ p.right = right

\* A packet sent by a child with an empty queue.
LEMMA SendAlone ==
    ASSUME NEW b \in Child, b.out = <<>>, NEW code \in {6, 8, 10}, NEW id \in Nat \cup {None},
           NEW seed \in Nat, NEW right \in BOOLEAN
    PROVE  Holds(Send(b, code, id, seed, right), b, code, seed, right)
<1> DEFINE p == [code |-> code, id |-> id, seed |-> seed, right |-> right]
<1>1. p \in AuthRequest /\ p.code = code /\ p.seed = seed /\ p.right = right
  BY DEF AuthRequest
<1>2. Send(b, code, id, seed, right) = [b EXCEPT !.out = Append(<<>>, p)]
  BY DEF Send
<1> HIDE DEF p
<1>3. Append(<<>>, p) = <<p>>
  BY OneFacts
<1> QED
  BY <1>1, <1>2, <1>3 DEF Holds

\* A login request alone opens a dialogue.
LEMMA AuthRequestOpens ==
    ASSUME NEW b \in Child, b.out = <<>>
    PROVE  /\ Opens(SendAuthRequest(b))
           /\ SendAuthRequest(b).shadow = b.shadow /\ SendAuthRequest(b).private = b.private
<1>1. CASE b.worker = None
  BY <1>1 DEF SendAuthRequest, Opens
<1>2. CASE b.worker # None
  <2> DEFINE f == [b EXCEPT !.seed = @ + 1, !.pos = 0]
  <2>1. /\ f.out = <<>> /\ f.seed = b.seed + 1 /\ f.pos = 0
        /\ f.shadow = b.shadow /\ f.private = b.private
        /\ b.worker \in Nat \cup {None} /\ b.seed + 1 \in Nat
    BY DEF Child
  <2>2. f \in Child
    BY <2>1 DEF Child
  <2>3. SendAuthRequest(b) = Send(f, 8, b.worker, b.seed + 1, FALSE)
    BY <1>2 DEF SendAuthRequest, Reseeded
  <2> HIDE DEF f
  <2>4. PICK p \in AuthRequest :
            /\ Send(f, 8, b.worker, b.seed + 1, FALSE) = [f EXCEPT !.out = <<p>>]
            /\ p.code = 8 /\ p.seed = b.seed + 1
    <3>1. Holds(Send(f, 8, b.worker, b.seed + 1, FALSE), f, 8, b.seed + 1, FALSE)
      BY <2>1, <2>2, SendAlone
    <3> QED
      BY <3>1 DEF Holds
  <2> DEFINE h == [f EXCEPT !.out = <<p>>]
  <2>5. /\ h.out = <<p>> /\ h.seed = f.seed /\ h.pos = f.pos
        /\ h.shadow = f.shadow /\ h.private = f.private
    BY <2>2 DEF Child
  <2> HIDE DEF h
  <2>6. Opens(h)
    BY <2>1, <2>4, <2>5 DEF Opens
  <2> QED
    BY <2>1, <2>3, <2>4, <2>5, <2>6 DEF h
<1> QED
  BY <1>1, <1>2

\* So does whatever PrepareAndDispatch sends.
LEMMA DispatchOpens ==
    ASSUME NEW b \in Child, b.out = <<>>
    PROVE  /\ Opens(PrepareAndDispatch(b))
           /\ PrepareAndDispatch(b).shadow = b.shadow /\ PrepareAndDispatch(b).private = b.private
<1>1. b.keyId \in Nat \cup {None}
  BY DEF Child
<1>2. PICK p \in AuthRequest : Send(b, 6, b.keyId, 0, FALSE) = [b EXCEPT !.out = <<p>>] /\ p.code = 6
  <2>1. Holds(Send(b, 6, b.keyId, 0, FALSE), b, 6, 0, FALSE)
    BY <1>1, SendAlone
  <2> QED
    BY <2>1 DEF Holds
<1> DEFINE h == [b EXCEPT !.out = <<p>>]
<1>3. h.out = <<p>> /\ h.shadow = b.shadow /\ h.private = b.private
  BY DEF Child
<1>4. SendGetPublicKeyRequest(b) = h
  BY <1>2 DEF SendGetPublicKeyRequest
<1> HIDE DEF h
<1>5. Opens(h)
  BY <1>2, <1>3 DEF Opens
<1> QED
  BY <1>3, <1>4, <1>5, AuthRequestOpens DEF PrepareAndDispatch

\* A login with nothing of an earlier one under way opens a dialogue.
LEMMA LoginInDialogue ==
    ASSUME ChildTyped, InDialogue, NEW from5, Login(from5)
    PROVE  InDialogue'
<1> SUFFICES ASSUME ~crossed'
             PROVE  Dialogue(child', replies', server') /\ KeyFits(child')
  BY DEF InDialogue
<1>1. ~crossed /\ (link = "up" => ~LoginIsOpen)
  BY DEF Login
<1>2. KeyFits(child) /\ child \in Child /\ server \in AuthServer
  BY <1>1 DEF InDialogue, ChildTyped
<1> DEFINE r == Result(child, "none")
<1>5. r \in Child /\ r.out = child.out /\ r.shadow = child.shadow /\ r.private = child.private
  <2>1. r \in Child
    BY <1>2, ResultTyped DEF Results
  <2> QED
    BY <1>2, <2>1 DEF Result, Child
<1> HIDE DEF r
<1>3. CASE link = "up"
  <2>1. child.out = <<>> /\ replies = <<>> /\ server.phase = "request"
    BY <1>1, <1>2, <1>3 DEF LoginIsOpen, AuthServer
  <2>2. child' = PrepareAndDispatch(r) /\ replies' = <<>> /\ server' = server
    BY <1>3, <2>1 DEF Login, r
  <2>3. Opens(child') /\ child'.shadow = child.shadow /\ child'.private = child.private
    BY <1>5, <2>1, <2>2, DispatchOpens
  <2> QED
    BY <1>2, <2>1, <2>2, <2>3, OpensFits DEF KeyFits
<1>4. CASE link # "up"
  <2> DEFINE f == [r EXCEPT !.out = <<>>]
  <2>1. <<>> \in Seq(AuthRequest)
    OBVIOUS
  <2>2. f \in Child /\ f.out = <<>> /\ f.shadow = child.shadow /\ f.private = child.private
    BY <1>5, <2>1 DEF Child
  <2>3. child' = PrepareAndDispatch(f) /\ replies' = <<>>
    BY <1>4 DEF Login, r
  <2>4. server'.phase = "request"
    BY <1>2, <1>4 DEF Login, AuthServer
  <2> HIDE DEF f
  <2>5. Opens(child') /\ child'.shadow = f.shadow /\ child'.private = f.private
    BY <2>2, <2>3, DispatchOpens
  <2>6. Dialogue(child', <<>>, server')
    BY <2>4, <2>5, OpensFits
  <2>7. KeyFits(child')
    BY <1>2, <2>2, <2>5 DEF KeyFits
  <2> QED
    BY <2>3, <2>6, <2>7
<1> QED
  BY <1>3, <1>4

\* The child answers what it is told where both ciphers are, and the private
\* key it keeps is that of the copy it keeps.
LEMMA InboundInDialogue ==
    ASSUME NEW b \in Child, b.out = <<>>, NEW p \in AuthReply, NEW v, Told(b, p, v), KeyFits(b)
    PROVE  /\ Dialogue(HandleInboundAuthMessage(b, p), <<>>, v)
           /\ KeyFits(HandleInboundAuthMessage(b, p))
<1> DEFINE c == HandleInboundAuthMessage(b, p)
<1>1. /\ p.code \in {7, 9, 11} /\ p.id \in Nat /\ p.copy \in Nat /\ p.defect \in Defects
      /\ b.seed \in Nat /\ b.pos \in Nat /\ b.private \in Nat \cup {None} /\ b.shadow \in Nat \cup {None}
  BY DEF AuthReply, Child
<1>2. ASSUME NEW d \in Child, NEW r
      PROVE  /\ Result(d, r).out = d.out /\ Result(d, r).seed = d.seed /\ Result(d, r).pos = d.pos
             /\ Result(d, r).shadow = d.shadow /\ Result(d, r).private = d.private
  BY <1>2 DEF Result, Child
<1>6. CASE p.defect = "malformed"
  <2>1. c = Result(b, "unhandled")
    BY <1>6 DEF HandleInboundAuthMessage
  <2> HIDE DEF c
  <2>2. c.out = <<>> /\ c.shadow = b.shadow /\ c.private = b.private
    BY <1>2, <2>1
  <2> QED
    BY <2>2 DEF Dialogue, KeyFits, c
<1>3. CASE p.code = 7 /\ p.defect # "malformed"
  <2> DEFINE h == HandleGetPublicKeyReply(b, p)
             k == SendAuthRequest(h)
  <2>1. h \in Child /\ h.out = <<>> /\ h.shadow = b.shadow /\ h.private = b.private
    BY <1>1 DEF HandleGetPublicKeyReply, RebuildReplyPublicKeyWorkers, Signed, Child
  <2> HIDE DEF h
  <2>2. k \in Child /\ Opens(k) /\ k.shadow = h.shadow /\ k.private = h.private
    BY <2>1, AuthRequestTyped, AuthRequestOpens
  <2>3. v.phase = "request"
    BY <1>3 DEF Told
  <2> HIDE DEF k
  <2>4. c = KeyReplied(b, p)
    BY <1>3 DEF HandleInboundAuthMessage
  <2>5. \/ c = Result(b, "keyReplyError")
        \/ c = Result(h, "workerError")
        \/ c = Result(k, "continue")
    BY <2>4 DEF KeyReplied, h, k
  <2> HIDE DEF c
  <2>6. Opens(c)
    BY <1>2, <2>1, <2>2, <2>5 DEF Opens
  <2>7. KeyFits(c)
    BY <1>2, <2>1, <2>2, <2>5 DEF KeyFits
  <2> QED
    BY <2>3, <2>6, <2>7, OpensFits DEF c
<1>4. CASE p.code = 9 /\ p.defect # "malformed"
  <2> DEFINE f == [b EXCEPT !.pos = @ + 1]
  <2>1. v.phase = "answer" /\ p.seed = b.seed /\ p.pos = b.pos /\ b.pos = 0 /\ v.seed = b.seed /\ v.pos = 1
    BY <1>4 DEF Told
  <2>2. /\ f \in Child /\ f.out = <<>> /\ f.seed = b.seed /\ f.pos = 1
        /\ f.shadow = b.shadow /\ f.private = b.private
    BY <1>1, <2>1 DEF Child
  <2>3. Decrypts(b, p) = TRUE
    BY <2>1 DEF Decrypts
  <2>4. c = Result(Send(f, 10, None, f.seed, TRUE), "continue")
    BY <1>4, <2>3 DEF HandleInboundAuthMessage, ChallengeIsAnswered, AuthChallengeResponse
  <2> HIDE DEF f, c
  <2>5. PICK e \in AuthRequest :
            /\ Send(f, 10, None, f.seed, TRUE) = [f EXCEPT !.out = <<e>>]
            /\ e.code = 10 /\ e.right = TRUE
    <3>1. Holds(Send(f, 10, None, f.seed, TRUE), f, 10, f.seed, TRUE)
      <4>1. f.seed \in Nat /\ None \in Nat \cup {None}
        BY <1>1, <2>2
      <4> QED
        BY <2>2, <4>1, SendAlone
    <3> QED
      BY <3>1 DEF Holds
  <2> DEFINE h == [f EXCEPT !.out = <<e>>]
  <2>6. /\ h.out = <<e>> /\ h.seed = f.seed /\ h.pos = f.pos
        /\ h.shadow = f.shadow /\ h.private = f.private
    BY <2>2 DEF Child
  <2>7. h \in Child
    <3>1. <<e>> \in Seq(AuthRequest)
      OBVIOUS
    <3> QED
      BY <2>2, <3>1 DEF Child
  <2> HIDE DEF h
  <2>8. /\ c.out = <<e>> /\ c.seed = b.seed /\ c.pos = 1
        /\ c.shadow = b.shadow /\ c.private = b.private
    <3>1. c = Result(h, "continue")
      BY <2>4, <2>5 DEF h
    <3> QED
      BY <1>2, <2>2, <2>6, <2>7, <3>1
  <2>9. Asked(c, e, v)
    BY <2>1, <2>5, <2>8 DEF Asked
  <2> QED
    BY <2>8, <2>9 DEF Dialogue, KeyFits, c
<1>5. CASE p.code = 11 /\ p.defect # "malformed"
  <2> DEFINE m == Materialised(b, p)
  <2>1. m.out = <<>> /\ m.shadow = p.copy /\ (p.ok => m.private \in {p.copy, None})
    <3>1. p.ok => Decrypts(b, p)
      BY <1>5 DEF Told, Decrypts
    <3> QED
      BY <3>1 DEF Materialised, Child
  <2>2. m \in Child
    <3> DEFINE private == IF ~PrivateIsWhole(p) THEN None ELSE IF Decrypts(b, p) THEN p.copy ELSE 0
               pos == IF PrivateIsWhole(p) THEN b.pos + 6 ELSE b.pos
    <3>1. private \in Nat \cup {None} /\ pos \in Nat /\ p.copy \in Nat \cup {None}
      BY <1>1
    <3>2. m = [b EXCEPT !.shadow = p.copy, !.private = private, !.pos = pos]
      BY DEF Materialised
    <3> HIDE DEF private, pos, m
    <3> QED
      BY <3>1, <3>2 DEF Child
  <2> HIDE DEF m
  <2>3. \/ c = Result(b, "replyError")
        \/ c = Result(b, "validationError")
        \/ p.ok /\ c = Result(m, "success")
    BY <1>5 DEF HandleInboundAuthMessage, AuthReplied, m
  <2> HIDE DEF c
  <2>4. c.out = <<>> /\ KeyFits(c)
    BY <1>2, <2>1, <2>2, <2>3 DEF KeyFits
  <2> QED
    BY <2>4 DEF Dialogue, c
<1> QED
  BY <1>1, <1>3, <1>4, <1>5, <1>6

\* Entering state 5 starts a login, or leaves the dialogue alone.
LEMMA Enter5InDialogue ==
    ASSUME ChildTyped, InDialogue, NEW g, Enter5(g)
    PROVE  InDialogue'
<1>1. CASE Stale
  BY <1>1, LoginInDialogue DEF Enter5
<1>2. CASE ~Stale
  BY <1>2 DEF Enter5, authVars, linkVars, InDialogue
<1> QED
  BY <1>1, <1>2

\* A message is answered, or dropped by a state that waits for none.
LEMMA DeliverAuthInDialogue ==
    ASSUME ChildTyped, InDialogue, DeliverAuth
    PROVE  InDialogue'
<1> SUFFICES ASSUME ~crossed'
             PROVE  Dialogue(child', replies', server') /\ KeyFits(child')
  BY DEF InDialogue
<1>1. /\ replies # <<>> /\ replies' = Tail(replies) /\ server' = server /\ ~crossed
      /\ child' \in {child, HandleInboundAuthMessage(child, Head(replies))}
  BY DEF DeliverAuth, AuthMessageDispatch
<1>2. PICK p \in AuthReply : child.out = <<>> /\ replies = <<p>> /\ Told(child, p, server)
  BY <1>1 DEF InDialogue, Dialogue
<1>3. Head(replies) = p /\ Tail(replies) = <<>>
  BY <1>2, OneFacts
<1>4. child \in Child /\ KeyFits(child)
  BY <1>1 DEF ChildTyped, InDialogue
<1>5. CASE child' = child
  BY <1>1, <1>2, <1>3, <1>4, <1>5 DEF Dialogue
<1>6. CASE child' = HandleInboundAuthMessage(child, p)
  BY <1>1, <1>2, <1>3, <1>4, <1>6, InboundInDialogue
<1> QED
  BY <1>1, <1>3, <1>5, <1>6

\* The server answers where its own cipher is.
LEMMA AuthServerInDialogue ==
    ASSUME ChildTyped, InDialogue, AuthServerStep
    PROVE  InDialogue'
<1> SUFFICES ASSUME ~crossed'
             PROVE  Dialogue(child', replies', server') /\ KeyFits(child')
  BY DEF InDialogue
<1>1. ~crossed
  BY DEF AuthServerStep, linkVars
<1>2. PICK ok \in BOOLEAN, defect \in Defects :
          SendsKey(ok, defect) \/ Challenges(defect) \/ Replies(ok, defect)
  BY DEF AuthServerStep
<1>3. child.out # <<>> /\ child' = [child EXCEPT !.out = Tail(child.out)]
  BY <1>2 DEF SendsKey, Challenges, Replies, ServerStep
<1>4. /\ child \in Child /\ server \in AuthServer /\ KeyFits(child)
      /\ replies' \in Seq(AuthReply)
  BY <1>1, AuthServerTyped DEF ChildTyped, InDialogue
<1>5. PICK p \in AuthRequest : child.out = <<p>> /\ replies = <<>> /\ Asked(child, p, server)
  BY <1>1, <1>3 DEF InDialogue, Dialogue
<1>6. Head(child.out) = p /\ Tail(child.out) = <<>>
  BY <1>5, OneFacts
<1>7. /\ child'.out = <<>> /\ child'.seed = child.seed /\ child'.pos = child.pos
      /\ child'.shadow = child.shadow /\ child'.private = child.private
  BY <1>3, <1>4, <1>6 DEF Child
<1>8. KeyFits(child')
  BY <1>4, <1>7 DEF KeyFits
<1>9. ASSUME NEW e, replies' = Append(replies, e), Told(child', e, server')
      PROVE  Dialogue(child', replies', server')
  <2>1. replies' = <<e>>
    BY <1>5, <1>9, OneFacts
  <2>2. e \in AuthReply
    <3>1. Len(replies') = 1 /\ replies'[1] = e
      BY <2>1
    <3> QED
      BY <1>4, <3>1
  <2> QED
    BY <1>7, <1>9, <2>1, <2>2 DEF Dialogue
<1>10. CASE SendsKey(ok, defect)
  <2>1. p.code = 6 /\ server' = server /\ replies' = Append(replies, Answer(7, ok, 0, defect))
    BY <1>6, <1>10 DEF SendsKey, ServerStep
  <2>2. Told(child', Answer(7, ok, 0, defect), server')
    BY <1>5, <2>1 DEF Asked, Told, Answer
  <2> QED
    BY <1>8, <1>9, <2>1, <2>2
<1>11. CASE Challenges(defect)
  <2>1. p.code = 8
    BY <1>6, <1>11 DEF Challenges, ServerStep
  <2>2. server.phase = "request" /\ p.seed = child.seed /\ child.pos = 0
    BY <1>5, <2>1 DEF Asked
  <2>3. CASE p.id = server.key
    <3> DEFINE e == [Answer(9, TRUE, 0, defect) EXCEPT !.seed = p.seed]
    <3>1. /\ server' = [server EXCEPT !.phase = "answer", !.seed = p.seed, !.pos = 1]
          /\ replies' = Append(replies, e)
      BY <1>6, <1>11, <2>3 DEF Challenges
    <3>2. server'.phase = "answer" /\ server'.seed = p.seed /\ server'.pos = 1
      BY <1>4, <3>1 DEF AuthServer
    <3>3. e.code = 9 /\ e.seed = p.seed /\ e.pos = 0
      BY DEF Answer
    <3> HIDE DEF e
    <3>4. Told(child', e, server')
      BY <1>7, <2>2, <3>2, <3>3 DEF Told
    <3> QED
      BY <1>8, <1>9, <3>1, <3>4
  <2>4. CASE p.id # server.key
    <3> DEFINE e == Answer(11, FALSE, 0, defect)
    <3>1. server' = [server EXCEPT !.phase = "request"] /\ replies' = Append(replies, e)
      BY <1>6, <1>11, <2>4 DEF Challenges
    <3>2. server'.phase = "request" /\ e.code = 11 /\ ~e.ok
      BY <1>4, <3>1 DEF AuthServer, Answer
    <3>3. Told(child', e, server')
      BY <3>2 DEF Told
    <3> QED
      BY <1>8, <1>9, <3>1, <3>3
  <2> QED
    BY <2>3, <2>4
<1>12. CASE Replies(ok, defect)
  <2> DEFINE right == ok /\ p.right /\ p.seed = server.seed
             e == Answer(11, right, server.pos, defect)
  <2>1. p.code = 10
    BY <1>6, <1>12 DEF Replies, ServerStep
  <2>2. server.phase = "answer" /\ server.seed = child.seed /\ server.pos = 1 /\ child.pos = 1
    BY <1>5, <2>1 DEF Asked
  <2>3. /\ server' = [server EXCEPT !.phase = "request", !.copies = @ + (IF right THEN 1 ELSE 0)]
        /\ replies' = Append(replies, e)
    BY <1>6, <1>12, <2>2 DEF Replies
  <2>4. e.code = 11 /\ e.seed = server.seed /\ e.pos = server.pos
    BY DEF Answer
  <2>5. server'.phase = "request"
    BY <1>4, <2>3 DEF AuthServer
  <2> HIDE DEF e
  <2>6. Told(child', e, server')
    BY <1>7, <2>2, <2>4, <2>5 DEF Told
  <2> QED
    BY <1>8, <1>9, <2>3, <2>6
<1> QED
  BY <1>2, <1>10, <1>11, <1>12

\* The dialogue stays one packet long until a login crosses another.
LEMMA StepInDialogue == ChildTyped /\ InDialogue /\ [Next]_vars => InDialogue'
<1> SUFFICES ASSUME ChildTyped, InDialogue, [Next]_vars
             PROVE  InDialogue'
  OBVIOUS
<1>1. ASSUME UNCHANGED authVars, UNCHANGED crossed
      PROVE  InDialogue'
  BY <1>1 DEF authVars, InDialogue
<1>2. CASE ProcessLogin
  BY <1>2, LoginInDialogue DEF ProcessLogin
<1>3. CASE EnterCopy
  BY <1>3, Enter5InDialogue DEF EnterCopy
<1>4. CASE DeliverAuth
  BY <1>4, DeliverAuthInDialogue
<1>5. CASE DeliverMargin
  <2>1. (UNCHANGED authVars /\ UNCHANGED linkVars) \/ \E g : Enter5(g)
    BY <1>5 DEF DeliverMargin
  <2> QED
    BY <1>1, <2>1, Enter5InDialogue DEF linkVars
<1>6. CASE AuthServerStep
  BY <1>6, AuthServerInDialogue
<1>7. CASE Rotate
  <2>1. child' = child /\ replies' = replies /\ crossed' = crossed
    BY <1>7 DEF Rotate, Rotates, linkVars
  <2>2. PICK k : server' = [server EXCEPT !.key = k]
    BY <1>7 DEF Rotate, Rotates
  <2>3. server'.phase = server.phase /\ server'.seed = server.seed /\ server'.pos = server.pos
    BY <2>2 DEF ChildTyped, AuthServer
  <2> QED
    BY <2>1, <2>3 DEF InDialogue, Dialogue, Asked, Told
<1>8. CASE \/ OpenMargin \/ SendRequest \/ Cancel \/ CloseCompletes \/ MarginServerStep
           \/ MarginServerRefuses \/ AuthLost \/ MarginLost \/ Expire \/ ServerRekeys
           \/ UNCHANGED vars
  <2>1. UNCHANGED authVars /\ UNCHANGED crossed
    BY <1>8 DEF OpenMargin, SendRequest, Cancel, CloseCompletes, MarginServerStep,
       MarginServerRefuses, AuthLost, MarginLost, MarginEnds, Expire, ServerRekeys, linkVars, vars
  <2> QED
    BY <1>1, <2>1
<1> QED
  BY <1>2, <1>3, <1>4, <1>5, <1>6, <1>7, <1>8 DEF Next, Client, Deliver, Servers, Environment

\* The dialogue is followed at all times.
LEMMA DialogueAlways == Spec => []InDialogue
<1>1. Init => InDialogue
  BY DEF Init, BootstrapInit, InDialogue, Dialogue, KeyFits
<1> QED
  BY <1>1, StepInDialogue, TypedAlways, PTL DEF Spec

\* A challenge is answered with the key it was sent under, for any number of
\* logins, keys and faults, until a login crosses another.
THEOREM AnswersAreRight == Spec => []AnswersFit
<1>1. InDialogue => AnswersFit
  <2> SUFFICES ASSUME InDialogue, ~crossed, NEW i \in DOMAIN child.out, child.out[i].code = 10
               PROVE  child.out[i].right
    BY DEF AnswersFit
  <2>1. child.out # <<>>
    OBVIOUS
  <2>2. PICK p \in AuthRequest : child.out = <<p>> /\ Asked(child, p, server)
    BY <2>1 DEF InDialogue, Dialogue
  <2>3. child.out[i] = p
    BY <2>2
  <2> QED
    BY <2>2, <2>3 DEF Asked
<1> QED
  BY <1>1, DialogueAlways, PTL

\* The private key that is kept is the kept copy's; and a margin server
\* challenges the copy whose key the connection has.
THEOREM KeysAlwaysFit == Spec => []KeysFitTheCopy
<1>1. InDialogue /\ ChallengeFitsTheCopy => KeysFitTheCopy
  BY DEF InDialogue, KeyFits, ChallengeFitsTheCopy, KeysFitTheCopy
<1> QED
  BY <1>1, DialogueAlways, HandshakeIsSession, ChallengesFit, PTL

=============================================================================
