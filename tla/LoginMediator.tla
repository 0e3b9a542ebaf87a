----------------------------- MODULE LoginMediator -----------------------------
(***************************************************************************)
(* CLTLoginMediator and its login states, on the client thread.            *)
(*                                                                         *)
(* The mediator owns one connection to the authentication server and one   *)
(* to a margin server, and a current state object.  Everything happens in  *)
(* calls of the client and in the completed operations it polls from the   *)
(* engine: a connect status, a parsed packet, a close.  A handler may      *)
(* switch the state, and entering a state (Slot3) may open a connection,   *)
(* send a request or switch again, so a handler is one operator from the   *)
(* mediator's record to the next, built from the operators that enter the  *)
(* states.  States that need another one first remember who sent them      *)
(* (cachedUpstreamOrArg_0x4) and go back there.                            *)
(*                                                                         *)
(* A connection appears as the engine shows it (TcpEngine): a state the    *)
(* worker changes at any time and items in one queue.  The authentication  *)
(* dialogue is one request and one reply, the copy of the reply that opens *)
(* a margin session is another.                                            *)
(***************************************************************************)
EXTENDS Naturals, Sequences, FiniteSets, SequencesExt

CONSTANTS
    Links,          \* bound: connection objects in use at a time
    AuthAddresses,  \* addresses the authentication server's name resolves to
    Worlds,         \* game worlds
    Addresses,      \* addresses each world's margin name resolves to; 0 is a DNS failure
    Characters,     \* character names
    WorldOf,        \* the world each character lives in
    Account,        \* the characters of the account at first
    MaxSlots,       \* size of the slot table; 100
    MaxSections,    \* bound: sections in one reply, which counts them in a byte
    MaxChunks,      \* chunks the chunk buffer has room for; 32
    ListRoom,       \* bound: list sections the 16-bit length of a list has room for
    MaxCalls,       \* bound: requests of the client
    MaxFaults,      \* bound: failed connects, lost connections and refusals
    MaxActs,        \* bound: requests and faults together
    None            \* a null pointer, slot 0xff

ASSUME LoginAssumption ==
    /\ AuthAddresses \in Nat
    /\ Addresses \in [Worlds -> Nat]
    /\ WorldOf \in [Characters -> Worlds]
    /\ IsFiniteSet(Characters)
    /\ Account \subseteq Characters
    /\ MaxSlots \in Nat
    /\ MaxSections \in 1 .. 255
    /\ MaxChunks \in Nat
    /\ ListRoom \in Nat \ {0}
    /\ MaxCalls \in Nat
    /\ MaxFaults \in Nat
    /\ MaxActs \in Nat
    /\ None \notin Links \cup Worlds \cup Characters \cup Nat

VARIABLES
    m,          \* the mediator, its states and its connections
    queue,      \* the engine's completed operations, oldest first
    account,    \* the characters the server keeps
    wish,       \* history: what the client asked for and has no answer to
    left,       \* history: what was left behind: a "sender" cached in state 4, a
                \* "request" the client gave up, one with a "reply" to come, the
                \* "session" of a lost connection
    calls,      \* requests made
    faults      \* faults so far

vars == <<m, queue, account, wish, left, calls, faults>>

-----------------------------------------------------------------------------
(* Types                                                                   *)

StateIds == 0 .. 13
Upstreams == StateIds \cup {None}
Cachers == {1, 2, 4, 5, 6}      \* states with a cachedUpstreamOrArg_0x4

\* Dead: Closing with the socket closed, so that no worker will report the end.
\* ok4: MessageCode4SuccessFlag84.  reported: the connect status is queued.
\* asked: requests the server has not answered.  challenged: the margin
\* server has started a session on this connection.
Link ==
    [kind : {"free", "auth", "margin"},
     st : {"Closed", "ConnectActive", "UdpMonitorActive", "Closing", "Dead"},
     ok4 : BOOLEAN,
     challenged : BOOLEAN,
     reported : BOOLEAN,
     asked : Seq([what : {"login", "copy", "connect", "answer", "delete", "load", "claim",
                          "create", "submit"},
                  who : Characters \cup {None}])]

FreeLink == [kind |-> "free", st |-> "Closed", ok4 |-> FALSE, challenged |-> FALSE,
             reported |-> FALSE, asked |-> <<>>]

\* A profile is loaded in numbered sections: the body, data that is appended
\* to a list and chunks of a buffer.  of: whose profile it is part of.
Kinds == {"body", "list", "chunk"}
SectionData == [kind : Kinds, number : 1 .. MaxSections, final : BOOLEAN, of : Characters \cup {None}]

\* state8PersistenceDataF1c and its buffers: whose, and the sections stored.
\* cut: history, the list outgrew its length.
Profile == [name : Characters \cup {None}, id : Characters \cup {None}, body : Nat, list : Seq(Nat),
            cut : BOOLEAN, chunks : SUBSET Nat]
NoProfile == [name |-> None, id |-> None, body |-> 0, list |-> <<>>, cut |-> FALSE, chunks |-> {}]

Posting == [kind : {"event", "error"}, id : Nat]

\* A completed operation: the result of a connect, a close or a packet.
Messages ==
    [code : {"", "authReply", "copied", "challenge", "verdict", "deleted", "section", "claimed",
             "submitted"},
     status : {"ok", "fail", "badKey", "badSignature", "refused", "garbled", "oversized", "elsewhere",
               "stale"},
     data : SectionData \cup {None},
     characters : Seq(Characters)]
Items == [link : Links, type : {"Status", "Close", "Packet"}, msg : Messages]

Mediator ==
    [state : StateIds,
     goto : StateIds \cup {None},           \* the state a handler switches to
     ready : BOOLEAN,                       \* between Initialize and ClearEngine
     auth : Links \cup {None},              \* authConnection_
     margin : Links \cup {None},            \* marginConnection_
     flag2c : BOOLEAN,                      \* authConnectionFlag2c_
     flag2d : BOOLEAN,                      \* marginConnectionFlag2d_
     F14 : BOOLEAN,                         \* state10SendGateFlagF14
     up : [Cachers -> Upstreams],
     attempts : Nat,                        \* authConnectAttemptCount28_
     authList : 0 .. AuthAddresses,         \* addresses in authAddressList4c_
     begins : Nat,                          \* marginBeginCount24_
     host : Worlds \cup {None},             \* marginAddressListResolvedHostName3c_
     marginList : Nat,                      \* addresses in marginAddressList3c_
     route : Worlds \cup {None},            \* routeDescriptor30_
     fresh : BOOLEAN,                       \* a reply copy that has not expired
     gate : BOOLEAN,                        \* the one-time gate of the first login
     slots : Seq(Characters),               \* slotRecordTable04_
     current : 0 .. MaxSlots - 1 \cup {None},   \* currentSlotOrSelectionIndex644_
     create : Characters \cup {None},       \* createCharacterData108
     named : BOOLEAN,                       \* its characterName00 is not empty
     unread : BOOLEAN,                      \* history: the state has ignored a reply to its request
     seen : 0 .. 255,                       \* replySectionsSeen04_
     expected : 0 .. 255,                   \* replySectionsExpected05_
     profile : Profile,
     callbacks : {"none", "join", "fail"},  \* ownerCallback84_ and ownerObject88_: what a submit does
     link : [Links -> Link],
     full : BOOLEAN,                        \* the bound Links was hit
     posted : Seq(Posting),                 \* to the observers, by the handler under way
     after : Seq(Posting)]                  \* and once the new state is entered

Requests == {"login", "play", "delete", "create"}
NoWish == [what |-> "none", who |-> None]

\* Every variable holds a value of its type.
TypeOK ==
    /\ m \in Mediator
    /\ queue \in Seq(Items)
    /\ account \subseteq Characters
    /\ wish \in [what : Requests \cup {"none"}, who : Characters \cup {None}]
    /\ left \subseteq {"sender", "request", "reply", "session"}
    /\ calls \in 0 .. MaxCalls
    /\ faults \in 0 .. MaxFaults

Init ==
    /\ m = [state |-> 0, goto |-> None, ready |-> TRUE, auth |-> None, margin |-> None,
            flag2c |-> FALSE, flag2d |-> FALSE, F14 |-> FALSE,
            up |-> [s \in Cachers |-> None],
            attempts |-> 0, authList |-> AuthAddresses, begins |-> 0,
            host |-> None, marginList |-> 0, route |-> None,
            fresh |-> FALSE, gate |-> FALSE, slots |-> <<>>, current |-> None, create |-> None,
            named |-> FALSE, unread |-> FALSE,
            seen |-> 0, expected |-> 0, profile |-> NoProfile, callbacks |-> "none",
            link |-> [l \in Links |-> FreeLink], full |-> FALSE, posted |-> <<>>,
            after |-> <<>>]
    /\ queue = <<>>
    /\ account = Account
    /\ wish = NoWish
    /\ left = {}
    /\ calls = 0
    /\ faults = 0

-----------------------------------------------------------------------------
(* Connections                                                             *)

Post(r, posting) ==
    IF r.goto = None THEN [r EXCEPT !.posted = Append(@, posting)]
    ELSE [r EXCEPT !.after = Append(@, posting)]

PostEvent(r, e) == Post(r, [kind |-> "event", id |-> e])
PostError(r, e) == Post(r, [kind |-> "error", id |-> e])

State(r, l) == IF l = None THEN "none" ELSE r.link[l].st
Ready(r, l) == State(r, l) = "UdpMonitorActive"

\* Close(graceful), which does something in two states only.
CloseLink(r, l) ==
    IF State(r, l) \in {"ConnectActive", "UdpMonitorActive"}
    THEN [r EXCEPT !.link[l].st = "Closing"]
    ELSE r

\* Close(false), after which the worker cannot report anything.
CloseHard(r, l) ==
    IF State(r, l) \in {"ConnectActive", "UdpMonitorActive"}
    THEN [r EXCEPT !.link[l].st = "Dead"]
    ELSE r

Unused(r) == {l \in Links : r.link[l].kind = "free"}
NextLink(r) == CHOOSE l \in Unused(r) : TRUE

\* new CMessageConnection; a margin connection whose route does not resolve
\* is never connected.
NewLink(r, kind, st) ==
    LET l == NextLink(r)
        n == [r EXCEPT !.link[l] = [FreeLink EXCEPT !.kind = kind, !.st = st]]
    IN  IF Unused(r) = {} THEN [r EXCEPT !.full = TRUE]
        ELSE IF kind = "auth" THEN [n EXCEPT !.auth = l] ELSE [n EXCEPT !.margin = l]

\* What is sent on a connection that is not connected is lost.
Ask(r, l, what, who) ==
    IF Ready(r, l)
    THEN [r EXCEPT !.link[l].asked = Append(@, [what |-> what, who |-> who])]
    ELSE r

RequestAuthClose(r) ==
    IF r.auth = None THEN r ELSE CloseLink([r EXCEPT !.flag2c = TRUE], r.auth)

RequestMarginClose(r) ==
    IF r.margin = None THEN r
    ELSE CloseLink([r EXCEPT !.F14 = FALSE, !.flag2d = TRUE], r.margin)

\* An empty list is resolved again.  The cursor moves on at each attempt
\* and wraps at the end; only how many were tried matters.
BeginAuthConnection(r) ==
    LET n == NewLink(RequestAuthClose(r), "auth", "ConnectActive")
    IN  [n EXCEPT !.flag2c = FALSE,
                  !.authList = IF @ = 0 THEN AuthAddresses ELSE @,
                  !.attempts = @ + 1]

\* The old connection is forgotten, not closed.
BeginMarginConnection(r, world) ==
    LET resolves == world = r.host /\ r.marginList > 0
        list == IF resolves THEN r.marginList ELSE IF world = None THEN 0 ELSE Addresses[world]
        n == NewLink(r, "margin", IF list > 0 THEN "ConnectActive" ELSE "Closed")
        o == [n EXCEPT !.flag2d = FALSE, !.route = world]
    IN  IF world = None THEN o
        ELSE IF list = 0 THEN [o EXCEPT !.host = world, !.marginList = 0]
        ELSE [o EXCEPT !.host = world, !.marginList = list, !.begins = @ + 1]

-----------------------------------------------------------------------------
(* Entering a state: the Slot3 of the new state                            *)

Phase(up) == IF up = None THEN 0 ELSE up

\* SetCurrentState.  A handler switches at most once, and posts after that
\* what its last lines post; see Settled.
Switch(r, s) == [r EXCEPT !.goto = s]

Enter1(r, from) == BeginAuthConnection([r EXCEPT !.up[1] = from])

\* Coming back from state 1 keeps the first sender.
Enter2(r, from) ==
    LET e == [r EXCEPT !.up[2] = IF from = 1 THEN @ ELSE from]
    IN  IF Ready(e, e.auth) THEN Ask(e, e.auth, "login", None)
        ELSE Switch([e EXCEPT !.authList = 0, !.attempts = 0], 1)

WorldOfSlot(r) == IF r.current = None \/ r.current >= Len(r.slots) THEN None
                  ELSE WorldOf[r.slots[r.current + 1]]

\* The world state 4 connects to depends on who sent it.
Route(r) ==
    CASE Phase(r.up[4]) = 6 -> r.route
      [] Phase(r.up[4]) \in {7, 8, 13} -> WorldOfSlot(r)
      [] OTHER -> IF r.create = None THEN None ELSE WorldOf[r.create]

\* For a sender without a route it connects to nothing.
Connect4(r) ==
    IF Phase(r.up[4]) \in {6, 7, 8, 10, 13} THEN BeginMarginConnection(r, Route(r)) ELSE r

Enter4(r, from) == Connect4([r EXCEPT !.up[4] = IF @ = None THEN from ELSE @])

Enter5(r, from) ==
    LET e == [r EXCEPT !.up[5] = IF @ # None /\ from \in {2, 4} THEN @ ELSE from]
    IN  IF e.fresh THEN PostEvent(Ask(e, e.margin, "copy", None), 16) ELSE Switch(e, 2)

Enter6(r, from) ==
    LET e == [r EXCEPT !.up[6] = IF @ # None /\ from \in {4, 5} THEN @ ELSE from]
    IN  IF ~Ready(e, e.margin) THEN Switch(e, 4)
        ELSE IF ~e.link[e.margin].ok4 THEN Switch(e, 5)
        ELSE PostEvent(Ask(e, e.margin, "connect", None), 17)

\* States 7, 8 and 10 need a margin connection and a session on it.
WithSessionUngated(r, what, who, event) ==
    IF ~Ready(r, r.margin) THEN Switch(r, 4)
    ELSE PostEvent(Ask(r, r.margin, what, who), event)

WithSession(r, what, who, event) ==
    IF ~Ready(r, r.margin) THEN Switch(r, 4)
    ELSE IF ~r.F14 THEN Switch(r, 6)
    ELSE PostEvent(Ask(r, r.margin, what, who), event)

SlotNameIsWorld(r) == IF r.current = None \/ r.current >= Len(r.slots) THEN None
                      ELSE WorldOf[r.slots[r.current + 1]]
SlotName(r) == IF r.current = None \/ r.current >= Len(r.slots) THEN None
               ELSE r.slots[r.current + 1]

Enter7(r) == WithSession(r, "delete", SlotName(r), 7)

\* Packet_MsLoadCharacterRequest for the selected row.
LoadRequest(r) == WithSession(r, "load", SlotName(r), 9)

Enter8(r) ==
    LoadRequest(IF Ready(r, r.margin) /\ r.F14 THEN [r EXCEPT !.seen = 0, !.expected = 0] ELSE r)

\* Without the client's callbacks and without an endpoint nothing is submitted.
State9SubmitFollowup(r) ==
    IF r.callbacks = "join" /\ r.margin # None THEN Ask(r, r.margin, "submit", None) ELSE r

Enter9ReportsAtOnce(r) ==
    LET s == State9SubmitFollowup(r)
    IN  IF r.callbacks = "fail" /\ r.margin # None THEN s ELSE PostEvent(s, 24)

\* A submit that fails is not reported; one that is not made is, as success.
Enter9(r) ==
    LET s == State9SubmitFollowup(r)
    IN  IF r.callbacks = "fail" /\ r.margin # None THEN s ELSE PostEvent(s, 23)

CharacterName(r) == IF r.named THEN r.create ELSE None

Enter10(r) == WithSession(r, "claim", CharacterName(r), 19)

Enter11(r) ==
    PostEvent(Ask([r EXCEPT !.seen = 0, !.expected = 0], r.margin, "create", r.create), 21)

Entered(r) ==
    LET from == r.state
        s == r.goto
        e == [r EXCEPT !.state = s, !.goto = None, !.unread = FALSE]
    IN  CASE s = 1 -> Enter1(e, from)
          [] s = 2 -> Enter2(e, from)
          [] s = 4 -> Enter4(e, from)
          [] s = 5 -> Enter5(e, from)
          [] s = 6 -> Enter6(e, from)
          [] s = 7 -> Enter7(e)
          [] s = 8 -> Enter8(e)
          [] s = 9 -> Enter9(e)
          [] s = 10 -> Enter10(e)
          [] s = 11 -> Enter11(e)
          [] OTHER -> e

\* SetCurrentState enters the new state before it returns, and a state may
\* switch again: 8, 6, 5, 2, 1 is the longest way.  The posts after it follow.
Onward(r) == IF r.goto = None THEN r ELSE Entered(r)

Settled(r) ==
    LET way[i \in 0 .. 5] == IF i = 0 THEN r ELSE Onward(way[i - 1])
        e == way[5]
    IN  [e EXCEPT !.posted = @ \o e.after, !.after = <<>>]

Fail(r, s, error) == PostError(Switch(r, s), error)

-----------------------------------------------------------------------------
(* Completed operations of the authentication connection                   *)

\* A close is an answer to a request to close, or the connection was lost.
AuthClosed(r) ==
    LET c == [r EXCEPT !.auth = None]
    IN  IF c.flag2c THEN PostEvent(c, 1) ELSE Fail(c, 0, 1)

AuthStatus(r, status) ==
    IF r.state # 1 THEN r
    ELSE IF status = "ok" THEN PostEvent(Switch(r, r.up[1]), 0)
    ELSE LET f == [r EXCEPT !.flag2c = TRUE]
         IN  IF f.attempts < f.authList THEN BeginAuthConnection(f)
             ELSE Fail([f EXCEPT !.attempts = 0], 0, 0)

SlotRecords(characters) ==
    IF Len(characters) > MaxSlots THEN SubSeq(characters, 1, MaxSlots) ELSE characters

\* The first login of the process fills the slot table; later ones keep it.
LoggedIn(r, characters) ==
    LET first == PostEvent([r EXCEPT !.gate = TRUE, !.current = None,
                                     !.slots = SlotRecords(characters)], 6)
        known == IF r.gate THEN r ELSE first
        l == [known EXCEPT !.fresh = TRUE]
    IN  PostEvent(Switch(l, IF Phase(l.up[2]) = 0 THEN 3 ELSE l.up[2]), 5)

AuthMessage(r, msg) ==
    LET h == [r EXCEPT !.flag2c = TRUE]
    IN  CASE r.state # 2 -> r
          [] r.state = 2 /\ msg.status = "ok" -> LoggedIn(h, msg.characters)
          [] r.state = 2 /\ msg.status = "badKey" -> Fail(h, 0, 2)
          [] r.state = 2 /\ msg.status = "badSignature" -> Fail(h, 0, 15)
          [] r.state = 2 /\ msg.status = "refused" -> Fail(h, 0, 4)

-----------------------------------------------------------------------------
(* Completed operations of the margin connection                           *)

MarginClosedSilent(r) ==
    LET c == [r EXCEPT !.margin = None]
    IN  IF c.state = 13 THEN c ELSE IF c.flag2d THEN PostEvent(c, 15) ELSE Switch(c, 3)

\* The connection is no longer the mediator's when the flag of its session
\* would be cleared, so F14 stays.  State 13 does nothing.
MarginClosed(r) ==
    LET c == [r EXCEPT !.margin = None]
    IN  IF c.state = 13 THEN c ELSE IF c.flag2d THEN PostEvent(c, 15) ELSE Fail(c, 3, 7)

MarginStatus(r, status) ==
    LET back == [r EXCEPT !.up[4] = None]
        f == [r EXCEPT !.flag2d = TRUE]
    IN  IF r.state # 4 THEN r
        ELSE IF status = "ok" THEN PostEvent(Switch(back, Phase(r.up[4])), 14)
        ELSE IF f.begins < f.marginList THEN Connect4(f)
        ELSE IF Phase(f.up[4]) = 13 THEN PostError(f, 6)
        ELSE Fail([f EXCEPT !.up[4] = None, !.begins = 0], 3, 6)

\* Code 4, the answer to the reply copy, becomes a local operation 0x0b.
CopyAnswered(r, l, status) ==
    LET s == [r EXCEPT !.link[l].ok4 = status = "ok"]
    IN  IF l # r.margin \/ r.state # 5 THEN s
        ELSE Switch([s EXCEPT !.flag2d = @ \/ status # "ok"], Phase(s.up[5]))

\* State 6: the challenge of a session, answered with hashes of the
\* client's files, and its verdict.
SessionChallenge(r, hashed) ==
    IF ~hashed THEN Fail(r, 0, 3)
    ELSE Ask([r EXCEPT !.F14 = TRUE, !.link[r.margin].challenged = TRUE], r.margin, "answer", None)

SessionVerdict(r, status) ==
    LET closed == RequestMarginClose(r)
        begun == [r EXCEPT !.begins = 0, !.F14 = TRUE, !.link[r.margin].challenged = TRUE]
    IN  CASE status = "ok" -> IF r.up[6] = None THEN begun
                              ELSE PostEvent(Switch(begun, r.up[6]), 18)
          [] status = "elsewhere" /\ r.begins < r.marginList -> Switch(closed, 4)
          [] status = "stale" -> Switch(closed, 2)
          [] OTHER -> Fail([closed EXCEPT !.begins = 0], 3, 8)

Deleted(r, status) ==
    RequestMarginClose(IF status = "ok" THEN PostEvent(Switch(r, 3), 8) ELSE Fail(r, 3, 9))

\* States 8 and 11: a reply in sections.  The final one's number is how many
\* there are; they are counted, not identified.
Failed8(r) == Fail(r, 3, 10)

\* The new character's name is forgotten, its world is not.
Failed11(r) == Fail([r EXCEPT !.current = None, !.named = FALSE], 3, 12)

Fresh8KeepsLists(r, s) ==
    [r EXCEPT !.profile = [@ EXCEPT !.name = SlotName(r), !.id = s.of, !.body = 0]]

\* The first section starts a new profile.
Fresh8(r, s) == [r EXCEPT !.profile = [NoProfile EXCEPT !.name = SlotName(r), !.id = s.of]]
Fresh11(r, s) == [r EXCEPT !.profile = [NoProfile EXCEPT !.name = CharacterName(r), !.id = s.of]]

Body(p, s) == [p EXCEPT !.body = s.number]

\* The length is kept in 16 bits: a longer list goes on where the length says.
Listed(p, s) ==
    LET length == (Len(p.list) + 1) % ListRoom
    IN  [p EXCEPT !.list = SubSeq(Append(@, s.number), 1, length), !.cut = @ \/ length = 0]

\* A chunk's number is its place in the buffer: one behind the end is dropped.
Chunk(p, s) == IF s.number <= MaxChunks THEN [p EXCEPT !.chunks = @ \cup {s.number}] ELSE p

Stored8(p, s) ==
    CASE s.kind = "body" -> Body(p, s)
      [] s.kind = "list" -> Listed(p, s)
      [] s.kind = "chunk" -> Chunk(p, s)

\* A new character has no chunks.
Stored11(p, s) == IF s.kind = "chunk" THEN p ELSE Stored8(p, s)

Seeded(r, s) == IF s.final THEN [r EXCEPT !.expected = s.number] ELSE r
Counted(r) == [r EXCEPT !.seen = IF @ < 255 THEN @ + 1 ELSE @]

Finished(r, event) ==
    IF r.expected > 0 /\ r.seen >= r.expected
    THEN PostEvent(Switch([r EXCEPT !.seen = 0, !.expected = 0], 9), event)
    ELSE r

\* Without a selected row the section is not counted.
Section8(r, s) ==
    LET f == IF r.seen = 0 THEN Fresh8(r, s) ELSE r
    IN  IF r.seen = 0 /\ SlotName(r) = None THEN f
        ELSE Finished(Counted([Seeded(f, s) EXCEPT !.profile = Stored8(@, s)]), 11)

Section11(r, s) ==
    LET f == IF r.seen = 0 THEN Fresh11(r, s) ELSE r
    IN  Finished(Counted([Seeded(f, s) EXCEPT !.profile = Stored11(@, s)]), 22)

NameClaimedUnlisted(r, status) ==
    IF status # "ok" THEN Fail(r, 3, 11)
    ELSE PostEvent(Switch([r EXCEPT !.current = Len(r.slots)], 11), 20)

\* State 10 appends the new character to the slot table and creates it.
NameClaimed(r, status) ==
    IF status # "ok" THEN Fail(r, 3, 11)
    ELSE IF Len(r.slots) >= MaxSlots THEN r
    ELSE PostEvent(Switch([r EXCEPT !.current = Len(r.slots),
                                             !.slots = Append(@, r.create)], 11), 20)

Submitted(r, status) ==
    IF status = "ok" THEN PostEvent(Switch(RequestMarginClose(r), 12), 24) ELSE Fail(r, 3, 13)

\* Slot6: a state takes the messages it waits for and ignores all others.
MarginMessage(r, msg, hashed) ==
    CASE r.state = 6 /\ msg.code = "challenge" -> SessionChallenge(r, hashed)
      [] r.state = 6 /\ msg.code = "verdict" -> SessionVerdict(r, msg.status)
      [] r.state = 7 /\ msg.code = "deleted" -> Deleted(r, msg.status)
      [] r.state = 8 /\ msg.code = "section" ->
            IF msg.status = "ok" THEN Section8(r, msg.data) ELSE Failed8(r)
      [] r.state = 11 /\ msg.code = "section" ->
            IF msg.status = "ok" THEN Section11(r, msg.data) ELSE Failed11(r)
      [] r.state = 10 /\ msg.code = "claimed" -> NameClaimed(r, msg.status)
      [] r.state = 9 /\ msg.code = "submitted" -> Submitted(r, msg.status)
      [] OTHER -> r

\* What each state waits for.
Awaits(s, code) ==
    <<s, code>> \in {<<2, "authReply">>, <<5, "copied">>, <<6, "challenge">>, <<6, "verdict">>,
                     <<7, "deleted">>, <<8, "section">>, <<9, "submitted">>, <<10, "claimed">>,
                     <<11, "section">>}

\* A message that cannot be read is ignored: the state waits on.
Unread(r, i) ==
    IF i.link \in {r.auth, r.margin} /\ Awaits(r.state, i.msg.code) THEN [r EXCEPT !.unread = TRUE]
    ELSE r

\* What is not the mediator's current connection does not reach it.
Dispatched(r, i, hashed) ==
    CASE i.type = "Close" /\ i.link = r.auth -> AuthClosed(r)
      [] i.type = "Close" /\ i.link = r.margin -> MarginClosed(r)
      [] i.type = "Status" /\ i.link = r.auth -> AuthStatus(r, i.msg.status)
      [] i.type = "Status" /\ i.link = r.margin -> MarginStatus(r, i.msg.status)
      [] i.type = "Packet" /\ i.link = r.auth -> AuthMessage(r, i.msg)
      [] i.type = "Packet" /\ i.msg.code = "copied" -> CopyAnswered(r, i.link, i.msg.status)
      [] i.type = "Packet" /\ i.msg.code # "copied" /\ i.link = r.margin ->
            MarginMessage(r, i.msg, hashed)
      [] OTHER -> r

\* OnOperationCompleted of both connections, which closes its own connection
\* over a packet of more than 0x1000 bytes.
Completed(r, i, hashed) ==
    IF i.type = "Packet" /\ i.msg.status = "oversized" THEN CloseHard(r, i.link)
    ELSE IF i.type = "Packet" /\ i.msg.status = "garbled" THEN Unread(r, i)
    ELSE Dispatched(r, i, hashed)

-----------------------------------------------------------------------------
(* Steps                                                                   *)

\* A connection object nobody points to, with nothing more to come, is gone.
Gone(r, q, l) ==
    /\ r.link[l].st \in {"Closed", "Dead"}
    /\ l \notin {r.auth, r.margin}
    /\ \A i \in DOMAIN q : q[i].link # l

Tidy(r, q) ==
    [r EXCEPT !.posted = <<>>, !.link = [l \in Links |-> IF Gone(r, q, l) THEN FreeLink ELSE @[l]]]

\* Part of a profile is on its way.
SectionsToCome ==
    /\ m.margin # None
    /\ \/ \E i \in DOMAIN queue : queue[i].link = m.margin /\ queue[i].msg.code = "section"
       \/ \E i \in DOMAIN m.link[m.margin].asked : m.link[m.margin].asked[i].what \in {"load", "create"}

Posted(r, kind, id) == [kind |-> kind, id |-> id] \in ToSet(r.posted)

\* What the client takes for the answer to its request: the event it waits
\* for, or any error.
Answers(r, w) ==
    \/ \E i \in DOMAIN r.posted : r.posted[i].kind = "error"
    \/ w.what = "login" /\ Posted(r, "event", 5)
    \/ w.what = "delete" /\ Posted(r, "event", 8)
    \/ w.what \in {"play", "create"} /\ Posted(r, "event", 24)

\* The client thread makes h of m, with w the request under way.
Take(h, q, w) == LET r == Settled(h) IN
    /\ ~r.full
    /\ m' = Tidy(r, q)
    /\ queue' = q
    /\ wish' = IF Answers(r, w) THEN NoWish ELSE w
    /\ left' = left
          \cup (IF m.state = 4 /\ r.state # 4 /\ r.up[4] # None THEN {"sender"} ELSE {})
          \cup (IF wish # NoWish /\ w # wish THEN {"request"} ELSE {})
          \cup (IF wish # NoWish /\ w # wish /\ SectionsToCome THEN {"reply"} ELSE {})
          \cup (IF m.margin # None /\ r.margin # m.margin /\ r.F14 THEN {"session"} ELSE {})

MayFault(fault) ==
    /\ fault => faults < MaxFaults /\ calls + faults < MaxActs
    /\ faults' = faults + (IF fault THEN 1 ELSE 0)

MayCall ==
    /\ m.ready
    /\ calls < MaxCalls
    /\ calls + faults < MaxActs
    /\ calls' = calls + 1
    /\ UNCHANGED <<account, faults>>

\* A client waits for the answer to its request, or cancels it.
MayRequest == MayCall /\ wish = NoWish

\* Refused unless the mediator is at rest; a new login needs state 0.
ProcessLoginRequest ==
    /\ MayRequest
    /\ m.state \notin 1 .. 4 \cup 6 .. 12
    /\ Take(Switch(m, 2), queue, [what |-> "login", who |-> None])

\* The wishes of the next two name the character the client sees there.
PersistSelectionContextForState8(i) ==
    /\ MayRequest
    /\ m.state > 2
    /\ Take(Switch([m EXCEPT !.current = i], 8), queue,
            [what |-> "play", who |-> m.slots[i + 1]])

SetSelectionKeepsIndex(i) ==
    /\ MayRequest
    /\ m.state > 2
    /\ Take(Switch(m, 7), queue, [what |-> "delete", who |-> m.slots[i + 1]])

SetSelectionIndexAndSwitchToState7(i) ==
    /\ MayRequest
    /\ m.state > 2
    /\ Take(Switch([m EXCEPT !.current = i], 7), queue,
            [what |-> "delete", who |-> m.slots[i + 1]])

ProcessCreateCharacterInput120(c) ==
    /\ MayRequest
    /\ m.state = 3
    /\ c \notin ToSet(m.slots)
    /\ Take(Switch([m EXCEPT !.create = c, !.named = TRUE], 10), queue, [what |-> "create", who |-> c])

\* An index behind the table removes its last record.
RemoveSlotRecord(i) ==
    /\ MayCall
    /\ wish = NoWish
    /\ m.state > 2
    /\ m.slots[i + 1] \notin account
    /\ Take([m EXCEPT !.slots = RemoveAt(@, i + 1)], queue, wish)

\* The client gives up.
RequestAuthCloseAndSwitchToState0 ==
    /\ MayCall
    /\ Take(Switch(RequestAuthClose(m), 0), queue, NoWish)

RequestMarginConnectionCloseWaitEvent0f ==
    /\ MayCall
    /\ m.margin # None
    /\ wish = NoWish
    /\ Take(RequestMarginClose(m), queue, wish)

SetState9OptionalField90AndSwitchToState13 ==
    /\ MayCall
    /\ m.state = 12
    /\ Take(Switch(m, 13), queue, wish)

SetState9CallbackObjectTriple ==
    /\ m.callbacks = "none"
    /\ m.state = 3
    /\ \E c \in {"join", "fail"} :
          MayFault(c = "fail") /\ Take([m EXCEPT !.callbacks = c], queue, wish)
    /\ UNCHANGED <<account, calls>>

\* The engine is deleted next; what its destructor delivers finds no mediator.
ClearEngine ==
    /\ MayCall
    /\ LET closed == CloseLink(CloseLink(m, m.auth), m.margin)
       IN  Take([closed EXCEPT !.auth = None, !.margin = None, !.ready = FALSE, !.slots = <<>>,
                               !.current = None, !.fresh = FALSE], queue, NoWish)

\* RunCompletedOperationQueue, one item.
Deliver ==
    /\ m.ready
    /\ queue # <<>>
    /\ \E hashed \in BOOLEAN :
          /\ MayFault(~hashed)
          /\ Take(Completed(m, Head(queue), hashed), Tail(queue), wish)
    /\ UNCHANGED <<account, calls>>

-----------------------------------------------------------------------------
(* The engine's workers, and the servers                                   *)

Item(l, type, msg) == [link |-> l, type |-> type, msg |-> msg]
Msg(code, status) == [code |-> code, status |-> status, data |-> None, characters |-> <<>>]
StatusItem(l, status) == Item(l, "Status", Msg("", status))
CloseItem(l) == Item(l, "Close", Msg("", "ok"))

Report(l, st, items, fault) ==
    /\ MayFault(fault)
    /\ queue' = queue \o items
    /\ m' = [m EXCEPT !.link[l].st = st, !.link[l].reported = TRUE]
    /\ UNCHANGED <<account, wish, left, calls>>

Unreported(l) == m.link[l].st \in {"ConnectActive", "Closing"} /\ ~m.link[l].reported

\* A completed connect undoes a Close made meanwhile.
Connected(l) == Unreported(l) /\ Report(l, "UdpMonitorActive", <<StatusItem(l, "ok")>>, FALSE)

\* Failed later, failed at once, or ended by the peer before it was reported.
ConnectFails(l) ==
    /\ Unreported(l)
    /\ \E items \in {<<StatusItem(l, "fail"), CloseItem(l)>>, <<StatusItem(l, "fail")>>, <<CloseItem(l)>>} :
          Report(l, "Closed", items, TRUE)

\* The peer ends the connection, or answers a half-close.
Ends(l) ==
    /\ m.link[l].reported
    /\ m.link[l].st \in {"UdpMonitorActive", "Closing"}
    /\ Report(l, "Closed", <<CloseItem(l)>>, m.link[l].st = "UdpMonitorActive")

\* The ways a server answers a request: sequences of messages.  A profile
\* starts with its body.
Sections(kinds, c) ==
    UNION {{[k \in 1 .. n |->
                [Msg("section", "ok") EXCEPT
                    !.data = [kind |-> kind[k], number |-> k, final |-> k = n, of |-> c]]] :
                kind \in {f \in [1 .. n -> {"body"} \cup kinds] : \A k \in 1 .. n : f[k] = "body" <=> k = 1}} :
            n \in 1 .. MaxSections}

Either(code, statuses) == {<<Msg(code, s)>> : s \in statuses}

\* No name is claimed or created without one.
Replies(request) ==
    CASE request.what = "login" ->
            {<<[Msg("authReply", "ok") EXCEPT !.characters = SetToSeq(account)]>>} \cup
            Either("authReply", {"badKey", "badSignature", "refused"})
      [] request.what = "copy" -> Either("copied", {"ok", "fail"})
      [] request.what = "connect" -> Either("challenge", {"ok"}) \cup Either("verdict", {"refused"})
      [] request.what = "answer" ->
            Either("verdict", {"ok", "elsewhere", "refused", "stale"})
      [] request.what = "delete" -> Either("deleted", {"ok", "fail"})
      [] request.what = "load" -> Sections({"list", "chunk"}, request.who) \cup Either("section", {"fail"})
      [] request.what = "claim" -> Either("claimed", IF request.who = None THEN {"fail"} ELSE {"ok", "fail"})
      [] request.what = "create" -> Sections({"list"}, request.who) \cup Either("section", {"fail"})
      [] request.what = "submit" -> Either("submitted", {"ok", "fail"})

AccountAfter(request, reply) ==
    CASE request.what = "delete" /\ reply[1].status = "ok" -> account \ {request.who}
      [] request.what = "create" /\ reply[1].status = "ok" -> account \cup {request.who}
      [] OTHER -> account

\* On the way one message of a reply may become unreadable or too long.
Damaged(reply) ==
    {[reply EXCEPT ![k].status = s] : k \in DOMAIN reply, s \in {"garbled", "oversized"}}

ServerAnswers(l) ==
    /\ m.link[l].st \in {"UdpMonitorActive", "Closing"}
    /\ m.link[l].asked # <<>>
    /\ LET request == Head(m.link[l].asked)
       IN  \E sent \in Replies(request) : \E reply \in {sent} \cup Damaged(sent) :
             /\ queue' = queue \o [k \in DOMAIN reply |-> Item(l, "Packet", reply[k])]
             /\ account' = AccountAfter(request, sent)
             /\ MayFault(\E k \in DOMAIN reply : reply[k].status # "ok")
    /\ m' = [m EXCEPT !.link[l].asked = Tail(@)]
    /\ UNCHANGED <<wish, left, calls>>

\* The reply copy expires.
CopyExpires ==
    /\ m.fresh
    /\ m' = [m EXCEPT !.fresh = FALSE]
    /\ MayFault(TRUE)
    /\ UNCHANGED <<queue, account, wish, left, calls>>

Slots == 0 .. Len(m.slots) - 1

Client ==
    \/ ProcessLoginRequest
    \/ \E i \in Slots : PersistSelectionContextForState8(i)
    \/ \E i \in Slots : SetSelectionIndexAndSwitchToState7(i)
    \/ \E c \in Characters : ProcessCreateCharacterInput120(c)
    \/ \E i \in Slots : RemoveSlotRecord(i)
    \/ RequestAuthCloseAndSwitchToState0
    \/ RequestMarginConnectionCloseWaitEvent0f
    \/ SetState9OptionalField90AndSwitchToState13
    \/ SetState9CallbackObjectTriple
    \/ ClearEngine

Network(l) == Connected(l) \/ ConnectFails(l) \/ Ends(l) \/ ServerAnswers(l)

Next == Client \/ Deliver \/ (\E l \in Links : Network(l)) \/ CopyExpires

Spec == Init /\ [][Next]_vars

-----------------------------------------------------------------------------
(* Properties                                                              *)

\* What is sent to a margin server is the request the client now waits for,
\* for the character it chose.
SentAsAsked ==
    \A l \in Links :
        Len(m'.link[l].asked) > Len(m.link[l].asked) =>
            LET a == Last(m'.link[l].asked)
            IN  /\ a.what = "delete" => wish' = [what |-> "delete", who |-> a.who]
                /\ a.what = "load" => wish' = [what |-> "play", who |-> a.who]
                /\ a.what \in {"claim", "create"} => wish' = [what |-> "create", who |-> a.who]

\* The states a request passes through lead back to the one that sends it,
\* unless state 4 was once left with a cached sender.
OnlyTheWishIsSent == [][("sender" \notin left') => SentAsAsked]_vars

\* "state4 caches state8 and the zero-status completion naturally restores
\* back into state8": without exception, the state that asked is restored.
AskingStateIsRestored == [][SentAsAsked]_vars

\* No character of the account is missing from the slot table the client shows.
EveryCharacterIsListed ==
    m.gate /\ m.ready /\ "request" \notin left =>
        \A c \in account : c \in ToSet(m.slots) \/ Len(m.slots) >= MaxSlots

\* An outcome is posted to a client that waits for it.
OutcomesAreAsked ==
    m.ready /\ queue # <<>> /\ {"sender", "request"} \cap left = {} =>
        LET r == Settled(Completed(m, Head(queue), TRUE))
        IN  /\ Posted(r, "event", 8) => wish.what = "delete"
            /\ Posted(r, "event", 24) => wish.what \in {"play", "create"}
            /\ Posted(r, "event", 5) => wish # NoWish

\* The profile handed on is the one of the character that was asked for, with
\* all of its sections, unless a list outgrew its 16-bit length, each stored
\* once and in its place: sections are only counted and have no request to
\* match, so a reply the client has given up would be mixed into the next.
ProfileIsWhole ==
    m.ready /\ m.state = 9 /\ "reply" \notin left =>
        LET p == m.profile
            listed == ToSet(p.list)
            stored == {p.body} \cup listed \cup p.chunks
        IN  /\ p.name = p.id
            /\ wish.what \in {"play", "create"} /\ "sender" \notin left => p.name = wish.who
            /\ p.body = 1
            /\ p.cut \/ \A k \in 1 .. MaxChunks : (\E n \in stored : k < n) => k \in stored
            /\ \A i, j \in DOMAIN p.list : i < j => p.list[i] < p.list[j]
            /\ listed \cap p.chunks = {}
            /\ \A i \in DOMAIN queue :
                  ~(queue[i].link = m.margin /\ queue[i].msg.code = "section")

\* A request is sent on a connection whose margin server has begun a session,
\* unless a connection with a session was lost before.
RequestsNeedASession ==
    "session" \notin left =>
        \A l \in Links : \A i \in DOMAIN m.link[l].asked :
            m.link[l].asked[i].what \in {"delete", "load", "claim"} => m.link[l].challenged

\* The situations in which no answer comes: it was not readable, or so long
\* that the connection was closed and nobody reports it; the close of a
\* connection is taken for one the client asked for; the client has given no
\* callbacks; the slot table is full; or state 6 has forgotten who sent it and
\* starts over and over.
NotAnswered ==
    \/ m.unread
    \/ m.state = 2 /\ State(m, m.auth) = "Dead"
    \/ m.state \in 5 .. 11 /\ State(m, m.margin) = "Dead"
    \/ m.state = 2 /\ m.auth = None
    \/ m.margin = None /\ m.flag2d
    \/ m.state = 9 /\ m.callbacks # "join"
    \/ m.state = 10 /\ Len(m.slots) >= MaxSlots
    \/ m.up[6] = 2

=============================================================================
