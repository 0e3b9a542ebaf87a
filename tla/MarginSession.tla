----------------------------- MODULE MarginSession -----------------------------
(***************************************************************************)
(* A margin connection from the reply copy to an encrypted session:        *)
(* CBaseMarginConnection, its packet agenda and the encryption module.     *)
(*                                                                         *)
(* The client sends the copy (code 1).  The server answers with a challenge*)
(* encrypted under the copy's public key (2), which carries the seed of    *)
(* the cipher; the client installs it and answers under it (3).  The       *)
(* verdict (4) is a local completion of the connection.  Later the server  *)
(* may change the seed (5).  What cannot be decrypted is dropped.          *)
(*                                                                         *)
(* A key is a number; 0 is plain text.                                     *)
(***************************************************************************)
EXTENDS Naturals, Sequences

CONSTANTS
    MaxSeeds    \* bound: seeds the server draws on a connection

ASSUME MarginAssumption == MaxSeeds \in Nat

VARIABLES
    margin,         \* the client's side of the connection, and what it has sent
    inbound,        \* from the margin server, oldest first
    marginServer

marginVars == <<margin, inbound, marginServer>>

-----------------------------------------------------------------------------
(* Types                                                                   *)

Key == Nat
Copy == Nat

\* code 1: copy.  3: the answer.  6: a request in a session.
Outbound == [code : {1, 3, 6}, key : Key, copy : Copy]

\* empty: it carries nothing.  oversized: more than 0x1000 bytes.
MarginDefects == {"none", "empty", "oversized"}

\* code 2: seed, copy it is encrypted for.  4: ok.  5: seed.  6: data.
Inbound ==
    [code : {2, 4, 5, 6}, key : Key, seed : Key, copy : Copy, ok : BOOLEAN, defect : MarginDefects]

Empty(p) == p.defect = "empty"

Margin ==
    [st : {"none", "up", "closing", "dead"},    \* dead: its socket is closed
     copy : Copy,               \* bootstrapReplyCopy98
     prepared : BOOLEAN,        \* bootstrapPrepStateA0 is there
     prep : Copy,               \* private key of which copy; 0, of none
     key : Key,                 \* of the read and the write worker
     ok4 : BOOLEAN,             \* MessageCode4SuccessFlag84
     open : BOOLEAN,            \* history: a copy was sent and has no verdict
     crossed : BOOLEAN,         \* history: another was sent meanwhile
     passed : BOOLEAN,          \* history: an empty answer was passed over
     out : Seq(Outbound)]

\* key: the last seed it drew.  It still reads the earlier ones.
MarginServer == [phase : {"idle", "challenged", "session"}, key : Key]

\* The state is made of such records.
MarginTypeOK ==
    /\ margin \in Margin
    /\ inbound \in Seq(Inbound)
    /\ marginServer \in MarginServer

NoMargin == [st |-> "none", copy |-> 0, prepared |-> FALSE, prep |-> 0, key |-> 0, ok4 |-> FALSE,
             open |-> FALSE, crossed |-> FALSE, passed |-> FALSE, out |-> <<>>]
NewMargin == [NoMargin EXCEPT !.st = "up"]
NewServer == [phase |-> "idle", key |-> 0]

MarginInit ==
    /\ margin = NoMargin
    /\ inbound = <<>>
    /\ marginServer = NewServer

-----------------------------------------------------------------------------
(* The client's side                                                       *)

\* CPacketEncryptor: what is sent carries the key it is encrypted with.
Encrypted(g, code) == [code |-> code, key |-> g.key, copy |-> g.copy]

\* SendPacketMessageRef: through the write helper, if one is installed.
SendPacket(g, code) ==
    IF g.st = "up" THEN [g EXCEPT !.out = Append(@, Encrypted(g, code))] ELSE g

\* The worker half-closes the socket and reports the peer's close.
Close(g) == IF g.st = "up" THEN [g EXCEPT !.st = "closing"] ELSE g

\* The socket is closed under the worker, which reports nothing.
CloseHard(g) == IF g.st = "up" THEN [g EXCEPT !.st = "dead"] ELSE g

\* A private exponent of zero makes a state that decrypts nothing.
AuthBootstrapState(copy, private) == IF private = copy THEN copy ELSE 0

\* PrepareState5MarginConnectionCopySend
SendCopy(g, copy, private) ==
    SendPacket([g EXCEPT !.copy = copy,
                         !.prepared = TRUE,
                         !.prep = AuthBootstrapState(copy, private),
                         !.open = TRUE,
                         !.crossed = @ \/ g.open],
               1)

\* EnsureStreamPacketEncryptionModuleFromSeed85: both workers change at once.
InstalledOnce(g, seed) == IF g.key = 0 THEN [g EXCEPT !.key = seed] ELSE g
Installed(g, seed) == [g EXCEPT !.key = seed]

\* DecryptChallenge: RSA, with the key that came with the copy.
DecryptsChallenge(g, p) == g.prep = p.copy

\* The cipher is there before the answer is sent.
Answered(g, p) == SendPacket(Installed(g, p.seed), 3)

\* What cannot be decrypted ends the connection.
Challenged(g, p) == IF DecryptsChallenge(g, p) THEN Answered(g, p) ELSE Close(g)

PassedOver(g) == [g EXCEPT !.passed = TRUE]

HandleCode2(g, p) ==
    IF ~g.prepared THEN g
    ELSE IF Empty(p) THEN PassedOver(g)
    ELSE Challenged(g, p)

HandleCode4(g, p) ==
    IF Empty(p) THEN PassedOver(g) ELSE [g EXCEPT !.ok4 = p.ok, !.open = FALSE]

HandleCode5(g, p) == IF Empty(p) THEN g ELSE Installed(g, p.seed)

\* CPacketDecryptor: the checksum tells a wrong key.
Decrypted(key, p) == key = p.key

\* The read helper drops what its worker does not decrypt.
Readable(g, p) == Decrypted(g.key, p)

\* The others go to the login states.
Routed(p) == p.code \in {2, 4, 5}

\* DispatchMessage
Dispatched(g, p) ==
    IF ~Routed(p) THEN g
    ELSE CASE p.code = 2 -> HandleCode2(g, p)
           [] p.code = 4 -> HandleCode4(g, p)
           [] p.code = 5 -> HandleCode5(g, p)

\* OnOperationCompleted
Received(g, p) ==
    IF p.defect = "oversized" THEN CloseHard(g)
    ELSE IF Readable(g, p) THEN Dispatched(g, p)
    ELSE g

MarginOpens ==
    /\ margin.st # "up"
    /\ margin' = NewMargin
    /\ inbound' = <<>>
    /\ marginServer' = NewServer

\* The close item of the connection is completed.
MarginCloses ==
    /\ margin.st \in {"up", "closing"}
    /\ margin' = NoMargin
    /\ inbound' = <<>>
    /\ marginServer' = NewServer

CopySent(g, copy, private) ==
    /\ margin' = SendCopy(g, copy, private)
    /\ UNCHANGED marginServer

Requested ==
    /\ margin.st = "up"
    /\ margin.ok4
    /\ margin' = SendPacket(margin, 6)
    /\ UNCHANGED <<inbound, marginServer>>

-----------------------------------------------------------------------------
(* The margin server                                                       *)

Says(code, seed, ok, defect) ==
    inbound' = Append(inbound, [code |-> code, key |-> marginServer.key, seed |-> seed,
                                copy |-> IF code = 2 THEN Head(margin.out).copy ELSE 0,
                                ok |-> ok, defect |-> defect])

Accepts(p) == IF marginServer.key = 0 THEN p.key = 0 ELSE p.key \in 1..marginServer.key

\* What it takes from the client.
Takes(code) ==
    /\ margin.out # <<>>
    /\ Head(margin.out).code = code
    /\ Accepts(Head(margin.out))
    /\ margin' = [margin EXCEPT !.out = Tail(@)]

Draws == marginServer.key < MaxSeeds

MarginChallenges(defect) ==
    /\ Takes(1)
    /\ Draws
    /\ marginServer' = [marginServer EXCEPT !.phase = "challenged", !.key = @ + 1]
    /\ Says(2, marginServer.key + 1, FALSE, defect)

\* With no seed in it.
ChallengesEmpty ==
    /\ Takes(1)
    /\ marginServer' = [marginServer EXCEPT !.phase = "idle"]
    /\ Says(2, 0, FALSE, "empty")

Refuses(defect) ==
    /\ Takes(1)
    /\ marginServer' = [marginServer EXCEPT !.phase = "idle"]
    /\ Says(4, 0, FALSE, defect)

\* ok: the server may refuse a right answer, never take another.
Verdict(ok, defect) ==
    /\ Takes(3)
    /\ marginServer.phase = "challenged"
    /\ ok => Head(margin.out).key = marginServer.key
    /\ marginServer' = [marginServer EXCEPT !.phase = IF ok THEN "session" ELSE "idle"]
    /\ Says(4, 0, ok, defect)

Serves(defect) ==
    /\ Takes(6)
    /\ Says(6, 0, FALSE, defect)
    /\ UNCHANGED marginServer

\* An unreadable packet, or an answer to nothing.
Drops ==
    /\ margin.out # <<>>
    /\ \/ ~Accepts(Head(margin.out))
       \/ Head(margin.out).code = 3 /\ marginServer.phase # "challenged"
    /\ margin' = [margin EXCEPT !.out = Tail(@)]
    /\ UNCHANGED <<inbound, marginServer>>

Rekeys(defect) ==
    /\ marginServer.phase = "session"
    /\ Draws
    /\ marginServer' = [marginServer EXCEPT !.key = @ + 1]
    /\ Says(5, marginServer.key + 1, FALSE, defect)
    /\ UNCHANGED margin

\* A seed is always there, or the packet oversized.
MarginServerActs(ok, defect) ==
    /\ margin.st = "up"
    /\ \/ defect # "empty" /\ MarginChallenges(defect)
       \/ ChallengesEmpty
       \/ Refuses(defect)
       \/ Verdict(ok, defect)
       \/ Serves(defect)
       \/ Drops
       \/ defect # "empty" /\ Rekeys(defect)

-----------------------------------------------------------------------------
(* A session with any copies and keys                                      *)

\* The packet a login state answers by sending the copy again is handled
\* in the same call.
Delivered ==
    /\ inbound # <<>>
    /\ inbound' = Tail(inbound)
    /\ LET g == Received(margin, Head(inbound))
       IN  \/ margin' = g /\ UNCHANGED marginServer
          \/ \E copy, private \in Nat : CopySent(g, copy, private)

CopyIsSent == \E copy, private \in Nat : CopySent(margin, copy, private) /\ UNCHANGED inbound

MarginNext ==
    \/ MarginOpens \/ MarginCloses \/ CopyIsSent \/ Requested \/ Delivered
    \/ \E ok \in BOOLEAN, defect \in MarginDefects : MarginServerActs(ok, defect)

MarginSpec == MarginInit /\ [][MarginNext]_marginVars

-----------------------------------------------------------------------------
(* Properties                                                              *)

\* The key the other side uses after p.
After(p) == IF p.code \in {2, 5} /\ ~Empty(p) THEN p.seed ELSE p.key

\* The key the client has when the first n packets are handled.
KeyAfter(n) == IF n = 0 THEN margin.key ELSE After(inbound[n])

\* However the seeds change under packets that are on their way, the client
\* has the key of each when it arrives, and the server of each of the
\* client's: the cipher is installed before the answer, in both directions.
\* Nothing is promised once the client closes, or sends a second copy
\* before the first has its verdict.
PacketsAreReadable ==
    margin.st = "up" =>
        /\ \A i \in 1..Len(inbound) : inbound[i].key = KeyAfter(i - 1)
        /\ marginServer.key = KeyAfter(Len(inbound))
        /\ ~margin.crossed => \A i \in 1..Len(margin.out) : Accepts(margin.out[i])

=============================================================================
