----------------------------- MODULE AuthBootstrap -----------------------------
(***************************************************************************)
(* AuthBootstrap680Child: the packets and keys of a login.                 *)
(*                                                                         *)
(* The client asks for the server's public key (code 6) unless it has one, *)
(* sends a fresh Twofish key under it (8), decrypts a challenge (9) and    *)
(* answers it (0x0a), and gets a reply (0x0b): a signed copy that opens    *)
(* margin sessions, and the private key that belongs to it, encrypted      *)
(* under the Twofish key where the challenge ended.                        *)
(*                                                                         *)
(* Keys are numbers.  A chained cipher is a key and a position: what is    *)
(* decrypted elsewhere is garbage.  The operators take the child to the    *)
(* next; its field out holds what it has sent.                             *)
(***************************************************************************)
EXTENDS Naturals, Sequences

CONSTANTS
    KeyIds,     \* ids of the server's public keys; 0 is one the code mistakes for none
    MaxLogins,  \* bound: logins the client starts
    None        \* a null pointer

ASSUME BootstrapAssumption ==
    /\ KeyIds \subseteq Nat
    /\ KeyIds # {}
    /\ MaxLogins \in Nat
    /\ None \notin Nat

VARIABLES
    child,      \* AuthBootstrap680Child, and what it has sent
    replies,    \* from the authentication server, oldest first
    server      \* the authentication server

authVars == <<child, replies, server>>

-----------------------------------------------------------------------------
(* Types                                                                   *)

Results == {"none", "unhandled", "continue", "keyReplyError", "workerError", "replyError",
            "validationError", "success"}

\* damaged: the signature of a key, the length of a private key.  malformed: not the
\* layout of its code, or a challenge to a client without a password.
Defects == {"none", "damaged", "expired", "malformed", "oversized"}

\* code 6: id.  8: key it is encrypted under, seed.  10: whether the answer is right.
AuthRequest == [code : {6, 8, 10}, id : Nat \cup {None}, seed : Nat, right : BOOLEAN]

\* code 7: id.  9: seed, pos.  11: copy, its signer, seed and pos of the private
\* key's encryption.
AuthReply == [code : {7, 9, 11}, ok : BOOLEAN, id : Nat, seed : Nat, pos : Nat, copy : Nat,
              defect : Defects]

Child ==
    [ready : BOOLEAN,               \* authRequestReadyA0
     keyId : Nat,                   \* currentPublicKeyId9C
     worker : Nat \cup {None},      \* raw08PublicKeyWorkerA8, replyAuthDataValidatorAC
     seed : Nat,                    \* feedbackSeed84
     pos : Nat,                     \* feedbackTransformLarge94
     shadow : Nat \cup {None},      \* authReplyCopyShadowF4
     private : Nat \cup {None},     \* privateExponentBigIntD8: of which copy; 0 is garbage
     result : Results,              \* of the login's last message
     out : Seq(AuthRequest)]

\* phase: what it waits for.
AuthServer == [key : KeyIds, phase : {"request", "answer"}, seed : Nat, pos : Nat, copies : Nat]

\* The state is made of such records; a login request is encrypted under a key.
BootstrapTypeOK ==
    /\ child \in Child
    /\ \A i \in DOMAIN child.out : child.out[i].code = 8 => child.out[i].id # None
    /\ replies \in Seq(AuthReply)
    /\ server \in AuthServer

BootstrapInit ==
    /\ child = [ready |-> FALSE, keyId |-> 0, worker |-> None, seed |-> 0, pos |-> 0,
                shadow |-> None, private |-> None, result |-> "none", out |-> <<>>]
    /\ replies = <<>>
    /\ server \in [key : KeyIds, phase : {"request"}, seed : {0}, pos : {0}, copies : {0}]

-----------------------------------------------------------------------------
(* The child                                                               *)

Send(b, code, id, seed, right) ==
    [b EXCEPT !.out = Append(@, [code |-> code, id |-> id, seed |-> seed, right |-> right])]

SendGetPublicKeyRequest(b) == Send(b, 6, b.keyId, 0, FALSE)

\* A fresh seed, and both transforms start over.
Reseeded(b) == [b EXCEPT !.seed = @ + 1, !.pos = 0]

SendAuthRequestUnchecked(b) == Send(Reseeded(b), 8, b.worker, b.seed + 1, FALSE)

SendAuthRequestKeepsTransform(b) ==
    IF b.worker = None THEN b
    ELSE Send([b EXCEPT !.seed = @ + 1], 8, b.worker, b.seed + 1, FALSE)

\* Without a key nothing is sent, and nobody is told.
SendAuthRequest(b) ==
    IF b.worker = None THEN b
    ELSE Send(Reseeded(b), 8, b.worker, b.seed + 1, FALSE)

PrepareAndDispatch(b) == IF b.ready THEN SendAuthRequest(b) ELSE SendGetPublicKeyRequest(b)

\* A key with the id the client has is not looked at.
SameKey(b, p) == p.id = b.keyId

\* By the publisher's key, which the program has.
Signed(p) == p.defect # "damaged"

RebuildReplyPublicKeyWorkers(b, p) == [b EXCEPT !.keyId = p.id, !.worker = p.id]

HandleGetPublicKeyReply(b, p) ==
    IF SameKey(b, p) THEN [b EXCEPT !.ready = TRUE]
    ELSE IF ~Signed(p) THEN [b EXCEPT !.ready = FALSE]
    ELSE [RebuildReplyPublicKeyWorkers(b, p) EXCEPT !.ready = TRUE]

Result(b, result) == [b EXCEPT !.result = result]

KeyRepliedWaits(b, p) ==
    LET h == HandleGetPublicKeyReply(b, p)
    IN  IF ~p.ok THEN Result(b, "keyReplyError")
        ELSE IF ~SameKey(b, p) /\ ~Signed(p) THEN Result(h, "workerError")
        ELSE Result(h, "continue")

KeyReplied(b, p) ==
    LET h == HandleGetPublicKeyReply(b, p)
    IN  IF ~p.ok THEN Result(b, "keyReplyError")
        ELSE IF ~SameKey(b, p) /\ ~Signed(p) THEN Result(h, "workerError")
        ELSE Result(SendAuthRequest(h), "continue")

\* feedbackTransformLarge94 decrypts n blocks.
Decrypts(b, p) == p.seed = b.seed /\ p.pos = b.pos

\* The password, with the digest of the challenge, under the login's seed.
AuthChallengeResponse(b, right) == Send(b, 10, None, b.seed, right)

ChallengeIsAnswered(b, p) ==
    Result(AuthChallengeResponse([b EXCEPT !.pos = @ + 1], Decrypts(b, p)), "continue")

\* VerifyWithValidator: not expired, and signed by the key the client has.
Verified(b, p) == p.defect # "expired" /\ b.worker # None /\ p.id = b.worker

PrivateIsWhole(p) == p.defect # "damaged"

MaterialisedKeepsKey(b, p) ==
    [b EXCEPT !.shadow = p.copy,
              !.private = IF ~PrivateIsWhole(p) THEN @ ELSE IF Decrypts(b, p) THEN p.copy ELSE 0,
              !.pos = IF PrivateIsWhole(p) THEN @ + 6 ELSE @]

\* The copy is kept even if its private key is not readable.
Materialised(b, p) ==
    [b EXCEPT !.shadow = p.copy,
              !.private = IF ~PrivateIsWhole(p) THEN None ELSE IF Decrypts(b, p) THEN p.copy ELSE 0,
              !.pos = IF PrivateIsWhole(p) THEN @ + 6 ELSE @]

AuthReplied(b, p) ==
    IF ~p.ok THEN Result(b, "replyError")
    ELSE IF ~Verified(b, p) THEN Result(b, "validationError")
    ELSE Result(Materialised(b, p), "success")

\* What cannot be parsed is left where it is; the login goes on waiting.
HandleInboundAuthMessage(b, p) ==
    IF p.defect = "malformed" THEN Result(b, "unhandled")
    ELSE CASE p.code = 7 -> KeyReplied(b, p)
           [] p.code = 9 -> ChallengeIsAnswered(b, p)
           [] p.code = 11 -> AuthReplied(b, p)

-----------------------------------------------------------------------------
(* The authentication server                                               *)

Answer(code, ok, pos, defect) ==
    [code |-> code, ok |-> ok, id |-> server.key, seed |-> server.seed, pos |-> pos,
     copy |-> server.copies + 1, defect |-> defect]

ServerStep(expected) ==
    /\ child.out # <<>>
    /\ Head(child.out).code = expected
    /\ child' = [child EXCEPT !.out = Tail(@)]

SendsKey(ok, defect) ==
    /\ ServerStep(6)
    /\ replies' = Append(replies, Answer(7, ok, 0, defect))
    /\ UNCHANGED server

\* A request under an old key is refused.
Challenges(defect) ==
    /\ ServerStep(8)
    /\ LET p == Head(child.out)
       IN  IF p.id = server.key
           THEN /\ server' = [server EXCEPT !.phase = "answer", !.seed = p.seed, !.pos = 1]
                /\ replies' = Append(replies, [Answer(9, TRUE, 0, defect) EXCEPT !.seed = p.seed])
           ELSE /\ server' = [server EXCEPT !.phase = "request"]
                /\ replies' = Append(replies, Answer(11, FALSE, 0, defect))

\* An answer nobody waits for is passed over.
Replies(ok, defect) ==
    /\ ServerStep(10)
    /\ LET p == Head(child.out)
           right == ok /\ p.right /\ p.seed = server.seed
       IN  IF server.phase = "answer"
           THEN /\ server' = [server EXCEPT !.phase = "request", !.copies = @ + (IF right THEN 1 ELSE 0)]
                /\ replies' = Append(replies, Answer(11, right, server.pos, defect))
           ELSE UNCHANGED <<server, replies>>

\* The server changes its key.
Rotates ==
    /\ \E k \in KeyIds \ {server.key} : server' = [server EXCEPT !.key = k]
    /\ UNCHANGED <<child, replies>>

=============================================================================
