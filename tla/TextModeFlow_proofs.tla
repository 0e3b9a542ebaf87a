-------------------------- MODULE TextModeFlow_proofs --------------------------
(***************************************************************************)
(* Theorems about the login mediator under the text-mode flow, its client  *)
(* and the network, for any servers, worlds, characters and faults.        *)
(*                                                                         *)
(* Every step that changes the mediator is a handler's (Steps): a call of  *)
(* the client (Called) or a completed operation (CompletedResult), and the *)
(* states it enters.  An invariant is therefore shown three times: for     *)
(* what a handler makes of the mediator, for entering one state, and for   *)
(* what is left when the handler returns.                                  *)
(***************************************************************************)
EXTENDS TextModeFlow, LoginMediator_proofs, WellFoundedInduction

-----------------------------------------------------------------------------
(* Types.  Each call of the client, each answer of a server and each step  *)
(* of the network keeps them, with what a handler needs to keep them       *)
(* (Core).                                                                 *)

\* Setting the callbacks changes them only.
LEMMA CallbacksIs ==
    ASSUME NEW r \in Mediator, Fit(r), NEW c \in {"join", "fail"}
    PROVE  LET s == [r EXCEPT !.callbacks = c] IN
           s \in Mediator /\ SameBut(s, r, {"callbacks"}) /\ Fit(s) /\ Kept(s, r)
<1> DEFINE s == [r EXCEPT !.callbacks = c]
<1>1. s \in Mediator
  <2>1. c \in {"none", "join", "fail"}
    OBVIOUS
  <2> QED
    BY <2>1, ZenonT(200) DEF Mediator
<1>2. SameBut(s, r, {"callbacks"})
  BY DEF Mediator, SameBut, FieldNames
<1> HIDE DEF s
<1>3. /\ s.create = r.create /\ s.auth = r.auth /\ s.margin = r.margin /\ s.up = r.up
      /\ s.link = r.link /\ s.state = r.state /\ s.goto = r.goto /\ s.slots = r.slots
  BY <1>2 DEF SameBut, FieldNames
<1>4. Fit(s) /\ Kept(s, r)
  BY <1>3 DEF Fit, LinkFit, CreateKnown, Kept
<1> QED
  BY <1>1, <1>2, <1>4 DEF s

\* Closes of connections in use.
LinksClosed(s, r, L) ==
    /\ \A k \in Links : SameLink(s.link[k], r.link[k], {"st"})
    /\ \A k \in Links : s.link[k] # r.link[k] =>
          /\ k \in L
          /\ r.link[k].st \in {"ConnectActive", "UdpMonitorActive"}
          /\ s.link[k].st = "Closing"

\* Closing connections is among the things handlers do to them.
LEMMA ClosedHandled ==
    ASSUME NEW s, NEW r \in Mediator, Fit(r), NEW L, LinksClosed(s, r, L)
    PROVE  \A k \in Links : LinkHandled(s.link[k], r.link[k])
<1> TAKE k \in Links
<1>1. r.link[k].kind = "free" => r.link[k].st = "Closed"
  BY DEF Fit, LinkFit, Fits
<1>2. SameLink(s.link[k], r.link[k], {"st", "ok4", "challenged"})
  BY DEF LinksClosed, SameLink
<1>3. CASE s.link[k] = r.link[k]
  BY <1>3, SameHandled
<1>4. CASE s.link[k] # r.link[k]
  <2>1. r.link[k].kind # "free"
    BY <1>1, <1>4 DEF LinksClosed
  <2> QED
    BY <1>2, <2>1 DEF LinkHandled
<1> QED
  BY <1>3, <1>4

\* Close, as one of a set of connections that are closed.
LEMMA CloseIs ==
    ASSUME NEW r \in Mediator, NEW l \in Links \cup {None}
    PROVE  LET s == CloseLink(r, l) IN
           s \in Mediator /\ SameBut(s, r, {"link"}) /\ LinksClosed(s, r, {l})
  BY CloseLinkIs DEF LinksClosed

\* Giving up closes the authentication connection and goes to state 0.
LEMMA GivenUpIs ==
    ASSUME NEW r \in Mediator, Fit(r)
    PROVE  LET s == Switch(RequestAuthClose(r), 0) IN
           /\ s \in Mediator
           /\ Moves(s, r, {"link", "flag2c"}, 0, {})
           /\ LinksClosed(s, r, {r.auth})
           /\ Fit(s) /\ Kept(s, r)
<1> DEFINE c == RequestAuthClose(r)
           s == Switch(c, 0)
<1>1. c \in Mediator /\ SameBut(c, r, {"link", "flag2c"}) /\ LinksClosed(c, r, {r.auth})
  BY RequestAuthCloseIs DEF LinksClosed
<1> HIDE DEF c
<1>2. Moves(c, r, {"link", "flag2c"}, r.goto, {})
  BY <1>1, FieldMoves
<1>3. s \in Mediator /\ Moves(s, r, {"link", "flag2c"}, 0, {}) /\ SameBut(s, c, {"goto"})
  <2>1. 0 \in StateIds \cup {None}
    BY DEF StateIds
  <2> QED
    BY <1>1, <1>2, <2>1, SwitchMoves, SwitchIs
<1> HIDE DEF s
<1>4. /\ s.auth = r.auth /\ s.margin = r.margin /\ s.up = r.up
      /\ s.link = c.link /\ s.slots = r.slots
  BY <1>1, <1>3 DEF Moves, SameBut, FieldNames
<1>5. LinksClosed(s, r, {r.auth})
  BY <1>1, <1>4 DEF LinksClosed
<1>6. Fit(s) /\ Kept(s, r)
  <2>1. \A k \in Links : LinkHandled(s.link[k], r.link[k])
    BY <1>5, ClosedHandled
  <2> QED
    BY <1>3, <1>4, <2>1, MovedFit DEF Fit
<1> QED
  BY <1>3, <1>5, <1>6 DEF s, c

\* The client's close of the margin connection.
LEMMA MarginCloseIs ==
    ASSUME NEW r \in Mediator, Fit(r), r.margin # None
    PROVE  LET s == RequestMarginClose(r) IN
           /\ s \in Mediator
           /\ SameBut(s, r, {"link", "flag2d", "F14"})
           /\ ~s.F14 /\ s.flag2d
           /\ LinksClosed(s, r, {r.margin})
           /\ Fit(s) /\ Kept(s, r)
<1> DEFINE s == RequestMarginClose(r)
<1>1. /\ s \in Mediator /\ SameBut(s, r, {"link", "flag2d", "F14"}) /\ ~s.F14 /\ s.flag2d
      /\ LinksClosed(s, r, {r.margin})
  BY RequestMarginCloseIs DEF LinksClosed
<1> HIDE DEF s
<1>2. /\ s.create = r.create /\ s.auth = r.auth /\ s.margin = r.margin /\ s.up = r.up
      /\ s.state = r.state /\ s.goto = r.goto /\ s.slots = r.slots
  BY <1>1 DEF SameBut, FieldNames
<1>3. \A k \in Links : LinkHandled(s.link[k], r.link[k])
  BY <1>1, ClosedHandled
<1>4. CreateKnown(s)
  BY <1>2 DEF Fit, CreateKnown
<1>5. Fit(s) /\ Kept(s, r)
  BY <1>1, <1>2, <1>3, <1>4, HandledFit DEF Fit
<1> QED
  BY <1>1, <1>5 DEF s

\* The mediator's memory is cleared, but the engine's items stay.
ClearedFields == {"link", "auth", "margin", "ready", "slots", "current", "fresh"}
Cleared(r) == LET closed == CloseLink(CloseLink(r, r.auth), r.margin)
              IN  [closed EXCEPT !.auth = None, !.margin = None, !.ready = FALSE, !.slots = <<>>,
                                 !.current = None, !.fresh = FALSE]

\* What ClearEngine leaves of the mediator.
LEMMA ClearedIs ==
    ASSUME NEW r \in Mediator, Fit(r)
    PROVE  LET s == Cleared(r) IN
           /\ s \in Mediator
           /\ SameBut(s, r, ClearedFields)
           /\ s.auth = None /\ s.margin = None /\ ~s.ready /\ s.slots = <<>> /\ s.current = None
           /\ ~s.fresh
           /\ LinksClosed(s, r, {r.auth, r.margin})
           /\ Fit(s) /\ Kept(s, r)
<1> DEFINE a == CloseLink(r, r.auth)
           c == CloseLink(a, r.margin)
           z == <<>>
           s == [c EXCEPT !.auth = None, !.margin = None, !.ready = FALSE, !.slots = z,
                          !.current = None, !.fresh = FALSE]
<1>1. r.auth \in Links \cup {None} /\ r.margin \in Links \cup {None}
  BY FieldsTyped
<1>2. a \in Mediator /\ SameBut(a, r, {"link"}) /\ LinksClosed(a, r, {r.auth})
  BY <1>1, CloseIs
<1> HIDE DEF a
<1>3. c \in Mediator /\ SameBut(c, a, {"link"}) /\ LinksClosed(c, a, {r.margin})
  BY <1>1, <1>2, CloseIs
<1>4. Cleared(r) = s
  BY DEF Cleared, a
<1> HIDE DEF c
<1>5. SameBut(c, r, {"link"})
  BY <1>2, <1>3 DEF SameBut
<1>6. LinksClosed(c, r, {r.auth, r.margin})
  <2>1. \A k \in Links : SameLink(c.link[k], r.link[k], {"st"})
    BY <1>2, <1>3 DEF LinksClosed, SameLink
  <2>2. ASSUME NEW k \in Links, c.link[k] # r.link[k]
        PROVE  /\ k \in {r.auth, r.margin}
               /\ r.link[k].st \in {"ConnectActive", "UdpMonitorActive"}
               /\ c.link[k].st = "Closing"
    <3>1. CASE c.link[k] = a.link[k]
      BY <1>2, <2>2, <3>1 DEF LinksClosed
    <3>2. CASE c.link[k] # a.link[k]
      <4>1. k = r.margin /\ a.link[k].st \in {"ConnectActive", "UdpMonitorActive"} /\ c.link[k].st = "Closing"
        BY <1>3, <3>2 DEF LinksClosed
      <4>2. a.link[k] = r.link[k]
        BY <1>2, <4>1 DEF LinksClosed
      <4> QED
        BY <4>1, <4>2
    <3> QED
      BY <3>1, <3>2
  <2> QED
    BY <2>1, <2>2 DEF LinksClosed
<1>7. s \in Mediator
  <2>1. None \in Links \cup {None} /\ FALSE \in BOOLEAN /\ z \in Seq(Characters) /\ None \in 0 .. MaxSlots - 1 \cup {None}
    OBVIOUS
  <2> HIDE DEF z
  <2> QED
    BY <1>3, <2>1, ZenonT(200) DEF Mediator
<1>8. /\ SameBut(s, c, ClearedFields \ {"link"})
      /\ s.auth = None /\ s.margin = None /\ ~s.ready /\ s.slots = z /\ s.current = None /\ ~s.fresh
  <2> HIDE DEF z
  <2> QED
    BY <1>3 DEF Mediator, SameBut, FieldNames, ClearedFields
<1> HIDE DEF s
<1>9. SameBut(s, r, ClearedFields)
  BY <1>5, <1>8 DEF SameBut, FieldNames, ClearedFields
<1>10. /\ s.link = c.link /\ s.create = r.create /\ s.up = r.up /\ s.state = r.state /\ s.goto = r.goto
  BY <1>8, <1>9 DEF SameBut, FieldNames, ClearedFields
<1>11. LinksClosed(s, r, {r.auth, r.margin})
  BY <1>6, <1>10 DEF LinksClosed
<1>12. Fit(s) /\ Kept(s, r)
  <2>1. \A k \in Links : LinkHandled(s.link[k], r.link[k])
    BY <1>11, ClosedHandled
  <2>2. Len(s.slots) <= MaxSlots
    BY <1>8, LoginAssumption
  <2>3. CreateKnown(s)
    BY <1>10 DEF Fit, CreateKnown
  <2> QED
    BY <1>7, <1>8, <2>1, <2>2, <2>3, HandledFit
<1> QED
  BY <1>4, <1>7, <1>8, <1>9, <1>11, <1>12 DEF s

\* A row the flow removes.
RemovedRow(s, r) ==
    \/ s = r
    \/ \E k \in 1 .. Len(r.slots) : SameBut(s, r, {"slots"}) /\ s.slots = RemoveAt(r.slots, k)

\* Removing the flow's row removes at most one record of the slot table.
LEMMA RemoveRowIs ==
    ASSUME NEW r \in Mediator, Fit(r), NEW i \in Nat
    PROVE  LET s == RemoveRow(r, i) IN
           s \in Mediator /\ RemovedRow(s, r) /\ Fit(s) /\ Kept(s, r)
<1> DEFINE s == RemoveRow(r, i)
           k == IF i < Len(r.slots) THEN i + 1 ELSE Len(r.slots)
           t == [r EXCEPT !.slots = RemoveAt(@, k)]
<1>1. s = r \/ (r.slots # <<>> /\ s = t)
  BY DEF RemoveRow
<1>2. CASE s = r
  BY <1>2, SameFit DEF RemovedRow
<1>3. CASE r.slots # <<>> /\ s = t
  <2>1. k \in 1 .. Len(r.slots)
    <3>1. Len(r.slots) \in Nat /\ Len(r.slots) # 0
      BY <1>3, FieldsTyped
    <3> QED
      BY <3>1
  <2> HIDE DEF k, s
  <2>2. t \in Mediator /\ SameBut(t, r, {"slots"}) /\ t.slots = RemoveAt(r.slots, k) /\ Fit(t) /\ Kept(t, r)
    BY <2>1, RemovedIs
  <2> HIDE DEF t
  <2> QED
    BY <1>3, <2>1, <2>2 DEF RemovedRow, s
<1> QED
  BY <1>1, <1>2, <1>3

\* A finite set as a sequence: its elements and its length.
LEMMA SetToSeqIs ==
    ASSUME NEW S, NEW T, S \subseteq T, IsFiniteSet(S)
    PROVE  /\ SetToSeq(S) \in Seq(T)
           /\ ToSet(SetToSeq(S)) = S
           /\ Len(SetToSeq(S)) = Cardinality(S)
<1> DEFINE n == Cardinality(S)
           f == SetToSeq(S)
<1>1. n \in Nat /\ \E g : g \in Bijection(1 .. n, S)
  BY FS_CardinalityType DEF ExistsBijection
<1> HIDE DEF n
<1>2. \E g \in [1 .. n -> S] : IsInjective(g)
  BY <1>1 DEF Bijection, Injection
<1>3. f = CHOOSE g \in [1 .. n -> S] : IsInjective(g)
  BY DEF SetToSeq, n
<1> HIDE DEF f
<1>4. f \in [1 .. n -> S] /\ IsInjective(f)
  BY <1>2, <1>3
<1>5. f \in Seq(S) /\ Len(f) = n /\ DOMAIN f = 1 .. n
  BY <1>1, <1>4
<1>6. f \in Injection(1 .. n, S)
  BY <1>4 DEF Injection
<1>7. Cardinality(1 .. n) = n
  BY <1>1, FS_Interval
<1>8. f \in Surjection(1 .. n, S)
  BY <1>6, <1>7, FS_Injection DEF n
<1>9. \A x \in S : \E i \in 1 .. n : f[i] = x
  BY <1>8 DEF Surjection
<1>10. ToSet(f) = S
  BY <1>4, <1>5, <1>9 DEF ToSet
<1>11. f \in Seq(T)
  BY <1>5
<1> QED
  BY <1>5, <1>10, <1>11 DEF f, n

\* The codes of packets.
Codes == {"authReply", "copied", "challenge", "verdict", "deleted", "section", "claimed", "submitted"}

\* The outcomes messages report, and those of the authentication server.
Statuses == {"ok", "fail", "badKey", "badSignature", "refused", "garbled", "oversized", "elsewhere", "stale"}
AuthStatuses == {"ok", "badKey", "badSignature", "refused", "garbled", "oversized"}

\* The pieces of a message that has neither data nor characters.
LEMMA EmptyPieces == None \in SectionData \cup {None} /\ <<>> \in Seq(Characters)
<1>1. None \in SectionData \cup {None}
  OBVIOUS
<1>2. <<>> \in Seq(Characters)
  OBVIOUS
<1> QED
  BY <1>1, <1>2

\* A message of a code and a status has the type of one.
LEMMA MsgTyped ==
    ASSUME NEW code \in Codes \cup {""},
           NEW status \in Statuses
    PROVE  /\ Msg(code, status) \in Messages
           /\ Msg(code, status).code = code /\ Msg(code, status).status = status
<1>1. Msg(code, status) \in Messages
  BY EmptyPieces, ZenonT(30) DEF Msg, Messages, Codes, Statuses
<1> QED
  BY <1>1, Zenon DEF Msg

\* So has a packet's, whose code is never empty.
LEMMA PacketTyped ==
    ASSUME NEW code \in Codes,
           NEW status \in Statuses
    PROVE  /\ Msg(code, status) \in Messages
           /\ Msg(code, status).code = code /\ Msg(code, status).status = status
<1>1. code \in Codes \cup {""}
  BY Zenon
<1> QED
  BY <1>1, MsgTyped, Zenon

\* Which request a message answers.
Answering(what, code) ==
    /\ what = "login" <=> code = "authReply"
    /\ what = "delete" <=> code = "deleted"
    /\ what \in {"load", "create"} <=> code = "section"

\* A server's reply to a request.
ReplyFit(request, reply) ==
    /\ reply \in Seq(Messages)
    /\ reply # <<>>
    /\ \A k \in DOMAIN reply :
          /\ Answering(request.what, reply[k].code)
          /\ reply[k].code = "authReply" =>
                reply[k].status \in AuthStatuses
          /\ reply[k].code = "authReply" /\ reply[k].status = "ok" =>
                reply[k].characters = SetToSeq(account)
          /\ reply[k].code = "section" /\ reply[k].status = "ok" => reply[k].data \in SectionData

\* An answer that is one message of a code fits its request.
LEMMA EitherIs ==
    ASSUME NEW request \in Request,
           NEW code \in Codes,
           NEW statuses \in SUBSET Statuses,
           Answering(request.what, code),
           code = "authReply" => statuses \subseteq {"badKey", "badSignature", "refused"},
           code = "section" => "ok" \notin statuses,
           NEW reply \in Either(code, statuses)
    PROVE  ReplyFit(request, reply)
<1>1. PICK s \in statuses : reply = <<Msg(code, s)>>
  BY DEF Either
<1>2. Msg(code, s) \in Messages /\ Msg(code, s).code = code /\ Msg(code, s).status = s
  <2>1. s \in Statuses
    OBVIOUS
  <2> QED
    BY <2>1, PacketTyped
<1> HIDE DEF Msg
<1>3. reply \in Seq(Messages) /\ reply # <<>> /\ \A k \in DOMAIN reply : reply[k] = Msg(code, s)
  BY <1>1, <1>2
<1>4. code = "authReply" => s \in {"badKey", "badSignature", "refused"}
  OBVIOUS
<1>5. code = "section" => s # "ok"
  OBVIOUS
<1> QED
  BY <1>2, <1>3, <1>4, <1>5 DEF ReplyFit, AuthStatuses

\* The section k of n of the profile of c.
Section(kind, k, n, c) ==
    [Msg("section", "ok") EXCEPT !.data = [kind |-> kind, number |-> k, final |-> k = n, of |-> c]]

\* A section is a message with section data.
LEMMA SectionIs ==
    ASSUME NEW n \in 1 .. MaxSections, NEW k \in 1 .. n, NEW kind \in Kinds, NEW c \in Characters \cup {None}
    PROVE  LET s == Section(kind, k, n, c) IN
           /\ s \in Messages
           /\ s.code = "section" /\ s.status = "ok"
           /\ s.data \in SectionData
           /\ s.data.number = k /\ s.data.of = c /\ s.data.kind = kind
           /\ s.data.final <=> k = n
<1> DEFINE d == [kind |-> kind, number |-> k, final |-> k = n, of |-> c]
           x == Msg("section", "ok")
           y == [x EXCEPT !.data = d]
<1>1. d \in SectionData
  <2>1. k \in 1 .. MaxSections /\ (k = n) \in BOOLEAN
    BY LoginAssumption
  <2> QED
    BY <2>1, ZenonT(30) DEF SectionData
<1>2. x \in Messages /\ x.code = "section" /\ x.status = "ok"
  <2>1. "section" \in Codes /\ "ok" \in Statuses
    BY DEF Codes, Statuses
  <2> QED
    BY <2>1, PacketTyped
<1>3. Section(kind, k, n, c) = y
  BY DEF Section
<1> HIDE DEF d, x
<1>4. y \in Messages
  <2>1. d \in SectionData \cup {None}
    BY <1>1
  <2> QED
    BY <1>2, <2>1, ZenonT(30) DEF Messages
<1>5. y.code = "section" /\ y.status = "ok" /\ y.data = d
  BY <1>2 DEF Messages
<1>6. /\ d.number = k /\ d.of = c /\ d.kind = kind
      /\ d.final <=> k = n
  BY DEF d
<1> HIDE DEF y
<1> QED
  BY <1>1, <1>3, <1>4, <1>5, <1>6

\* An answer in sections fits a request for a profile.
LEMMA SectionsIs ==
    ASSUME NEW request \in Request, request.what \in {"load", "create"}, NEW kinds \in SUBSET {"list", "chunk"},
           NEW reply \in Sections(kinds, request.who)
    PROVE  ReplyFit(request, reply)
<1>1. PICK n \in 1 .. MaxSections :
         \E kind \in [1 .. n -> {"body"} \cup kinds] :
            reply = [k \in 1 .. n |-> Section(kind[k], k, n, request.who)]
  BY DEF Sections, Section
<1>2. PICK kind \in [1 .. n -> {"body"} \cup kinds] :
         reply = [k \in 1 .. n |-> Section(kind[k], k, n, request.who)]
  BY <1>1
<1>3. request.who \in Characters \cup {None}
  BY DEF Request
<1>4. \A k \in 1 .. n : kind[k] \in Kinds
  BY DEF Kinds
<1>5. ASSUME NEW k \in 1 .. n
      PROVE  LET s == Section(kind[k], k, n, request.who) IN
             s \in Messages /\ s.code = "section" /\ s.data \in SectionData
  <2>1. kind[k] \in Kinds
    BY <1>4
  <2> QED
    BY <1>3, <2>1, SectionIs
<1>6. n \in Nat \ {0}
  BY LoginAssumption
<1>7. reply \in Seq(Messages) /\ reply # <<>> /\ DOMAIN reply = 1 .. n
  BY <1>2, <1>5, <1>6
<1>8. \A k \in DOMAIN reply : reply[k].code = "section" /\ reply[k].data \in SectionData
  BY <1>2, <1>5, <1>7
<1> QED
  BY <1>7, <1>8 DEF ReplyFit, Answering

\* Every answer the servers give fits the request it answers.
LEMMA RepliesAre ==
    ASSUME NEW request \in Request, account \subseteq Characters, NEW reply \in Replies(request)
    PROVE  ReplyFit(request, reply)
<1>1. CASE request.what = "login" /\ reply = <<[Msg("authReply", "ok") EXCEPT !.characters = SetToSeq(account)]>>
  <2> DEFINE x == Msg("authReply", "ok")
             c == SetToSeq(account)
             y == [x EXCEPT !.characters = c]
  <2>1. c \in Seq(Characters)
    <3>1. IsFiniteSet(account)
      BY FS_Subset, LoginAssumption
    <3> QED
      BY <3>1, SetToSeqIs
  <2>2. x \in Messages /\ x.code = "authReply" /\ x.status = "ok"
    <3>1. /\ "authReply" \in Codes
          /\ "ok" \in Statuses
      BY DEF Codes, Statuses
    <3> QED
      BY <3>1, PacketTyped
  <2> HIDE DEF x, c
  <2>3. y \in Messages
    BY <2>1, <2>2, ZenonT(30) DEF Messages
  <2>4. y.code = "authReply" /\ y.status = "ok" /\ y.characters = c
    BY <2>2 DEF Messages
  <2> HIDE DEF y
  <2>5. reply \in Seq(Messages) /\ reply # <<>> /\ \A k \in DOMAIN reply : reply[k] = y
    <3>1. reply = <<y>>
      BY <1>1 DEF x, y, c
    <3> QED
      BY <2>3, <3>1
  <2> QED
    BY <1>1, <2>4, <2>5 DEF ReplyFit, Answering, AuthStatuses, c
<1>2. CASE \/ request.what = "login" /\ reply \in Either("authReply", {"badKey", "badSignature", "refused"})
           \/ request.what = "copy" /\ reply \in Either("copied", {"ok", "fail"})
           \/ request.what = "connect" /\ reply \in Either("challenge", {"ok"})
           \/ request.what = "connect" /\ reply \in Either("verdict", {"refused"})
           \/ request.what = "answer" /\ reply \in Either("verdict", {"ok", "elsewhere", "refused", "stale"})
           \/ request.what = "delete" /\ reply \in Either("deleted", {"ok", "fail"})
           \/ request.what \in {"load", "create"} /\ reply \in Either("section", {"fail"})
           \/ request.what = "claim" /\ reply \in Either("claimed", {"fail"})
           \/ request.what = "claim" /\ reply \in Either("claimed", {"ok", "fail"})
           \/ request.what = "submit" /\ reply \in Either("submitted", {"ok", "fail"})
  <2>1. PICK code \in Codes,
             statuses \in SUBSET Statuses :
           /\ Answering(request.what, code)
           /\ code = "authReply" => statuses \subseteq {"badKey", "badSignature", "refused"}
           /\ code = "section" => "ok" \notin statuses
           /\ reply \in Either(code, statuses)
    BY <1>2 DEF Answering, Codes, Statuses
  <2> QED
    BY <2>1, EitherIs
<1>3. CASE request.what = "load" /\ reply \in Sections({"list", "chunk"}, request.who)
  BY <1>3, SectionsIs
<1>4. CASE request.what = "create" /\ reply \in Sections({"list"}, request.who)
  BY <1>4, SectionsIs
<1>5. request.what \in Requested
  BY DEF Request
<1> QED
  BY <1>1, <1>2, <1>3, <1>4, <1>5 DEF Replies, Requested

\* A reply damaged on the way still answers its request.
LEMMA DamagedFit ==
    ASSUME NEW request, NEW sent, ReplyFit(request, sent), NEW reply \in {sent} \cup Damaged(sent)
    PROVE  ReplyFit(request, reply)
<1>1. CASE reply = sent
  BY <1>1
<1>2. CASE reply \in Damaged(sent)
  <2>1. PICK k \in DOMAIN sent, s \in {"garbled", "oversized"} : reply = [sent EXCEPT ![k].status = s]
    BY <1>2 DEF Damaged
  <2> DEFINE x == sent[k]
             y == [x EXCEPT !.status = s]
  <2>2. sent \in Seq(Messages) /\ x \in Messages
    BY DEF ReplyFit
  <2> HIDE DEF x
  <2>3. y \in Messages
    <3>1. s \in Statuses
      BY DEF Statuses
    <3> QED
      BY <2>2, <3>1, ZenonT(30) DEF Messages, Statuses
  <2>4. y.code = x.code /\ y.status = s
    BY <2>2 DEF Messages
  <2>5. reply = [sent EXCEPT ![k] = y]
    BY <2>1, <2>2 DEF x
  <2> HIDE DEF y
  <2>6. /\ reply \in Seq(Messages)
        /\ DOMAIN reply = DOMAIN sent
        /\ \A i \in DOMAIN reply : reply[i] = IF i = k THEN y ELSE sent[i]
    BY <2>2, <2>3, <2>5
  <2>7. reply # <<>>
    BY <2>6
  <2>8. s \in AuthStatuses /\ s # "ok"
    BY DEF AuthStatuses
  <2> QED
    BY <2>4, <2>6, <2>7, <2>8 DEF ReplyFit, x
<1> QED
  BY <1>1, <1>2

\* What the workers and servers do to a connection.
Reports == {"Closed", "UdpMonitorActive"}
Reported(r, l, st) == [r EXCEPT !.link[l].st = st, !.link[l].reported = TRUE]

\* A worker's report changes one connection's state.
LEMMA ReportedIs ==
    ASSUME NEW r \in Mediator, NEW l \in Links, NEW st \in Reports
    PROVE  LET s == Reported(r, l, st) IN
           /\ s \in Mediator
           /\ SameBut(s, r, {"link"})
           /\ SameLink(s.link[l], r.link[l], {"st", "reported"})
           /\ s.link[l].st = st /\ s.link[l].reported
           /\ \A k \in Links \ {l} : s.link[k] = r.link[k]
<1> DEFINE x == [r.link[l] EXCEPT !.st = st, !.reported = TRUE]
           f == [r.link EXCEPT ![l] = x]
           s == Reported(r, l, st)
<1>1. r.link \in [Links -> Link] /\ r.link[l] \in Link
  BY FieldsTyped
<1>2. s = [r EXCEPT !.link = f]
  <2> DEFINE y == [r.link[l] EXCEPT !.st = st]
             g == [r.link EXCEPT ![l] = y]
             a == [r EXCEPT !.link = g]
  <2>1. s = [a EXCEPT !.link = [a.link EXCEPT ![l] = [a.link[l] EXCEPT !.reported = TRUE]]]
    BY DEF Reported
  <2>2. a.link = g
    BY DEF Mediator
  <2>3. g[l] = y /\ [g EXCEPT ![l] = [y EXCEPT !.reported = TRUE]] = f
    BY <1>1
  <2> HIDE DEF s, y
  <2>4. s = [a EXCEPT !.link = f]
    <3> HIDE DEF g, f
    <3>1. [a.link EXCEPT ![l] = [a.link[l] EXCEPT !.reported = TRUE]] = f
      BY <2>2, <2>3
    <3> HIDE DEF a
    <3> QED
      BY <2>1, <3>1
  <2> HIDE DEF g, f
  <2> QED
    BY <2>4 DEF Mediator
<1>3. /\ x \in Link
      /\ SameLink(x, r.link[l], {"st", "reported"})
      /\ x.st = st /\ x.reported
  BY <1>1 DEF Link, SameLink, LinkFieldNames, Reports
<1> HIDE DEF x
<1>4. f \in [Links -> Link] /\ f[l] = x /\ \A k \in Links \ {l} : f[k] = r.link[k]
  BY <1>1, <1>3
<1> HIDE DEF f, s
<1>5. s \in Mediator /\ SameBut(s, r, {"link"}) /\ s.link = f
  BY <1>2, <1>4, LinkTyped
<1> QED
  BY <1>3, <1>4, <1>5 DEF s

\* An answered request leaves its connection.
LEMMA AnsweredIs ==
    ASSUME NEW r \in Mediator, NEW l \in Links, r.link[l].asked # <<>>
    PROVE  LET s == [r EXCEPT !.link[l].asked = Tail(@)] IN
           /\ s \in Mediator
           /\ SameBut(s, r, {"link"})
           /\ SameLink(s.link[l], r.link[l], {"asked"})
           /\ s.link[l].asked = Tail(r.link[l].asked)
           /\ \A k \in Links \ {l} : s.link[k] = r.link[k]
<1> DEFINE t == Tail(r.link[l].asked)
           x == [r.link[l] EXCEPT !.asked = t]
           f == [r.link EXCEPT ![l] = x]
           s == [r EXCEPT !.link[l].asked = Tail(@)]
<1>1. r.link \in [Links -> Link] /\ r.link[l] \in Link
  BY FieldsTyped
<1>2. s = [r EXCEPT !.link = f]
  OBVIOUS
<1>3. t \in Seq(Request)
  BY <1>1, LinkFields
<1> HIDE DEF t
<1>4. /\ x \in Link
      /\ SameLink(x, r.link[l], {"asked"})
      /\ x.asked = t
  <2>1. x \in Link
    BY <1>1, <1>3, ZenonT(30) DEF Link, Request, Requested
  <2> QED
    BY <1>1, <2>1 DEF Link, SameLink, LinkFieldNames
<1> HIDE DEF x
<1>5. f \in [Links -> Link] /\ f[l] = x /\ \A k \in Links \ {l} : f[k] = r.link[k]
  BY <1>1, <1>4
<1> HIDE DEF f, s
<1>6. s \in Mediator /\ SameBut(s, r, {"link"}) /\ s.link = f
  BY <1>2, <1>5, LinkTyped
<1> QED
  BY <1>4, <1>5, <1>6 DEF s, t

\* The fit of what they do.
LEMMA NetworkFit ==
    ASSUME NEW s \in Mediator, NEW r \in Mediator, Fit(r), SameBut(s, r, {"link"}), NEW l \in Links,
           \A k \in Links \ {l} : s.link[k] = r.link[k],
           s.link[l].kind = r.link[l].kind, Fits(s.link[l])
    PROVE  /\ Fit(s)
           /\ \A k \in Links : s.link[k].kind = r.link[k].kind
<1>1. /\ s.create = r.create /\ s.auth = r.auth /\ s.margin = r.margin /\ s.up = r.up
      /\ s.state = r.state /\ s.goto = r.goto /\ s.slots = r.slots
  BY DEF SameBut, FieldNames
<1>2. \A k \in Links : s.link[k].kind = r.link[k].kind
  OBVIOUS
<1>3. \A k \in Links : Fits(s.link[k])
  BY DEF Fit, LinkFit
<1>4. LinkFit(s)
  BY <1>1, <1>2, <1>3, FieldsTyped DEF Fit, LinkFit
<1> QED
  BY <1>1, <1>2, <1>4 DEF Fit, CreateKnown

\* A queue with items that fit added to it fits.
LEMMA QueueGrows ==
    ASSUME NEW r \in Mediator, NEW s \in Mediator, NEW q \in Seq(Items), QueueFit(r, q),
           \A k \in Links : s.link[k].kind = r.link[k].kind,
           NEW p \in Seq(Items), QueueFit(s, p)
    PROVE  q \o p \in Seq(Items) /\ QueueFit(s, q \o p)
<1>1. QueueFit(s, q)
  BY ItemLinks, KeptQueue
<1>2. q \o p \in Seq(Items) /\ DOMAIN (q \o p) = 1 .. Len(q) + Len(p)
  OBVIOUS
<1>3. ASSUME NEW i \in DOMAIN (q \o p)
      PROVE  \/ i \in DOMAIN q /\ (q \o p)[i] = q[i]
             \/ i - Len(q) \in DOMAIN p /\ (q \o p)[i] = p[i - Len(q)]
  BY <1>2
<1>4. QueueFit(s, q \o p)
  BY <1>1, <1>3 DEF QueueFit
<1> QED
  BY <1>2, <1>4

\* An item and its fields.
LEMMA ItemIs ==
    ASSUME NEW l \in Links, NEW type \in {"Status", "Close", "Packet"}, NEW msg \in Messages
    PROVE  Item(l, type, msg) \in Items /\ Item(l, type, msg).link = l /\ Item(l, type, msg).type = type
           /\ Item(l, type, msg).msg = msg
<1>1. Item(l, type, msg) \in Items
  BY ZenonT(30) DEF Item, Items
<1> QED
  BY <1>1, Zenon DEF Item

\* Items without a packet.
LEMMA StatusItemIs ==
    ASSUME NEW l \in Links, NEW status \in {"ok", "fail"}
    PROVE  LET i == StatusItem(l, status) IN
           i \in Items /\ i.link = l /\ i.type = "Status" /\ i.msg.code \notin Codes
<1> DEFINE x == Msg("", status)
<1>1. x \in Messages /\ x.code = ""
  <2>1. "" \in Codes \cup {""}
    BY Zenon
  <2>2. status \in Statuses
    BY DEF Statuses
  <2> QED
    BY <2>1, <2>2, MsgTyped, Zenon
<1>2. "" \notin Codes
  BY Zenon DEF Codes
<1>3. x.code \notin Codes
  BY <1>1, <1>2, Zenon
<1>4. StatusItem(l, status) = Item(l, "Status", x)
  BY Zenon DEF StatusItem
<1> HIDE DEF x
<1>5. x \in Messages
  BY <1>1, Zenon
<1>6. "Status" \in {"Status", "Close", "Packet"}
  OBVIOUS
<1>7. LET i == Item(l, "Status", x) IN i \in Items /\ i.link = l /\ i.type = "Status" /\ i.msg = x
  BY <1>5, <1>6, ItemIs
<1> QED
  BY <1>3, <1>4, <1>7

\* A close item and its fields.
LEMMA CloseItemIs ==
    ASSUME NEW l \in Links
    PROVE  LET i == CloseItem(l) IN
           i \in Items /\ i.link = l /\ i.type = "Close" /\ i.msg.code \notin Codes
<1> DEFINE x == Msg("", "ok")
<1>1. x \in Messages /\ x.code = ""
  <2>1. "" \in Codes \cup {""}
    BY Zenon
  <2>2. "ok" \in Statuses
    BY DEF Statuses
  <2> QED
    BY <2>1, <2>2, MsgTyped, Zenon
<1>2. "" \notin Codes
  BY Zenon DEF Codes
<1>3. x.code \notin Codes
  BY <1>1, <1>2, Zenon
<1>4. CloseItem(l) = Item(l, "Close", x)
  BY Zenon DEF CloseItem
<1> HIDE DEF x
<1>5. x \in Messages
  BY <1>1, Zenon
<1>6. "Close" \in {"Status", "Close", "Packet"}
  OBVIOUS
<1>7. LET i == Item(l, "Close", x) IN i \in Items /\ i.link = l /\ i.type = "Close" /\ i.msg = x
  BY <1>5, <1>6, ItemIs
<1> QED
  BY <1>3, <1>4, <1>7

Wishes == [what : Requests \cup {"none"}, who : Characters \cup {None}]
Reasons == {"sender", "request", "reply", "session"}

\* The mediator between the calls, and what it has coming.
Core ==
    /\ m \in Mediator
    /\ AtRest(m)
    /\ Fit(m)
    /\ queue \in Seq(Items)
    /\ QueueFit(m, queue)

\* A step made of a handler keeps Core and the types of the histories.
LEMMA TakeKeeps ==
    ASSUME Core, left \subseteq Reasons,
           NEW h \in Mediator, Fit(h), Kept(h, m),
           NEW q \in Seq(Items), QueueFit(m, q),
           NEW w \in Wishes,
           Take(h, q, w)
    PROVE  /\ Core'
           /\ queue' = q
           /\ wish' \in Wishes /\ wish' \in {w, NoWish}
           /\ left' \subseteq Reasons /\ left \subseteq left'
<1> DEFINE r == Settled(h)
<1>1. ~r.full /\ m' = Tidy(r, q) /\ queue' = q
  BY DEF Take
<1>2. m' \in Mediator /\ AtRest(m') /\ Fit(m') /\ QueueFit(m', q)
  BY <1>1, TakenIs DEF Core
<1>3. NoWish \in Wishes
  BY DEF NoWish, Wishes
<1>4. wish' \in {w, NoWish}
  BY DEF Take
<1>5. left' \subseteq Reasons /\ left \subseteq left'
  <2> DEFINE a == m.state = 4 /\ r.state # 4 /\ r.up[4] # None
             b == wish # NoWish /\ w # wish
             c == wish # NoWish /\ w # wish /\ SectionsToCome
             d == m.margin # None /\ r.margin # m.margin /\ r.F14
  <2>1. left' = left \cup (IF a THEN {"sender"} ELSE {})
                     \cup (IF b THEN {"request"} ELSE {})
                     \cup (IF c THEN {"reply"} ELSE {})
                     \cup (IF d THEN {"session"} ELSE {})
    BY DEF Take
  <2> HIDE DEF a, b, c, d
  <2> QED
    BY <2>1 DEF Reasons
<1> QED
  BY <1>1, <1>2, <1>3, <1>4, <1>5 DEF Core, AtRest, QueueFit, Fit

\* A call is counted within its bound.
LEMMA CallTyped ==
    ASSUME TypeOK, MayCall
    PROVE  calls' \in 0 .. MaxCalls /\ account' = account /\ faults' = faults
  BY LoginAssumption DEF TypeOK, MayCall

\* A fault is counted within its bound.
LEMMA FaultTyped ==
    ASSUME TypeOK, NEW fault \in BOOLEAN, MayFault(fault)
    PROVE  faults' \in 0 .. MaxFaults
  BY LoginAssumption DEF TypeOK, MayFault

\* An index the client may choose is one of the slot table.
LEMMA SlotIs ==
    ASSUME Core, NEW i \in Slots
    PROVE  /\ i \in 0 .. Len(m.slots) - 1 /\ i \in Nat /\ i + 1 \in 1 .. Len(m.slots)
           /\ m.slots[i + 1] \in Characters
<1>1. m.slots \in Seq(Characters) /\ Len(m.slots) \in Nat
  BY FieldsTyped DEF Core
<1>2. i \in 0 .. Len(m.slots) - 1
  BY DEF Slots
<1> QED
  BY <1>1, <1>2

\* A request and a character make a wish.
LEMMA WishTyped ==
    ASSUME NEW what \in Requests, NEW who \in Characters \cup {None}
    PROVE  [what |-> what, who |-> who] \in Wishes
  BY DEF Wishes

\* What is left of a call's type.
LEMMA TakeTyped ==
    ASSUME TypeOK, Core, NEW h \in Mediator, Fit(h), Kept(h, m), NEW q \in Seq(Items), QueueFit(m, q),
           NEW w \in Wishes, Take(h, q, w),
           account' = account, calls' \in 0 .. MaxCalls, faults' \in 0 .. MaxFaults
    PROVE  TypeOK' /\ Core'
<1>1. left \subseteq Reasons
  BY DEF TypeOK, Reasons
<1>2. Core' /\ wish' \in Wishes /\ left' \subseteq Reasons
  BY <1>1, TakeKeeps
<1> QED
  BY <1>2 DEF TypeOK, Core, Wishes, Reasons

\* What Core says of the mediator itself.
LEMMA SelfKept ==
    ASSUME Core
    PROVE  m \in Mediator /\ Fit(m) /\ Kept(m, m) /\ queue \in Seq(Items) /\ QueueFit(m, queue) /\ m.goto = None
  BY DEF Core, Kept, AtRest

\* The client's calls keep types and Core.
LEMMA ClientKeeps ==
    ASSUME TypeOK, Core, Client
    PROVE  TypeOK' /\ Core'
<1>1. m \in Mediator /\ Fit(m) /\ Kept(m, m) /\ queue \in Seq(Items) /\ QueueFit(m, queue)
  BY SelfKept
<1>2. wish \in Wishes /\ NoWish \in Wishes
  BY DEF TypeOK, Wishes, NoWish
<1>3. calls \in 0 .. MaxCalls /\ faults \in 0 .. MaxFaults
  BY DEF TypeOK
<1>4. CASE ProcessLoginRequest
  <2> DEFINE w == [what |-> "login", who |-> None]
  <2>1. MayCall /\ Take(Switch(m, 2), queue, w)
    BY <1>4 DEF ProcessLoginRequest, MayRequest
  <2>2. w \in Wishes
    BY DEF Wishes, Requests
  <2>3. 2 \in StateIds \ {10, 11}
    BY DEF StateIds
  <2> HIDE DEF w
  <2> QED
    BY <1>1, <1>3, <2>1, <2>2, <2>3, SwitchedIs, CallTyped, TakeTyped
<1>5. ASSUME NEW i \in Slots, PersistSelectionContextForState8(i)
      PROVE  TypeOK' /\ Core'
  <2> DEFINE w == [what |-> "play", who |-> m.slots[i + 1]]
             h == Switch([m EXCEPT !.current = i], 8)
  <2>1. MayCall /\ Take(h, queue, w)
    BY <1>5 DEF PersistSelectionContextForState8, MayRequest
  <2>2. w \in Wishes
    BY SlotIs DEF Wishes, Requests
  <2>3. h \in Mediator /\ Fit(h) /\ Kept(h, m)
    BY <1>1, SlotIs, SelectedIs
  <2> HIDE DEF w, h
  <2> QED
    BY <1>1, <1>3, <2>1, <2>2, <2>3, CallTyped, TakeTyped
<1>6. ASSUME NEW i \in Slots, SetSelectionIndexAndSwitchToState7(i)
      PROVE  TypeOK' /\ Core'
  <2> DEFINE w == [what |-> "delete", who |-> m.slots[i + 1]]
             h == Switch([m EXCEPT !.current = i], 7)
  <2>1. MayCall /\ Take(h, queue, w)
    BY <1>6 DEF SetSelectionIndexAndSwitchToState7, MayRequest
  <2>2. w \in Wishes
    BY SlotIs DEF Wishes, Requests
  <2>3. h \in Mediator /\ Fit(h) /\ Kept(h, m)
    BY <1>1, SlotIs, SelectedIs
  <2> HIDE DEF w, h
  <2> QED
    BY <1>1, <1>3, <2>1, <2>2, <2>3, CallTyped, TakeTyped
<1>7. ASSUME NEW c \in Characters, ProcessCreateCharacterInput120(c)
      PROVE  TypeOK' /\ Core'
  <2> DEFINE w == [what |-> "create", who |-> c]
             h == Switch([m EXCEPT !.create = c, !.named = TRUE], 10)
  <2>1. MayCall /\ Take(h, queue, w)
    BY <1>7 DEF ProcessCreateCharacterInput120, MayRequest
  <2>2. w \in Wishes
    BY DEF Wishes, Requests
  <2>3. h \in Mediator /\ Fit(h) /\ Kept(h, m)
    BY <1>1, CreatingIs
  <2> HIDE DEF w, h
  <2> QED
    BY <1>1, <1>3, <2>1, <2>2, <2>3, CallTyped, TakeTyped
<1>8. ASSUME NEW i \in Slots, RemoveSlotRecord(i)
      PROVE  TypeOK' /\ Core'
  <2> DEFINE h == [m EXCEPT !.slots = RemoveAt(@, i + 1)]
  <2>1. MayCall /\ Take(h, queue, wish)
    BY <1>8 DEF RemoveSlotRecord
  <2>2. h \in Mediator /\ Fit(h) /\ Kept(h, m)
    <3>1. i + 1 \in 1 .. Len(m.slots)
      BY SlotIs
    <3> QED
      BY <1>1, <3>1, RemovedIs
  <2> HIDE DEF h
  <2> QED
    BY <1>1, <1>2, <1>3, <2>1, <2>2, CallTyped, TakeTyped
<1>9. CASE RequestAuthCloseAndSwitchToState0
  <2> DEFINE h == Switch(RequestAuthClose(m), 0)
  <2>1. MayCall /\ Take(h, queue, NoWish)
    BY <1>9 DEF RequestAuthCloseAndSwitchToState0
  <2>2. h \in Mediator /\ Fit(h) /\ Kept(h, m)
    BY <1>1, GivenUpIs
  <2> HIDE DEF h
  <2> QED
    BY <1>1, <1>2, <1>3, <2>1, <2>2, CallTyped, TakeTyped
<1>10. CASE RequestMarginConnectionCloseWaitEvent0f
  <2> DEFINE h == RequestMarginClose(m)
  <2>1. MayCall /\ m.margin # None /\ Take(h, queue, wish)
    BY <1>10 DEF RequestMarginConnectionCloseWaitEvent0f
  <2>2. h \in Mediator /\ Fit(h) /\ Kept(h, m)
    BY <1>1, <2>1, MarginCloseIs
  <2> HIDE DEF h
  <2> QED
    BY <1>1, <1>2, <1>3, <2>1, <2>2, CallTyped, TakeTyped
<1>11. CASE SetState9OptionalField90AndSwitchToState13
  <2>1. MayCall /\ Take(Switch(m, 13), queue, wish)
    BY <1>11 DEF SetState9OptionalField90AndSwitchToState13
  <2>2. 13 \in StateIds \ {10, 11}
    BY DEF StateIds
  <2> QED
    BY <1>1, <1>2, <1>3, <2>1, <2>2, SwitchedIs, CallTyped, TakeTyped
<1>12. CASE SetState9CallbackObjectTriple
  <2>1. PICK c \in {"join", "fail"} :
           MayFault(c = "fail") /\ Take([m EXCEPT !.callbacks = c], queue, wish)
    BY <1>12 DEF SetState9CallbackObjectTriple
  <2>2. account' = account /\ calls' = calls
    BY <1>12 DEF SetState9CallbackObjectTriple
  <2>3. faults' \in 0 .. MaxFaults
    BY <2>1, FaultTyped
  <2> DEFINE h == [m EXCEPT !.callbacks = c]
  <2>4. h \in Mediator /\ Fit(h) /\ Kept(h, m)
    BY <1>1, CallbacksIs
  <2>5. Take(h, queue, wish)
    BY <2>1
  <2> HIDE DEF h
  <2> QED
    BY <1>1, <1>2, <1>3, <2>2, <2>3, <2>4, <2>5, TakeTyped
<1>13. CASE ClearEngine
  <2> DEFINE h == Cleared(m)
  <2>1. MayCall /\ Take(h, queue, NoWish)
    BY <1>13 DEF ClearEngine, Cleared
  <2>2. h \in Mediator /\ Fit(h) /\ Kept(h, m)
    BY <1>1, ClearedIs
  <2> HIDE DEF h
  <2> QED
    BY <1>1, <1>2, <1>3, <2>1, <2>2, CallTyped, TakeTyped
<1> QED
  BY <1>4, <1>5, <1>6, <1>7, <1>8, <1>9, <1>10, <1>11, <1>12, <1>13 DEF Client

\* The first operation of the queue, and the rest of it, fit.
LEMMA HeadIs ==
    ASSUME Core, queue # <<>>
    PROVE  /\ Head(queue) \in Items /\ ItemFit(m, Head(queue))
           /\ Tail(queue) \in Seq(Items) /\ QueueFit(m, Tail(queue))
<1>1. queue \in Seq(Items)
  BY DEF Core
<1>2. Len(queue) \in Nat \ {0} /\ 1 \in DOMAIN queue /\ Head(queue) = queue[1] /\ queue[1] \in Items
  BY <1>1
<1>3. Tail(queue) \in Seq(Items)
  BY <1>1
<1>4. \A i \in DOMAIN Tail(queue) : i + 1 \in DOMAIN queue /\ Tail(queue)[i] = queue[i + 1]
  BY <1>1
<1> QED
  BY <1>2, <1>3, <1>4 DEF Core, QueueFit

\* What the next completed operation leads to.
LEMMA DeliveredIs ==
    ASSUME Core, queue # <<>>, NEW hashed \in BOOLEAN
    PROVE  LET h == Completed(m, Head(queue), hashed) IN
           h \in Mediator /\ CompletedResult(h, m, Head(queue)) /\ Fit(h) /\ Kept(h, m)
<1> DEFINE h == Completed(m, Head(queue), hashed)
           i == Head(queue)
<1>1. m \in Mediator /\ Fit(m) /\ m.goto = None /\ i \in Items /\ ItemFit(m, i)
  BY HeadIs, SelfKept
<1> HIDE DEF i
<1>2. Completed(m, i, hashed) \in Mediator /\ CompletedResult(Completed(m, i, hashed), m, i)
  BY <1>1, CompletedIs
<1>3. Fit(Completed(m, i, hashed)) /\ Kept(Completed(m, i, hashed), m)
  BY <1>1, <1>2, CompletedFit
<1> QED
  BY <1>2, <1>3 DEF i

\* A delivered operation keeps types and Core.
LEMMA TakeDelivered ==
    ASSUME TypeOK, Core, queue # <<>>, NEW hashed \in BOOLEAN, MayFault(~hashed),
           Take(Completed(m, Head(queue), hashed), Tail(queue), wish),
           account' = account, calls' = calls
    PROVE  TypeOK' /\ Core'
<1> DEFINE h == Completed(m, Head(queue), hashed)
<1>1. h \in Mediator /\ Fit(h) /\ Kept(h, m)
  BY DeliveredIs
<1>2. Tail(queue) \in Seq(Items) /\ QueueFit(m, Tail(queue))
  BY HeadIs
<1>3. faults' \in 0 .. MaxFaults
  BY FaultTyped
<1>4. wish \in Wishes /\ calls' \in 0 .. MaxCalls
  BY DEF TypeOK, Wishes
<1>5. Take(h, Tail(queue), wish)
  OBVIOUS
<1> HIDE DEF h
<1> QED
  BY <1>1, <1>2, <1>3, <1>4, <1>5, TakeTyped

\* So does a delivery outside the flow's waits.
LEMMA DeliverKeeps ==
    ASSUME TypeOK, Core, Deliver
    PROVE  TypeOK' /\ Core'
<1>1. queue # <<>> /\ account' = account /\ calls' = calls
  BY DEF Deliver
<1>2. PICK hashed \in BOOLEAN :
         MayFault(~hashed) /\ Take(Completed(m, Head(queue), hashed), Tail(queue), wish)
  BY DEF Deliver
<1> QED
  BY <1>1, <1>2, TakeDelivered

\* A connection the workers still work for is in use.
LEMMA InUse ==
    ASSUME Core, NEW l \in Links, m.link[l].st # "Closed" \/ m.link[l].asked # <<>>
    PROVE  m.link[l].kind # "free"
  BY DEF Core, Fit, LinkFit, Fits

\* A worker's report, of this mediator.
LEMMA ReportedHere ==
    ASSUME m \in Mediator, NEW l \in Links, NEW st \in Reports
    PROVE  /\ Reported(m, l, st) \in Mediator
           /\ SameBut(Reported(m, l, st), m, {"link"})
           /\ SameLink(Reported(m, l, st).link[l], m.link[l], {"st", "reported"})
           /\ Reported(m, l, st).link[l].st = st /\ Reported(m, l, st).link[l].reported
           /\ \A k \in Links \ {l} : Reported(m, l, st).link[k] = m.link[k]
  BY ReportedIs

\* A worker's report keeps types and Core.
LEMMA ReportKeeps ==
    ASSUME TypeOK, Core, NEW l \in Links, m.link[l].st # "Closed", NEW st \in Reports,
           NEW items \in Seq(Items),
           \A i \in DOMAIN items : items[i].link = l /\ items[i].type # "Packet" /\ items[i].msg.code \notin Codes,
           NEW fault \in BOOLEAN, Report(l, st, items, fault)
    PROVE  TypeOK' /\ Core'
<1> DEFINE s == Reported(m, l, st)
<1>1. m' = s /\ queue' = queue \o items
  BY DEF Report, Reported
<1>2. m \in Mediator /\ Fit(m) /\ AtRest(m) /\ queue \in Seq(Items) /\ QueueFit(m, queue)
  BY DEF Core
<1>3. /\ s \in Mediator /\ SameBut(s, m, {"link"})
      /\ SameLink(s.link[l], m.link[l], {"st", "reported"})
      /\ s.link[l].st = st
      /\ \A k \in Links \ {l} : s.link[k] = m.link[k]
  BY <1>2, ReportedHere, Zenon
<1> HIDE DEF s
<1>4. m.link[l].kind # "free"
  BY InUse
<1>5. s.link[l].kind = m.link[l].kind /\ s.link[l].asked = m.link[l].asked
  BY <1>3 DEF SameLink, LinkFieldNames
<1>6. Fits(s.link[l])
  BY <1>2, <1>4, <1>5 DEF Fit, LinkFit, Fits
<1>7. Fit(s) /\ \A k \in Links : s.link[k].kind = m.link[k].kind
  BY <1>2, <1>3, <1>5, <1>6, NetworkFit
<1>8. QueueFit(s, items)
  <2>1. {"authReply", "section"} \subseteq Codes
    BY DEF Codes
  <2> QED
    BY <1>4, <1>5, <2>1 DEF QueueFit, ItemFit
<1>9. queue \o items \in Seq(Items) /\ QueueFit(s, queue \o items)
  BY <1>2, <1>3, <1>7, <1>8, QueueGrows
<1>10. AtRest(s)
  BY <1>2, <1>3 DEF AtRest, SameBut, FieldNames
<1>11. Core'
  BY <1>1, <1>3, <1>7, <1>9, <1>10 DEF Core, AtRest, QueueFit, Fit
<1>12. /\ account' = account /\ wish' = wish /\ left' = left /\ calls' = calls
       /\ faults' \in 0 .. MaxFaults
  BY FaultTyped DEF Report
<1> QED
  BY <1>11, <1>12 DEF TypeOK, Core

\* A server's answer keeps types and Core.
LEMMA AnswersKeeps ==
    ASSUME TypeOK, Core, NEW l \in Links, ServerAnswers(l)
    PROVE  TypeOK' /\ Core'
<1> DEFINE request == Head(m.link[l].asked)
           s == [m EXCEPT !.link[l].asked = Tail(@)]
<1>1. m \in Mediator /\ Fit(m) /\ AtRest(m) /\ queue \in Seq(Items) /\ QueueFit(m, queue)
  BY DEF Core
<1>2. m.link[l].asked # <<>> /\ m.link[l].st # "Closed" /\ m.link[l].asked \in Seq(Request)
  BY <1>1, FieldsTyped, LinkFields DEF ServerAnswers
<1>3. request \in Request /\ 1 \in DOMAIN m.link[l].asked /\ request = m.link[l].asked[1]
  BY <1>2
<1>4. m' = s /\ wish' = wish /\ left' = left /\ calls' = calls
  BY DEF ServerAnswers
<1>5. PICK sent \in Replies(request) : \E reply \in {sent} \cup Damaged(sent) :
         /\ queue' = queue \o [k \in DOMAIN reply |-> Item(l, "Packet", reply[k])]
         /\ account' = AccountAfter(request, sent)
         /\ MayFault(\E k \in DOMAIN reply : reply[k].status # "ok")
  BY DEF ServerAnswers
<1>6. PICK reply \in {sent} \cup Damaged(sent) :
         /\ queue' = queue \o [k \in DOMAIN reply |-> Item(l, "Packet", reply[k])]
         /\ account' = AccountAfter(request, sent)
         /\ MayFault(\E k \in DOMAIN reply : reply[k].status # "ok")
  BY <1>5
<1>7. account \subseteq Characters
  BY DEF TypeOK
<1> HIDE DEF request
<1>8. ReplyFit(request, reply)
  BY <1>3, <1>5, <1>6, <1>7, RepliesAre, DamagedFit
<1> DEFINE items == [k \in DOMAIN reply |-> Item(l, "Packet", reply[k])]
<1>9. /\ s \in Mediator /\ SameBut(s, m, {"link"})
      /\ SameLink(s.link[l], m.link[l], {"asked"})
      /\ s.link[l].asked = Tail(m.link[l].asked)
      /\ \A k \in Links \ {l} : s.link[k] = m.link[k]
  BY <1>1, <1>2, AnsweredIs
<1> HIDE DEF s
<1>10. m.link[l].kind # "free"
  BY <1>2, InUse
<1>11. s.link[l].kind = m.link[l].kind
  BY <1>9 DEF SameLink, LinkFieldNames
<1>12. Fits(s.link[l])
  <2>1. \A i \in DOMAIN s.link[l].asked :
           i + 1 \in DOMAIN m.link[l].asked /\ s.link[l].asked[i] = m.link[l].asked[i + 1]
    BY <1>2, <1>9
  <2>2. Fits(m.link[l])
    BY <1>1 DEF Fit, LinkFit
  <2> QED
    BY <1>10, <1>11, <2>1, <2>2 DEF Fits
<1>13. Fit(s) /\ \A k \in Links : s.link[k].kind = m.link[k].kind
  BY <1>1, <1>9, <1>11, <1>12, NetworkFit
<1>14. items \in Seq(Items) /\ QueueFit(s, items)
  <2>1. "Packet" \in {"Status", "Close", "Packet"}
    OBVIOUS
  <2>2. reply \in Seq(Messages) /\ DOMAIN reply = 1 .. Len(reply) /\ Len(reply) \in Nat
    BY <1>8 DEF ReplyFit
  <2>3. \A k \in DOMAIN reply :
           LET i == Item(l, "Packet", reply[k]) IN
           i \in Items /\ i.link = l /\ i.type = "Packet" /\ i.msg = reply[k]
    BY <2>1, <2>2, ItemIs
  <2>4. items \in Seq(Items) /\ DOMAIN items = DOMAIN reply
    BY <2>2, <2>3
  <2>5. m.link[l].kind = "auth" <=> request.what = "login"
    BY <1>1, <1>3 DEF Fit, LinkFit, Fits
  <2>6. ASSUME NEW k \in DOMAIN items
        PROVE  ItemFit(s, items[k])
    <3>1. items[k].link = l /\ items[k].type = "Packet" /\ items[k].msg = reply[k]
      BY <2>3, <2>4
    <3>2. /\ Answering(request.what, reply[k].code)
          /\ reply[k].code = "authReply" =>
                reply[k].status \in AuthStatuses
          /\ reply[k].code = "section" /\ reply[k].status = "ok" => reply[k].data \in SectionData
      BY <1>8, <2>4 DEF ReplyFit
    <3> HIDE DEF items
    <3> QED
      BY <1>10, <1>11, <2>5, <3>1, <3>2 DEF ItemFit, Answering, AuthStatuses
  <2> QED
    BY <2>4, <2>6 DEF QueueFit
<1>15. queue \o items \in Seq(Items) /\ QueueFit(s, queue \o items)
  BY <1>1, <1>9, <1>13, <1>14, QueueGrows
<1>16. AtRest(s)
  BY <1>1, <1>9 DEF AtRest, SameBut, FieldNames
<1>17. Core'
  BY <1>4, <1>6, <1>9, <1>13, <1>15, <1>16 DEF s, Core, AtRest, QueueFit, Fit
<1>18. account' \subseteq Characters
  <2>1. request.what = "create" => request.who \in Characters
    <3>1. request.what = "create" => request.who # None
      BY <1>1, <1>3 DEF Fit, LinkFit, Fits
    <3> QED
      BY <1>3, <3>1 DEF Request
  <2> QED
    BY <1>6, <1>7, <2>1 DEF AccountAfter
<1>19. faults' \in 0 .. MaxFaults
  BY <1>6, FaultTyped
<1> QED
  BY <1>4, <1>17, <1>18, <1>19 DEF TypeOK, Core

\* The network's steps keep types and Core.
LEMMA NetworkKeeps ==
    ASSUME TypeOK, Core, NEW l \in Links, Network(l)
    PROVE  TypeOK' /\ Core'
<1>1. "ok" \in {"ok", "fail"} /\ "fail" \in {"ok", "fail"}
  OBVIOUS
<1>2. CASE Connected(l)
  <2> DEFINE i == StatusItem(l, "ok")
  <2>1. Report(l, "UdpMonitorActive", <<i>>, FALSE) /\ m.link[l].st # "Closed"
    BY <1>2 DEF Connected, Unreported
  <2>2. i \in Items /\ i.link = l /\ i.type # "Packet" /\ i.msg.code \notin Codes
    BY <1>1, StatusItemIs
  <2> HIDE DEF i
  <2> DEFINE items == <<i>>
  <2>3. items \in Seq(Items) /\ \A k \in DOMAIN items : items[k] = i
    BY <2>2
  <2>4. "UdpMonitorActive" \in Reports
    BY DEF Reports
  <2>5. Report(l, "UdpMonitorActive", items, FALSE)
    BY <2>1
  <2> HIDE DEF items
  <2> QED
    BY <2>1, <2>2, <2>3, <2>4, <2>5, ReportKeeps
<1>3. CASE ConnectFails(l)
  <2> DEFINE i == StatusItem(l, "fail")
             j == CloseItem(l)
  <2>1. m.link[l].st # "Closed"
    BY <1>3 DEF ConnectFails, Unreported
  <2>2. PICK items \in {<<i, j>>, <<i>>, <<j>>} : Report(l, "Closed", items, TRUE)
    BY <1>3 DEF ConnectFails
  <2>3. /\ i \in Items /\ i.link = l /\ i.type # "Packet" /\ i.msg.code \notin Codes
        /\ j \in Items /\ j.link = l /\ j.type # "Packet" /\ j.msg.code \notin Codes
    BY <1>1, StatusItemIs, CloseItemIs
  <2> HIDE DEF i, j
  <2>4. items \in Seq(Items) /\ \A k \in DOMAIN items : items[k] \in {i, j}
    <3>1. /\ <<i, j>> \in Seq(Items) /\ <<i>> \in Seq(Items) /\ <<j>> \in Seq(Items)
          /\ \A k \in DOMAIN <<i, j>> : <<i, j>>[k] \in {i, j}
          /\ \A k \in DOMAIN <<i>> : <<i>>[k] \in {i, j}
          /\ \A k \in DOMAIN <<j>> : <<j>>[k] \in {i, j}
      BY <2>3
    <3> QED
      BY <2>2, <3>1, Zenon
  <2>5. "Closed" \in Reports
    BY DEF Reports
  <2>6. \A k \in DOMAIN items : items[k].link = l /\ items[k].type # "Packet" /\ items[k].msg.code \notin Codes
    BY <2>3, <2>4
  <2> QED
    BY <2>1, <2>2, <2>4, <2>5, <2>6, ReportKeeps
<1>4. CASE Ends(l)
  <2> DEFINE j == CloseItem(l)
             fault == m.link[l].st = "UdpMonitorActive"
  <2>1. Report(l, "Closed", <<j>>, fault) /\ m.link[l].st # "Closed"
    BY <1>4 DEF Ends
  <2>2. j \in Items /\ j.link = l /\ j.type # "Packet" /\ j.msg.code \notin Codes
    BY CloseItemIs
  <2>3. fault \in BOOLEAN
    OBVIOUS
  <2> HIDE DEF j, fault
  <2> DEFINE items == <<j>>
  <2>4. items \in Seq(Items) /\ \A k \in DOMAIN items : items[k] = j
    BY <2>2
  <2>5. "Closed" \in Reports
    BY DEF Reports
  <2>6. Report(l, "Closed", items, fault)
    BY <2>1
  <2> HIDE DEF items
  <2> QED
    BY <2>1, <2>2, <2>3, <2>4, <2>5, <2>6, ReportKeeps
<1> QED
  BY <1>2, <1>3, <1>4, AnswersKeeps DEF Network

\* The expiry of the reply copy keeps types and Core.
LEMMA CopyExpiresKeeps ==
    ASSUME TypeOK, Core, CopyExpires
    PROVE  TypeOK' /\ Core'
<1> DEFINE s == [m EXCEPT !.fresh = FALSE]
<1>1. m \in Mediator /\ Fit(m) /\ AtRest(m) /\ queue \in Seq(Items) /\ QueueFit(m, queue)
  BY DEF Core
<1>2. /\ m' = s /\ MayFault(TRUE)
      /\ queue' = queue /\ account' = account /\ wish' = wish /\ left' = left /\ calls' = calls
  BY DEF CopyExpires
<1>3. s \in Mediator /\ SameBut(s, m, {"fresh"})
  <2>1. s \in Mediator
    <3>1. FALSE \in BOOLEAN
      OBVIOUS
    <3> QED
      BY <1>1, ZenonT(200) DEF Mediator
  <2> QED
    BY <1>1, <2>1 DEF Mediator, SameBut, FieldNames
<1> HIDE DEF s
<1>4. Fit(s) /\ AtRest(s) /\ QueueFit(s, queue)
  <2>1. /\ s.link = m.link /\ s.auth = m.auth /\ s.margin = m.margin /\ s.up = m.up /\ s.goto = m.goto
        /\ s.state = m.state /\ s.create = m.create /\ s.slots = m.slots /\ s.after = m.after
        /\ s.posted = m.posted /\ s.full = m.full /\ s.current = m.current
    BY <1>3 DEF SameBut, FieldNames
  <2> QED
    BY <1>1, <2>1 DEF Fit, LinkFit, CreateKnown, AtRest, QueueFit, ItemFit
<1>5. faults' \in 0 .. MaxFaults
  BY <1>2, FaultTyped
<1> QED
  BY <1>1, <1>2, <1>3, <1>4, <1>5 DEF TypeOK, Core, AtRest, QueueFit, Fit

Observers == [expected : {5, 1, 8}, waiting : BOOLEAN, error : BOOLEAN,
              result : {"ok", "failed", "timeout"}]

\* The observer keeps its type and the event it expects.
LEMMA ObserveTyped ==
    ASSUME NEW o \in Observers, NEW r
    PROVE  /\ Observe(o, r) \in Observers
           /\ Observe(o, r).expected = o.expected
<1> DEFINE p == Settled(r).posted
           errors == {i \in DOMAIN p : p[i].kind = "error"}
           ends == errors \cup {i \in DOMAIN p : p[i] = [kind |-> "event", id |-> o.expected]}
           result == IF Max(ends) \in errors THEN "failed" ELSE "ok"
           some == p[Max(errors)].id # 0
           s == [o EXCEPT !.waiting = FALSE, !.result = result,
                          !.error = IF errors = {} THEN @ ELSE some]
<1>1. Observe(o, r) = IF ends = {} THEN o ELSE s
  BY Zenon DEF Observe
<1>2. result \in {"ok", "failed"} /\ some \in BOOLEAN
  OBVIOUS
<1> HIDE DEF ends, result, some, errors
<1>3. s \in Observers /\ s.expected = o.expected
  BY <1>2 DEF Observers
<1> HIDE DEF s
<1> QED
  BY <1>1, <1>3

\* A newly registered observer has its type.
LEMMA RegisteredTyped ==
    ASSUME NEW e \in {5, 1, 8}
    PROVE  Registered(e) \in Observers /\ Registered(e).expected = e
  BY DEF Registered, Observers

Rows == [index : Nat, name : Characters \cup {None}]
Stages == {"prompt", "menu", "client", "over"} \cup Waits

\* A row of the menu names a record of the slot table, or none.
LEMMA RowIs ==
    ASSUME NEW r \in SelectionRows
    PROVE  r.index # None => r.index \in Slots
<1>1. PICK w \in ListedWorlds :
         r \in {[world |-> w, index |-> i] :
                   i \in EntriesOf(w) \cup (IF Cardinality(EntriesOf(w)) < 3 THEN {None} ELSE {})}
  BY Zenon DEF SelectionRows
<1>2. PICK i \in EntriesOf(w) \cup (IF Cardinality(EntriesOf(w)) < 3 THEN {None} ELSE {}) :
         r = [world |-> w, index |-> i]
  BY <1>1, Zenon
<1>3. i = None \/ i \in EntriesOf(w)
  BY <1>2, Zenon
<1>4. \A k \in EntriesOf(w) : k \in Slots
  BY DEF EntriesOf, ActiveEntries
<1> QED
  BY <1>2, <1>3, <1>4

\* The variables' types with what the mediator is fit for.
TypeInv == FlowTypeOK /\ Core

\* The flow begins with everything typed and fitting.
LEMMA FlowInitTyped ==
    ASSUME FlowInit
    PROVE  TypeInv
<1>1. Init
  BY DEF FlowInit
<1>2. m \in Mediator
  <2>1. 0 \in StateIds /\ None \in StateIds \cup {None}
    BY DEF StateIds
  <2>2. [s \in Cachers |-> None] \in [Cachers -> Upstreams]
    BY DEF Upstreams
  <2>3. [l \in Links |-> FreeLink] \in [Links -> Link]
    <3>1. FreeLink \in Link
      BY DEF FreeLink, Link
    <3> QED
      BY <3>1
  <2>4. NoProfile \in Profile
    BY DEF NoProfile, Profile
  <2>5. AuthAddresses \in 0 .. AuthAddresses /\ 0 \in 0 .. 255 /\ 0 \in Nat
    BY LoginAssumption
  <2>6. <<>> \in Seq(Characters) /\ <<>> \in Seq(Posting)
    OBVIOUS
  <2> DEFINE up == [s \in Cachers |-> None]
             link == [l \in Links |-> FreeLink]
  <2> HIDE DEF up, link
  <2> QED
    BY <1>1, <2>1, <2>2, <2>3, <2>4, <2>5, <2>6, ZenonT(200) DEF Init, Mediator
<1>3. AtRest(m)
  BY <1>1 DEF Init, AtRest
<1>4. Fit(m)
  <2>1. /\ m.state = 0 /\ m.goto = None /\ m.auth = None /\ m.margin = None
        /\ m.up = [s \in Cachers |-> None] /\ m.link = [l \in Links |-> FreeLink] /\ m.slots = <<>>
    BY <1>1 DEF Init
  <2>2. \A l \in Links : m.link[l] = FreeLink
    BY <2>1
  <2>3. LinkFit(m)
    BY <2>1, <2>2 DEF LinkFit, Fits, FreeLink
  <2>4. CreateKnown(m)
    BY <2>1, LoginAssumption DEF CreateKnown, Cachers
  <2>5. Len(m.slots) <= MaxSlots
    BY <2>1, LoginAssumption
  <2> QED
    BY <2>3, <2>4, <2>5 DEF Fit
<1>5. queue \in Seq(Items) /\ QueueFit(m, queue)
  BY <1>1 DEF Init, QueueFit
<1>6. TypeOK
  BY <1>1, <1>2, <1>5, LoginAssumption DEF Init, TypeOK, NoWish
<1>7. FlowTypeOK
  BY <1>6 DEF FlowInit, FlowTypeOK, NoRow, Waits
<1> QED
  BY <1>2, <1>3, <1>4, <1>5, <1>7 DEF TypeInv, Core

\* A request the flow waits for keeps types and Core.
LEMMA WaitForTyped ==
    ASSUME TypeInv, NEW s \in Stages, NEW e \in {5, 1, 8},
           NEW h \in Mediator, Fit(h), Kept(h, m), NEW w \in Wishes, WaitFor(s, e, h, w),
           account' = account, calls' \in 0 .. MaxCalls, faults' \in 0 .. MaxFaults,
           row' \in Rows
    PROVE  TypeInv'
<1>1. Take(h, queue, w) /\ stage' = s /\ observer' = Observe(Registered(e), h)
  BY DEF WaitFor
<1>2. observer' \in Observers
  BY <1>1, ObserveTyped, RegisteredTyped
<1>3. TypeOK /\ Core /\ queue \in Seq(Items) /\ QueueFit(m, queue)
  BY SelfKept DEF TypeInv, FlowTypeOK
<1>4. TypeOK' /\ Core'
  BY <1>1, <1>3, TakeTyped
<1> QED
  BY <1>1, <1>2, <1>4 DEF TypeInv, FlowTypeOK, Observers, Stages, Rows

\* A step of the flow keeps every variable in its type.
LEMMA FlowKeeps ==
    ASSUME TypeInv, Flow
    PROVE  TypeInv'
<1>1. TypeOK /\ Core /\ stage \in Stages /\ observer \in Observers /\ row \in Rows
  BY DEF TypeInv, FlowTypeOK, Stages, Observers, Rows
<1>2. /\ m \in Mediator /\ Fit(m) /\ Kept(m, m)
      /\ queue \in Seq(Items) /\ QueueFit(m, queue)
  BY <1>1, SelfKept
<1>3. /\ wish \in Wishes /\ NoWish \in Wishes
      /\ calls \in 0 .. MaxCalls /\ faults \in 0 .. MaxFaults
  BY <1>1 DEF TypeOK, Wishes, NoWish
<1>4. /\ "login" \in Stages /\ "close" \in Stages /\ "delete" \in Stages
      /\ 5 \in {5, 1, 8} /\ 1 \in {5, 1, 8} /\ 8 \in {5, 1, 8}
  BY DEF Stages, Waits
<1>5. CASE SubmitCredentials
  <2> DEFINE w == [what |-> "login", who |-> None]
             h == Switch(m, 2)
  <2>1. MayCall /\ row' = row /\ (WaitFor("login", 5, m, wish) \/ WaitFor("login", 5, h, w))
    BY <1>5 DEF SubmitCredentials
  <2>2. w \in Wishes
    BY DEF Wishes, Requests
  <2>3. 2 \in StateIds \ {10, 11}
    BY DEF StateIds
  <2>4. h \in Mediator /\ Fit(h) /\ Kept(h, m)
    BY <1>2, <2>3, SwitchedIs
  <2>5. account' = account /\ calls' \in 0 .. MaxCalls /\ faults' \in 0 .. MaxFaults
    BY <1>1, <1>3, <2>1, CallTyped
  <2> HIDE DEF h, w
  <2>6. CASE WaitFor("login", 5, m, wish)
    BY <1>1, <1>2, <1>3, <1>4, <2>1, <2>5, <2>6, WaitForTyped
  <2>7. CASE WaitFor("login", 5, h, w)
    BY <1>1, <1>4, <2>1, <2>2, <2>4, <2>5, <2>7, WaitForTyped
  <2> QED
    BY <2>1, <2>6, <2>7
<1>6. CASE WaitDelivers
  <2>1. /\ queue # <<>> /\ account' = account /\ calls' = calls
        /\ stage' = stage /\ row' = row
    BY <1>6 DEF WaitDelivers
  <2>2. PICK hashed \in BOOLEAN :
           /\ MayFault(~hashed)
           /\ Take(Completed(m, Head(queue), hashed), Tail(queue), wish)
           /\ observer' = Observe(observer, Completed(m, Head(queue), hashed))
    BY <1>6, Zenon DEF WaitDelivers
  <2>3. TypeOK' /\ Core'
    BY <1>1, <2>1, <2>2, TakeDelivered
  <2>4. observer' \in Observers
    BY <1>1, <2>2, ObserveTyped
  <2> QED
    BY <1>1, <2>1, <2>3, <2>4 DEF TypeInv, FlowTypeOK, Stages, Observers, Rows
<1>7. CASE WaitTimesOut
  <2>1. /\ observer' = [observer EXCEPT !.waiting = FALSE, !.result = "timeout"]
        /\ UNCHANGED vars /\ stage' = stage /\ row' = row
    BY <1>7 DEF WaitTimesOut
  <2>2. observer' \in Observers
    BY <1>1, <2>1 DEF Observers
  <2>3. TypeOK' /\ Core'
    BY <1>1, <2>1 DEF TypeOK, Core, vars
  <2> QED
    BY <1>1, <2>1, <2>2, <2>3 DEF TypeInv, FlowTypeOK, Stages, Observers, Rows
<1>8. CASE LoginEnds
  <2> DEFINE h == Switch(RequestAuthClose(m), 0)
  <2>1. \/ stage' = "menu" /\ UNCHANGED <<vars, observer>>
        \/ WaitFor("close", 1, h, NoWish) /\ UNCHANGED <<account, calls, faults>>
    BY <1>8 DEF LoginEnds
  <2>2. row' = row
    BY <1>8 DEF LoginEnds
  <2>3. h \in Mediator /\ Fit(h) /\ Kept(h, m)
    BY <1>2, GivenUpIs
  <2> HIDE DEF h
  <2>4. CASE stage' = "menu" /\ UNCHANGED <<vars, observer>>
    <3>1. TypeOK' /\ Core'
      BY <1>1, <2>4 DEF TypeOK, Core, vars
    <3> QED
      BY <1>1, <2>2, <2>4, <3>1 DEF TypeInv, FlowTypeOK, Stages, Observers, Rows
  <2>5. CASE WaitFor("close", 1, h, NoWish) /\ UNCHANGED <<account, calls, faults>>
    BY <1>1, <1>3, <1>4, <2>2, <2>3, <2>5, WaitForTyped
  <2> QED
    BY <2>1, <2>4, <2>5
<1>9. CASE CloseEnds \/ NoRows \/ \E r \in SelectionRows : SelectRow(r)
  <2>1. /\ UNCHANGED vars /\ observer' = observer /\ row' = row
        /\ stage' \in {"prompt", "over", "client"}
    BY <1>9 DEF CloseEnds, NoRows, SelectRow
  <2>2. TypeOK' /\ Core'
    BY <1>1, <2>1 DEF TypeOK, Core, vars
  <2> QED
    BY <1>1, <2>1, <2>2 DEF TypeInv, FlowTypeOK, Stages, Observers, Rows
<1>10. ASSUME NEW r \in ExistingRows, DeleteRow(r)
       PROVE  TypeInv'
  <2> DEFINE i == r.index
  <2>1. i \in Slots
    BY RowIs DEF ExistingRows
  <2> DEFINE w == [what |-> "delete", who |-> m.slots[i + 1]]
             h == Switch([m EXCEPT !.current = i], 7)
  <2>2. MayCall /\ WaitFor("delete", 8, h, w) /\ row' = [index |-> i, name |-> m.slots[i + 1]]
    BY <1>10 DEF DeleteRow
  <2> HIDE DEF i
  <2>3. w \in Wishes
    BY <1>1, <2>1, SlotIs DEF Wishes, Requests
  <2>4. h \in Mediator /\ Fit(h) /\ Kept(h, m)
    BY <1>1, <1>2, <2>1, SlotIs, SelectedIs
  <2>5. row' \in Rows
    BY <1>1, <2>1, <2>2, SlotIs DEF Rows
  <2>6. account' = account /\ calls' \in 0 .. MaxCalls /\ faults' \in 0 .. MaxFaults
    BY <1>1, <1>3, <2>2, CallTyped
  <2> HIDE DEF h, w
  <2> QED
    BY <1>4, <2>2, <2>3, <2>4, <2>5, <2>6, WaitForTyped
<1>11. CASE DeleteEnds
  <2> DEFINE h == IF Succeeded THEN RemoveRow(m, row.index) ELSE m
  <2>1. /\ Take(h, queue, wish) /\ stage' = "menu"
        /\ UNCHANGED <<account, calls, faults, observer, row>>
    BY <1>11 DEF DeleteEnds
  <2>2. row.index \in Nat
    BY <1>1 DEF Rows
  <2>3. h \in Mediator /\ Fit(h) /\ Kept(h, m)
    BY <1>2, <2>2, RemoveRowIs
  <2> HIDE DEF h
  <2>4. TypeOK' /\ Core'
    BY <1>1, <1>2, <1>3, <2>1, <2>3, TakeTyped
  <2> QED
    BY <1>1, <2>1, <2>4 DEF TypeInv, FlowTypeOK, Stages, Observers, Rows
<1> QED
  BY <1>5, <1>6, <1>7, <1>8, <1>9, <1>10, <1>11 DEF Flow

\* Every step keeps types and Core.
LEMMA FlowStepTyped ==
    ASSUME TypeInv, [FlowNext]_allVars
    PROVE  TypeInv'
<1>1. TypeOK /\ Core
  BY DEF TypeInv, FlowTypeOK
<1>2. CASE stage = "client" /\ (Client \/ Deliver) /\ UNCHANGED flowVars
  <2>1. TypeOK' /\ Core'
    BY <1>1, <1>2, ClientKeeps, DeliverKeeps
  <2> QED
    BY <1>2, <2>1 DEF TypeInv, FlowTypeOK, flowVars
<1>3. CASE ((\E l \in Links : Network(l)) \/ CopyExpires) /\ UNCHANGED flowVars
  <2>1. TypeOK' /\ Core'
    BY <1>1, <1>3, NetworkKeeps, CopyExpiresKeeps
  <2> QED
    BY <1>3, <2>1 DEF TypeInv, FlowTypeOK, flowVars
<1>4. CASE UNCHANGED allVars
  BY <1>4 DEF allVars, vars, flowVars, TypeInv, FlowTypeOK, TypeOK, Core
<1> QED
  BY <1>2, <1>3, <1>4, FlowKeeps DEF FlowNext

\* Every variable holds a value of its type.
THEOREM FlowTypes == FlowSpec => []FlowTypeOK
<1>1. FlowInit => TypeInv
  BY FlowInitTyped
<1>2. TypeInv /\ [FlowNext]_allVars => TypeInv'
  BY FlowStepTyped
<1>3. TypeInv => FlowTypeOK
  BY DEF TypeInv
<1> QED
  BY <1>1, <1>2, <1>3, PTL DEF FlowSpec

-----------------------------------------------------------------------------
(* Requests that need a session.                                           *)

\* Requests that need a session, and a connection that has them in one.
Sessional == {"delete", "load", "claim"}
InSession(x) == \A i \in DOMAIN x.asked : x.asked[i].what \in Sessional => x.challenged

\* What a handler that began with the margin connection o keeps: F14 says that
\* o has a session, or o is gone and no other connection is ready yet.
SessionFrom(r, o) ==
    /\ \A l \in Links : InSession(r.link[l])
    /\ r.F14 => o # None
    /\ o # None => r.link[o].kind # "free"
    /\ r.F14 /\ r.margin = o => r.link[o].challenged
    /\ r.F14 /\ r.margin # o => ~Ready(r, r.margin)

\* A connection stays in session with a request more, if that needs none or has
\* one.
LEMMA AskedInSession ==
    ASSUME NEW x \in Link, NEW y \in Link, InSession(y), NEW a \in Request, x.asked = Append(y.asked, a),
           y.challenged => x.challenged, a.what \in Sessional => x.challenged
    PROVE  InSession(x)
<1>1. y.asked \in Seq(Request)
  BY LinkFields
<1>2. \A i \in DOMAIN x.asked :
         \/ i \in DOMAIN y.asked /\ x.asked[i] = y.asked[i]
         \/ x.asked[i] = a
  BY <1>1, AppendElements
<1> QED
  BY <1>2 DEF InSession

\* A request of a state that needs a session is sent in one.
LEMMA EnteredSession ==
    ASSUME NEW r \in Mediator, Fit(r), r.goto # None, NEW o \in Links \cup {None}, SessionFrom(r, o)
    PROVE  SessionFrom(Entered(r), o)
<1> DEFINE s == Entered(r)
           e == Arrived(r)
<1>1. /\ s \in Mediator /\ e \in Mediator /\ EntersState(s, e, r.state) /\ Kept(s, r)
      /\ s.F14 = r.F14 /\ e.F14 = r.F14 /\ e.margin = r.margin /\ e.link = r.link /\ e.state = r.goto
  <2>1. s \in Mediator /\ e \in Mediator /\ EntersState(s, e, r.state) /\ Kept(s, r)
    BY EnteredIs, ArrivedIs, EnteredFit
  <2>2. s.F14 = r.F14
    BY EnteredSteady DEF SameBut, FieldNames, Steady
  <2>3. e.F14 = r.F14 /\ e.margin = r.margin /\ e.link = r.link /\ e.state = r.goto
    BY ArrivedIs DEF SameBut, FieldNames
  <2> QED
    BY <2>1, <2>2, <2>3
<1>2. \A k \in Links : LinkMoves(s, e, k)
  BY EnteredLinks
<1>3. s.margin # r.margin =>
         r.goto = 4 /\ s.margin \in Links /\ r.link[s.margin].kind = "free" /\ s.link[s.margin].kind = "margin"
  BY EnteredPointers
<1>4. RequestOf(e) \in Request => (RequestOf(e).what \in Sessional => e.state \in {7, 8, 10} \/ e.state \notin {2, 5, 6, 7, 8, 9, 10, 11})
  BY DEF RequestOf, Sessional
<1>5. s.margin \in Links \cup {None} /\ e.margin \in Links \cup {None}
  BY <1>1, FieldsTyped
<1> HIDE DEF s, e
<1>6. ASSUME NEW k \in Links
      PROVE  /\ InSession(s.link[k])
             /\ e.link[k].kind # "free" => (e.link[k].challenged => s.link[k].challenged)
             /\ s.link[k].st = "UdpMonitorActive" => e.link[k].st = "UdpMonitorActive"
             /\ s.link[k].kind # e.link[k].kind => s.link[k].st # "UdpMonitorActive"
  <2>1. s.link[k] \in Link /\ e.link[k] \in Link /\ InSession(e.link[k])
    BY <1>1, FieldsTyped DEF SessionFrom
  <2>2. CASE SameLink(s.link[k], e.link[k], {})
    BY <2>1, <2>2 DEF SameLink, LinkFieldNames, InSession
  <2>3. CASE /\ SameLink(s.link[k], e.link[k], {"st"})
             /\ s.link[k].st = "Closing"
    BY <2>1, <2>3 DEF SameLink, LinkFieldNames, InSession
  <2>4. CASE /\ e.link[k].kind = "free"
             /\ \E kind \in {"auth", "margin"}, st \in {"ConnectActive", "Closed"} :
                   s.link[k] = [FreeLink EXCEPT !.kind = kind, !.st = st]
    <3>1. PICK kind \in {"auth", "margin"}, st \in {"ConnectActive", "Closed"} :
             s.link[k] = [FreeLink EXCEPT !.kind = kind, !.st = st]
      BY <2>4
    <3>2. s.link[k].asked = <<>> /\ s.link[k].st = st
      BY <3>1 DEF FreeLink
    <3>3. InSession(s.link[k])
      BY <3>2 DEF InSession
    <3> QED
      BY <2>4, <3>2, <3>3
  <2>5. CASE /\ e.state \in {2, 5, 6, 7, 8, 9, 10, 11} /\ k = ConnectionOf(e)
             /\ e.state \in {7, 8, 10} => e.F14
             /\ e.link[k].st = "UdpMonitorActive"
             /\ SameLink(s.link[k], e.link[k], {"asked"})
             /\ s.link[k].asked = Append(e.link[k].asked, RequestOf(e))
    <3>1. /\ s.link[k].challenged = e.link[k].challenged /\ s.link[k].kind = e.link[k].kind
          /\ s.link[k].st = e.link[k].st
      BY <2>5 DEF SameLink, LinkFieldNames
    <3>2. RequestOf(e) \in Request
      <4> DEFINE q == s.link[k].asked
                 n == Len(e.link[k].asked) + 1
      <4>1. s.link[k].asked \in Seq(Request) /\ e.link[k].asked \in Seq(Request)
        BY <2>1, LinkFields
      <4>2. q \in Seq(Request) /\ n \in 1 .. Len(q) /\ q[n] = RequestOf(e)
        BY <2>5, <4>1
      <4> HIDE DEF q, n
      <4> QED
        BY <4>2
    <3>3. RequestOf(e).what \in Sessional => s.link[k].challenged
      <4>1. SUFFICES ASSUME RequestOf(e).what \in Sessional PROVE s.link[k].challenged
        OBVIOUS
      <4>2. e.state \in {7, 8, 10}
        BY <1>4, <2>5, <3>2, <4>1
      <4>3. k = e.margin /\ e.F14 /\ Ready(e, e.margin) /\ e.margin # None
        <5>1. e.state # 2
          BY <4>2
        <5>2. k = e.margin /\ k # None /\ e.F14
          BY <2>5, <4>2, <5>1, LoginAssumption DEF ConnectionOf
        <5> QED
          BY <2>5, <5>2 DEF Ready, State
      <4>4. r.F14 /\ r.margin = k /\ Ready(r, r.margin)
        BY <1>1, <4>3 DEF Ready, State
      <4>5. r.link[k].challenged
        BY <4>4 DEF SessionFrom
      <4> QED
        BY <1>1, <3>1, <4>5
    <3> QED
      BY <2>1, <2>5, <3>1, <3>2, <3>3, AskedInSession
  <2> QED
    BY <1>2, <2>2, <2>3, <2>4, <2>5 DEF LinkMoves
<1>7. o # None => s.link[o].kind # "free" /\ (e.link[o].challenged => s.link[o].challenged)
  BY <1>1, <1>6 DEF Kept, SessionFrom
<1>8. s.F14 /\ s.margin = o => s.link[o].challenged
  <2>1. SUFFICES ASSUME s.F14, s.margin = o PROVE s.link[o].challenged
    OBVIOUS
  <2>2. r.margin = o
    BY <1>1, <1>3, <2>1 DEF SessionFrom
  <2>3. r.link[o].challenged /\ o # None
    BY <1>1, <2>1, <2>2 DEF SessionFrom
  <2> QED
    BY <1>1, <1>7, <2>3
<1>9. s.F14 /\ s.margin # o => ~Ready(s, s.margin)
  <2>1. SUFFICES ASSUME s.F14, s.margin # o, s.margin # None PROVE s.link[s.margin].st # "UdpMonitorActive"
    BY DEF Ready, State
  <2>2. CASE s.margin = r.margin
    <3>1. e.link[s.margin].st # "UdpMonitorActive"
      BY <1>1, <2>1, <2>2 DEF SessionFrom, Ready, State
    <3> QED
      BY <1>5, <1>6, <2>1, <3>1
  <2>3. CASE s.margin # r.margin
    <3>1. s.margin \in Links /\ s.link[s.margin].kind # e.link[s.margin].kind
      BY <1>1, <1>3, <2>3
    <3> QED
      BY <1>6, <3>1
  <2> QED
    BY <2>2, <2>3
<1> QED
  BY <1>1, <1>6, <1>7, <1>8, <1>9 DEF SessionFrom, s

\* What is posted at the end of a handler does not matter.
LEMMA SettledSession ==
    ASSUME NEW h \in Mediator, Fit(h), NEW o \in Links \cup {None}, SessionFrom(h, o)
    PROVE  SessionFrom(Settled(h), o)
<1>1. ASSUME NEW t \in Mediator, Fit(t), SessionFrom(t, o)
      PROVE  Onward(t) \in Mediator /\ Fit(Onward(t)) /\ SessionFrom(Onward(t), o)
  <2>1. CASE t.goto = None
    BY <1>1, <2>1 DEF Onward
  <2>2. CASE t.goto # None
    BY <1>1, <2>2, EnteredIs, EnteredFit, EnteredSession DEF Onward
  <2> QED
    BY <2>1, <2>2
<1> DEFINE a == Onward(h)
           b == Onward(a)
           c == Onward(b)
           d == Onward(c)
           e == Onward(d)
<1>2. a \in Mediator /\ Fit(a) /\ SessionFrom(a, o)
  BY <1>1
<1> HIDE DEF a
<1>3. b \in Mediator /\ Fit(b) /\ SessionFrom(b, o)
  BY <1>1, <1>2
<1> HIDE DEF b
<1>4. c \in Mediator /\ Fit(c) /\ SessionFrom(c, o)
  BY <1>1, <1>3
<1> HIDE DEF c
<1>5. d \in Mediator /\ Fit(d) /\ SessionFrom(d, o)
  BY <1>1, <1>4
<1> HIDE DEF d
<1>6. SessionFrom(e, o)
  BY <1>1, <1>5
<1>7. Rested(h) = e
  BY DEF Rested, a, b, c, d
<1> HIDE DEF e
<1>8. SessionFrom(Rested(h), o)
  BY <1>6, <1>7
<1>9. \A k \in FieldNames \ {"posted", "after"} : Settled(h)[k] = Rested(h)[k]
  BY SettledFit
<1> DEFINE x == Settled(h)
           y == Rested(h)
<1> HIDE DEF x, y
<1>10. x.link = y.link /\ x.F14 = y.F14 /\ x.margin = y.margin
  BY <1>9 DEF FieldNames, x, y
<1> QED
  BY <1>8, <1>10 DEF SessionFrom, Ready, State, x, y

\* A handler does as much to a connection.
Served(x, y) ==
    \/ /\ y.challenged => x.challenged
       /\ x.asked = y.asked \/ x.asked = Append(y.asked, [what |-> "answer", who |-> None])
    \/ y.kind = "free" /\ x.asked = <<>>

\* A handler that answers at most and opens no ready connection keeps the session.
LEMMA ServedSession ==
    ASSUME NEW s \in Mediator, NEW r \in Mediator, Fit(r), Kept(s, r), SessionFrom(r, r.margin),
           \A k \in Links : Served(s.link[k], r.link[k]),
           s.F14 => r.F14 \/ (s.margin = r.margin /\ r.margin # None /\ s.link[r.margin].challenged),
           s.margin = r.margin \/ ~Ready(s, s.margin)
    PROVE  SessionFrom(s, r.margin)
<1>1. r.margin \in Links \cup {None} /\ r.link \in [Links -> Link] /\ s.link \in [Links -> Link]
  BY FieldsTyped
<1>2. r.margin # None => r.link[r.margin].kind = "margin" /\ s.link[r.margin].kind = "margin"
  BY <1>1 DEF Fit, LinkFit, Kept
<1>3. ASSUME NEW k \in Links
      PROVE  InSession(s.link[k])
  <2>1. s.link[k] \in Link /\ r.link[k] \in Link /\ InSession(r.link[k]) /\ Served(s.link[k], r.link[k])
    BY <1>1 DEF SessionFrom
  <2>2. CASE s.link[k].asked = r.link[k].asked /\ (r.link[k].challenged => s.link[k].challenged)
    BY <2>1, <2>2 DEF InSession
  <2>3. CASE /\ s.link[k].asked = Append(r.link[k].asked, [what |-> "answer", who |-> None])
             /\ (r.link[k].challenged => s.link[k].challenged)
    <3> DEFINE a == [what |-> "answer", who |-> None]
    <3>1. a \in Request /\ a.what \notin Sessional
      BY DEF Request, Requested, Sessional
    <3>2. s.link[k].asked = Append(r.link[k].asked, a)
      BY <2>3
    <3> HIDE DEF a
    <3> QED
      BY <2>1, <2>3, <3>1, <3>2, AskedInSession
  <2>4. CASE s.link[k].asked = <<>>
    BY <2>4 DEF InSession
  <2> QED
    BY <2>1, <2>2, <2>3, <2>4 DEF Served
<1>4. s.F14 => r.margin # None
  BY DEF SessionFrom
<1>5. s.F14 /\ s.margin = r.margin => s.link[r.margin].challenged
  <2>1. SUFFICES ASSUME s.F14, r.F14 PROVE s.link[r.margin].challenged
    OBVIOUS
  <2>2. r.link[r.margin].challenged /\ r.margin \in Links
    BY <1>1, <1>4, <2>1 DEF SessionFrom
  <2>3. Served(s.link[r.margin], r.link[r.margin]) /\ r.link[r.margin].kind = "margin"
    BY <1>2, <1>4, <2>1, <2>2
  <2> QED
    BY <2>2, <2>3 DEF Served
<1> QED
  BY <1>2, <1>3, <1>4, <1>5 DEF SessionFrom

\* A connection whose requests and challenge stay is served so.
LEMMA SameServed ==
    ASSUME NEW x, NEW y, SameLink(x, y, {"st", "ok4", "reported"})
    PROVE  Served(x, y)
  BY DEF SameLink, LinkFieldNames, Served

\* So is a new one.
LEMMA NewServed ==
    ASSUME NEW x, NEW y, y.kind = "free",
           \E kind \in {"auth", "margin"}, st \in {"ConnectActive", "Closed"} :
               x = [FreeLink EXCEPT !.kind = kind, !.st = st]
    PROVE  Served(x, y)
<1>1. PICK kind \in {"auth", "margin"}, st \in {"ConnectActive", "Closed"} :
         x = [FreeLink EXCEPT !.kind = kind, !.st = st]
  OBVIOUS
<1>2. x.asked = <<>>
  BY <1>1 DEF FreeLink
<1> QED
  BY <1>2 DEF Served

\* A handler that changes no connection keeps the session.
LEMMA QuietSession ==
    ASSUME NEW s \in Mediator, NEW r \in Mediator, Fit(r), Kept(s, r), SessionFrom(r, r.margin),
           NEW F, NEW t, NEW E, Moves(s, r, F, t, E), F \cap {"link", "F14", "margin"} = {}
    PROVE  SessionFrom(s, r.margin)
<1>1. s.link = r.link /\ s.F14 = r.F14 /\ s.margin = r.margin
  BY DEF Moves, SameBut, FieldNames
<1>2. \A k \in Links : Served(s.link[k], r.link[k])
  BY <1>1 DEF Served
<1> QED
  BY <1>1, <1>2, ServedSession

\* A close on purpose takes the session's flag along.
LEMMA ClosingSession ==
    ASSUME NEW s \in Mediator, NEW r \in Mediator, Fit(r), Kept(s, r), SessionFrom(r, r.margin),
           MarginClosing(s, r), s.margin = r.margin
    PROVE  SessionFrom(s, r.margin)
<1>1. \A k \in Links : Served(s.link[k], r.link[k])
  BY DEF MarginClosing, SameLink, LinkFieldNames, Served
<1> QED
  BY <1>1, ServedSession DEF MarginClosing

\* No connection is not ready.
LEMMA NotReadyNone ==
    ASSUME NEW s, s.margin = None
    PROVE  ~Ready(s, s.margin)
  BY DEF Ready, State

\* What comes of the authentication connection keeps the session.
LEMMA AuthSession ==
    ASSUME NEW s \in Mediator, NEW r \in Mediator, Fit(r), Kept(s, r), SessionFrom(r, r.margin),
           NEW q, AuthLost(s, r) \/ AuthResult(s, r) \/ AuthReply(s, r, q)
    PROVE  SessionFrom(s, r.margin)
<1>1. CASE AuthLost(s, r)
  BY <1>1, QuietSession DEF AuthLost
<1>2. CASE AuthReply(s, r, q)
  <2>1. CASE s = r
    BY <2>1
  <2>2. CASE Moves(s, r, {"flag2c", "gate", "current", "slots", "fresh"},
                   IF r.up[2] \in {0, None} THEN 3 ELSE r.up[2], {Event(5), Event(6)})
    BY <2>2, QuietSession
  <2>3. CASE Moves(s, r, {"flag2c"}, 0, Errors)
    BY <2>3, QuietSession
  <2> QED
    BY <1>2, <2>1, <2>2, <2>3 DEF AuthReply
<1>3. CASE AuthResult(s, r)
  <2>1. CASE s = r
    BY <2>1
  <2>2. CASE Moves(s, r, {}, r.up[1], {Event(0)}) \/ Moves(s, r, {"flag2c", "attempts"}, 0, Errors)
    BY <2>2, QuietSession
  <2>3. CASE /\ SameBut(s, r, {"auth", "link", "full", "flag2c", "authList", "attempts"})
             /\ Opened(s, r, "auth", {"ConnectActive"})
    <3>1. s.F14 = r.F14 /\ s.margin = r.margin
      BY <2>3 DEF SameBut, FieldNames
    <3>2. ASSUME NEW k \in Links PROVE Served(s.link[k], r.link[k])
      <4>1. CASE SameLink(s.link[k], r.link[k], {"st"})
        BY <4>1 DEF SameLink, LinkFieldNames, Served
      <4>2. CASE r.link[k].kind = "free" /\ s.link[k] = [FreeLink EXCEPT !.kind = "auth", !.st = "ConnectActive"]
        BY <4>2, NewServed
      <4> QED
        BY <2>3, <4>1, <4>2 DEF Opened
    <3> QED
      BY <3>1, <3>2, ServedSession
  <2> QED
    BY <1>3, <2>1, <2>2, <2>3 DEF AuthResult
<1> QED
  BY <1>1, <1>2, <1>3

\* A margin connection that is opened is not ready, so the flag says nothing of it
\* yet.
LEMMA OpenedSession ==
    ASSUME NEW s \in Mediator, NEW r \in Mediator, Fit(r), Kept(s, r), SessionFrom(r, r.margin),
           MarginOpened(s, r)
    PROVE  SessionFrom(s, r.margin)
<1>1. s.F14 = r.F14
  BY DEF MarginOpened, MarginFields, SameBut, FieldNames
<1>2. \A k \in Links : Served(s.link[k], r.link[k])
  <2>1. ASSUME NEW k \in Links PROVE Served(s.link[k], r.link[k])
    <3>1. CASE s.link[k] = r.link[k]
      BY <3>1 DEF Served
    <3>2. CASE /\ r.link[k].kind = "free"
               /\ \E kind \in {"auth", "margin"}, st \in {"ConnectActive", "Closed"} :
                     s.link[k] = [FreeLink EXCEPT !.kind = kind, !.st = st]
      BY <3>2, NewServed
    <3>3. ASSUME NEW st \in {"ConnectActive", "Closed"}, s.link[k] = [FreeLink EXCEPT !.kind = "margin", !.st = st]
          PROVE  \E kind \in {"auth", "margin"}, t \in {"ConnectActive", "Closed"} :
                     s.link[k] = [FreeLink EXCEPT !.kind = kind, !.st = t]
      BY <3>3
    <3> QED
      BY <3>1, <3>2, <3>3 DEF MarginOpened
  <2> QED
    BY <2>1
<1>3. s.margin = r.margin \/ ~Ready(s, s.margin)
  <2>1. SUFFICES ASSUME s.margin # r.margin PROVE ~Ready(s, s.margin)
    OBVIOUS
  <2>2. Opened(s, r, "margin", {"ConnectActive", "Closed"})
    BY <2>1 DEF MarginOpened
  <2>3. s["margin"] = s.margin /\ r["margin"] = r.margin
    OBVIOUS
  <2>4. PICK st \in {"ConnectActive", "Closed"} :
           s.margin \in Links /\ s.link[s.margin] = [FreeLink EXCEPT !.kind = "margin", !.st = st]
    BY <2>1, <2>2, <2>3 DEF Opened
  <2>5. s.link[s.margin].st = st
    BY <2>4 DEF FreeLink
  <2> QED
    BY <2>4, <2>5, LoginAssumption DEF Ready, State
<1> QED
  BY <1>1, <1>2, <1>3, ServedSession

\* A lost margin connection leaves the flag, but no ready connection.
LEMMA MarginSession ==
    ASSUME NEW s \in Mediator, NEW r \in Mediator, Fit(r), Kept(s, r), SessionFrom(r, r.margin),
           r.margin \in Links, MarginLost(s, r) \/ MarginResult(s, r)
    PROVE  SessionFrom(s, r.margin)
<1>1. CASE MarginLost(s, r)
  <2>1. s.link = r.link /\ s.F14 = r.F14 /\ s.margin = None
    BY <1>1 DEF MarginLost, Moves, SameBut, FieldNames
  <2>2. \A k \in Links : Served(s.link[k], r.link[k])
    BY <2>1 DEF Served
  <2> QED
    BY <2>1, <2>2, NotReadyNone, ServedSession
<1>2. CASE MarginResult(s, r)
  <2>1. CASE s = r
    BY <2>1
  <2>2. CASE \/ Moves(s, r, {"up"}, Phase(r.up[4]), {Event(14)})
             \/ Moves(s, r, {"up", "flag2d", "begins"}, 3, Errors)
             \/ Moves(s, r, {"flag2d"}, r.goto, Errors)
    BY <2>2, QuietSession
  <2>3. CASE MarginOpened(s, r)
    BY <2>3, OpenedSession
  <2> QED
    BY <1>2, <2>1, <2>2, <2>3 DEF MarginResult
<1> QED
  BY <1>1, <1>2

\* The answer to the copy keeps the session.
LEMMA CopySession ==
    ASSUME NEW s \in Mediator, NEW r \in Mediator, Fit(r), Kept(s, r), SessionFrom(r, r.margin),
           NEW l \in Links, CopyResult(s, r, l)
    PROVE  SessionFrom(s, r.margin)
<1>1. \A k \in Links : Served(s.link[k], r.link[k])
  <2>1. Served(s.link[l], r.link[l])
    BY DEF CopyResult, SameLink, LinkFieldNames, Served
  <2>2. \A k \in Links \ {l} : Served(s.link[k], r.link[k])
    BY DEF CopyResult, Served
  <2> QED
    BY <2>1, <2>2
<1>2. s.F14 = r.F14 /\ s.margin = r.margin
  BY DEF CopyResult, Moves, SameBut, FieldNames
<1> QED
  BY <1>1, <1>2, ServedSession

\* A challenge sets the flag and the mark of its connection together.
LEMMA ChallengeSession ==
    ASSUME NEW s \in Mediator, NEW r \in Mediator, Fit(r), Kept(s, r), SessionFrom(r, r.margin),
           r.margin \in Links, ChallengeResult(s, r)
    PROVE  SessionFrom(s, r.margin)
<1>1. CASE Moves(s, r, {}, 0, Errors)
  BY <1>1, QuietSession
<1>2. CASE /\ SameBut(s, r, {"F14", "link"})
           /\ s.link[r.margin].challenged
           /\ \/ s.link[r.margin].asked = r.link[r.margin].asked
              \/ s.link[r.margin].asked = Append(r.link[r.margin].asked, [what |-> "answer", who |-> None])
           /\ \A k \in Links \ {r.margin} : s.link[k] = r.link[k]
  <2>1. s.margin = r.margin /\ r.margin # None
    BY <1>2, LoginAssumption DEF SameBut, FieldNames
  <2>2. \A k \in Links : Served(s.link[k], r.link[k])
    BY <1>2 DEF Served
  <2> QED
    BY <1>2, <2>1, <2>2, ServedSession
<1> QED
  BY <1>1, <1>2 DEF ChallengeResult

\* So does a good verdict; a bad one closes the connection.
LEMMA VerdictSession ==
    ASSUME NEW s \in Mediator, NEW r \in Mediator, Fit(r), Kept(s, r), SessionFrom(r, r.margin),
           r.margin \in Links, VerdictResult(s, r)
    PROVE  SessionFrom(s, r.margin)
<1>1. CASE Begun(s, r) /\ \E t, E : Moves(s, r, {"begins", "F14", "link"}, t, E)
  <2>1. s.margin = r.margin /\ r.margin # None
    BY <1>1, LoginAssumption DEF Moves, SameBut, FieldNames
  <2>2. \A k \in Links : Served(s.link[k], r.link[k])
    BY <1>1 DEF Begun, Served, SameLink, LinkFieldNames
  <2>3. s.link[r.margin].challenged
    BY <1>1 DEF Begun
  <2> QED
    BY <2>1, <2>2, <2>3, ServedSession
<1>2. CASE /\ Begun(s, r)
           /\ \/ Moves(s, r, {"begins", "F14", "link"}, r.goto, {})
              \/ Moves(s, r, {"begins", "F14", "link"}, r.up[6], {Event(18)})
  BY <1>1, <1>2
<1>3. CASE MarginClosing(s, r) /\ \E t \in {2, 4} : Moves(s, r, {"link", "flag2d", "F14"}, t, {})
  <2>1. s.margin = r.margin
    BY <1>3 DEF Moves, SameBut, FieldNames
  <2> QED
    BY <1>3, <2>1, ClosingSession
<1>4. CASE MarginClosing(s, r) /\ Moves(s, r, {"link", "flag2d", "F14", "begins"}, 3, Errors)
  <2>1. s.margin = r.margin
    BY <1>4 DEF Moves, SameBut, FieldNames
  <2> QED
    BY <1>4, <2>1, ClosingSession
<1> QED
  BY <1>2, <1>3, <1>4 DEF VerdictResult

\* Every message of a margin server keeps the session.
LEMMA ReplySession ==
    ASSUME NEW s \in Mediator, NEW r \in Mediator, Fit(r), Kept(s, r), SessionFrom(r, r.margin),
           r.margin \in Links, MarginReply(s, r)
    PROVE  SessionFrom(s, r.margin)
<1>1. CASE s = r
  BY <1>1
<1>2. CASE ChallengeResult(s, r)
  BY <1>2, ChallengeSession
<1>3. CASE VerdictResult(s, r)
  BY <1>3, VerdictSession
<1>4. CASE MarginClosing(s, r) /\ \E t, E : Moves(s, r, {"link", "flag2d", "F14"}, t, E)
  <2>1. s.margin = r.margin
    BY <1>4 DEF Moves, SameBut, FieldNames
  <2> QED
    BY <1>4, <2>1, ClosingSession
<1>5. CASE Moves(s, r, {}, 3, Errors) \/ Moves(s, r, {"current", "named"}, 3, Errors)
  BY <1>5, QuietSession
<1>6. CASE SectionResult(s, r, 11) \/ SectionResult(s, r, 22)
  <2>1. PICK t, E : Moves(s, r, {"profile", "seen", "expected"}, t, E)
    BY <1>6 DEF SectionResult
  <2> QED
    BY <2>1, QuietSession
<1>7. CASE ClaimResult(s, r)
  <2>1. CASE Moves(s, r, {"current", "slots"}, 11, {Event(20)})
    BY <2>1, QuietSession
  <2> QED
    BY <1>1, <1>5, <1>7, <2>1 DEF ClaimResult
<1>8. CASE DeletedResult(s, r)
  BY <1>4, <1>8 DEF DeletedResult
<1>9. CASE SubmittedResult(s, r)
  BY <1>4, <1>5, <1>9 DEF SubmittedResult
<1> QED
  BY <1>1, <1>2, <1>3, <1>5, <1>6, <1>7, <1>8, <1>9 DEF MarginReply

\* Every completed operation keeps the session.
LEMMA CompletedSession ==
    ASSUME NEW s \in Mediator, NEW r \in Mediator, r.goto = None, Fit(r), NEW i \in Items,
           CompletedResult(s, r, i), SessionFrom(r, r.margin)
    PROVE  SessionFrom(s, r.margin)
<1>1. Kept(s, r) /\ i.link \in Links
  BY CompletedFit DEF Items
<1>2. CASE s = r
  BY <1>2
<1>3. CASE AuthLost(s, r) \/ AuthResult(s, r) \/ AuthReply(s, r, i.msg.characters)
  BY <1>1, <1>3, AuthSession
<1>4. CASE i.link = r.margin /\ (MarginLost(s, r) \/ MarginResult(s, r) \/ MarginReply(s, r))
  BY <1>1, <1>4, MarginSession, ReplySession
<1>5. CASE CopyResult(s, r, i.link)
  BY <1>1, <1>5, CopySession
<1>6. CASE Moves(s, r, {"unread"}, r.goto, {})
  BY <1>1, <1>6, QuietSession
<1>7. CASE HardClosed(s, r, i.link)
  <2>1. s.F14 = r.F14 /\ s.margin = r.margin
    BY <1>7 DEF HardClosed, Moves, SameBut, FieldNames
  <2>2. \A k \in Links : Served(s.link[k], r.link[k])
    BY <1>7 DEF HardClosed, SameLink, LinkFieldNames, Served
  <2> QED
    BY <1>1, <2>1, <2>2, ServedSession
<1> QED
  BY <1>2, <1>3, <1>4, <1>5, <1>6, <1>7 DEF CompletedResult

-----------------------------------------------------------------------------
(* The kinds of step: calls of the client, completed operations, the       *)
(* network.                                                                *)

\* What a call of the client makes of the mediator, and the request it leaves.
Called(h, w) ==
    \/ h = m /\ w = wish
    \/ /\ m.ready /\ m.state \notin 1 .. 4 \cup 6 .. 12
       /\ wish = NoWish \/ wish.what = "login"
       /\ w = [what |-> "login", who |-> None]
       /\ Moves(h, m, {}, 2, {})
    \/ \E i \in Slots, t \in {7, 8} :
          /\ m.ready /\ m.state > 2
          /\ wish = NoWish \/ wish.what = "login" \/ (t = 7 /\ wish.what = "delete")
          /\ w = [what |-> IF t = 7 THEN "delete" ELSE "play", who |-> m.slots[i + 1]]
          /\ Moves(h, m, {"current"}, t, {}) /\ h.current = i
    \/ \E c \in Characters :
          /\ m.ready /\ m.state = 3 /\ c \notin ToSet(m.slots)
          /\ w = [what |-> "create", who |-> c]
          /\ Moves(h, m, {"create", "named"}, 10, {}) /\ h.create = c /\ h.named
    \/ w = wish /\ wish = NoWish /\ RemovedRow(h, m)
    \/ /\ w = NoWish
       /\ Moves(h, m, {"link", "flag2c"}, 0, {})
       /\ LinksClosed(h, m, {m.auth})
    \/ /\ w = wish /\ wish = NoWish
       /\ SameBut(h, m, {"link", "flag2d", "F14"})
       /\ ~h.F14
       /\ LinksClosed(h, m, {m.margin})
    \/ m.state = 12 /\ w = wish /\ Moves(h, m, {}, 13, {})
    \/ w = wish /\ SameBut(h, m, {"callbacks"})
    \/ /\ w = NoWish
       /\ SameBut(h, m, ClearedFields)
       /\ h.auth = None /\ h.margin = None /\ ~h.ready /\ h.slots = <<>> /\ h.current = None
       /\ LinksClosed(h, m, {m.auth, m.margin})

\* A step of the client thread: a call, or the next completed operation.
Handles(h, q, w) ==
    /\ h \in Mediator /\ Fit(h) /\ Kept(h, m)
    /\ Take(h, q, w)
    /\ q \in Seq(Items) /\ QueueFit(m, q)
    /\ \/ w \in Wishes /\ q = queue /\ Called(h, w)
       \/ /\ m.ready /\ queue # <<>> /\ q = Tail(queue) /\ w = wish
          /\ CompletedResult(h, m, Head(queue))

Steps == \/ \E h, q, w : Handles(h, q, w)
         \/ \E l \in Links : Network(l)
         \/ CopyExpires
         \/ UNCHANGED vars

\* A call of the client is one of the kinds of step.
LEMMA CalledSteps ==
    ASSUME Core, NEW h \in Mediator, Fit(h), Kept(h, m), NEW w \in Wishes, Take(h, queue, w), Called(h, w)
    PROVE  Steps
<1>1. queue \in Seq(Items) /\ QueueFit(m, queue)
  BY SelfKept
<1>2. Handles(h, queue, w)
  BY <1>1 DEF Handles
<1> QED
  BY <1>2 DEF Steps

\* So is a delivered operation.
LEMMA DeliveredSteps ==
    ASSUME Core, m.ready, queue # <<>>, NEW hashed \in BOOLEAN,
           Take(Completed(m, Head(queue), hashed), Tail(queue), wish)
    PROVE  Steps
<1> DEFINE h == Completed(m, Head(queue), hashed)
<1>1. h \in Mediator /\ Fit(h) /\ Kept(h, m) /\ CompletedResult(h, m, Head(queue))
  BY DeliveredIs
<1>2. Tail(queue) \in Seq(Items) /\ QueueFit(m, Tail(queue))
  BY HeadIs
<1>3. Take(h, Tail(queue), wish)
  OBVIOUS
<1> HIDE DEF h
<1>4. Handles(h, Tail(queue), wish)
  BY <1>1, <1>2, <1>3 DEF Handles
<1> QED
  BY <1>4 DEF Steps

\* Each of the client's calls is one of the kinds of step.
LEMMA ClientSteps ==
    ASSUME TypeOK, Core, Client
    PROVE  Steps
<1>1. m \in Mediator /\ Fit(m)
  BY SelfKept
<1>2. wish \in Wishes /\ NoWish \in Wishes
  BY DEF TypeOK, Wishes, NoWish
<1>3. CASE ProcessLoginRequest
  <2> DEFINE w == [what |-> "login", who |-> None]
             h == Switch(m, 2)
  <2>1. Take(h, queue, w) /\ m.state \notin 1 .. 4 \cup 6 .. 12 /\ m.ready /\ wish = NoWish
    BY <1>3 DEF ProcessLoginRequest, MayRequest, MayCall
  <2>2. w \in Wishes
    BY DEF Wishes, Requests
  <2>3. 2 \in StateIds \ {10, 11}
    BY DEF StateIds
  <2>4. h \in Mediator /\ Moves(h, m, {}, 2, {}) /\ Fit(h) /\ Kept(h, m)
    BY <1>1, <2>3, SwitchedIs
  <2> HIDE DEF h
  <2>5. Called(h, w)
    BY <2>1, <2>4 DEF Called
  <2> HIDE DEF w
  <2> QED
    BY <2>1, <2>2, <2>4, <2>5, CalledSteps
<1>4. ASSUME NEW i \in Slots, NEW t \in {7, 8}, MayRequest, m.state > 2,
             Take(Switch([m EXCEPT !.current = i], t), queue,
                  [what |-> IF t = 7 THEN "delete" ELSE "play", who |-> m.slots[i + 1]])
      PROVE  Steps
  <2> DEFINE w == [what |-> IF t = 7 THEN "delete" ELSE "play", who |-> m.slots[i + 1]]
             h == Switch([m EXCEPT !.current = i], t)
  <2>1. Take(h, queue, w)
    BY <1>4
  <2>2. w \in Wishes
    BY SlotIs DEF Wishes, Requests
  <2>3. h \in Mediator /\ Moves(h, m, {"current"}, t, {}) /\ h.current = i /\ Fit(h) /\ Kept(h, m)
    BY <1>1, SlotIs, SelectedIs
  <2> HIDE DEF h
  <2>4. Called(h, w)
    BY <1>4, <2>3 DEF Called, MayRequest, MayCall
  <2> HIDE DEF w
  <2> QED
    BY <2>1, <2>2, <2>3, <2>4, CalledSteps
<1>5. ASSUME NEW i \in Slots, PersistSelectionContextForState8(i)
      PROVE  Steps
  <2>1. /\ MayRequest /\ m.state > 2
        /\ Take(Switch([m EXCEPT !.current = i], 8), queue, [what |-> "play", who |-> m.slots[i + 1]])
    BY <1>5 DEF PersistSelectionContextForState8
  <2>2. "play" = IF 8 = 7 THEN "delete" ELSE "play"
    OBVIOUS
  <2> QED
    BY <1>4, <2>1, <2>2
<1>6. ASSUME NEW i \in Slots, SetSelectionIndexAndSwitchToState7(i)
      PROVE  Steps
  <2>1. /\ MayRequest /\ m.state > 2
        /\ Take(Switch([m EXCEPT !.current = i], 7), queue, [what |-> "delete", who |-> m.slots[i + 1]])
    BY <1>6 DEF SetSelectionIndexAndSwitchToState7
  <2>2. "delete" = IF 7 = 7 THEN "delete" ELSE "play"
    OBVIOUS
  <2> QED
    BY <1>4, <2>1, <2>2
<1>7. ASSUME NEW c \in Characters, ProcessCreateCharacterInput120(c)
      PROVE  Steps
  <2> DEFINE w == [what |-> "create", who |-> c]
             h == Switch([m EXCEPT !.create = c, !.named = TRUE], 10)
  <2>1. Take(h, queue, w) /\ m.ready /\ m.state = 3 /\ c \notin ToSet(m.slots)
    BY <1>7 DEF ProcessCreateCharacterInput120, MayRequest, MayCall
  <2>2. w \in Wishes
    BY DEF Wishes, Requests
  <2>3. /\ h \in Mediator /\ Moves(h, m, {"create", "named"}, 10, {}) /\ h.create = c /\ h.named
        /\ Fit(h) /\ Kept(h, m)
    BY <1>1, CreatingIs
  <2> HIDE DEF h
  <2>4. Called(h, w)
    BY <2>1, <2>3 DEF Called
  <2> HIDE DEF w
  <2> QED
    BY <2>1, <2>2, <2>3, <2>4, CalledSteps
<1>8. ASSUME NEW i \in Slots, RemoveSlotRecord(i)
      PROVE  Steps
  <2> DEFINE h == [m EXCEPT !.slots = RemoveAt(@, i + 1)]
  <2>1. Take(h, queue, wish) /\ wish = NoWish
    BY <1>8 DEF RemoveSlotRecord
  <2>2. i + 1 \in 1 .. Len(m.slots)
    BY SlotIs
  <2>3. h \in Mediator /\ SameBut(h, m, {"slots"}) /\ h.slots = RemoveAt(m.slots, i + 1) /\ Fit(h) /\ Kept(h, m)
    BY <1>1, <2>2, RemovedIs
  <2> HIDE DEF h
  <2>4. Called(h, wish)
    BY <2>1, <2>2, <2>3 DEF Called, RemovedRow
  <2> QED
    BY <1>2, <2>1, <2>3, <2>4, CalledSteps
<1>9. CASE RequestAuthCloseAndSwitchToState0
  <2> DEFINE h == Switch(RequestAuthClose(m), 0)
  <2>1. Take(h, queue, NoWish)
    BY <1>9 DEF RequestAuthCloseAndSwitchToState0
  <2>2. /\ h \in Mediator /\ Fit(h) /\ Kept(h, m)
        /\ Moves(h, m, {"link", "flag2c"}, 0, {}) /\ LinksClosed(h, m, {m.auth})
    BY <1>1, GivenUpIs
  <2> HIDE DEF h
  <2>3. Called(h, NoWish)
    BY <2>1, <2>2 DEF Called
  <2> QED
    BY <1>2, <2>1, <2>2, <2>3, CalledSteps
<1>10. CASE RequestMarginConnectionCloseWaitEvent0f
  <2> DEFINE h == RequestMarginClose(m)
  <2>1. Take(h, queue, wish) /\ m.margin # None /\ wish = NoWish
    BY <1>10 DEF RequestMarginConnectionCloseWaitEvent0f
  <2>2. /\ h \in Mediator /\ Fit(h) /\ Kept(h, m)
        /\ SameBut(h, m, {"link", "flag2d", "F14"}) /\ ~h.F14 /\ LinksClosed(h, m, {m.margin})
    BY <1>1, <2>1, MarginCloseIs
  <2> HIDE DEF h
  <2>3. Called(h, wish)
    BY <2>1, <2>2 DEF Called
  <2> QED
    BY <1>2, <2>1, <2>2, <2>3, CalledSteps
<1>11. CASE SetState9OptionalField90AndSwitchToState13
  <2> DEFINE h == Switch(m, 13)
  <2>1. Take(h, queue, wish) /\ m.state = 12
    BY <1>11 DEF SetState9OptionalField90AndSwitchToState13
  <2>2. 13 \in StateIds \ {10, 11}
    BY DEF StateIds
  <2>3. h \in Mediator /\ Moves(h, m, {}, 13, {}) /\ Fit(h) /\ Kept(h, m)
    BY <1>1, <2>2, SwitchedIs
  <2> HIDE DEF h
  <2>4. Called(h, wish)
    BY <2>1, <2>3 DEF Called
  <2> QED
    BY <1>2, <2>1, <2>3, <2>4, CalledSteps
<1>12. CASE SetState9CallbackObjectTriple
  <2>1. PICK c \in {"join", "fail"} : Take([m EXCEPT !.callbacks = c], queue, wish)
    BY <1>12 DEF SetState9CallbackObjectTriple
  <2> DEFINE h == [m EXCEPT !.callbacks = c]
  <2>2. h \in Mediator /\ SameBut(h, m, {"callbacks"}) /\ Fit(h) /\ Kept(h, m)
    BY <1>1, CallbacksIs
  <2>3. Take(h, queue, wish)
    BY <2>1
  <2> HIDE DEF h
  <2>4. Called(h, wish)
    BY <2>2 DEF Called
  <2> QED
    BY <1>2, <2>2, <2>3, <2>4, CalledSteps
<1>13. CASE ClearEngine
  <2> DEFINE h == Cleared(m)
  <2>1. Take(h, queue, NoWish)
    BY <1>13 DEF ClearEngine, Cleared
  <2>2. /\ h \in Mediator /\ Fit(h) /\ Kept(h, m)
        /\ SameBut(h, m, ClearedFields)
        /\ h.auth = None /\ h.margin = None /\ ~h.ready /\ h.slots = <<>> /\ h.current = None
        /\ LinksClosed(h, m, {m.auth, m.margin})
    BY <1>1, ClearedIs
  <2> HIDE DEF h
  <2>3. Called(h, NoWish)
    BY <2>2 DEF Called
  <2> QED
    BY <1>2, <2>1, <2>2, <2>3, CalledSteps
<1> QED
  BY <1>3, <1>5, <1>6, <1>7, <1>8, <1>9, <1>10, <1>11, <1>12, <1>13 DEF Client

\* What the client may be waiting for in each stage of the flow, and that the
\* answer to a delete ends the wait.
WishFit ==
    /\ stage \in {"prompt", "login", "close"} => wish = NoWish \/ wish.what = "login"
    /\ stage \in {"menu", "over"} => wish = NoWish \/ wish.what \in {"login", "delete"}
    /\ stage = "delete" =>
          /\ observer.expected = 8
          /\ wish = NoWish \/ wish.what = "delete"
          /\ ~observer.waiting /\ observer.result # "timeout" => wish = NoWish

\* The wait ends at an error or at the event that it is for.
LEMMA ObserveEnds ==
    ASSUME NEW o \in Observers, NEW r
    PROVE  \/ Observe(o, r) = o
           \/ \E i \in DOMAIN Settled(r).posted :
                 \/ Settled(r).posted[i].kind = "error"
                 \/ Settled(r).posted[i] = [kind |-> "event", id |-> o.expected]
<1> DEFINE p == Settled(r).posted
           errors == {i \in DOMAIN p : p[i].kind = "error"}
           ends == errors \cup {i \in DOMAIN p : p[i] = [kind |-> "event", id |-> o.expected]}
           result == IF Max(ends) \in errors THEN "failed" ELSE "ok"
           some == p[Max(errors)].id # 0
           s == [o EXCEPT !.waiting = FALSE, !.result = result,
                          !.error = IF errors = {} THEN @ ELSE some]
<1>1. Observe(o, r) = IF ends = {} THEN o ELSE s
  BY Zenon DEF Observe
<1> HIDE DEF s
<1>2. ends # {} => \E i \in DOMAIN p : p[i].kind = "error" \/ p[i] = [kind |-> "event", id |-> o.expected]
  OBVIOUS
<1> QED
  BY <1>1, <1>2

\* The answer to a delete, seen by the observer, is one the client takes.
LEMMA DeleteAnswered ==
    ASSUME NEW o \in Observers, o.expected = 8, NEW r, NEW w, w.what = "delete"
    PROVE  Observe(o, r) = o \/ Answers(Settled(r), w)
<1>1. SUFFICES ASSUME NEW i \in DOMAIN Settled(r).posted,
                      \/ Settled(r).posted[i].kind = "error"
                      \/ Settled(r).posted[i] = [kind |-> "event", id |-> 8]
               PROVE  Answers(Settled(r), w)
  BY ObserveEnds
<1>2. CASE Settled(r).posted[i].kind = "error"
  BY <1>2 DEF Answers
<1>3. CASE Settled(r).posted[i] = [kind |-> "event", id |-> 8]
  <2>1. [kind |-> "event", id |-> 8] \in ToSet(Settled(r).posted)
    BY <1>3 DEF ToSet
  <2> QED
    BY <2>1 DEF Answers, Posted
<1> QED
  BY <1>1, <1>2, <1>3

\* Every step keeps the flow's requests fitting its stage.
LEMMA WishFitKept ==
    ASSUME TypeInv, WishFit, [FlowNext]_allVars
    PROVE  WishFit'
<1>1. stage \in Stages /\ observer \in Observers
  BY DEF TypeInv, FlowTypeOK, Stages, Observers
<1>2. \A h, q, w : Take(h, q, w) => wish' = NoWish \/ wish' = w
  BY DEF Take
<1>3. NoWish.what = "none" /\ Waits = {"login", "close", "delete"}
  BY DEF NoWish, Waits
<1>4. CASE UNCHANGED allVars
  BY <1>4 DEF allVars, vars, flowVars, WishFit
<1>5. CASE stage = "client" /\ UNCHANGED flowVars
  BY <1>5 DEF flowVars, WishFit
<1>6. CASE ((\E l \in Links : Network(l)) \/ CopyExpires) /\ UNCHANGED flowVars
  <2>1. wish' = wish
    BY <1>6 DEF Network, Connected, ConnectFails, Ends, Report, ServerAnswers, CopyExpires
  <2> QED
    BY <1>6, <2>1 DEF flowVars, WishFit
<1>7. CASE SubmitCredentials
  <2>1. /\ stage = "prompt" /\ stage' = "login"
        /\ wish' = wish \/ wish' = NoWish \/ wish' = [what |-> "login", who |-> None]
    BY <1>2, <1>7 DEF SubmitCredentials, WaitFor
  <2> QED
    BY <2>1 DEF WishFit
<1>8. CASE WaitDelivers
  <2>1. PICK hashed \in BOOLEAN :
           /\ Take(Completed(m, Head(queue), hashed), Tail(queue), wish)
           /\ observer' = Observe(observer, Completed(m, Head(queue), hashed))
    BY <1>8, Zenon DEF WaitDelivers
  <2> DEFINE h == Completed(m, Head(queue), hashed)
  <2>2. /\ Take(h, Tail(queue), wish) /\ observer' = Observe(observer, h) /\ stage' = stage
        /\ observer'.expected = observer.expected
    BY <1>1, <1>8, <2>1, ObserveTyped DEF WaitDelivers
  <2> HIDE DEF h
  <2>3. wish' = NoWish \/ wish' = wish
    BY <1>2, <2>2
  <2>4. CASE stage # "delete"
    BY <2>2, <2>3, <2>4 DEF WishFit
  <2>5. CASE stage = "delete"
    <3>1. observer.expected = 8 /\ (wish = NoWish \/ wish.what = "delete")
      BY <2>5 DEF WishFit
    <3>2. observer' = observer \/ wish' = NoWish
      <4>1. CASE wish = NoWish
        BY <2>3, <4>1
      <4>2. CASE wish.what = "delete"
        <5>1. observer' = observer \/ Answers(Settled(h), wish)
          BY <1>1, <2>2, <3>1, <4>2, DeleteAnswered
        <5> QED
          BY <2>2, <5>1 DEF Take
      <4> QED
        BY <3>1, <4>1, <4>2
    <3> QED
      BY <2>2, <2>3, <2>5, <3>1, <3>2 DEF WishFit
  <2> QED
    BY <2>4, <2>5
<1>9. CASE WaitTimesOut
  <2>1. /\ stage' = stage /\ wish' = wish /\ stage \in Waits
        /\ observer' = [observer EXCEPT !.waiting = FALSE, !.result = "timeout"]
    BY <1>9 DEF WaitTimesOut, vars
  <2>2. observer'.expected = observer.expected /\ observer'.result = "timeout"
    BY <1>1, <2>1 DEF Observers
  <2> QED
    BY <2>1, <2>2 DEF WishFit
<1>10. CASE LoginEnds
  <2>1. /\ stage = "login"
        /\ \/ stage' = "menu" /\ wish' = wish
           \/ stage' = "close" /\ wish' = NoWish
    <3> DEFINE h == Switch(RequestAuthClose(m), 0)
    <3>1. /\ stage = "login"
          /\ \/ stage' = "menu" /\ UNCHANGED vars
             \/ stage' = "close" /\ Take(h, queue, NoWish)
      BY <1>10 DEF LoginEnds, WaitEnds, WaitFor
    <3> HIDE DEF h
    <3> QED
      BY <1>2, <3>1 DEF vars
  <2> QED
    BY <2>1 DEF WishFit
<1>11. CASE CloseEnds \/ NoRows \/ \E r \in SelectionRows : SelectRow(r)
  <2>1. /\ wish' = wish
        /\ \/ stage = "close" /\ stage' = "prompt"
           \/ stage = "menu" /\ stage' \in {"over", "client"}
    BY <1>11 DEF CloseEnds, NoRows, SelectRow, WaitEnds, vars
  <2> QED
    BY <2>1 DEF WishFit
<1>12. ASSUME NEW r \in ExistingRows, DeleteRow(r)
       PROVE  WishFit'
  <2> DEFINE h == Switch([m EXCEPT !.current = r.index], 7)
             w == [what |-> "delete", who |-> m.slots[r.index + 1]]
  <2>1. /\ Take(h, queue, w) /\ stage' = "delete" /\ observer' = Observe(Registered(8), h)
        /\ w.what = "delete"
    BY <1>12 DEF DeleteRow, WaitFor
  <2> HIDE DEF h, w
  <2>2. Registered(8) \in Observers /\ Registered(8).expected = 8 /\ Registered(8).waiting
    BY RegisteredTyped DEF Registered
  <2>3. observer'.expected = 8
    BY <2>1, <2>2, ObserveTyped
  <2>4. observer' = Registered(8) \/ wish' = NoWish
    <3>1. Observe(Registered(8), h) = Registered(8) \/ Answers(Settled(h), w)
      BY <2>1, <2>2, DeleteAnswered
    <3> QED
      BY <2>1, <3>1 DEF Take
  <2> QED
    BY <1>2, <2>1, <2>2, <2>3, <2>4 DEF WishFit
<1>13. CASE DeleteEnds
  <2>1. stage = "delete" /\ stage' = "menu" /\ (wish' = wish \/ wish' = NoWish)
    BY <1>2, <1>13 DEF DeleteEnds, WaitEnds
  <2> QED
    BY <2>1 DEF WishFit
<1> QED
  BY <1>4, <1>5, <1>6, <1>7, <1>8, <1>9, <1>10, <1>11, <1>12, <1>13 DEF FlowNext, Flow

\* Each step of the flow is one of the kinds of step.
LEMMA FlowSteps ==
    ASSUME TypeInv, WishFit, Flow
    PROVE  Steps
<1>1. TypeOK /\ Core /\ row \in Rows
  BY DEF TypeInv, FlowTypeOK, Rows
<1>2. m \in Mediator /\ Fit(m) /\ Kept(m, m)
  BY <1>1, SelfKept
<1>3. wish \in Wishes /\ NoWish \in Wishes
  BY <1>1 DEF TypeOK, Wishes, NoWish
<1>4. Called(m, wish)
  BY DEF Called
<1>5. CASE SubmitCredentials
  <2> DEFINE w == [what |-> "login", who |-> None]
             h == Switch(m, 2)
  <2>1. \/ Take(m, queue, wish)
        \/ m.ready /\ m.state \notin 1 .. 4 \cup 6 .. 12 /\ Take(h, queue, w)
    BY <1>5 DEF SubmitCredentials, WaitFor, MayCall
  <2>2. w \in Wishes
    BY DEF Wishes, Requests
  <2>3. 2 \in StateIds \ {10, 11}
    BY DEF StateIds
  <2>4. h \in Mediator /\ Moves(h, m, {}, 2, {}) /\ Fit(h) /\ Kept(h, m)
    BY <1>2, <2>3, SwitchedIs
  <2> HIDE DEF h
  <2>5. m.ready /\ m.state \notin 1 .. 4 \cup 6 .. 12 => Called(h, w)
    <3>1. wish = NoWish \/ wish.what = "login"
      BY <1>5 DEF SubmitCredentials, WishFit
    <3> QED
      BY <2>4, <3>1 DEF Called
  <2> HIDE DEF w
  <2> QED
    BY <1>1, <1>2, <1>3, <1>4, <2>1, <2>2, <2>4, <2>5, CalledSteps
<1>6. CASE WaitDelivers
  <2>1. PICK hashed \in BOOLEAN : Take(Completed(m, Head(queue), hashed), Tail(queue), wish)
    BY <1>6, Zenon DEF WaitDelivers
  <2>2. m.ready /\ queue # <<>>
    BY <1>6 DEF WaitDelivers
  <2> QED
    BY <1>1, <2>1, <2>2, DeliveredSteps
<1>7. CASE LoginEnds
  <2> DEFINE h == Switch(RequestAuthClose(m), 0)
  <2>1. \/ UNCHANGED vars
        \/ Take(h, queue, NoWish)
    BY <1>7 DEF LoginEnds, WaitFor
  <2>2. /\ h \in Mediator /\ Fit(h) /\ Kept(h, m)
        /\ Moves(h, m, {"link", "flag2c"}, 0, {}) /\ LinksClosed(h, m, {m.auth})
    BY <1>2, GivenUpIs
  <2> HIDE DEF h
  <2>3. Called(h, NoWish)
    BY <2>2 DEF Called
  <2> QED
    BY <1>1, <1>3, <2>1, <2>2, <2>3, CalledSteps DEF Steps
<1>8. CASE WaitTimesOut \/ CloseEnds \/ NoRows \/ \E r \in SelectionRows : SelectRow(r)
  BY <1>8 DEF WaitTimesOut, CloseEnds, NoRows, SelectRow, Steps
<1>9. ASSUME NEW r \in ExistingRows, DeleteRow(r)
      PROVE  Steps
  <2> DEFINE i == r.index
  <2>1. i \in Slots
    BY RowIs DEF ExistingRows
  <2> DEFINE w == [what |-> "delete", who |-> m.slots[i + 1]]
             h == Switch([m EXCEPT !.current = i], 7)
  <2>2. Take(h, queue, w) /\ m.ready /\ (wish = NoWish \/ wish.what \in {"login", "delete"})
    BY <1>9 DEF DeleteRow, WaitFor, MayCall, WishFit
  <2>3. m.state > 2
    <3>1. r \in SelectionRows
      BY DEF ExistingRows
    <3> QED
      BY <3>1 DEF SelectionRows, ListedWorlds
  <2> HIDE DEF i
  <2>4. w \in Wishes
    BY <1>1, <2>1, SlotIs DEF Wishes, Requests
  <2>5. /\ h \in Mediator /\ Moves(h, m, {"current"}, 7, {}) /\ h.current = i
        /\ Fit(h) /\ Kept(h, m)
    BY <1>1, <1>2, <2>1, SlotIs, SelectedIs
  <2>6. w = [what |-> IF 7 = 7 THEN "delete" ELSE "play", who |-> m.slots[i + 1]]
    OBVIOUS
  <2> HIDE DEF h, w
  <2>7. Called(h, w)
    BY <2>1, <2>2, <2>3, <2>5, <2>6 DEF Called
  <2> QED
    BY <1>1, <2>2, <2>4, <2>5, <2>7, CalledSteps
<1>10. CASE DeleteEnds
  <2> DEFINE h == IF Succeeded THEN RemoveRow(m, row.index) ELSE m
  <2>1. Take(h, queue, wish)
    BY <1>10 DEF DeleteEnds
  <2>2. row.index \in Nat
    BY <1>1 DEF Rows
  <2>3. h \in Mediator /\ RemovedRow(h, m) /\ Fit(h) /\ Kept(h, m)
    BY <1>2, <2>2, RemoveRowIs DEF RemovedRow
  <2>5. h = m \/ wish = NoWish
    <3>1. Succeeded => observer.result # "timeout"
      BY DEF Succeeded
    <3>2. stage = "delete" /\ ~observer.waiting
      BY <1>10 DEF DeleteEnds, WaitEnds
    <3> QED
      BY <3>1, <3>2 DEF WishFit
  <2> HIDE DEF h
  <2>4. Called(h, wish)
    BY <2>3, <2>5 DEF Called
  <2> QED
    BY <1>1, <1>3, <2>1, <2>3, <2>4, CalledSteps
<1> QED
  BY <1>5, <1>6, <1>7, <1>8, <1>9, <1>10 DEF Flow

\* The steps of the flow, the client and the network, as they concern the mediator.
LEMMA NextSteps ==
    ASSUME TypeInv, WishFit, [FlowNext]_allVars
    PROVE  Steps
<1>1. TypeOK /\ Core
  BY DEF TypeInv, FlowTypeOK
<1>2. CASE Deliver
  <2>1. PICK hashed \in BOOLEAN : Take(Completed(m, Head(queue), hashed), Tail(queue), wish)
    BY <1>2, Zenon DEF Deliver
  <2>2. m.ready /\ queue # <<>>
    BY <1>2 DEF Deliver
  <2> QED
    BY <1>1, <2>1, <2>2, DeliveredSteps
<1>3. CASE UNCHANGED allVars
  BY <1>3 DEF allVars, Steps
<1>4. CASE (\E l \in Links : Network(l)) \/ CopyExpires
  BY <1>4 DEF Steps
<1>5. CASE Client
  BY <1>1, <1>5, ClientSteps
<1> QED
  BY <1>2, <1>3, <1>4, <1>5, FlowSteps DEF FlowNext

-----------------------------------------------------------------------------
(* The session is kept by every kind of step.                              *)

\* A call closes connections at most.
LEMMA CalledLinks ==
    ASSUME NEW h \in Mediator, m \in Mediator, NEW w, Called(h, w)
    PROVE  /\ \A k \in Links : SameLink(h.link[k], m.link[k], {"st"})
           /\ h.F14 => m.F14
           /\ h.margin \in {m.margin, None}
<1>1. CASE h.link = m.link /\ h.F14 = m.F14 /\ h.margin = m.margin
  BY <1>1 DEF SameLink
<1>2. CASE RemovedRow(h, m)
  BY <1>1, <1>2 DEF RemovedRow, SameBut, FieldNames
<1>3. CASE /\ Moves(h, m, {"link", "flag2c"}, 0, {})
           /\ LinksClosed(h, m, {m.auth})
  BY <1>3 DEF Moves, SameBut, FieldNames, LinksClosed
<1>4. CASE /\ SameBut(h, m, {"link", "flag2d", "F14"})
           /\ ~h.F14
           /\ LinksClosed(h, m, {m.margin})
  BY <1>4 DEF SameBut, FieldNames, LinksClosed
<1>5. CASE SameBut(h, m, {"callbacks"})
  BY <1>1, <1>5 DEF SameBut, FieldNames
<1>6. CASE SameBut(h, m, ClearedFields) /\ h.margin = None /\ LinksClosed(h, m, {m.auth, m.margin})
  BY <1>6 DEF SameBut, FieldNames, ClearedFields, LinksClosed
<1>7. CASE h = m
  BY <1>1, <1>7
<1>8. CASE Moves(h, m, {}, 2, {}) \/ Moves(h, m, {}, 13, {})
  BY <1>1, <1>8 DEF Moves, SameBut, FieldNames
<1>9. CASE \E i \in Slots, t \in {7, 8} : Moves(h, m, {"current"}, t, {})
  BY <1>1, <1>9 DEF Moves, SameBut, FieldNames
<1>10. CASE Moves(h, m, {"create", "named"}, 10, {})
  BY <1>1, <1>10 DEF Moves, SameBut, FieldNames
<1> QED
  BY <1>2, <1>3, <1>4, <1>5, <1>6, <1>7, <1>8, <1>9, <1>10 DEF Called

\* A call keeps the session, or drops it with its flag.
LEMMA CalledSession ==
    ASSUME Core, NEW h \in Mediator, Kept(h, m), NEW w, Called(h, w), SessionFrom(m, m.margin)
    PROVE  SessionFrom(h, m.margin)
<1>1. m \in Mediator /\ Fit(m)
  BY SelfKept
<1>2. /\ \A k \in Links : SameLink(h.link[k], m.link[k], {"st"})
      /\ h.F14 => m.F14
      /\ h.margin \in {m.margin, None}
  BY <1>1, CalledLinks
<1>3. \A k \in Links : Served(h.link[k], m.link[k])
  BY <1>2 DEF SameLink, LinkFieldNames, Served
<1>4. h.margin = m.margin \/ ~Ready(h, h.margin)
  BY <1>2, NotReadyNone
<1> QED
  BY <1>1, <1>2, <1>3, <1>4, ServedSession

\* No session of a connection that is gone is taken for that of the next.
SessionInv == "session" \notin left => SessionFrom(m, m.margin)

\* A step made of a handler keeps the session, or notes that one was lost.
LEMMA TakenSession ==
    ASSUME TypeOK, Core, SessionInv, NEW h, NEW q, NEW w, Handles(h, q, w)
    PROVE  SessionInv'
<1> DEFINE r == Settled(h)
           d == m.margin # None /\ r.margin # m.margin /\ r.F14
<1>1. /\ h \in Mediator /\ Fit(h) /\ Kept(h, m)
      /\ ~r.full /\ m' = Tidy(r, q) /\ q \in Seq(Items)
      /\ left \subseteq left' /\ (d => "session" \in left')
  BY DEF Handles, Take
<1>2. SUFFICES ASSUME "session" \notin left' PROVE SessionFrom(m', m'.margin)
  BY DEF SessionInv
<1>3. SessionFrom(m, m.margin) /\ ~d
  BY <1>1, <1>2 DEF SessionInv
<1>4. m \in Mediator /\ Fit(m) /\ m.goto = None /\ m.margin \in Links \cup {None}
  BY SelfKept, FieldsTyped
<1>5. SessionFrom(h, m.margin)
  <2>1. CASE Called(h, w)
    BY <1>1, <1>3, <2>1, CalledSession
  <2>2. CASE queue # <<>> /\ CompletedResult(h, m, Head(queue))
    <3>1. Head(queue) \in Items
      BY <2>2, HeadIs
    <3> QED
      BY <1>1, <1>3, <1>4, <2>2, <3>1, CompletedSession
  <2> QED
    BY <2>1, <2>2 DEF Handles
<1>6. SessionFrom(r, m.margin) /\ r \in Mediator /\ Fit(r)
  BY <1>1, <1>4, <1>5, SettledSession, SettledFit
<1> HIDE DEF r
<1>7. /\ m' \in Mediator /\ SameBut(m', r, {"posted", "link"}) /\ Fit(m')
      /\ \A l \in Links : m'.link[l] = IF Gone(r, q, l) THEN FreeLink ELSE r.link[l]
  BY <1>1, <1>6, TidyIs
<1>8. m'.F14 = r.F14 /\ m'.margin = r.margin /\ r.margin \in Links \cup {None}
  BY <1>6, <1>7, FieldsTyped DEF SameBut, FieldNames
<1>9. r.margin # None => m'.link[r.margin] = r.link[r.margin]
  BY <1>7, <1>8 DEF Gone
<1>10. \A l \in Links : InSession(m'.link[l])
  <2>1. InSession(FreeLink)
    BY DEF InSession, FreeLink
  <2> QED
    BY <1>6, <1>7, <2>1 DEF SessionFrom
<1>11. r.F14 => m.margin # None /\ r.margin = m.margin /\ r.link[m.margin].challenged
  BY <1>3, <1>6 DEF SessionFrom
<1>12. r.margin # None => r.link[r.margin].kind # "free"
  BY <1>6, <1>8 DEF Fit, LinkFit
<1> QED
  BY <1>8, <1>9, <1>10, <1>11, <1>12 DEF SessionFrom

\* A step of the network changes one connection, and neither the wish nor what was
\* left.
LEMMA NetworkLinks ==
    ASSUME Core, NEW l \in Links, Network(l)
    PROVE  /\ SameBut(m', m, {"link"}) /\ left' = left /\ wish' = wish
           /\ \A k \in Links \ {l} : m'.link[k] = m.link[k]
           /\ \/ SameLink(m'.link[l], m.link[l], {"st", "reported"})
              \/ /\ SameLink(m'.link[l], m.link[l], {"asked"})
                 /\ m.link[l].asked # <<>> /\ m'.link[l].asked = Tail(m.link[l].asked)
<1>1. m \in Mediator
  BY SelfKept
<1>2. CASE ServerAnswers(l)
  BY <1>1, <1>2, AnsweredIs DEF ServerAnswers
<1>3. CASE \E st \in Reports : \E items, fault : Report(l, st, items, fault)
  <2>1. PICK st \in Reports : m' = Reported(m, l, st) /\ left' = left /\ wish' = wish
    BY <1>3 DEF Report, Reported
  <2> QED
    BY <1>1, <2>1, ReportedHere
<1>4. "UdpMonitorActive" \in Reports /\ "Closed" \in Reports
  BY DEF Reports
<1>5. Connected(l) => \E st \in Reports : \E items, fault : Report(l, st, items, fault)
  BY <1>4 DEF Connected
<1>6. ConnectFails(l) => \E st \in Reports : \E items, fault : Report(l, st, items, fault)
  BY <1>4 DEF ConnectFails
<1>7. Ends(l) => \E st \in Reports : \E items, fault : Report(l, st, items, fault)
  BY <1>4 DEF Ends
<1> QED
  BY <1>2, <1>3, <1>5, <1>6, <1>7 DEF Network

\* A step of the network keeps the session.
LEMMA NetworkSession ==
    ASSUME TypeOK, Core, SessionInv, NEW l \in Links, Network(l)
    PROVE  SessionInv'
<1>1. SUFFICES ASSUME "session" \notin left PROVE SessionFrom(m', m'.margin)
  BY NetworkLinks DEF SessionInv
<1>2. SessionFrom(m, m.margin) /\ m.margin \in Links \cup {None} /\ m.link[l] \in Link
  BY <1>1, SelfKept, FieldsTyped DEF SessionInv
<1>3. m'.F14 = m.F14 /\ m'.margin = m.margin
  BY NetworkLinks DEF SameBut, FieldNames
<1>4. \A k \in Links : m'.link[k].kind = m.link[k].kind /\ m'.link[k].challenged = m.link[k].challenged
  BY NetworkLinks DEF SameLink, LinkFieldNames
<1>5. ASSUME NEW k \in Links PROVE InSession(m'.link[k])
  <2>1. CASE m'.link[k].asked = m.link[k].asked
    BY <1>2, <1>4, <2>1 DEF SessionFrom, InSession
  <2>2. CASE k = l /\ m.link[l].asked # <<>> /\ m'.link[l].asked = Tail(m.link[l].asked)
    <3>1. m.link[l].asked \in Seq(Request)
      BY <1>2, LinkFields
    <3>2. \A i \in DOMAIN m'.link[l].asked :
             i + 1 \in DOMAIN m.link[l].asked /\ m'.link[l].asked[i] = m.link[l].asked[i + 1]
      BY <2>2, <3>1
    <3> QED
      BY <1>2, <1>4, <2>2, <3>2 DEF SessionFrom, InSession
  <2> QED
    BY <2>1, <2>2, NetworkLinks DEF SameLink, LinkFieldNames
<1> QED
  BY <1>2, <1>3, <1>4, <1>5 DEF SessionFrom

\* The expiry of the reply copy keeps the session.
LEMMA ExpirySession ==
    ASSUME TypeOK, Core, SessionInv, CopyExpires
    PROVE  SessionInv'
<1>1. m' = [m EXCEPT !.fresh = FALSE] /\ left' = left /\ m \in Mediator
  BY SelfKept DEF CopyExpires
<1>2. m'.link = m.link /\ m'.margin = m.margin /\ m'.F14 = m.F14
  BY <1>1 DEF Mediator
<1> QED
  BY <1>1, <1>2 DEF SessionInv, SessionFrom, Ready, State

\* Every step keeps the session, or notes that one was lost.
LEMMA SessionKept ==
    ASSUME TypeInv, WishFit, SessionInv, [FlowNext]_allVars
    PROVE  SessionInv'
<1>1. TypeOK /\ Core
  BY DEF TypeInv, FlowTypeOK
<1>2. CASE UNCHANGED vars
  BY <1>2 DEF vars, SessionInv
<1> QED
  BY <1>1, <1>2, NextSteps, TakenSession, NetworkSession, ExpirySession DEF Steps

\* At first the client waits for nothing.
LEMMA WishFitInit ==
    ASSUME FlowInit
    PROVE  WishFit
  BY DEF FlowInit, Init, WishFit

\* At first there is no session.
LEMMA SessionInit ==
    ASSUME FlowInit
    PROVE  SessionInv
<1>1. m.F14 = FALSE /\ m.margin = None /\ m.link = [l \in Links |-> FreeLink]
  BY DEF FlowInit, Init
<1>2. \A l \in Links : m.link[l].asked = <<>>
  BY <1>1 DEF FreeLink
<1> QED
  BY <1>1, <1>2 DEF SessionInv, SessionFrom, InSession

\* A request that needs a session is only sent in one: for any servers,
\* characters and faults, unless a connection with a session was lost before.
THEOREM RequestsInSession == FlowSpec => []RequestsNeedASession
<1>1. FlowInit => TypeInv /\ WishFit /\ SessionInv
  BY FlowInitTyped, WishFitInit, SessionInit
<1>2. TypeInv /\ WishFit /\ SessionInv /\ [FlowNext]_allVars => TypeInv' /\ WishFit' /\ SessionInv'
  BY FlowStepTyped, WishFitKept, SessionKept
<1>3. SessionInv => RequestsNeedASession
  BY DEF SessionInv, SessionFrom, InSession, Sessional, RequestsNeedASession
<1> QED
  BY <1>1, <1>2, <1>3, PTL DEF FlowSpec

-----------------------------------------------------------------------------
(* What a state is for.  Which state may have which for a sender (Shape),  *)
(* what there is before the first login (Gate), and that the state machine *)
(* serves the request under way (Purposed): for entering one state.        *)

\* The states that wait for no answer, and the one a handler is on its way to.
Idle == {0, 3, 12, 13}
Target(r) == IF r.goto = None THEN r.state ELSE r.goto

\* Which states a state has for a sender, and which one may switch to which.
Shape(r) ==
    /\ r.up[1] \in {None, 2}
    /\ r.up[2] \in {None, 0, 5, 6, 13}
    /\ r.up[4] \in {None, 6, 7, 8, 10}
    /\ r.up[5] \in {None, 6}
    /\ r.up[6] \in {None, 2, 7, 8, 10}
    /\ r.state = 1 => r.up[1] = 2
    /\ r.state \in {1, 2} => r.up[2] # None
    /\ r.state = 5 => r.up[5] = 6
    /\ r.state = 6 => r.up[6] # None
    /\ r.up[5] = 6 \/ r.up[4] = 6 \/ r.up[2] = 6 => r.up[6] # None
    /\ r.up[2] = 5 => r.up[5] = 6
    /\ r.goto = None /\ r.state = 4 => r.up[4] # None
    /\ r.goto = 1 => r.state = 2
    /\ r.goto = 2 => r.state \in {0, 1, 5, 6, 13}
    /\ r.goto = 4 => r.state \in {6, 7, 8, 10}
    /\ r.goto = 5 => r.state = 6 \/ (r.state = 2 /\ r.up[5] = 6)
    /\ r.goto = 6 => r.state \in {2, 7, 8, 10} \/ (r.state \in {4, 5} /\ r.up[6] # None)

\* Before the first login there is nothing but states 0 to 2.
Gate(r) ==
    ~r.gate => /\ r.state \in 0 .. 2
               /\ r.goto \in {None, 0, 1, 2}
               /\ r.up[2] \in {None, 0}
               /\ r.margin = None
               /\ r.slots = <<>>

\* No state has the value that stands for none.
LEMMA NoneApart == None \notin StateIds /\ \A n \in StateIds : None # n
  BY LoginAssumption DEF StateIds

\* The senders after a state is entered, one by one.
LEMMA EnteredUps ==
    ASSUME NEW r \in Mediator, r.goto # None
    PROVE  LET s == Entered(r) IN
           /\ s.up[1] = IF r.goto = 1 THEN r.state ELSE r.up[1]
           /\ s.up[2] = IF r.goto = 2 /\ r.state # 1 THEN r.state ELSE r.up[2]
           /\ s.up[4] = IF r.goto = 4 /\ r.up[4] = None THEN r.state ELSE r.up[4]
           /\ s.up[5] = IF r.goto = 5 /\ ~(r.up[5] # None /\ r.state \in {2, 4}) THEN r.state ELSE r.up[5]
           /\ s.up[6] = IF r.goto = 6 /\ ~(r.up[6] # None /\ r.state \in {4, 5}) THEN r.state ELSE r.up[6]
<1> DEFINE e == Arrived(r)
           u == r.up
<1>1. e.up = u /\ e.state = r.goto /\ u \in [Cachers -> Upstreams]
  BY ArrivedIs, FieldsTyped DEF SameBut, FieldNames
<1>2. Entered(r).up = UpAfter(e, r.state)
  BY EnteredUp
<1> DEFINE v == UpAfter(e, r.state)
           t == r.state
<1> HIDE DEF e, u, t
<1>3. /\ v[1] = IF r.goto = 1 THEN t ELSE u[1]
      /\ v[2] = IF r.goto = 2 /\ t # 1 THEN t ELSE u[2]
      /\ v[4] = IF r.goto = 4 /\ u[4] = None THEN t ELSE u[4]
      /\ v[5] = IF r.goto = 5 /\ ~(u[5] # None /\ t \in {2, 4}) THEN t ELSE u[5]
      /\ v[6] = IF r.goto = 6 /\ ~(u[6] # None /\ t \in {4, 5}) THEN t ELSE u[6]
  BY <1>1, SMT DEF UpAfter, Cachers, t
<1> QED
  BY <1>2, <1>3 DEF u, t

\* Entering a state keeps who sent whom.
LEMMA EnteredShape ==
    ASSUME NEW r \in Mediator, r.goto # None, Shape(r)
    PROVE  Shape(Entered(r))
<1> DEFINE s == Entered(r)
<1>1. s.state = r.goto /\ r.state \in StateIds /\ r.goto \in StateIds
  BY EnteredSteady, FieldsTyped
<1>2. /\ s.up[1] = IF r.goto = 1 THEN r.state ELSE r.up[1]
      /\ s.up[2] = IF r.goto = 2 /\ r.state # 1 THEN r.state ELSE r.up[2]
      /\ s.up[4] = IF r.goto = 4 /\ r.up[4] = None THEN r.state ELSE r.up[4]
      /\ s.up[5] = IF r.goto = 5 /\ ~(r.up[5] # None /\ r.state \in {2, 4}) THEN r.state ELSE r.up[5]
      /\ s.up[6] = IF r.goto = 6 /\ ~(r.up[6] # None /\ r.state \in {4, 5}) THEN r.state ELSE r.up[6]
  BY EnteredUps
<1>3. /\ r.goto \in {0, 1, 3, 4, 9, 11, 12, 13} => s.goto = None
      /\ r.goto = 2 => s.goto \in {None, 1}
      /\ r.goto = 5 => s.goto \in {None, 2}
      /\ r.goto = 6 => s.goto \in {None, 4, 5}
      /\ r.goto \in {7, 8, 10} => s.goto \in {None, 4, 6}
  BY EnteredGoto
<1> HIDE DEF s
<1>4. Shape(s)
  BY <1>1, <1>2, <1>3, NoneApart, SMTT(60) DEF Shape, StateIds
<1> QED
  BY <1>4 DEF s

\* Before the first login only states 1 and 2 are entered, and no connection
\* to a margin server is opened.
LEMMA EnteredGate ==
    ASSUME NEW r \in Mediator, r.goto # None, Shape(r), Gate(r)
    PROVE  Gate(Entered(r))
<1> DEFINE s == Entered(r)
<1>1. s.state = r.goto /\ r.state \in StateIds /\ r.goto \in StateIds /\ s.gate = r.gate /\ s.slots = r.slots
  BY EnteredSteady, FieldsTyped DEF SameBut, FieldNames, Steady
<1>2. s.up[2] = IF r.goto = 2 /\ r.state # 1 THEN r.state ELSE r.up[2]
  BY EnteredUps
<1>3. /\ r.goto \in {0, 1, 3, 4, 9, 11, 12, 13} => s.goto = None
      /\ r.goto = 2 => s.goto \in {None, 1}
  BY EnteredGoto
<1>4. s.margin # r.margin => r.goto = 4
  BY EnteredPointers
<1> HIDE DEF s
<1>5. Gate(s)
  BY <1>1, <1>2, <1>3, <1>4, NoneApart DEF Gate, Shape, StateIds
<1> QED
  BY <1>5 DEF s

\* What a state is for: the request w that has led to it.
For(s, r, w) ==
    /\ s = 7 => w = [what |-> "delete", who |-> SlotName(r)]
    /\ s = 8 => w = [what |-> "play", who |-> SlotName(r)]
    /\ s \in {10, 11} => w = [what |-> "create", who |-> r.create] /\ r.named
    /\ s = 9 => w.what \in {"play", "create"}

\* The states from which state 6 will be entered again and go back to its sender.
Through6(r) ==
    \/ r.up[4] = 6
    \/ r.goto = None /\ r.state \in {5, 6}
    \/ r.goto = 5
    \/ r.goto = 4 /\ r.state = 6
    \/ r.goto = 6 /\ r.state \in {4, 5}
    \/ r.goto = 2 /\ r.state = 5
    \/ r.goto \in {None, 1, 2} /\ r.state \in {1, 2} /\ r.up[2] = 5

\* A login is under way.
LoggingIn(r) ==
    \/ r.goto = 2 /\ r.state \in {0, 13}
    \/ r.goto \in {None, 1, 2} /\ r.state \in {1, 2} /\ r.up[2] \in {0, 13}

\* Whatever state the mediator is in, is on its way to or will return to, is
\* for the request under way.
Purposed(r, w) ==
    Target(r) \notin Idle =>
        /\ w # NoWish
        /\ For(r.state, r, w)
        /\ For(r.goto, r, w)
        /\ For(r.up[4], r, w)
        /\ Through6(r) => For(r.up[6], r, w)
        /\ w.what = "login" => LoggingIn(r)

\* What a state is for depends on the selection and the name to create alone.
LEMMA ForSame ==
    ASSUME NEW s, NEW r, NEW x, NEW w, For(x, r, w),
           s.slots = r.slots, s.current = r.current, s.create = r.create, s.named = r.named
    PROVE  For(x, s, w)
<1>1. SlotName(s) = SlotName(r)
  BY DEF SlotName
<1> QED
  BY <1>1 DEF For

\* Entering a state keeps the purpose.
LEMMA EnteredPurposed ==
    ASSUME NEW r \in Mediator, r.goto # None, Shape(r), NEW w, Purposed(r, w)
    PROVE  Purposed(Entered(r), w)
<1> DEFINE s == Entered(r)
<1>1. /\ s.state = r.goto /\ r.state \in StateIds /\ r.goto \in StateIds
      /\ s.slots = r.slots /\ s.current = r.current /\ s.create = r.create /\ s.named = r.named
  BY EnteredSteady, FieldsTyped DEF SameBut, FieldNames, Steady
<1>2. /\ s.up[2] = IF r.goto = 2 /\ r.state # 1 THEN r.state ELSE r.up[2]
      /\ s.up[4] = IF r.goto = 4 /\ r.up[4] = None THEN r.state ELSE r.up[4]
      /\ s.up[6] = IF r.goto = 6 /\ ~(r.up[6] # None /\ r.state \in {4, 5}) THEN r.state ELSE r.up[6]
  BY EnteredUps
<1>3. /\ r.goto \in {0, 1, 3, 4, 9, 11, 12, 13} => s.goto = None
      /\ r.goto = 2 => s.goto \in {None, 1}
      /\ r.goto = 5 => s.goto \in {None, 2}
      /\ r.goto = 6 => s.goto \in {None, 4, 5}
      /\ r.goto \in {7, 8, 10} => s.goto \in {None, 4, 6}
  BY EnteredGoto
<1> HIDE DEF s
<1>4. SUFFICES ASSUME Target(s) \notin Idle PROVE Purposed(s, w)
  BY DEF Purposed, s
<1>5. Target(r) \notin Idle
  BY <1>1, <1>3, <1>4, NoneApart DEF Target, Idle, StateIds
<1>6. \A x : For(x, r, w) => For(x, s, w)
  BY <1>1, ForSame
<1>7. \A x : x \notin 7 .. 11 => For(x, s, w)
  BY SMT DEF For
<1>8. /\ w # NoWish /\ For(r.state, r, w) /\ For(r.goto, r, w) /\ For(r.up[4], r, w)
      /\ Through6(r) => For(r.up[6], r, w)
      /\ w.what = "login" => LoggingIn(r)
  BY <1>5 DEF Purposed
<1>9. For(s.state, s, w)
  BY <1>1, <1>6, <1>8
<1>10. For(s.goto, s, w)
  <2>1. s.goto \notin 7 .. 11
    BY <1>1, <1>3, NoneApart DEF StateIds
  <2> QED
    BY <1>7, <2>1
<1>11. For(s.up[4], s, w)
  BY <1>2, <1>6, <1>8
<1>12. Through6(s) => For(s.up[6], s, w)
  <2>1. SUFFICES ASSUME Through6(s) PROVE For(s.up[6], s, w)
    OBVIOUS
  <2>2. CASE r.goto = 6 /\ ~(r.up[6] # None /\ r.state \in {4, 5})
    BY <1>2, <1>6, <1>8, <2>2
  <2>3. CASE ~(r.goto = 6 /\ ~(r.up[6] # None /\ r.state \in {4, 5}))
    <3>1. s.up[6] = r.up[6]
      BY <1>2, <2>3
    <3>2. Through6(r)
      BY <1>1, <1>2, <1>3, <2>1, <2>3, NoneApart, SMTT(60) DEF Shape, Through6, StateIds
    <3> QED
      BY <1>6, <1>8, <3>1, <3>2
  <2> QED
    BY <2>2, <2>3
<1>13. w.what = "login" => LoggingIn(s)
  BY <1>1, <1>2, <1>3, <1>8, NoneApart, SMTT(60) DEF Shape, LoggingIn, StateIds
<1> QED
  BY <1>8, <1>9, <1>10, <1>11, <1>12, <1>13 DEF Purposed

\* State 4 is waiting for its connection, or remembers nobody.
Clear4(r) == r.up[4] = None \/ (r.state = 4 /\ r.goto = None)

\* What a handler that began as h has sent is the request of the state it ended in.
Sent(r, h) ==
    \A k \in Links :
        Len(r.link[k].asked) > Len(h.link[k].asked) =>
            /\ r.goto = None
            /\ r.state \in {2, 5, 6, 7, 8, 9, 10, 11}
            /\ Last(r.link[k].asked) = RequestOf(r)

\* What a state sends is the last thing the handler does.
LEMMA EnteredSent ==
    ASSUME NEW r \in Mediator, NEW h \in Mediator, r.goto # None, Sent(r, h)
    PROVE  Sent(Entered(r), h)
<1> DEFINE s == Entered(r)
           e == Arrived(r)
<1>1. s \in Mediator /\ e \in Mediator /\ e.state = r.goto /\ s.state = r.goto /\ e.link = r.link
  BY EnteredIs, ArrivedIs, EnteredSteady DEF SameBut, FieldNames
<1>2. RequestOf(e) = RequestOf(s)
  <2>1. s.slots = e.slots /\ s.current = e.current /\ s.create = e.create /\ s.named = e.named
    BY ArrivedIs, EnteredSteady DEF SameBut, FieldNames, Steady
  <2>2. SlotName(s) = SlotName(e) /\ CharacterName(s) = CharacterName(e)
    BY <2>1 DEF SlotName, CharacterName
  <2> HIDE DEF s, e
  <2> QED
    BY <1>1, <2>1, <2>2 DEF RequestOf
<1>3. \A k \in Links : LinkMoves(s, e, k)
  BY EnteredLinks
<1> HIDE DEF s, e
<1>4. ASSUME NEW k \in Links, Len(s.link[k].asked) > Len(h.link[k].asked)
      PROVE  s.goto = None /\ s.state \in {2, 5, 6, 7, 8, 9, 10, 11} /\ Last(s.link[k].asked) = RequestOf(s)
  <2>1. /\ s.link[k].asked \in Seq(Request) /\ r.link[k].asked \in Seq(Request)
        /\ h.link[k].asked \in Seq(Request)
    BY <1>1, FieldsTyped, LinkFields
  <2>2. Len(r.link[k].asked) <= Len(h.link[k].asked)
    <3>1. ~(Len(r.link[k].asked) > Len(h.link[k].asked))
      BY DEF Sent
    <3> QED
      BY <2>1, <3>1
  <2>3. s.link[k].asked # r.link[k].asked /\ s.link[k].asked # <<>>
    <3>1. \A x \in Seq(Request) : Len(x) \in Nat
      OBVIOUS
    <3>2. /\ Len(s.link[k].asked) \in Nat /\ Len(r.link[k].asked) \in Nat
          /\ Len(h.link[k].asked) \in Nat
      BY <2>1, <3>1
    <3> DEFINE x == s.link[k].asked
               y == r.link[k].asked
    <3>3. Len(x) > Len(y) /\ Len(x) # 0
      <4> DEFINE i == Len(s.link[k].asked)
                 j == Len(r.link[k].asked)
                 n == Len(h.link[k].asked)
      <4>1. i > n
        BY <1>4
      <4>2. j <= n
        BY <2>2
      <4>3. i \in Nat /\ j \in Nat /\ n \in Nat
        BY <3>2
      <4> HIDE DEF i, j, n
      <4>4. i > j /\ i # 0
        BY <4>1, <4>2, <4>3
      <4> QED
        BY <4>4 DEF i, j
    <3> HIDE DEF x, y
    <3>4. x # y /\ x # <<>>
      BY <3>3, <3>2 DEF x, y
    <3> QED
      BY <3>4 DEF x, y
  <2>4. CASE SameLink(s.link[k], e.link[k], {}) \/ SameLink(s.link[k], e.link[k], {"st"})
    BY <1>1, <2>3, <2>4 DEF SameLink, LinkFieldNames
  <2>5. CASE \E kind \in {"auth", "margin"}, st \in {"ConnectActive", "Closed"} :
                s.link[k] = [FreeLink EXCEPT !.kind = kind, !.st = st]
    BY <2>3, <2>5 DEF FreeLink
  <2>6. CASE /\ e.state \in {2, 5, 6, 7, 8, 9, 10, 11} /\ s.goto = None
             /\ s.link[k].asked = Append(e.link[k].asked, RequestOf(e))
    <3> DEFINE q == r.link[k].asked
               a == RequestOf(s)
    <3>1. s.link[k].asked = Append(q, a)
      BY <1>1, <1>2, <2>6
    <3>2. q \in Seq(Request)
      BY <2>1
    <3> HIDE DEF q, a
    <3>3. Last(Append(q, a)) = a
      BY <3>2 DEF Last
    <3> QED
      BY <1>1, <2>6, <3>1, <3>3 DEF a
  <2> QED
    BY <1>3, <2>4, <2>5, <2>6 DEF LinkMoves
<1> QED
  BY <1>4 DEF Sent, s

\* Entering a state keeps state 4 without a sender to remember.
LEMMA EnteredClear ==
    ASSUME NEW r \in Mediator, r.goto # None, Clear4(r)
    PROVE  Clear4(Entered(r))
<1> DEFINE s == Entered(r)
<1>1. s.state = r.goto
  BY EnteredSteady
<1>2. s.up[4] = IF r.goto = 4 /\ r.up[4] = None THEN r.state ELSE r.up[4]
  BY EnteredUps
<1>3. r.goto = 4 => s.goto = None
  BY EnteredGoto
<1> HIDE DEF s
<1>4. Clear4(s)
  BY <1>1, <1>2, <1>3 DEF Clear4
<1> QED
  BY <1>4 DEF s

\* All of this at once, with p for whether there is a purpose and q for whether
\* state 4 remembers nobody.
Sound(r, h, w, p, q) ==
    /\ Shape(r) /\ Gate(r)
    /\ p => Purposed(r, w)
    /\ q => Clear4(r)
    /\ Sent(r, h)

\* All of this holds where the handler ends, if it held as its states were to be
\* entered.
LEMMA SettledSound ==
    ASSUME NEW h \in Mediator, NEW w, NEW p, NEW q, Shape(h), Gate(h), p => Purposed(h, w), q => Clear4(h)
    PROVE  Sound(Settled(h), h, w, p, q)
<1>1. ASSUME NEW t \in Mediator, Sound(t, h, w, p, q)
      PROVE  Onward(t) \in Mediator /\ Sound(Onward(t), h, w, p, q)
  <2>1. CASE t.goto = None
    BY <1>1, <2>1 DEF Onward
  <2>2. CASE t.goto # None
    BY <1>1, <2>2, EnteredIs, EnteredShape, EnteredGate, EnteredPurposed, EnteredClear, EnteredSent
    DEF Onward, Sound
  <2> QED
    BY <2>1, <2>2
<1> DEFINE a == Onward(h)
           b == Onward(a)
           c == Onward(b)
           d == Onward(c)
           e == Onward(d)
<1>2. Sound(h, h, w, p, q)
  <2>1. \A k \in Links : Len(h.link[k].asked) \in Nat
    BY FieldsTyped, LinkFields
  <2>2. Sent(h, h)
    BY <2>1 DEF Sent
  <2> QED
    BY <2>2 DEF Sound
<1>3. a \in Mediator /\ Sound(a, h, w, p, q)
  BY <1>1, <1>2
<1> HIDE DEF a
<1>4. b \in Mediator /\ Sound(b, h, w, p, q)
  BY <1>1, <1>3
<1> HIDE DEF b
<1>5. c \in Mediator /\ Sound(c, h, w, p, q)
  BY <1>1, <1>4
<1> HIDE DEF c
<1>6. d \in Mediator /\ Sound(d, h, w, p, q)
  BY <1>1, <1>5
<1> HIDE DEF d
<1>7. Sound(e, h, w, p, q)
  BY <1>1, <1>6
<1>8. Rested(h) = e
  BY DEF Rested, a, b, c, d
<1> HIDE DEF e
<1>9. SameBut(Settled(h), Rested(h), {"posted", "after"})
  BY SettledIs
<1> DEFINE x == Settled(h)
           y == Rested(h)
<1> HIDE DEF x, y
<1>10. /\ x.state = y.state /\ x.goto = y.goto /\ x.up = y.up /\ x.gate = y.gate /\ x.margin = y.margin
       /\ x.slots = y.slots /\ x.current = y.current /\ x.create = y.create /\ x.named = y.named
       /\ x.link = y.link
  BY <1>9 DEF SameBut, FieldNames, x, y
<1>11. Shape(y) /\ Gate(y) /\ (p => Purposed(y, w)) /\ (q => Clear4(y)) /\ Sent(y, h)
  BY <1>7, <1>8 DEF Sound, y
<1>12. SlotName(x) = SlotName(y) /\ CharacterName(x) = CharacterName(y)
  BY <1>10 DEF SlotName, CharacterName
<1>13. Shape(x) /\ Gate(x)
  BY <1>10, <1>11 DEF Shape, Gate
<1>14. p => Purposed(x, w)
  <2>1. \A s : For(s, y, w) => For(s, x, w)
    BY <1>10, ForSame
  <2>2. Target(x) = Target(y) /\ (Through6(x) <=> Through6(y)) /\ (LoggingIn(x) <=> LoggingIn(y))
    BY <1>10 DEF Target, Through6, LoggingIn
  <2> QED
    BY <1>10, <1>11, <2>1, <2>2 DEF Purposed
<1>15. q => Clear4(x)
  BY <1>10, <1>11 DEF Clear4
<1>16. Sent(x, h)
  <2>1. RequestOf(x) = RequestOf(y)
    BY <1>10, <1>12 DEF RequestOf
  <2> QED
    BY <1>10, <1>11, <2>1 DEF Sent
<1> QED
  BY <1>13, <1>14, <1>15, <1>16 DEF Sound, x

-----------------------------------------------------------------------------
(* What a completed operation turns the mediator to, and what it           *)
(* announces.                                                              *)

\* What is announced besides errors and outcomes.
Plain == {Event(e) : e \in {0, 1, 11, 14, 15, 18, 20, 22}}

\* A state waits on; a failure or a deletion ends it; or it goes on to the
\* state that it is for.
Stays(s, r) ==
    /\ s.goto = None /\ s.up = r.up
    /\ s.slots = r.slots /\ s.current = r.current
    /\ Announced(s) \subseteq Plain
Breaks(s, r) ==
    /\ s.goto \in {0, 3} /\ s.up \in {r.up, Forgotten4(r)}
    /\ s.slots = r.slots
    /\ s.goto = 3 => r.gate
    /\ Announced(s) \subseteq Errors \cup {p \in {Event(8)} : r.state = 7}
Proceeds(s, r) ==
    /\ \/ r.state = 1 /\ s.goto = r.up[1] /\ s.up = r.up
       \/ r.state = 4 /\ s.goto = r.up[4] /\ s.up = Forgotten4(r)
       \/ r.state = 5 /\ s.goto = r.up[5] /\ s.up = r.up
       \/ r.state = 6 /\ s.goto \in {r.up[6], 2, 4} /\ s.up = r.up
       \/ r.state \in {8, 11} /\ s.goto = 9 /\ s.up = r.up
    /\ s.slots = r.slots /\ s.current = r.current
    /\ Announced(s) \subseteq Plain
LogsIn(s, r) ==
    /\ r.state = 2 /\ s.gate
    /\ s.goto = (IF r.up[2] \in {0, None} THEN 3 ELSE r.up[2]) /\ s.up = r.up
    /\ r.gate => s.slots = r.slots /\ s.current = r.current
    /\ Announced(s) \subseteq {Event(5), Event(6)}
Claims(s, r) == r.state = 10 /\ s.goto = 11 /\ s.up = r.up /\ Announced(s) \subseteq Plain
Submits(s, r) ==
    r.state = 9 /\ s.goto = 12 /\ s.up = r.up /\ s.slots = r.slots /\ Announced(s) \subseteq {Event(24)}

\* What a completed operation does to the states.
Turned(s, r) ==
    /\ s.state = r.state /\ s.create = r.create
    /\ s.named = r.named \/ Breaks(s, r)
    /\ \/ LogsIn(s, r)
       \/ /\ s.gate = r.gate
          /\ r.gate \/ s.margin = None
          /\ Stays(s, r) \/ Breaks(s, r) \/ Proceeds(s, r) \/ Claims(s, r) \/ Submits(s, r)

\* A state that has nothing pending and has announced nothing.
Resting(r) == r.goto = None /\ Announced(r) = {} /\ Shape(r) /\ Gate(r)

\* What the end of a connection to the auth server, or its reply, turns the
\* mediator to.
LEMMA AuthTurned ==
    ASSUME NEW s \in Mediator, NEW r \in Mediator, Resting(r), NEW q,
           AuthLost(s, r) \/ AuthResult(s, r) \/ AuthReply(s, r, q)
    PROVE  Turned(s, r)
<1> DEFINE A == Announced(s)
           B == Announced(r)
<1>1. r.goto = None /\ B = {} /\ Shape(r) /\ Gate(r)
  BY DEF Resting
<1>2. r.gate \/ r.margin = None
  BY <1>1 DEF Gate
<1>3. Event(0) \in Plain /\ Event(1) \in Plain
  BY DEF Plain
<1>4. CASE s = r
  BY <1>1, <1>2, <1>4 DEF Turned, Stays
<1>5. ASSUME NEW F \in SUBSET {"auth", "flag2c", "attempts"}, Moves(s, r, F, 0, Errors)
      PROVE  Turned(s, r)
  <2>1. /\ s.state = r.state /\ s.create = r.create /\ s.named = r.named /\ s.gate = r.gate /\ s.margin = r.margin
        /\ s.up = r.up /\ s.slots = r.slots /\ s.goto = 0 /\ A \subseteq B \cup Errors
    BY <1>5 DEF Moves, SameBut, FieldNames
  <2> HIDE DEF A, B
  <2> QED
    BY <1>1, <1>2, <2>1 DEF Turned, Breaks, A
<1>6. CASE r.flag2c /\ Moves(s, r, {"auth"}, r.goto, {Event(1)})
  <2>1. /\ s.state = r.state /\ s.create = r.create /\ s.named = r.named /\ s.gate = r.gate /\ s.margin = r.margin
        /\ s.up = r.up /\ s.slots = r.slots /\ s.current = r.current
        /\ s.goto = None /\ A \subseteq B \cup {Event(1)}
    BY <1>1, <1>6 DEF Moves, SameBut, FieldNames
  <2> HIDE DEF A, B
  <2> QED
    BY <1>1, <1>2, <1>3, <2>1 DEF Turned, Stays, A
<1>7. CASE r.state = 1 /\ Moves(s, r, {}, r.up[1], {Event(0)})
  <2>1. /\ s.state = r.state /\ s.create = r.create /\ s.named = r.named /\ s.gate = r.gate /\ s.margin = r.margin
        /\ s.up = r.up /\ s.slots = r.slots /\ s.current = r.current
        /\ s.goto = r.up[1] /\ A \subseteq B \cup {Event(0)}
    BY <1>1, <1>7 DEF Moves, SameBut, FieldNames
  <2> HIDE DEF A, B
  <2> QED
    BY <1>1, <1>2, <1>3, <1>7, <2>1 DEF Turned, Proceeds, A
<1>8. CASE SameBut(s, r, {"auth", "link", "full", "flag2c", "authList", "attempts"})
  <2>1. /\ s.state = r.state /\ s.create = r.create /\ s.named = r.named /\ s.gate = r.gate /\ s.margin = r.margin
        /\ s.up = r.up /\ s.slots = r.slots /\ s.current = r.current /\ s.goto = r.goto
        /\ s.posted = r.posted /\ s.after = r.after
    BY <1>8 DEF SameBut, FieldNames
  <2>2. A = B
    BY <2>1 DEF Announced
  <2> QED
    BY <1>1, <1>2, <2>1, <2>2 DEF Turned, Stays
<1>9. CASE /\ r.state = 2 /\ s.gate
           /\ r.gate => s.slots = r.slots /\ s.current = r.current
           /\ Moves(s, r, {"flag2c", "gate", "current", "slots", "fresh"},
                    IF r.up[2] \in {0, None} THEN 3 ELSE r.up[2], {Event(5), Event(6)})
  <2>1. /\ s.state = r.state /\ s.create = r.create /\ s.named = r.named /\ s.margin = r.margin /\ s.up = r.up
        /\ s.goto = (IF r.up[2] \in {0, None} THEN 3 ELSE r.up[2]) /\ A \subseteq B \cup {Event(5), Event(6)}
    BY <1>9 DEF Moves, SameBut, FieldNames
  <2> HIDE DEF A, B
  <2> QED
    BY <1>1, <1>9, <2>1 DEF Turned, LogsIn, A
<1> QED
  BY <1>4, <1>5, <1>6, <1>7, <1>8, <1>9 DEF AuthLost, AuthResult, AuthReply

\* A message of the margin server.
LEMMA ReplyTurned ==
    ASSUME NEW s \in Mediator, NEW r \in Mediator, Resting(r), r.margin # None, MarginReply(s, r)
    PROVE  Turned(s, r)
<1> DEFINE A == Announced(s)
<1>1. r.goto = None /\ Announced(r) = {} /\ Shape(r) /\ Gate(r) /\ r.gate
  BY DEF Resting, Gate
<1>2. Event(11) \in Plain /\ Event(18) \in Plain /\ Event(20) \in Plain /\ Event(22) \in Plain
  BY DEF Plain
<1>3. CASE s = r
  BY <1>1, <1>3 DEF Turned, Stays
<1>4. ASSUME NEW F \in SUBSET {"flag2d", "F14", "begins", "current", "named", "link"}, NEW t \in {0, 3},
             Moves(s, r, F, t, Errors)
      PROVE  Turned(s, r)
  <2>1. /\ s.state = r.state /\ s.create = r.create /\ s.gate = r.gate
        /\ s.up = r.up /\ s.slots = r.slots /\ s.goto = t /\ A \subseteq Errors
    BY <1>1, <1>4 DEF Moves, SameBut, FieldNames
  <2> HIDE DEF A
  <2> QED
    BY <1>1, <2>1 DEF Turned, Breaks, A
<1>5. CASE ChallengeResult(s, r) /\ SameBut(s, r, {"F14", "link"})
  <2>1. /\ s.state = r.state /\ s.create = r.create /\ s.named = r.named /\ s.gate = r.gate
        /\ s.up = r.up /\ s.slots = r.slots /\ s.current = r.current /\ s.goto = r.goto
        /\ s.posted = r.posted /\ s.after = r.after
    BY <1>5 DEF SameBut, FieldNames
  <2>2. A = Announced(r)
    BY <2>1 DEF Announced
  <2> QED
    BY <1>1, <2>1, <2>2 DEF Turned, Stays
<1>6. ASSUME r.state = 6, NEW F \in SUBSET {"flag2d", "F14", "begins", "link"}, NEW t \in {r.up[6], 2, 4},
             Moves(s, r, F, t, {Event(18)})
      PROVE  Turned(s, r)
  <2>1. /\ s.state = r.state /\ s.create = r.create /\ s.named = r.named /\ s.gate = r.gate
        /\ s.up = r.up /\ s.slots = r.slots /\ s.current = r.current /\ s.goto = t /\ A \subseteq {Event(18)}
    BY <1>1, <1>6 DEF Moves, SameBut, FieldNames
  <2> HIDE DEF A
  <2> QED
    BY <1>1, <1>2, <1>6, <2>1 DEF Turned, Proceeds, A
<1>7. CASE r.state = 6 /\ VerdictResult(s, r)
  <2>1. r.up[6] # None
    BY <1>1, <1>7 DEF Shape
  <2>2. \/ Moves(s, r, {"begins", "F14", "link"}, r.up[6], {Event(18)})
        \/ \E t \in {2, 4} : Moves(s, r, {"link", "flag2d", "F14"}, t, {})
        \/ Moves(s, r, {"link", "flag2d", "F14", "begins"}, 3, Errors)
    BY <1>7, <2>1 DEF VerdictResult
  <2>3. \A t : Moves(s, r, {"link", "flag2d", "F14"}, t, {})
                  => Moves(s, r, {"link", "flag2d", "F14"}, t, {Event(18)})
    BY DEF Moves
  <2> QED
    BY <1>4, <1>6, <1>7, <2>2, <2>3
<1>8. CASE r.state = 7 /\ DeletedResult(s, r)
  <2>1. CASE Moves(s, r, {"link", "flag2d", "F14"}, 3, {Event(8)})
    <3>1. /\ s.state = r.state /\ s.create = r.create /\ s.named = r.named /\ s.gate = r.gate
          /\ s.up = r.up /\ s.slots = r.slots /\ s.goto = 3 /\ A \subseteq {Event(8)}
      BY <1>1, <2>1 DEF Moves, SameBut, FieldNames
    <3> HIDE DEF A
    <3>2. A \subseteq Errors \cup {p \in {Event(8)} : r.state = 7}
      BY <1>8, <3>1
    <3> QED
      BY <1>1, <3>1, <3>2 DEF Turned, Breaks, A
  <2> QED
    BY <1>4, <1>8, <2>1 DEF DeletedResult
<1>9. ASSUME r.state \in {8, 11}, NEW e \in {11, 22}, SectionResult(s, r, e)
      PROVE  Turned(s, r)
  <2> DEFINE F == {"profile", "seen", "expected"}
  <2>1. CASE Moves(s, r, F, r.goto, {})
    <3>1. /\ s.state = r.state /\ s.create = r.create /\ s.named = r.named /\ s.gate = r.gate
          /\ s.up = r.up /\ s.slots = r.slots /\ s.current = r.current /\ s.goto = None /\ A \subseteq {}
      BY <1>1, <2>1 DEF Moves, SameBut, FieldNames
    <3> HIDE DEF A
    <3> QED
      BY <1>1, <3>1 DEF Turned, Stays, A
  <2>2. CASE Moves(s, r, F, 9, {Event(e)})
    <3>1. /\ s.state = r.state /\ s.create = r.create /\ s.named = r.named /\ s.gate = r.gate
          /\ s.up = r.up /\ s.slots = r.slots /\ s.current = r.current /\ s.goto = 9 /\ A \subseteq {Event(e)}
      BY <1>1, <2>2 DEF Moves, SameBut, FieldNames
    <3> HIDE DEF A
    <3> QED
      BY <1>1, <1>2, <1>9, <3>1 DEF Turned, Proceeds, A
  <2> QED
    BY <1>9, <2>1, <2>2 DEF SectionResult
<1>10. CASE r.state = 10 /\ ClaimResult(s, r)
  <2>1. CASE Moves(s, r, {"current", "slots"}, 11, {Event(20)})
    <3>1. /\ s.state = r.state /\ s.create = r.create /\ s.named = r.named /\ s.gate = r.gate
          /\ s.up = r.up /\ s.goto = 11 /\ A \subseteq {Event(20)}
      BY <1>1, <2>1 DEF Moves, SameBut, FieldNames
    <3> HIDE DEF A
    <3> QED
      BY <1>1, <1>2, <1>10, <3>1 DEF Turned, Claims, A
  <2> QED
    BY <1>3, <1>4, <1>10, <2>1 DEF ClaimResult
<1>11. CASE r.state = 9 /\ SubmittedResult(s, r)
  <2>1. CASE Moves(s, r, {"link", "flag2d", "F14"}, 12, {Event(24)})
    <3>1. /\ s.state = r.state /\ s.create = r.create /\ s.named = r.named /\ s.gate = r.gate
          /\ s.up = r.up /\ s.slots = r.slots /\ s.goto = 12 /\ A \subseteq {Event(24)}
      BY <1>1, <2>1 DEF Moves, SameBut, FieldNames
    <3> HIDE DEF A
    <3> QED
      BY <1>1, <1>11, <3>1 DEF Turned, Submits, A
  <2> QED
    BY <1>4, <1>11, <2>1 DEF SubmittedResult
<1>12. CASE r.state = 6 /\ ChallengeResult(s, r)
  BY <1>4, <1>5, <1>12 DEF ChallengeResult
<1> QED
  BY <1>3, <1>4, <1>7, <1>8, <1>9, <1>10, <1>11, <1>12 DEF MarginReply

\* Any completed operation of the margin connection.
LEMMA MarginTurned ==
    ASSUME NEW s \in Mediator, NEW r \in Mediator, Resting(r), r.margin # None,
           MarginLost(s, r) \/ MarginResult(s, r) \/ MarginReply(s, r)
    PROVE  Turned(s, r)
<1> DEFINE A == Announced(s)
<1>1. r.goto = None /\ Announced(r) = {} /\ Shape(r) /\ Gate(r) /\ r.gate
  BY DEF Resting, Gate
<1>2. Event(14) \in Plain /\ Event(15) \in Plain
  BY DEF Plain
<1>3. CASE s = r
  BY <1>1, <1>3 DEF Turned, Stays
<1>4. CASE r.flag2d /\ Moves(s, r, {"margin"}, r.goto, {Event(15)})
  <2>1. /\ s.state = r.state /\ s.create = r.create /\ s.named = r.named /\ s.gate = r.gate
        /\ s.up = r.up /\ s.slots = r.slots /\ s.current = r.current /\ s.goto = None /\ A \subseteq {Event(15)}
    BY <1>1, <1>4 DEF Moves, SameBut, FieldNames
  <2> HIDE DEF A
  <2> QED
    BY <1>1, <1>2, <2>1 DEF Turned, Stays, A
<1>5. CASE Moves(s, r, {"margin"}, 3, Errors)
  <2>1. /\ s.state = r.state /\ s.create = r.create /\ s.named = r.named /\ s.gate = r.gate
        /\ s.up = r.up /\ s.slots = r.slots /\ s.goto = 3 /\ A \subseteq Errors
    BY <1>1, <1>5 DEF Moves, SameBut, FieldNames
  <2> HIDE DEF A
  <2> QED
    BY <1>1, <2>1 DEF Turned, Breaks, A
<1>6. CASE r.state = 4 /\ s.up = Forgotten4(r) /\ Moves(s, r, {"up"}, Phase(r.up[4]), {Event(14)})
  <2>1. /\ s.state = r.state /\ s.create = r.create /\ s.named = r.named /\ s.gate = r.gate
        /\ s.slots = r.slots /\ s.current = r.current /\ s.goto = Phase(r.up[4]) /\ A \subseteq {Event(14)}
    BY <1>1, <1>6 DEF Moves, SameBut, FieldNames
  <2>2. Phase(r.up[4]) = r.up[4]
    BY <1>1, <1>6 DEF Shape, Phase
  <2> HIDE DEF A
  <2> QED
    BY <1>1, <1>2, <1>6, <2>1, <2>2 DEF Turned, Proceeds, A
<1>7. CASE s.up = Forgotten4(r) /\ Moves(s, r, {"up", "flag2d", "begins"}, 3, Errors)
  <2>1. /\ s.state = r.state /\ s.create = r.create /\ s.named = r.named /\ s.gate = r.gate
        /\ s.slots = r.slots /\ s.goto = 3 /\ A \subseteq Errors
    BY <1>1, <1>7 DEF Moves, SameBut, FieldNames
  <2> HIDE DEF A
  <2> QED
    BY <1>1, <1>7, <2>1 DEF Turned, Breaks, A
<1>8. CASE MarginOpened(s, r)
  <2>1. /\ s.state = r.state /\ s.create = r.create /\ s.named = r.named /\ s.gate = r.gate
        /\ s.up = r.up /\ s.slots = r.slots /\ s.current = r.current /\ s.goto = r.goto
        /\ s.posted = r.posted /\ s.after = r.after
    BY <1>8 DEF MarginOpened, MarginFields, SameBut, FieldNames
  <2>2. A = Announced(r)
    BY <2>1 DEF Announced
  <2> QED
    BY <1>1, <2>1, <2>2 DEF Turned, Stays
<1>9. r.up[4] # 13
  BY <1>1, NoneApart DEF Shape, StateIds
<1>10. CASE r.state = 13 /\ Moves(s, r, {"margin"}, r.goto, {})
  <2>1. /\ s.state = r.state /\ s.create = r.create /\ s.named = r.named /\ s.gate = r.gate
        /\ s.up = r.up /\ s.slots = r.slots /\ s.current = r.current /\ s.goto = None /\ A \subseteq {}
    BY <1>1, <1>10 DEF Moves, SameBut, FieldNames
  <2> HIDE DEF A
  <2> QED
    BY <1>1, <2>1 DEF Turned, Stays, A
<1> QED
  BY <1>3, <1>4, <1>5, <1>6, <1>7, <1>8, <1>9, <1>10, ReplyTurned DEF MarginLost, MarginResult

\* The answer to the reply copy, on any connection.
LEMMA CopyTurned ==
    ASSUME NEW s \in Mediator, NEW r \in Mediator, Resting(r), NEW l, CopyResult(s, r, l)
    PROVE  Turned(s, r)
<1> DEFINE A == Announced(s)
<1>1. r.goto = None /\ Announced(r) = {} /\ Shape(r) /\ Gate(r) /\ (r.gate \/ r.margin = None)
  BY DEF Resting, Gate
<1>2. CASE SameBut(s, r, {"link"})
  <2>1. /\ s.state = r.state /\ s.create = r.create /\ s.named = r.named /\ s.gate = r.gate /\ s.margin = r.margin
        /\ s.up = r.up /\ s.slots = r.slots /\ s.current = r.current /\ s.goto = r.goto
        /\ s.posted = r.posted /\ s.after = r.after
    BY <1>2 DEF SameBut, FieldNames
  <2>2. A = Announced(r)
    BY <2>1 DEF Announced
  <2> QED
    BY <1>1, <2>1, <2>2 DEF Turned, Stays
<1>3. CASE r.state = 5 /\ Moves(s, r, {"link", "flag2d"}, Phase(r.up[5]), {})
  <2>1. /\ s.state = r.state /\ s.create = r.create /\ s.named = r.named /\ s.gate = r.gate /\ s.margin = r.margin
        /\ s.up = r.up /\ s.slots = r.slots /\ s.current = r.current /\ s.goto = Phase(r.up[5])
        /\ A \subseteq {}
    BY <1>1, <1>3 DEF Moves, SameBut, FieldNames
  <2>2. Phase(r.up[5]) = r.up[5]
    BY <1>1, <1>3, NoneApart DEF Shape, Phase, StateIds
  <2> HIDE DEF A
  <2> QED
    BY <1>1, <1>3, <2>1, <2>2 DEF Turned, Proceeds, A
<1> QED
  BY <1>2, <1>3 DEF CopyResult

\* Any completed operation.
LEMMA CompletedTurned ==
    ASSUME NEW s \in Mediator, NEW r \in Mediator, Resting(r), NEW i \in Items, CompletedResult(s, r, i)
    PROVE  Turned(s, r)
<1>1. i.link # None
  BY LoginAssumption DEF Items
<1>2. CASE s = r
  BY <1>2 DEF Turned, Stays, Resting, Gate
<1>3. CASE HardClosed(s, r, i.link) \/ Moves(s, r, {"unread"}, r.goto, {})
  <2> DEFINE A == Announced(s)
  <2>1. r.goto = None /\ Announced(r) = {} /\ Shape(r) /\ Gate(r) /\ (r.gate \/ r.margin = None)
    BY DEF Resting, Gate
  <2>2. PICK F \in {{"link"}, {"unread"}} : Moves(s, r, F, r.goto, {})
    BY <1>3 DEF HardClosed
  <2>3. /\ s.state = r.state /\ s.create = r.create /\ s.named = r.named /\ s.gate = r.gate
        /\ s.margin = r.margin /\ s.up = r.up /\ s.slots = r.slots /\ s.current = r.current /\ s.goto = None
        /\ A \subseteq {}
    BY <2>1, <2>2 DEF Moves, SameBut, FieldNames
  <2> HIDE DEF A
  <2> QED
    BY <2>1, <2>3 DEF Turned, Stays, A
<1> QED
  BY <1>1, <1>2, <1>3, AuthTurned, MarginTurned, CopyTurned DEF CompletedResult

\* A completed operation keeps who may send whom, and what waits for the login.
LEMMA TurnedShape ==
    ASSUME NEW s \in Mediator, NEW r \in Mediator, Resting(r), Turned(s, r)
    PROVE  /\ Shape(s) /\ Gate(s)
           /\ s.up[4] \in {r.up[4], None}
<1>1. /\ r.goto = None /\ Shape(r) /\ Gate(r) /\ r.state \in StateIds /\ s.state = r.state
      /\ r.up \in [Cachers -> Upstreams]
  BY FieldsTyped DEF Resting, Turned
<1>2. \A n \in Cachers : s.up[n] = r.up[n] \/ (n = 4 /\ s.up[n] = None)
  <2>1. s.up \in {r.up, Forgotten4(r)}
    BY DEF Turned, LogsIn, Stays, Breaks, Proceeds, Claims, Submits
  <2> QED
    BY <1>1, <2>1 DEF Forgotten4
<1>3. /\ s.up[1] = r.up[1] /\ s.up[2] = r.up[2] /\ s.up[5] = r.up[5] /\ s.up[6] = r.up[6]
      /\ s.up[4] \in {r.up[4], None}
  BY <1>2 DEF Cachers
<1>4. CASE LogsIn(s, r)
  <2>1. r.state = 2 /\ s.gate /\ s.goto = (IF r.up[2] \in {0, None} THEN 3 ELSE r.up[2])
    BY <1>4 DEF LogsIn
  <2>2. Shape(s)
    BY <1>1, <1>3, <2>1, NoneApart, SMTT(60) DEF Shape, StateIds
  <2> QED
    BY <1>3, <2>1, <2>2 DEF Gate
<1>5. CASE Stays(s, r) /\ s.gate = r.gate /\ (r.gate \/ s.margin = None)
  <2>1. s.goto = None /\ s.up = r.up /\ s.slots = r.slots
    BY <1>5 DEF Stays
  <2>2. Shape(s)
    BY <1>1, <2>1 DEF Shape
  <2> QED
    BY <1>1, <1>3, <1>5, <2>1, <2>2 DEF Gate
<1>6. CASE Breaks(s, r) /\ s.gate = r.gate /\ (r.gate \/ s.margin = None)
  <2>1. s.goto \in {0, 3} /\ s.slots = r.slots /\ (s.goto = 3 => r.gate)
    BY <1>6 DEF Breaks
  <2>2. Shape(s)
    BY <1>1, <1>3, <2>1, NoneApart, SMTT(60) DEF Shape, StateIds
  <2> QED
    BY <1>1, <1>3, <1>6, <2>1, <2>2 DEF Gate
<1>7. CASE Proceeds(s, r) /\ s.gate = r.gate /\ (r.gate \/ s.margin = None)
  <2>1. /\ \/ r.state = 1 /\ s.goto = r.up[1]
           \/ r.state = 4 /\ s.goto = r.up[4]
           \/ r.state = 5 /\ s.goto = r.up[5]
           \/ r.state = 6 /\ s.goto \in {r.up[6], 2, 4}
           \/ r.state \in {8, 11} /\ s.goto = 9
        /\ s.slots = r.slots
    BY <1>7 DEF Proceeds
  <2>2. Shape(s)
    BY <1>1, <1>3, <2>1, NoneApart, SMTT(60) DEF Shape, StateIds
  <2> QED
    BY <1>1, <1>3, <1>7, <2>1, <2>2 DEF Gate, Shape
<1>8. CASE Claims(s, r) /\ s.gate = r.gate
  <2>1. r.state = 10 /\ s.goto = 11 /\ s.up = r.up
    BY <1>8 DEF Claims
  <2>2. Shape(s)
    BY <1>1, <2>1, NoneApart DEF Shape, StateIds
  <2> QED
    BY <1>1, <1>8, <2>1, <2>2 DEF Gate
<1>9. CASE Submits(s, r) /\ s.gate = r.gate
  <2>1. r.state = 9 /\ s.goto = 12 /\ s.up = r.up
    BY <1>9 DEF Submits
  <2>2. Shape(s)
    BY <1>1, <2>1, NoneApart DEF Shape, StateIds
  <2> QED
    BY <1>1, <1>9, <2>1, <2>2 DEF Gate
<1> QED
  BY <1>3, <1>4, <1>5, <1>6, <1>7, <1>8, <1>9 DEF Turned

\* A completed operation keeps the purpose.
LEMMA TurnedPurposed ==
    ASSUME NEW s \in Mediator, NEW r \in Mediator, Resting(r), Turned(s, r), NEW w, Purposed(r, w)
    PROVE  Purposed(s, w)
<1>1. /\ r.goto = None /\ Shape(r) /\ Gate(r) /\ r.state \in StateIds /\ s.state = r.state /\ s.create = r.create
      /\ r.up \in [Cachers -> Upstreams]
  BY FieldsTyped DEF Resting, Turned
<1>2. SUFFICES ASSUME Target(s) \notin Idle PROVE Purposed(s, w)
  BY DEF Purposed
<1>3. \A x : x \notin 7 .. 11 => For(x, s, w)
  BY SMT DEF For
<1>4. ~Breaks(s, r)
  BY <1>2, NoneApart DEF Breaks, Target, Idle, StateIds
<1>5. s.named = r.named
  BY <1>4 DEF Turned
<1>6. CASE Stays(s, r)
  <2>1. s.goto = None /\ s.up = r.up /\ s.slots = r.slots /\ s.current = r.current
    BY <1>6 DEF Stays
  <2>2. \A x : For(x, r, w) => For(x, s, w)
    BY <1>1, <2>1, <1>5, ForSame
  <2>3. Target(s) = Target(r) /\ (Through6(s) <=> Through6(r)) /\ (LoggingIn(s) <=> LoggingIn(r))
    BY <1>1, <2>1 DEF Target, Through6, LoggingIn
  <2> QED
    BY <1>1, <2>1, <2>2, <2>3 DEF Purposed
<1>7. CASE Submits(s, r)
  BY <1>2, <1>7, NoneApart DEF Submits, Target, Idle, StateIds
<1>8. ASSUME r.state \in 1 .. 11 \ {3}
      PROVE  /\ w # NoWish /\ For(r.state, r, w) /\ For(r.up[4], r, w)
             /\ Through6(r) => For(r.up[6], r, w)
             /\ w.what = "login" => LoggingIn(r)
  BY <1>1, <1>8 DEF Purposed, Target, Idle
<1>9. CASE LogsIn(s, r)
  <2>1. /\ r.state = 2 /\ s.goto = (IF r.up[2] \in {0, None} THEN 3 ELSE r.up[2]) /\ s.up = r.up
        /\ r.gate => s.slots = r.slots /\ s.current = r.current
    BY <1>9 DEF LogsIn
  <2>2. r.up[2] \in {5, 6}
    BY <1>1, <1>2, <2>1, NoneApart DEF Shape, Target, Idle, StateIds
  <2>3. r.gate
    BY <1>1, <2>2, NoneApart DEF Gate, StateIds
  <2>4. \A x : For(x, r, w) => For(x, s, w)
    BY <1>1, <2>1, <2>3, <1>5, ForSame
  <2>5. For(s.goto, s, w)
    BY <1>3, <2>1, <2>2
  <2>6. Through6(s) => Through6(r)
    BY <1>1, <2>1, <2>2, NoneApart DEF Through6, StateIds
  <2>7. w.what # "login"
    BY <1>1, <1>8, <2>1, <2>2 DEF LoggingIn, StateIds
  <2>8. r.state \in 1 .. 11 \ {3}
    BY <2>1
  <2> QED
    BY <1>1, <1>8, <2>1, <2>4, <2>5, <2>6, <2>7, <2>8 DEF Purposed
<1>10. CASE Proceeds(s, r)
  <2>1. /\ \/ r.state = 1 /\ s.goto = r.up[1] /\ s.up = r.up
           \/ r.state = 4 /\ s.goto = r.up[4] /\ s.up = Forgotten4(r)
           \/ r.state = 5 /\ s.goto = r.up[5] /\ s.up = r.up
           \/ r.state = 6 /\ s.goto \in {r.up[6], 2, 4} /\ s.up = r.up
           \/ r.state \in {8, 11} /\ s.goto = 9 /\ s.up = r.up
        /\ s.slots = r.slots /\ s.current = r.current
    BY <1>10 DEF Proceeds
  <2>2. r.state \in 1 .. 11 \ {3}
    BY <2>1
  <2>3. \A x : For(x, r, w) => For(x, s, w)
    BY <1>1, <2>1, <1>5, ForSame
  <2>4. s.up[2] = r.up[2] /\ s.up[6] = r.up[6] /\ s.up[4] \in {r.up[4], None} /\ (r.state = 4 => s.up[4] = None)
    BY <1>1, <2>1 DEF Forgotten4, Cachers
  <2>5. For(s.goto, s, w)
    <3>1. CASE r.state \in {1, 5}
      <4>1. s.goto \notin 7 .. 11
        BY <1>1, <2>1, <3>1, NoneApart DEF Shape, StateIds
      <4> QED
        BY <1>3, <4>1
    <3>2. CASE r.state = 4
      BY <1>8, <2>1, <2>2, <2>3, <3>2
    <3>3. CASE r.state = 6
      <4>1. Through6(r)
        BY <1>1, <3>3 DEF Through6
      <4> QED
        BY <1>3, <1>8, <2>1, <2>2, <2>3, <3>3, <4>1
    <3>4. CASE r.state \in {8, 11}
      <4>1. w.what \in {"play", "create"}
        BY <1>8, <2>2, <3>4 DEF For
      <4>2. For(9, s, w)
        BY <4>1 DEF For
      <4> QED
        BY <2>1, <3>4, <4>2
    <3> QED
      BY <2>1, <3>1, <3>2, <3>3, <3>4
  <2>6. Through6(s) => Through6(r)
    BY <1>1, <2>1, <2>4, NoneApart, SMTT(60) DEF Through6, Shape, StateIds
  <2>7. LoggingIn(r) => LoggingIn(s)
    BY <1>1, <2>1, <2>4, NoneApart DEF LoggingIn, Shape, StateIds
  <2>8. For(s.up[4], s, w)
    BY <1>3, <1>8, <2>2, <2>3, <2>4, NoneApart DEF StateIds
  <2> QED
    BY <1>1, <1>8, <2>2, <2>3, <2>4, <2>5, <2>6, <2>7, <2>8 DEF Purposed
<1>11. CASE Claims(s, r)
  <2>1. r.state = 10 /\ s.goto = 11 /\ s.up = r.up
    BY <1>11 DEF Claims
  <2>2. r.state \in 1 .. 11 \ {3}
    BY <2>1
  <2>3. w = [what |-> "create", who |-> r.create] /\ r.named
    BY <1>8, <2>1, <2>2 DEF For
  <2>4. For(10, s, w) /\ For(11, s, w)
    BY <1>1, <1>5, <2>3 DEF For
  <2>5. r.up[4] \notin {7, 8} /\ (Through6(r) => r.up[6] \notin {7, 8})
    BY <1>8, <2>2, <2>3 DEF For
  <2>6. For(6, s, w) /\ For(10, s, w) /\ For(None, s, w) /\ For(2, s, w)
    BY <1>3, <2>4, NoneApart DEF StateIds
  <2>7. For(r.up[4], s, w)
    BY <1>1, <2>5, <2>6 DEF Shape
  <2>8. Through6(s) => Through6(r)
    BY <1>1, <2>1, NoneApart DEF Through6, StateIds
  <2>9. Through6(s) => For(r.up[6], s, w)
    BY <1>1, <2>5, <2>6, <2>8 DEF Shape
  <2> QED
    BY <1>1, <1>8, <2>1, <2>2, <2>3, <2>4, <2>7, <2>9 DEF Purposed
<1> QED
  BY <1>6, <1>4, <1>7, <1>9, <1>10, <1>11 DEF Turned

\* The announcements A that a client with the request w takes for its answer.
Concludes(A, w) ==
    \/ A \cap Errors # {}
    \/ w.what = "login" /\ Event(5) \in A
    \/ w.what = "delete" /\ Event(8) \in A
    \/ w.what \in {"play", "create"} /\ Event(24) \in A

\* Those of a request that has come to its end.
Outcomes(A, w) ==
    /\ Event(8) \in A => w.what = "delete"
    /\ Event(24) \in A => w.what \in {"play", "create"}
    /\ Event(5) \in A => w # NoWish

\* No other event is an error or an outcome.
LEMMA PlainEnds ==
    ASSUME NEW A, A \subseteq Plain \cup Doing
    PROVE  A \cap Errors = {} /\ Event(5) \notin A /\ Event(8) \notin A /\ Event(24) \notin A
BY DEF Plain, Doing, Errors, Event

\* The events that end a request are no errors, and no two of them are one.
LEMMA EventsApart ==
    /\ \A e \in Nat : Event(e) \notin Errors
    /\ Event(5) # Event(6) /\ Event(5) # Event(8) /\ Event(5) # Event(24)
    /\ Event(8) # Event(6) /\ Event(8) # Event(24) /\ Event(24) # Event(6)
BY DEF Errors, Event

\* A completed operation announces only the outcome of what it is for, and is
\* on its way to a state of rest when it does.
LEMMA TurnedOutcomes ==
    ASSUME NEW s \in Mediator, NEW r \in Mediator, Resting(r), Turned(s, r), NEW w, Purposed(r, w)
    PROVE  /\ Outcomes(Announced(s), w)
           /\ Concludes(Announced(s), w) => Target(s) \in Idle
<1> DEFINE A == Announced(s)
<1>1. /\ r.goto = None /\ Shape(r) /\ r.state \in StateIds /\ s.state = r.state
  BY FieldsTyped DEF Resting, Turned
<1>2. CASE Stays(s, r) \/ Proceeds(s, r) \/ Claims(s, r)
  <2>1. A \subseteq Plain
    BY <1>2 DEF Stays, Proceeds, Claims
  <2> HIDE DEF A
  <2>2. A \cap Errors = {} /\ Event(5) \notin A /\ Event(8) \notin A /\ Event(24) \notin A
    BY <2>1, PlainEnds
  <2> QED
    BY <2>2 DEF Outcomes, Concludes, A
<1>3. ASSUME r.state \in 1 .. 11 \ {3}
      PROVE  /\ w # NoWish /\ For(r.state, r, w)
             /\ w.what = "login" => LoggingIn(r)
  BY <1>1, <1>3 DEF Purposed, Target, Idle
<1>4. CASE Breaks(s, r)
  <2>1. s.goto \in {0, 3} /\ A \subseteq Errors \cup {p \in {Event(8)} : r.state = 7}
    BY <1>4 DEF Breaks
  <2> HIDE DEF A
  <2>2. Target(s) \in Idle
    BY <2>1, NoneApart DEF Target, Idle, StateIds
  <2>3. Event(5) \notin A /\ Event(24) \notin A /\ (Event(8) \in A => r.state = 7)
    BY <2>1, EventsApart
  <2>4. r.state = 7 => w.what = "delete"
    BY <1>3 DEF For
  <2> QED
    BY <2>2, <2>3, <2>4 DEF Outcomes, A
<1>5. CASE Submits(s, r)
  <2>1. r.state = 9 /\ s.goto = 12 /\ A \subseteq {Event(24)}
    BY <1>5 DEF Submits
  <2> HIDE DEF A
  <2>2. Target(s) \in Idle
    BY <2>1, NoneApart DEF Target, Idle, StateIds
  <2>3. Event(5) \notin A /\ Event(8) \notin A
    BY <2>1, EventsApart
  <2>4. w.what \in {"play", "create"}
    BY <1>3, <2>1 DEF For
  <2> QED
    BY <2>2, <2>3, <2>4 DEF Outcomes, A
<1>6. CASE LogsIn(s, r)
  <2>1. r.state = 2 /\ s.goto = (IF r.up[2] \in {0, None} THEN 3 ELSE r.up[2]) /\ A \subseteq {Event(5), Event(6)}
    BY <1>6 DEF LogsIn
  <2> HIDE DEF A
  <2>2. Event(8) \notin A /\ Event(24) \notin A /\ A \cap Errors = {}
    <3>1. Event(5) \notin Errors /\ Event(6) \notin Errors
      BY EventsApart
    <3> QED
      BY <2>1, <3>1, EventsApart
  <2>3. w # NoWish
    BY <1>3, <2>1
  <2>4. w.what = "login" => Target(s) \in Idle
    <3>1. w.what = "login" => r.up[2] \in {0, 13}
      BY <1>1, <1>3, <2>1 DEF LoggingIn
    <3> QED
      BY <2>1, <3>1, NoneApart DEF Target, Idle, StateIds
  <2> QED
    BY <2>2, <2>3, <2>4 DEF Outcomes, Concludes, A
<1> QED
  BY <1>2, <1>4, <1>5, <1>6 DEF Turned

\* The answer to a challenge.
Hashes == [what |-> "answer", who |-> None]

\* A completed operation sends nothing but the answer to a challenge, and then it
\* switches to no other state.
LEMMA CompletedAsks ==
    ASSUME NEW s \in Mediator, NEW r \in Mediator, r.goto = None, NEW i \in Items, CompletedResult(s, r, i)
    PROVE  \/ \A k \in Links : s.link[k].asked \in {r.link[k].asked, <<>>}
           \/ /\ s.goto = None
              /\ \A k \in Links : s.link[k].asked \in {r.link[k].asked, Append(r.link[k].asked, Hashes)}
<1> DEFINE P == \A k \in Links : s.link[k].asked \in {r.link[k].asked, <<>>}
<1>1. ASSUME NEW kind \in {"auth", "margin"}, NEW st \in {"ConnectActive", "Closed"}
      PROVE  [FreeLink EXCEPT !.kind = kind, !.st = st].asked = <<>>
  BY DEF FreeLink
<1>2. CASE s.link = r.link
  BY <1>2
<1>3. CASE \E F, t, E : Moves(s, r, F, t, E) /\ "link" \notin F
  BY <1>2, <1>3 DEF Moves, SameBut, FieldNames
<1>4. CASE Opened(s, r, "auth", {"ConnectActive"})
  <2>1. ASSUME NEW k \in Links PROVE s.link[k].asked \in {r.link[k].asked, <<>>}
    <3>1. CASE SameLink(s.link[k], r.link[k], {"st"})
      BY <3>1 DEF SameLink, LinkFieldNames
    <3>2. CASE s.link[k] = [FreeLink EXCEPT !.kind = "auth", !.st = "ConnectActive"]
      BY <1>1, <3>2
    <3> QED
      BY <1>4, <3>1, <3>2 DEF Opened
  <2> QED
    BY <2>1
<1>5. CASE AuthLost(s, r) \/ AuthResult(s, r) \/ AuthReply(s, r, i.msg.characters)
  <2>1. CASE AuthLost(s, r)
    BY <1>3, <2>1 DEF AuthLost
  <2>2. CASE AuthResult(s, r)
    <3>1. CASE Moves(s, r, {}, r.up[1], {Event(0)}) \/ Moves(s, r, {"flag2c", "attempts"}, 0, Errors)
      BY <1>3, <3>1
    <3>2. \/ s = r
          \/ Moves(s, r, {}, r.up[1], {Event(0)}) \/ Moves(s, r, {"flag2c", "attempts"}, 0, Errors)
          \/ Opened(s, r, "auth", {"ConnectActive"})
      BY <2>2 DEF AuthResult
    <3> QED
      BY <1>2, <1>4, <3>1, <3>2
  <2>3. CASE AuthReply(s, r, i.msg.characters)
    BY <1>2, <1>3, <2>3 DEF AuthReply
  <2> QED
    BY <1>5, <2>1, <2>2, <2>3
<1>6. CASE MarginOpened(s, r)
  <2>1. ASSUME NEW k \in Links PROVE s.link[k].asked \in {r.link[k].asked, <<>>}
    BY <1>1, <1>6 DEF MarginOpened
  <2> QED
    BY <2>1
<1>7. CASE MarginLost(s, r) \/ MarginResult(s, r)
  BY <1>2, <1>3, <1>6, <1>7 DEF MarginLost, MarginResult
<1>8. CASE CopyResult(s, r, i.link)
  <2>1. ASSUME NEW k \in Links PROVE s.link[k].asked \in {r.link[k].asked, <<>>}
    BY <1>8 DEF CopyResult, SameLink, LinkFieldNames, Items
  <2> QED
    BY <2>1
<1>9. CASE Begun(s, r)
  <2>1. ASSUME NEW k \in Links PROVE s.link[k].asked \in {r.link[k].asked, <<>>}
    BY <1>9 DEF Begun, SameLink, LinkFieldNames
  <2> QED
    BY <2>1
<1>10. CASE MarginClosing(s, r)
  <2>1. ASSUME NEW k \in Links PROVE s.link[k].asked \in {r.link[k].asked, <<>>}
    BY <1>10 DEF MarginClosing, SameLink, LinkFieldNames
  <2> QED
    BY <2>1
<1>11. CASE ChallengeResult(s, r)
  <2>1. CASE Moves(s, r, {}, 0, Errors)
    BY <1>3, <2>1
  <2>2. CASE /\ SameBut(s, r, {"F14", "link"})
             /\ \/ s.link[r.margin].asked = r.link[r.margin].asked
                \/ s.link[r.margin].asked = Append(r.link[r.margin].asked, [what |-> "answer", who |-> None])
             /\ \A k \in Links \ {r.margin} : s.link[k] = r.link[k]
    <3>1. s.goto = None
      BY <2>2 DEF SameBut, FieldNames
    <3> QED
      BY <2>2, <3>1 DEF Hashes
  <2> QED
    BY <1>11, <2>1, <2>2 DEF ChallengeResult
<1>12. CASE MarginReply(s, r)
  <2>1. CASE SectionResult(s, r, 11) \/ SectionResult(s, r, 22)
    <3>1. PICK t, E : Moves(s, r, {"profile", "seen", "expected"}, t, E)
      BY <2>1 DEF SectionResult
    <3> QED
      BY <1>3, <3>1
  <2>2. CASE ClaimResult(s, r)
    BY <1>2, <1>3, <2>2 DEF ClaimResult
  <2>3. CASE VerdictResult(s, r) \/ DeletedResult(s, r)
    BY <1>9, <1>10, <2>3 DEF VerdictResult, DeletedResult
  <2>4. CASE SubmittedResult(s, r)
    BY <1>3, <1>10, <2>4 DEF SubmittedResult
  <2>5. CASE Moves(s, r, {}, 3, Errors) \/ Moves(s, r, {"current", "named"}, 3, Errors)
    BY <1>3, <2>5
  <2> QED
    BY <1>2, <1>11, <1>12, <2>1, <2>2, <2>3, <2>4, <2>5 DEF MarginReply
<1>13. CASE HardClosed(s, r, i.link)
  <2>1. ASSUME NEW k \in Links PROVE s.link[k].asked \in {r.link[k].asked, <<>>}
    BY <1>13 DEF HardClosed, SameLink, LinkFieldNames
  <2> QED
    BY <2>1
<1>14. CASE Moves(s, r, {"unread"}, r.goto, {})
  BY <1>3, <1>14
<1> QED
  BY <1>2, <1>5, <1>7, <1>8, <1>12, <1>13, <1>14 DEF CompletedResult

-----------------------------------------------------------------------------
(* What a call of the client turns it to.                                  *)

\* What a call of the client changes, and where it switches to.
Ordered(h, w) ==
    /\ h.state = m.state /\ h.up = m.up /\ h.gate = m.gate /\ Announced(h) = {}
    /\ h.margin \in {m.margin, None}
    /\ m.gate => h.gate
    /\ ~m.gate => Len(h.slots) <= Len(m.slots)
    /\ \/ h.goto = None /\ w = wish /\ wish = NoWish
       \/ /\ h.goto = None /\ w = wish
          /\ h.slots = m.slots /\ h.current = m.current
          /\ h.create = m.create /\ h.named = m.named
       \/ h.goto = None /\ ~h.ready
       \/ h.goto = 0
       \/ h.goto = 13 /\ m.state = 12
       \/ /\ h.goto = 2 /\ m.state \in {0, 5, 13} /\ m.ready
          /\ wish = NoWish \/ wish.what = "login"
          /\ w.what = "login"
       \/ /\ h.goto \in {7, 8} /\ m.state > 2 /\ m.ready
          /\ wish = NoWish \/ wish.what = "login" \/ (h.goto = 7 /\ wish.what = "delete")
          /\ w = [what |-> IF h.goto = 7 THEN "delete" ELSE "play", who |-> SlotName(h)]
       \/ /\ h.goto = 10 /\ m.state = 3 /\ m.ready
          /\ w = [what |-> "create", who |-> h.create] /\ h.named

\* A mediator at rest has announced nothing.
LEMMA QuietRest ==
    ASSUME Core
    PROVE  m \in Mediator /\ m.goto = None /\ Announced(m) = {} /\ m.state \in StateIds
<1>1. m \in Mediator /\ m.goto = None /\ m.posted = <<>> /\ m.after = <<>>
  BY DEF Core, AtRest
<1>2. Announced(m) = {}
  BY <1>1 DEF Announced, ToSet
<1> QED
  BY <1>1, <1>2, FieldsTyped

\* Every call is of this kind.
LEMMA CalledOrdered ==
    ASSUME Core, NEW h \in Mediator, NEW w, Called(h, w)
    PROVE  Ordered(h, w)
<1> DEFINE A == Announced(h)
           B == Announced(m)
           n == Len(m.slots)
<1>1. m \in Mediator /\ m.goto = None /\ B = {} /\ m.state \in StateIds
  BY QuietRest
<1>2. m.slots \in Seq(Characters) /\ n \in Nat /\ Len(h.slots) \in Nat
  BY <1>1, FieldsTyped
<1>3. ASSUME NEW F \in SUBSET {"link", "flag2c", "create", "named", "current"}, NEW t, Moves(h, m, F, t, {})
      PROVE  /\ h.state = m.state /\ h.up = m.up /\ h.gate = m.gate /\ A = {} /\ h.margin = m.margin
             /\ h.slots = m.slots /\ Len(h.slots) <= n /\ h.goto = t
  <2>1. /\ h.state = m.state /\ h.up = m.up /\ h.gate = m.gate /\ h.margin = m.margin
        /\ h.slots = m.slots /\ h.goto = t /\ A \subseteq B
    BY <1>3 DEF Moves, SameBut, FieldNames
  <2> HIDE DEF A, B
  <2> QED
    BY <1>1, <1>2, <2>1 DEF n
<1>4. ASSUME NEW F \in SUBSET {"link", "flag2d", "F14", "auth", "margin", "ready", "slots", "current", "fresh", "callbacks"},
             SameBut(h, m, F)
      PROVE  /\ h.state = m.state /\ h.up = m.up /\ h.gate = m.gate /\ A = {}
             /\ h.goto = None /\ h.create = m.create /\ h.named = m.named
  <2>1. /\ h.state = m.state /\ h.up = m.up /\ h.gate = m.gate /\ h.goto = m.goto
        /\ h.create = m.create /\ h.named = m.named
        /\ h.posted = m.posted /\ h.after = m.after
    BY <1>4 DEF SameBut, FieldNames
  <2>2. A = B
    BY <2>1 DEF Announced
  <2> QED
    BY <1>1, <2>1, <2>2
<1>5. CASE h = m /\ w = wish
  BY <1>1, <1>2, <1>5 DEF Ordered
<1>6. CASE /\ m.ready /\ m.state \notin 1 .. 4 \cup 6 .. 12
           /\ wish = NoWish \/ wish.what = "login"
           /\ w = [what |-> "login", who |-> None]
           /\ Moves(h, m, {}, 2, {})
  <2>1. /\ h.state = m.state /\ h.up = m.up /\ h.gate = m.gate /\ A = {} /\ h.margin = m.margin
        /\ Len(h.slots) <= n /\ h.goto = 2
    BY <1>3, <1>6
  <2>2. m.state \in {0, 5, 13}
    BY <1>1, <1>6 DEF StateIds
  <2> QED
    BY <1>6, <2>1, <2>2 DEF Ordered
<1>7. CASE \E i \in Slots, t \in {7, 8} :
              /\ m.ready /\ m.state > 2
              /\ wish = NoWish \/ wish.what = "login" \/ (t = 7 /\ wish.what = "delete")
              /\ w = [what |-> IF t = 7 THEN "delete" ELSE "play", who |-> m.slots[i + 1]]
              /\ Moves(h, m, {"current"}, t, {}) /\ h.current = i
  <2>1. PICK i \in Slots, t \in {7, 8} :
              /\ m.ready /\ m.state > 2
              /\ wish = NoWish \/ wish.what = "login" \/ (t = 7 /\ wish.what = "delete")
              /\ w = [what |-> IF t = 7 THEN "delete" ELSE "play", who |-> m.slots[i + 1]]
              /\ Moves(h, m, {"current"}, t, {}) /\ h.current = i
    BY <1>7
  <2>2. /\ h.state = m.state /\ h.up = m.up /\ h.gate = m.gate /\ A = {} /\ h.margin = m.margin
        /\ h.slots = m.slots /\ Len(h.slots) <= n /\ h.goto = t
    BY <1>3, <2>1
  <2>3. SlotName(h) = m.slots[i + 1]
    <3>1. i \in 0 .. n - 1 /\ i \in Nat
      BY SlotIs
    <3>2. i # None /\ ~(i >= n)
      BY <1>2, <3>1, LoginAssumption
    <3> QED
      BY <2>1, <2>2, <3>2 DEF SlotName
  <2> QED
    BY <2>1, <2>2, <2>3 DEF Ordered
<1>8. CASE \E c \in Characters :
              /\ m.ready /\ m.state = 3
              /\ w = [what |-> "create", who |-> c]
              /\ Moves(h, m, {"create", "named"}, 10, {}) /\ h.create = c /\ h.named
  <2>1. /\ h.state = m.state /\ h.up = m.up /\ h.gate = m.gate /\ A = {} /\ h.margin = m.margin
        /\ Len(h.slots) <= n /\ h.goto = 10
    BY <1>3, <1>8
  <2> QED
    BY <1>8, <2>1 DEF Ordered
<1>9. CASE w = wish /\ wish = NoWish /\ RemovedRow(h, m)
  <2>1. CASE h = m
    BY <1>5, <1>9, <2>1
  <2>2. CASE \E k \in 1 .. n : SameBut(h, m, {"slots"}) /\ h.slots = RemoveAt(m.slots, k)
    <3>1. /\ h.state = m.state /\ h.up = m.up /\ h.gate = m.gate /\ A = {} /\ h.goto = None
      BY <1>4, <2>2
    <3>2. h.margin = m.margin
      BY <2>2 DEF SameBut, FieldNames
    <3>3. Len(h.slots) <= n
      <4>1. PICK k \in 1 .. n : h.slots = RemoveAt(m.slots, k)
        BY <2>2
      <4>2. Len(h.slots) = n - 1
        BY <1>2, <4>1, RemoveAtIs
      <4> QED
        BY <1>2, <4>2
    <3> QED
      BY <1>9, <3>1, <3>2, <3>3 DEF Ordered
  <2> QED
    BY <1>9, <2>1, <2>2 DEF RemovedRow
<1>10. CASE w = NoWish /\ Moves(h, m, {"link", "flag2c"}, 0, {})
  <2>1. /\ h.state = m.state /\ h.up = m.up /\ h.gate = m.gate /\ A = {} /\ h.margin = m.margin
        /\ Len(h.slots) <= n /\ h.goto = 0
    BY <1>3, <1>10
  <2> QED
    BY <2>1 DEF Ordered
<1>11. CASE w = wish /\ (SameBut(h, m, {"link", "flag2d", "F14"}) \/ SameBut(h, m, {"callbacks"}))
  <2>1. /\ h.state = m.state /\ h.up = m.up /\ h.gate = m.gate /\ A = {} /\ h.goto = None
        /\ h.create = m.create /\ h.named = m.named
    BY <1>4, <1>11
  <2>2. h.margin = m.margin /\ h.slots = m.slots /\ h.current = m.current
    BY <1>11 DEF SameBut, FieldNames
  <2> QED
    BY <1>2, <1>11, <2>1, <2>2 DEF Ordered
<1>12. CASE m.state = 12 /\ w = wish /\ Moves(h, m, {}, 13, {})
  <2>1. /\ h.state = m.state /\ h.up = m.up /\ h.gate = m.gate /\ A = {} /\ h.margin = m.margin
        /\ Len(h.slots) <= n /\ h.goto = 13
    BY <1>3, <1>12
  <2> QED
    BY <1>12, <2>1 DEF Ordered
<1>13. CASE SameBut(h, m, ClearedFields) /\ h.margin = None /\ ~h.ready /\ h.slots = <<>>
  <2>1. /\ h.state = m.state /\ h.up = m.up /\ h.gate = m.gate /\ A = {} /\ h.goto = None
    BY <1>4, <1>13 DEF ClearedFields
  <2>2. Len(h.slots) <= n
    BY <1>2, <1>13
  <2> QED
    BY <1>13, <2>1, <2>2 DEF Ordered
<1> QED
  BY <1>5, <1>6, <1>7, <1>8, <1>9, <1>10, <1>11, <1>12, <1>13 DEF Called

\* A call keeps who may send whom, and what waits for the login.
LEMMA OrderedShape ==
    ASSUME Core, Shape(m), Gate(m), NEW h \in Mediator, NEW w, Ordered(h, w)
    PROVE  Shape(h) /\ Gate(h)
<1>1. m.goto = None /\ m.state \in StateIds /\ h.state = m.state /\ h.up = m.up
  BY QuietRest DEF Ordered
<1>2. \/ h.goto \in {None, 0}
      \/ h.goto = 13 /\ m.state = 12
      \/ h.goto = 2 /\ m.state \in {0, 5, 13}
      \/ h.goto \in {7, 8} /\ m.state > 2
      \/ h.goto = 10 /\ m.state = 3
  BY DEF Ordered
<1>3. Shape(h)
  BY <1>1, <1>2, NoneApart, SMTT(60) DEF Shape, StateIds
<1>4. ~h.gate => h.slots = <<>>
  <2>1. SUFFICES ASSUME ~h.gate PROVE h.slots = <<>>
    OBVIOUS
  <2>2. m.slots = <<>> /\ Len(h.slots) <= Len(m.slots)
    BY <2>1 DEF Ordered, Gate
  <2>3. h.slots \in Seq(Characters) /\ Len(h.slots) \in Nat /\ Len(m.slots) = 0
    BY <2>2, FieldsTyped
  <2>4. Len(h.slots) = 0
    BY <2>2, <2>3
  <2> QED
    BY <2>3, <2>4
<1>5. ~h.gate => ~m.gate /\ h.margin = None
  BY DEF Ordered, Gate
<1>6. Gate(h)
  BY <1>1, <1>2, <1>4, <1>5 DEF Gate, StateIds
<1> QED
  BY <1>3, <1>6

\* A call keeps the purpose, which is the request that it makes.
LEMMA OrderedPurposed ==
    ASSUME Core, Shape(m), NEW h \in Mediator, NEW w, Ordered(h, w), h.ready \/ h.goto # None,
           Purposed(m, wish), m.state # 4 => m.up[4] = None
    PROVE  Purposed(h, w)
<1>1. m.goto = None /\ m.state \in StateIds /\ h.state = m.state /\ h.up = m.up
  BY QuietRest DEF Ordered
<1>2. \A x, r, v : x \notin 7 .. 11 => For(x, r, v)
  BY SMT DEF For
<1>3. m.state \notin Idle =>
         /\ wish # NoWish /\ For(m.state, m, wish) /\ For(m.up[4], m, wish)
         /\ Through6(m) => For(m.up[6], m, wish)
         /\ wish.what = "login" => LoggingIn(m)
  BY <1>1 DEF Purposed, Target
<1>4. CASE h.goto = None /\ w = wish /\ wish = NoWish
  <2>1. m.state \in Idle
    BY <1>3, <1>4 DEF Idle
  <2> QED
    BY <1>1, <1>4, <2>1 DEF Purposed, Target
<1>5. CASE /\ h.goto = None /\ w = wish
           /\ h.slots = m.slots /\ h.current = m.current
           /\ h.create = m.create /\ h.named = m.named
  <2>1. \A x : For(x, m, w) => For(x, h, w)
    BY <1>5, ForSame
  <2>2. Target(h) = Target(m) /\ (Through6(h) <=> Through6(m)) /\ (LoggingIn(h) <=> LoggingIn(m))
    BY <1>1, <1>5 DEF Target, Through6, LoggingIn
  <2> QED
    BY <1>1, <1>5, <2>1, <2>2 DEF Purposed
<1>6. CASE h.goto \in {0, 13}
  BY <1>6, NoneApart DEF Purposed, Target, Idle, StateIds
<1>7. CASE /\ h.goto = 2 /\ m.state \in {0, 5, 13}
           /\ wish = NoWish \/ wish.what = "login"
           /\ w.what = "login"
  <2>1. m.state \in {0, 13}
    <3>1. ~(m.state = 5)
      BY <1>1, <1>3, <1>7 DEF LoggingIn, Idle
    <3> QED
      BY <1>7, <3>1
  <2>2. m.up[4] = None
    BY <2>1
  <2>3. ~Through6(h) /\ LoggingIn(h)
    BY <1>1, <1>7, <2>1, <2>2, NoneApart DEF Through6, LoggingIn, StateIds
  <2>4. For(h.state, h, w) /\ For(h.goto, h, w) /\ For(h.up[4], h, w)
    BY <1>1, <1>2, <1>7, <2>1, <2>2, NoneApart DEF StateIds
  <2>5. w # NoWish
    BY <1>7 DEF NoWish
  <2> QED
    BY <1>1, <2>3, <2>4, <2>5 DEF Purposed
<1>8. CASE /\ h.goto \in {7, 8} /\ m.state > 2
           /\ wish = NoWish \/ wish.what = "login" \/ (h.goto = 7 /\ wish.what = "delete")
           /\ w = [what |-> IF h.goto = 7 THEN "delete" ELSE "play", who |-> SlotName(h)]
  <2>1. w # NoWish /\ w.what # "login" /\ For(h.goto, h, w)
    BY <1>8 DEF NoWish, For
  <2>2. CASE m.state \in Idle
    <3>1. m.up[4] = None
      BY <2>2 DEF Idle
    <3>2. ~Through6(h)
      BY <1>1, <1>8, <2>2, <3>1, NoneApart DEF Through6, Idle, StateIds
    <3>3. For(h.state, h, w) /\ For(h.up[4], h, w)
      BY <1>1, <1>2, <2>2, <3>1, NoneApart DEF StateIds, Idle
    <3> QED
      BY <1>1, <2>1, <3>2, <3>3 DEF Purposed
  <2>3. CASE m.state \notin Idle
    <3>1. h.goto = 7 /\ wish.what = "delete"
      BY <1>1, <1>3, <1>8, <2>3, NoneApart DEF LoggingIn, StateIds
    <3>2. \A x : For(x, m, wish) => x \notin 8 .. 11
      BY <3>1 DEF For
    <3>3. For(7, h, w)
      BY <2>1, <3>1
    <3>4. \A x : For(x, m, wish) => For(x, h, w)
      <4>1. ASSUME NEW x, For(x, m, wish) PROVE For(x, h, w)
        <5>1. x = 7 \/ x \notin 7 .. 11
          BY <3>2, <4>1
        <5> QED
          BY <1>2, <3>3, <5>1
      <4> QED
        BY <4>1
    <3>5. Through6(h) => Through6(m)
      BY <1>1, <3>1, NoneApart DEF Through6, StateIds
    <3> QED
      BY <1>1, <1>3, <2>1, <2>3, <3>4, <3>5 DEF Purposed
  <2> QED
    BY <2>2, <2>3
<1>9. CASE h.goto = 10 /\ m.state = 3 /\ w = [what |-> "create", who |-> h.create] /\ h.named
  <2>1. w # NoWish /\ w.what # "login" /\ For(h.goto, h, w)
    BY <1>9 DEF NoWish, For
  <2>2. m.up[4] = None
    BY <1>9
  <2>3. ~Through6(h)
    BY <1>1, <1>9, <2>2, NoneApart DEF Through6, StateIds
  <2>4. For(h.state, h, w) /\ For(h.up[4], h, w)
    BY <1>1, <1>2, <1>9, <2>2, NoneApart DEF StateIds
  <2> QED
    BY <1>1, <2>1, <2>3, <2>4 DEF Purposed
<1> QED
  BY <1>4, <1>5, <1>6, <1>7, <1>8, <1>9 DEF Ordered

-----------------------------------------------------------------------------
(* Outcomes go to the client that waits for them.                          *)

\* Entering states posts neither errors nor outcomes, and a state of rest is
\* where the handler ends.
LEMMA SettledEnds ==
    ASSUME NEW h \in Mediator
    PROVE  LET r == Settled(h) IN
           /\ \A e \in {5, 8, 24} : Posted(r, "event", e) => Event(e) \in Announced(h)
           /\ \A w : Answers(r, w) => Concludes(Announced(h), w)
           /\ r.goto = None
           /\ Target(h) \in Idle => r.state = Target(h)
<1> DEFINE r == Settled(h)
           e == Rested(h)
           A == Announced(h)
           P == ToSet(r.posted)
<1>1. /\ r \in Mediator /\ SameBut(r, e, {"posted", "after"}) /\ P = Announced(e)
      /\ e.goto = None /\ Announced(e) \subseteq A \cup Doing
      /\ h.goto = None => e = h
      /\ h.goto \in {0, 1, 3, 4, 9, 11, 12, 13} => e.state = h.goto
  BY SettledIs, RestedIs
<1>2. r.goto = None /\ r.state = e.state
  BY <1>1 DEF SameBut, FieldNames
<1>3. Doing \cap Errors = {} /\ Event(5) \notin Doing /\ Event(8) \notin Doing /\ Event(24) \notin Doing
  BY PlainEnds
<1>4. \A i \in DOMAIN r.posted : r.posted[i] \in P /\ r.posted[i] \in Posting
  <2>1. r.posted \in Seq(Posting)
    BY <1>1, FieldsTyped
  <2> QED
    BY <2>1 DEF ToSet
<1> HIDE DEF P, A, r, e
<1>5. \A n \in {5, 8, 24} : Posted(r, "event", n) => Event(n) \in A
  <2>1. ASSUME NEW n \in {5, 8, 24}, Posted(r, "event", n) PROVE Event(n) \in A
    <3>1. Event(n) \in P
      BY <2>1 DEF Posted, Event, P
    <3> QED
      BY <1>1, <1>3, <3>1
  <2> QED
    BY <2>1
<1>6. ASSUME NEW w, Answers(r, w) PROVE Concludes(A, w)
  <2>1. CASE \E i \in DOMAIN r.posted : r.posted[i].kind = "error"
    <3>1. PICK p \in P : p \in Errors
      BY <1>4, <2>1 DEF Errors
    <3>2. p \in A
      BY <1>1, <1>3, <3>1
    <3> QED
      BY <3>1, <3>2 DEF Concludes
  <2> QED
    BY <1>5, <1>6, <2>1 DEF Answers, Concludes
<1>7. ASSUME Target(h) \in Idle PROVE r.state = Target(h)
  BY <1>1, <1>2, <1>7 DEF Target, Idle
<1> QED
  BY <1>2, <1>5, <1>6, <1>7 DEF r, A

\* The state machine is for the request under way, unless state 4 was once left
\* with a cached sender.
PurposeInv ==
    /\ Shape(m) /\ Gate(m)
    /\ m.ready /\ "sender" \notin left =>
          /\ m.state # 4 => m.up[4] = None
          /\ Purposed(m, wish)

\* What a step made of a handler does to all this before the states are entered.
LEMMA HandledSound ==
    ASSUME TypeOK, Core, PurposeInv, NEW h, NEW q, NEW w, Handles(h, q, w)
    PROVE  /\ Shape(h) /\ Gate(h)
           /\ (h.ready \/ h.goto # None) /\ m.ready /\ "sender" \notin left =>
                 /\ Purposed(h, w)
                 /\ Concludes(Announced(h), w) => Target(h) \in Idle
           /\ m.up[4] = None => h.up[4] = None
<1>1. m \in Mediator /\ m.goto = None /\ Announced(m) = {} /\ m.state \in StateIds /\ h \in Mediator
  BY QuietRest DEF Handles
<1>2. Shape(m) /\ Gate(m)
  BY DEF PurposeInv
<1>3. CASE Called(h, w)
  <2>1. Ordered(h, w)
    BY <1>1, <1>3, CalledOrdered
  <2>2. Shape(h) /\ Gate(h)
    BY <1>1, <1>2, <2>1, OrderedShape
  <2>3. Announced(h) = {} /\ h.up = m.up
    BY <2>1 DEF Ordered
  <2>4. ~Concludes(Announced(h), w)
    BY <2>3 DEF Concludes
  <2>5. (h.ready \/ h.goto # None) /\ m.ready /\ "sender" \notin left => Purposed(h, w)
    BY <1>1, <1>2, <2>1, OrderedPurposed DEF PurposeInv
  <2> QED
    BY <2>2, <2>3, <2>4, <2>5
<1>4. CASE m.ready /\ queue # <<>> /\ w = wish /\ CompletedResult(h, m, Head(queue))
  <2>1. Resting(m) /\ Head(queue) \in Items
    BY <1>1, <1>2, <1>4, HeadIs DEF Resting
  <2>2. Turned(h, m)
    BY <1>1, <1>4, <2>1, CompletedTurned
  <2>3. Shape(h) /\ Gate(h) /\ h.up[4] \in {m.up[4], None}
    BY <1>1, <2>1, <2>2, TurnedShape
  <2>4. m.ready /\ "sender" \notin left =>
           /\ Purposed(h, w)
           /\ Concludes(Announced(h), w) => Target(h) \in Idle
    BY <1>1, <1>4, <2>1, <2>2, TurnedPurposed, TurnedOutcomes DEF PurposeInv
  <2> QED
    BY <2>3, <2>4
<1> QED
  BY <1>3, <1>4 DEF Handles

\* A step made of a handler keeps the purpose, or notes that a sender was left behind.
LEMMA TakenPurpose ==
    ASSUME TypeOK, Core, PurposeInv, NEW h, NEW q, NEW w, Handles(h, q, w)
    PROVE  PurposeInv'
<1> DEFINE r == Settled(h)
           P == m.ready /\ h.ready /\ "sender" \notin left
           Q == P /\ m.state # 4
<1>1. /\ h \in Mediator /\ Fit(h) /\ m' = Tidy(r, q) /\ q \in Seq(Items)
      /\ left \subseteq left'
      /\ m.state = 4 /\ r.state # 4 /\ r.up[4] # None => "sender" \in left'
      /\ wish' = IF Answers(r, w) THEN NoWish ELSE w
  BY DEF Handles, Take
<1>2. /\ Shape(h) /\ Gate(h)
      /\ P => Purposed(h, w)
      /\ P => (Concludes(Announced(h), w) => Target(h) \in Idle)
      /\ Q => Clear4(h)
  <2>1. m.up[4] = None => h.up[4] = None
    BY HandledSound
  <2> QED
    BY <2>1, HandledSound DEF Clear4, PurposeInv
<1>3. Sound(r, h, w, P, Q)
  <2> HIDE DEF r, P, Q
  <2> QED
    BY <1>1, <1>2, SettledSound DEF r
<1>4. /\ \A v : Answers(r, v) => Concludes(Announced(h), v)
      /\ r.goto = None
      /\ Target(h) \in Idle => r.state = Target(h)
  BY <1>1, SettledEnds
<1>5. r \in Mediator /\ SameBut(r, h, FieldNames \ Steady)
  BY <1>1, SettledFit
<1>6. m' \in Mediator /\ SameBut(m', r, {"posted", "link"})
  BY <1>1, <1>5, TidyIs
<1> HIDE DEF r
<1>7. /\ m'.state = r.state /\ m'.goto = r.goto /\ m'.up = r.up /\ m'.gate = r.gate /\ m'.margin = r.margin
      /\ m'.slots = r.slots /\ m'.current = r.current /\ m'.create = r.create /\ m'.named = r.named
      /\ m'.ready = r.ready
  BY <1>6 DEF SameBut, FieldNames
<1>8. r.ready = h.ready /\ (h.ready => m.ready)
  <2>1. h.ready => m.ready
    <3>1. CASE Called(h, w)
      BY <3>1 DEF Called, RemovedRow, Moves, SameBut, FieldNames, ClearedFields
    <3> QED
      BY <3>1 DEF Handles
  <2> QED
    BY <1>5, <2>1 DEF SameBut, FieldNames, Steady
<1>9. Shape(m') /\ Gate(m')
  BY <1>3, <1>7 DEF Sound, Shape, Gate
<1>10. ASSUME m'.ready, "sender" \notin left'
       PROVE  /\ m'.state # 4 => m'.up[4] = None
              /\ Purposed(m', wish')
  <2>1. P
    BY <1>1, <1>7, <1>8, <1>10
  <2>2. Purposed(r, w)
    BY <1>3, <2>1 DEF Sound
  <2>3. r.state # 4 => r.up[4] = None
    <3>1. CASE m.state = 4
      BY <1>1, <1>10, <3>1
    <3>2. CASE m.state # 4
      BY <1>3, <1>4, <2>1, <3>2 DEF Sound, Clear4
    <3> QED
      BY <3>1, <3>2
  <2>4. Purposed(m', w)
    <3>1. \A x : For(x, r, w) => For(x, m', w)
      BY <1>7, ForSame
    <3>2. Target(m') = Target(r) /\ (Through6(m') <=> Through6(r)) /\ (LoggingIn(m') <=> LoggingIn(r))
      BY <1>7 DEF Target, Through6, LoggingIn
    <3> QED
      BY <1>7, <2>2, <3>1, <3>2 DEF Purposed
  <2>5. CASE Answers(r, w)
    <3>1. Target(h) \in Idle
      BY <1>2, <1>4, <2>1, <2>5
    <3>2. Target(m') \in Idle
      BY <1>4, <1>7, <3>1 DEF Target
    <3> QED
      BY <1>7, <2>3, <3>2 DEF Purposed
  <2>6. CASE ~Answers(r, w)
    BY <1>1, <1>7, <2>3, <2>4, <2>6
  <2> QED
    BY <2>5, <2>6
<1> QED
  BY <1>9, <1>10 DEF PurposeInv

\* A step of the network, or the expiry of the reply copy, keeps the purpose.
LEMMA OutsidePurpose ==
    ASSUME Core, PurposeInv, (\E l \in Links : Network(l)) \/ CopyExpires \/ UNCHANGED vars
    PROVE  PurposeInv'
<1>1. m \in Mediator
  BY SelfKept
<1>2. left' = left /\ wish' = wish /\ SameBut(m', m, {"link", "fresh"})
  <2>1. CASE \E l \in Links : Network(l)
    BY <2>1, NetworkLinks DEF SameBut, FieldNames
  <2>2. CASE CopyExpires
    <3>1. m' = [m EXCEPT !.fresh = FALSE] /\ left' = left /\ wish' = wish
      BY <2>2 DEF CopyExpires
    <3> QED
      BY <1>1, <3>1 DEF Mediator, SameBut, FieldNames
  <2>3. CASE UNCHANGED vars
    BY <2>3 DEF vars, SameBut
  <2> QED
    BY <2>1, <2>2, <2>3
<1>3. /\ m'.state = m.state /\ m'.goto = m.goto /\ m'.up = m.up /\ m'.gate = m.gate /\ m'.margin = m.margin
      /\ m'.slots = m.slots /\ m'.current = m.current /\ m'.create = m.create /\ m'.named = m.named
      /\ m'.ready = m.ready
  BY <1>2 DEF SameBut, FieldNames
<1>4. Shape(m') /\ Gate(m')
  BY <1>3 DEF PurposeInv, Shape, Gate
<1>5. Purposed(m, wish) => Purposed(m', wish')
  <2>1. \A x : For(x, m, wish) => For(x, m', wish')
    BY <1>2, <1>3, ForSame
  <2>2. Target(m') = Target(m) /\ (Through6(m') <=> Through6(m)) /\ (LoggingIn(m') <=> LoggingIn(m))
    BY <1>3 DEF Target, Through6, LoggingIn
  <2> QED
    BY <1>2, <1>3, <2>1, <2>2 DEF Purposed
<1> QED
  BY <1>2, <1>3, <1>4, <1>5 DEF PurposeInv

\* At first the mediator is at rest.
LEMMA PurposeInit ==
    ASSUME FlowInit
    PROVE  PurposeInv
<1>1. /\ m.state = 0 /\ m.goto = None /\ m.up = [s \in Cachers |-> None] /\ ~m.gate /\ m.margin = None
      /\ m.slots = <<>>
  BY DEF FlowInit, Init
<1>2. m.up[1] = None /\ m.up[2] = None /\ m.up[4] = None /\ m.up[5] = None /\ m.up[6] = None
  BY <1>1 DEF Cachers
<1>3. Shape(m) /\ Gate(m)
  BY <1>1, <1>2, NoneApart DEF Shape, Gate, StateIds
<1>4. Purposed(m, wish)
  BY <1>1 DEF Purposed, Target, Idle
<1> QED
  BY <1>2, <1>3, <1>4 DEF PurposeInv

\* Every step keeps it.
LEMMA PurposeKept ==
    ASSUME TypeInv, WishFit, PurposeInv, [FlowNext]_allVars
    PROVE  PurposeInv'
<1>1. TypeOK /\ Core
  BY DEF TypeInv, FlowTypeOK
<1> QED
  BY <1>1, NextSteps, TakenPurpose, OutsidePurpose DEF Steps

\* What the next completed operation makes the mediator announce is asked for.
LEMMA PurposeOutcomes ==
    ASSUME TypeInv, PurposeInv
    PROVE  OutcomesAreAsked
<1>1. Core
  BY DEF TypeInv
<1>2. SUFFICES ASSUME m.ready, queue # <<>>, "sender" \notin left
               PROVE  LET r == Settled(Completed(m, Head(queue), TRUE))
                      IN  /\ Posted(r, "event", 8) => wish.what = "delete"
                          /\ Posted(r, "event", 24) => wish.what \in {"play", "create"}
                          /\ Posted(r, "event", 5) => wish # NoWish
  BY DEF OutcomesAreAsked
<1> DEFINE h == Completed(m, Head(queue), TRUE)
           r == Settled(h)
<1>3. /\ m \in Mediator /\ Head(queue) \in Items /\ Resting(m)
      /\ h \in Mediator /\ CompletedResult(h, m, Head(queue))
  BY <1>1, <1>2, QuietRest, HeadIs, DeliveredIs DEF Resting, PurposeInv
<1> HIDE DEF h
<1>4. Turned(h, m) /\ Purposed(m, wish)
  BY <1>2, <1>3, CompletedTurned DEF PurposeInv
<1>5. Outcomes(Announced(h), wish)
  BY <1>3, <1>4, TurnedOutcomes
<1>6. \A e \in {5, 8, 24} : Posted(r, "event", e) => Event(e) \in Announced(h)
  BY <1>3, SettledEnds
<1> HIDE DEF r
<1>7. /\ Posted(r, "event", 8) => wish.what = "delete"
      /\ Posted(r, "event", 24) => wish.what \in {"play", "create"}
      /\ Posted(r, "event", 5) => wish # NoWish
  BY <1>5, <1>6 DEF Outcomes
<1> QED
  BY <1>7 DEF r, h

\* OutcomesAreAsked: an outcome is only posted to a client that waits for it, for
\* any servers, characters and faults.
THEOREM OutcomesToTheAsker == FlowSpec => []OutcomesAreAsked
<1>1. FlowInit => TypeInv /\ WishFit /\ PurposeInv
  BY FlowInitTyped, WishFitInit, PurposeInit
<1>2. TypeInv /\ WishFit /\ PurposeInv /\ [FlowNext]_allVars => TypeInv' /\ WishFit' /\ PurposeInv'
  BY FlowStepTyped, WishFitKept, PurposeKept
<1>3. TypeInv /\ PurposeInv => OutcomesAreAsked
  BY PurposeOutcomes
<1> QED
  BY <1>1, <1>2, <1>3, PTL DEF FlowSpec

-----------------------------------------------------------------------------
(* Nothing is sent but what the client waits for.                          *)

\* What a handler that has switched sends is for the request that it is about.
LEMMA EntrySent ==
    ASSUME TypeOK, Core, PurposeInv, NEW h, NEW q, NEW w, Handles(h, q, w), "sender" \notin left',
           NEW l \in Links, Len(Settled(h).link[l].asked) > Len(h.link[l].asked)
    PROVE  LET a == Last(Settled(h).link[l].asked)
           IN  /\ a.what = "delete" => wish' = [what |-> "delete", who |-> a.who]
               /\ a.what = "load" => wish' = [what |-> "play", who |-> a.who]
               /\ a.what \in {"claim", "create"} => wish' = [what |-> "create", who |-> a.who]
<1> DEFINE r == Settled(h)
           p == (h.ready \/ h.goto # None) /\ m.ready /\ "sender" \notin left
<1>1. /\ h \in Mediator /\ left \subseteq left'
      /\ wish' = IF Answers(r, w) THEN NoWish ELSE w
  BY DEF Handles, Take
<1>2. /\ Shape(h) /\ Gate(h)
      /\ p => Purposed(h, w)
      /\ p => (Concludes(Announced(h), w) => Target(h) \in Idle)
  BY HandledSound
<1>3. Sound(r, h, w, p, FALSE)
  <2> HIDE DEF r, p
  <2> QED
    BY <1>1, <1>2, SettledSound DEF r
<1>4. /\ \A v : Answers(r, v) => Concludes(Announced(h), v)
      /\ r.goto = None
      /\ Target(h) \in Idle => r.state = Target(h)
  BY <1>1, SettledEnds
<1>5. r.state \in {2, 5, 6, 7, 8, 9, 10, 11} /\ Last(r.link[l].asked) = RequestOf(r)
  <2> HIDE DEF p
  <2> QED
    BY <1>3 DEF Sound, Sent
<1>6. h.goto = None => r.link = h.link
  BY <1>1, SettledIs, RestedIs DEF SameBut, FieldNames
<1>7. h.goto # None
  <2>1. Len(h.link[l].asked) \in Nat
    BY <1>1, FieldsTyped, LinkFields
  <2> QED
    BY <1>6, <2>1
<1> HIDE DEF r
<1>8. Target(h) \notin Idle
  BY <1>4, <1>5 DEF Idle
<1>9. m.ready
  <2>1. CASE Called(h, w)
    <3>1. Ordered(h, w)
      BY <1>1, <2>1, CalledOrdered
    <3>2. h.goto \notin {0, 13}
      BY <1>7, <1>8 DEF Target, Idle
    <3> QED
      BY <1>7, <3>1, <3>2 DEF Ordered
  <2> QED
    BY <2>1 DEF Handles
<1>10. p
  BY <1>1, <1>7, <1>9
<1>11. wish' = w
  BY <1>1, <1>2, <1>4, <1>8, <1>10
<1>12. Purposed(r, w)
  BY <1>3, <1>10 DEF Sound
<1>13. For(r.state, r, w)
  BY <1>4, <1>5, <1>12 DEF Purposed, Target, Idle
<1>14. LET a == RequestOf(r)
       IN  /\ a.what = "delete" => w = [what |-> "delete", who |-> a.who]
           /\ a.what = "load" => w = [what |-> "play", who |-> a.who]
           /\ a.what \in {"claim", "create"} => w = [what |-> "create", who |-> a.who]
  BY <1>5, <1>13 DEF RequestOf, CharacterName, For
<1> QED
  BY <1>5, <1>11, <1>14 DEF r

\* A step of the client thread sends only what the client waits for.
LEMMA TakenSent ==
    ASSUME TypeOK, Core, PurposeInv, NEW h, NEW q, NEW w, Handles(h, q, w), "sender" \notin left'
    PROVE  SentAsAsked
<1> DEFINE r == Settled(h)
<1>1. /\ h \in Mediator /\ m' = Tidy(r, q) /\ q \in Seq(Items) /\ m \in Mediator /\ m.goto = None
  BY QuietRest DEF Handles, Take
<1>2. SUFFICES ASSUME NEW l \in Links, Len(m'.link[l].asked) > Len(m.link[l].asked)
               PROVE  LET a == Last(m'.link[l].asked)
                      IN  /\ a.what = "delete" => wish' = [what |-> "delete", who |-> a.who]
                          /\ a.what = "load" => wish' = [what |-> "play", who |-> a.who]
                          /\ a.what \in {"claim", "create"} => wish' = [what |-> "create", who |-> a.who]
  BY DEF SentAsAsked
<1>3. r \in Mediator /\ (h.goto = None => r.link = h.link)
  BY <1>1, SettledIs, RestedIs DEF SameBut, FieldNames
<1>4. Len(r.link[l].asked) \in Nat /\ Len(h.link[l].asked) \in Nat /\ Len(m.link[l].asked) \in Nat
  BY <1>1, <1>3, FieldsTyped, LinkFields
<1>5. m'.link[l].asked = r.link[l].asked
  <2> HIDE DEF r
  <2>1. m'.link[l] \in {FreeLink, r.link[l]}
    BY <1>1, <1>3, TidyIs
  <2>2. FreeLink.asked = <<>>
    BY DEF FreeLink
  <2>3. m'.link[l].asked # <<>>
    <3>1. m'.link[l].asked = <<>> => Len(m'.link[l].asked) = 0
      OBVIOUS
    <3> QED
      BY <1>2, <1>4, <3>1
  <2> QED
    BY <2>1, <2>2, <2>3
<1>6. CASE Len(r.link[l].asked) > Len(h.link[l].asked)
  BY <1>5, <1>6, EntrySent
<1>7. CASE ~(Len(r.link[l].asked) > Len(h.link[l].asked))
  <2> DEFINE i == Len(r.link[l].asked)
             j == Len(h.link[l].asked)
             n == Len(m.link[l].asked)
  <2>1. i > n /\ ~(i > j)
    BY <1>2, <1>5, <1>7
  <2>2. i \in Nat /\ j \in Nat /\ n \in Nat
    BY <1>4
  <2> HIDE DEF i, j, n, r
  <2>3. j > n
    BY <2>1, <2>2
  <2>4. h.link[l].asked # m.link[l].asked /\ h.link[l].asked # <<>>
    <3>1. h.link[l].asked = <<>> => j = 0
      BY DEF j
    <3>2. h.link[l].asked = m.link[l].asked => j = n
      BY DEF j, n
    <3> QED
      BY <1>4, <2>3, <3>1, <3>2 DEF j, n
  <2>5. ~Called(h, w)
    BY <1>1, <2>4, CalledLinks DEF SameLink, LinkFieldNames
  <2>6. Head(queue) \in Items /\ CompletedResult(h, m, Head(queue))
    BY <2>5, HeadIs DEF Handles
  <2>7. h.goto = None /\ h.link[l].asked = Append(m.link[l].asked, Hashes)
    BY <1>1, <2>4, <2>6, CompletedAsks
  <2>8. Last(m'.link[l].asked) = Hashes
    <3>1. m.link[l].asked \in Seq(Request)
      BY <1>1, FieldsTyped, LinkFields
    <3>2. Last(Append(m.link[l].asked, Hashes)) = Hashes
      BY <3>1 DEF Last
    <3> QED
      BY <1>3, <1>5, <2>7, <3>2
  <2> QED
    BY <2>8 DEF Hashes
<1> QED
  BY <1>6, <1>7

\* The network takes requests away, and the expiry of a copy touches none.
LEMMA OutsideSent ==
    ASSUME Core, (\E l \in Links : Network(l)) \/ CopyExpires
    PROVE  SentAsAsked
<1>1. m \in Mediator
  BY SelfKept
<1>2. ASSUME NEW k \in Links PROVE ~(Len(m'.link[k].asked) > Len(m.link[k].asked))
  <2>1. m.link[k].asked \in Seq(Request)
    BY <1>1, FieldsTyped, LinkFields
  <2>2. \/ m'.link[k].asked = m.link[k].asked
        \/ m.link[k].asked # <<>> /\ m'.link[k].asked = Tail(m.link[k].asked)
    <3>1. CASE \E l \in Links : Network(l)
      BY <3>1, NetworkLinks DEF SameLink, LinkFieldNames
    <3>2. CASE CopyExpires
      <4>1. m' = [m EXCEPT !.fresh = FALSE]
        BY <3>2 DEF CopyExpires
      <4>2. m'.link = m.link
        BY <1>1, <4>1 DEF Mediator
      <4> QED
        BY <4>2
    <3> QED
      BY <3>1, <3>2
  <2> DEFINE x == m.link[k].asked
             y == m'.link[k].asked
  <2> HIDE DEF x, y
  <2>3. x \in Seq(Request) /\ (y = x \/ (x # <<>> /\ y = Tail(x)))
    BY <2>1, <2>2 DEF x, y
  <2>4. Len(x) \in Nat /\ Len(y) <= Len(x)
    BY <2>3
  <2>5. Len(y) \in Nat
    BY <2>3
  <2>6. ~(Len(y) > Len(x))
    BY <2>4, <2>5
  <2> QED
    BY <2>6 DEF x, y
<1> QED
  BY <1>2 DEF SentAsAsked

\* OnlyTheWishIsSent: a margin server is sent the request that the client now
\* waits for, and no other, for any servers, characters and faults.
THEOREM WishesAreSent == FlowSpec => OnlyTheWishIsSent
<1>1. FlowInit => TypeInv /\ WishFit /\ PurposeInv
  BY FlowInitTyped, WishFitInit, PurposeInit
<1>2. TypeInv /\ WishFit /\ PurposeInv /\ [FlowNext]_allVars => TypeInv' /\ WishFit' /\ PurposeInv'
  BY FlowStepTyped, WishFitKept, PurposeKept
<1>3. TypeInv /\ WishFit /\ PurposeInv /\ [FlowNext]_allVars
        => [("sender" \notin left') => SentAsAsked]_vars
  <2>1. SUFFICES ASSUME TypeInv, WishFit, PurposeInv, [FlowNext]_allVars, "sender" \notin left'
                 PROVE  SentAsAsked \/ UNCHANGED vars
    OBVIOUS
  <2>2. TypeOK /\ Core
    BY <2>1 DEF TypeInv, FlowTypeOK
  <2>3. Steps
    BY <2>1, NextSteps
  <2> QED
    BY <2>1, <2>2, <2>3, TakenSent, OutsideSent DEF Steps
<1> QED
  BY <1>1, <1>2, <1>3, PTL DEF FlowSpec, OnlyTheWishIsSent

-----------------------------------------------------------------------------
(* What is taken out of the slot table has been deleted by the server.     *)

\* The requests of a connection are among S.
AskedIn(x, S) == \A i \in DOMAIN x.asked : x.asked[i] \in S

\* Those that make no character, that delete none, and that delete none but n.
Harmless == {a \in Request : a.what # "create"}
Sparing == {a \in Request : a.what # "delete"}
Deleting(n) == {a \in Request : a.what = "delete" => a.who = n}

\* A request more that is in S keeps them in S.
LEMMA AskedMore ==
    ASSUME NEW x \in Link, NEW y \in Link, NEW S, AskedIn(y, S), NEW a \in S, x.asked = Append(y.asked, a)
    PROVE  AskedIn(x, S)
<1>1. y.asked \in Seq(S)
  <2>1. y.asked \in Seq(Request)
    BY LinkFields
  <2> QED
    BY <2>1 DEF AskedIn
<1>2. \A i \in DOMAIN x.asked :
         \/ i \in DOMAIN y.asked /\ x.asked[i] = y.asked[i]
         \/ x.asked[i] = a
  BY <1>1, AppendElements
<1> QED
  BY <1>2 DEF AskedIn

\* A state asks nothing but its request.
LEMMA EnteredAsks ==
    ASSUME NEW r \in Mediator, r.goto # None, NEW k \in Links, NEW S, AskedIn(r.link[k], S),
           r.goto \in {2, 5, 6, 7, 8, 9, 10, 11} => RequestOf(Arrived(r)) \in S
    PROVE  AskedIn(Entered(r).link[k], S)
<1> DEFINE s == Entered(r)
           e == Arrived(r)
<1>1. s \in Mediator /\ e \in Mediator /\ e.state = r.goto /\ e.link = r.link
  BY EnteredIs, ArrivedIs DEF SameBut, FieldNames
<1>2. LinkMoves(s, e, k)
  BY EnteredLinks
<1> HIDE DEF s, e
<1>3. s.link[k] \in Link /\ e.link[k] \in Link /\ AskedIn(e.link[k], S)
  BY <1>1, FieldsTyped
<1>4. AskedIn(s.link[k], S)
  <2>1. CASE s.link[k].asked = e.link[k].asked
    BY <1>3, <2>1 DEF AskedIn
  <2>2. CASE \E kind \in {"auth", "margin"}, st \in {"ConnectActive", "Closed"} :
                s.link[k] = [FreeLink EXCEPT !.kind = kind, !.st = st]
    <3>1. s.link[k].asked = <<>>
      BY <2>2 DEF FreeLink
    <3> QED
      BY <3>1 DEF AskedIn
  <2>3. CASE /\ e.state \in {2, 5, 6, 7, 8, 9, 10, 11}
             /\ s.link[k].asked = Append(e.link[k].asked, RequestOf(e))
    <3>1. RequestOf(e) \in S
      BY <1>1, <2>3 DEF e
    <3> QED
      BY <1>3, <2>3, <3>1, AskedMore
  <2>4. \A x, y : SameLink(x, y, {}) \/ SameLink(x, y, {"st"}) => x.asked = y.asked
    BY DEF SameLink, LinkFieldNames
  <2> QED
    BY <1>2, <2>1, <2>2, <2>3, <2>4 DEF LinkMoves
<1> QED
  BY <1>4 DEF s

\* What a mediator is like under which nobody plays or creates a character.
Tame(r) ==
    /\ r.state \in 0 .. 7
    /\ r.goto \in {None} \cup 0 .. 7
    /\ r.up[2] \in {None, 0, 5, 6}
    /\ r.up[4] \in {None, 6, 7}
    /\ r.up[6] \in {None, 2, 7}
    /\ \A l \in Links : AskedIn(r.link[l], Harmless)

\* Entering a state keeps it tame.
LEMMA EnteredTame ==
    ASSUME NEW r \in Mediator, r.goto # None, Shape(r), Tame(r)
    PROVE  Tame(Entered(r))
<1> DEFINE s == Entered(r)
           e == Arrived(r)
<1>1. s.state = r.goto /\ r.state \in StateIds /\ r.goto \in StateIds
  BY EnteredSteady, FieldsTyped
<1>2. /\ s.up[2] = IF r.goto = 2 /\ r.state # 1 THEN r.state ELSE r.up[2]
      /\ s.up[4] = IF r.goto = 4 /\ r.up[4] = None THEN r.state ELSE r.up[4]
      /\ s.up[6] = IF r.goto = 6 /\ ~(r.up[6] # None /\ r.state \in {4, 5}) THEN r.state ELSE r.up[6]
  BY EnteredUps
<1>3. /\ r.goto \in {0, 1, 3, 4, 9, 11, 12, 13} => s.goto = None
      /\ r.goto = 2 => s.goto \in {None, 1}
      /\ r.goto = 5 => s.goto \in {None, 2}
      /\ r.goto = 6 => s.goto \in {None, 4, 5}
      /\ r.goto \in {7, 8, 10} => s.goto \in {None, 4, 6}
  BY EnteredGoto
<1>4. \A l \in Links : AskedIn(s.link[l], Harmless)
  <2>1. e.state = r.goto /\ e \in Mediator
    BY ArrivedIs
  <2> HIDE DEF e
  <2>2. r.goto \in {2, 5, 6, 7} => RequestOf(e) \in Harmless
    <3>1. SlotName(e) \in Characters \cup {None}
      BY <2>1, CurrentTyped
    <3>2. r.goto = 7 => RequestOf(e).what = "delete" /\ RequestOf(e).who \in Characters \cup {None}
      BY <2>1, <3>1 DEF RequestOf
    <3>4. r.goto = 2 => RequestOf(e).what = "login" /\ RequestOf(e).who = None
      BY <2>1 DEF RequestOf
    <3>5. r.goto = 5 => RequestOf(e).what = "copy" /\ RequestOf(e).who = None
      BY <2>1 DEF RequestOf
    <3>6. r.goto = 6 => RequestOf(e).what = "connect" /\ RequestOf(e).who = None
      BY <2>1 DEF RequestOf
    <3>3. PICK a, b : RequestOf(e) = [what |-> a, who |-> b]
      BY Zenon DEF RequestOf
    <3> QED
      BY <3>2, <3>3, <3>4, <3>5, <3>6 DEF Harmless, Request, Requested
  <2>3. r.goto \in {2, 5, 6, 7, 8, 9, 10, 11} => RequestOf(e) \in Harmless
    BY <1>1, <2>2, NoneApart DEF Tame, StateIds
  <2> QED
    BY <2>3, EnteredAsks DEF Tame, e
<1> HIDE DEF s
<1>5. Tame(s)
  <2>1. r.goto \in 0 .. 7 /\ s.goto \in {None} \cup 0 .. 7
    BY <1>1, <1>3, NoneApart DEF Tame, StateIds
  <2>2. s.up[2] \in {None, 0, 5, 6} /\ s.up[4] \in {None, 6, 7} /\ s.up[6] \in {None, 2, 7}
    BY <1>1, <1>2, NoneApart DEF Tame, Shape, StateIds
  <2> QED
    BY <1>1, <1>4, <2>1, <2>2 DEF Tame
<1> QED
  BY <1>5 DEF s

\* The mediator before a login has succeeded: it has no margin connection.
Calm(r) ==
    /\ r.state \in 0 .. 3
    /\ r.goto \in {None, 0, 1, 2, 3}
    /\ r.up[2] \in {None, 0}
    /\ r.margin = None

\* Entering a state keeps it calm.
LEMMA EnteredCalm ==
    ASSUME NEW r \in Mediator, r.goto # None, Shape(r), Calm(r)
    PROVE  Calm(Entered(r))
<1> DEFINE s == Entered(r)
<1>1. s.state = r.goto
  BY EnteredSteady
<1>2. s.up[2] = IF r.goto = 2 /\ r.state # 1 THEN r.state ELSE r.up[2]
  BY EnteredUps
<1>3. /\ r.goto \in {0, 1, 3, 4, 9, 11, 12, 13} => s.goto = None
      /\ r.goto = 2 => s.goto \in {None, 1}
  BY EnteredGoto
<1>4. s.margin # r.margin => r.goto = 4
  BY EnteredPointers
<1> HIDE DEF s
<1>5. Calm(s)
  BY <1>1, <1>2, <1>3, <1>4, NoneApart DEF Calm, Shape, StateIds
<1> QED
  BY <1>5 DEF s

\* State 4 opens a new margin connection, if there is room for one.
LEMMA EnteredOpens ==
    ASSUME NEW r \in Mediator, r.goto = 4, Shape(r)
    PROVE  LET s == Entered(r) IN
           s.full \/ (s.margin \in Links /\ r.link[s.margin].kind = "free" /\ s.link[s.margin].asked = <<>>)
<1> DEFINE a == Arrived(r)
           u == IF a.up[4] = None THEN r.state ELSE a.up[4]
           e == [a EXCEPT !.up[4] = u]
           s == Entered(r)
<1>1. a \in Mediator /\ a.state = 4 /\ a.up = r.up /\ a.link = r.link /\ r.state \in StateIds
  <2>1. r.goto # None
    BY NoneApart DEF StateIds
  <2> QED
    BY <2>1, ArrivedIs, FieldsTyped DEF SameBut, FieldNames
<1>2. u \in {6, 7, 8, 10} /\ u # None
  BY <1>1, NoneApart DEF Shape, StateIds
<1>3. s = Enter4(a, r.state)
  BY <1>1 DEF Entered, Arrived
<1> HIDE DEF a
<1>4. u \in Upstreams /\ 4 \in Cachers
  BY <1>2 DEF Cachers, Upstreams, StateIds
<1>5. e \in Mediator /\ SameBut(e, a, {"up"}) /\ e.up = [a.up EXCEPT ![4] = u]
  <2> HIDE DEF u
  <2> QED
    BY <1>1, <1>4, UpTyped
<1>6. s = Connect4(e)
  <2>1. a.up \in [Cachers -> Upstreams]
    BY <1>1, FieldsTyped
  <2> QED
    BY <1>3, <1>4, <2>1 DEF Enter4
<1> HIDE DEF u, e, s
<1>7. e.up[4] = u /\ e.link = a.link
  <2>1. a.up \in [Cachers -> Upstreams]
    BY <1>1, FieldsTyped
  <2> QED
    BY <1>4, <1>5, <2>1 DEF SameBut, FieldNames
<1>8. s = BeginMarginConnection(e, Route(e))
  <2>1. Phase(e.up[4]) = u
    BY <1>2, <1>7 DEF Phase
  <2> QED
    BY <1>2, <1>6, <2>1 DEF Connect4
<1>9. Opened(s, e, "margin", {"ConnectActive", "Closed"})
  <2>1. Route(e) \in Worlds \cup {None}
    BY <1>5, CurrentTyped
  <2> QED
    BY <1>5, <1>8, <2>1, BeginMarginConnectionIs
<1>10. s["margin"] = s.margin
  OBVIOUS
<1>11. \A st : [FreeLink EXCEPT !.kind = "margin", !.st = st].asked = <<>>
  BY DEF FreeLink
<1>12. s.full \/ (s.margin \in Links /\ r.link[s.margin].kind = "free" /\ s.link[s.margin].asked = <<>>)
  BY <1>1, <1>7, <1>9, <1>10, <1>11 DEF Opened
<1> QED
  BY <1>12 DEF s

\* The bound on the connections, once hit, is known as such.
LEMMA EnteredFull ==
    ASSUME NEW r \in Mediator, r.goto # None, r.full
    PROVE  Entered(r).full
<1> DEFINE s == Entered(r)
           e == Arrived(r)
<1>1. EntersState(s, e, r.state) /\ e.state \in StateIds
  BY EnteredIs, ArrivedIs, FieldsTyped
<1>2. e.full
  BY ArrivedIs DEF SameBut, FieldNames
<1> HIDE DEF s, e
<1>3. e.state \notin {1, 4} => s.full = e.full
  BY <1>1 DEF EntersState, SameBut, FieldNames, StateIds
<1>4. e.state = 1 => s.full
  BY <1>1, <1>2 DEF EntersState, Opened
<1>5. e.state = 4 => s.full
  BY <1>1, <1>2 DEF EntersState, Opened, SameBut, FieldNames
<1>6. s.full
  BY <1>2, <1>3, <1>4, <1>5
<1> QED
  BY <1>6 DEF s

\* The connections on which the server's consent to a deletion is on its way.
Consents(q) == {l \in Links : \E i \in DOMAIN q :
                   q[i].link = l /\ q[i].msg.code = "deleted" /\ q[i].msg.status = "ok"}

\* On the margin connection only n is or was deleted; nobody was; or it is over.
Own(r, D, n, A) ==
    \/ r.margin = None
    \/ AskedIn(r.link[r.margin], Deleting(n)) /\ (r.margin \in D => n \notin A)
Spare(r, D) == r.margin = None \/ (AskedIn(r.link[r.margin], Sparing) /\ r.margin \notin D)
Shut(r) == r.margin = None \/ r.link[r.margin].st \in {"Closing", "Dead", "Closed"}

\* The mediator is busy with the deletion of n, or at rest with nothing of an
\* earlier deletion to come: D are the connections with consents, A the account.
Removing(r, D, n, A) ==
    /\ \A l \in D : l \in Links /\ r.link[l].kind # "free"
    /\ Target(r) \notin {0, 3} =>
          /\ SlotName(r) = n
          /\ r.full \/ Own(r, D, n, A) \/ (Shut(r) /\ r.goto \in {4, 7})
    /\ Target(r) = 3 => Spare(r, D) \/ Shut(r)
    /\ r.goto = None /\ r.state = 4 => r.full \/ Spare(r, D)
    /\ r.state \in {1, 2} /\ r.goto \in {None, 1, 2} => r.up[2] \in {5, 6}
    /\ r.goto = 2 => r.state # 0

\* A connection on which nobody was deleted is nobody else's.
LEMMA SpareOwn ==
    ASSUME NEW r, NEW D, NEW n, NEW A, Spare(r, D)
    PROVE  Own(r, D, n, A)
BY DEF Spare, Own, AskedIn, Sparing, Deleting

\* What the request of a tame state may ask when the selected character is n.
LEMMA TameRequest ==
    ASSUME NEW e \in Mediator, e.state \in {2, 5, 6, 7}, NEW n, e.state = 7 => SlotName(e) = n
    PROVE  RequestOf(e) \in Harmless \cap Deleting(n)
<1>1. SlotName(e) \in Characters \cup {None}
  BY CurrentTyped
<1>2. PICK a, b : RequestOf(e) = [what |-> a, who |-> b]
  BY Zenon DEF RequestOf
<1>3. e.state = 7 => RequestOf(e).what = "delete" /\ RequestOf(e).who = n /\ n \in Characters \cup {None}
  BY <1>1 DEF RequestOf
<1>4. e.state = 2 => RequestOf(e).what = "login" /\ RequestOf(e).who = None
  BY DEF RequestOf
<1>5. e.state = 5 => RequestOf(e).what = "copy" /\ RequestOf(e).who = None
  BY DEF RequestOf
<1>6. e.state = 6 => RequestOf(e).what = "connect" /\ RequestOf(e).who = None
  BY DEF RequestOf
<1> QED
  BY <1>2, <1>3, <1>4, <1>5, <1>6 DEF Harmless, Deleting, Request, Requested

\* Entering a state keeps to the deletion of n.
LEMMA EnteredRemoving ==
    ASSUME NEW r \in Mediator, Fit(r), r.goto # None, Shape(r), Tame(r), NEW D, NEW n, NEW A,
           Removing(r, D, n, A)
    PROVE  Removing(Entered(r), D, n, A)
<1> DEFINE s == Entered(r)
           e == Arrived(r)
<1>1. /\ s \in Mediator /\ e \in Mediator /\ s.state = r.goto /\ e.state = r.goto
      /\ r.goto \in 0 .. 7 /\ r.state \in StateIds
  BY EnteredIs, ArrivedIs, EnteredSteady, FieldsTyped DEF Tame
<1>2. /\ e.link = r.link /\ e.margin = r.margin /\ e.slots = r.slots /\ e.current = r.current
      /\ s.slots = r.slots /\ s.current = r.current
  BY ArrivedIs, EnteredSteady DEF SameBut, FieldNames, Steady
<1>3. SlotName(s) = SlotName(r) /\ SlotName(e) = SlotName(r)
  BY <1>2 DEF SlotName
<1>4. EntersState(s, e, r.state)
  BY EnteredIs
<1>5. \A l \in D : l \in Links /\ s.link[l].kind # "free"
  <2>1. Kept(s, r)
    BY EnteredFit
  <2> QED
    BY <2>1 DEF Removing, Kept
<1>6. /\ r.goto \in {0, 1, 3, 4} => s.goto = None
      /\ r.goto = 2 => s.goto \in {None, 1}
      /\ r.goto = 5 => s.goto \in {None, 2}
      /\ r.goto = 6 => s.goto \in {None, 4, 5}
      /\ r.goto = 7 => s.goto \in {None, 4, 6}
  BY EnteredGoto
<1>7. s.up[2] = IF r.goto = 2 /\ r.state # 1 THEN r.state ELSE r.up[2]
  BY EnteredUps
<1>8. r.goto # 4 => s.margin = r.margin
  BY EnteredPointers
<1>9. r.full => s.full
  BY EnteredFull
<1>10. r.goto = 4 => s.full \/ (s.margin \in Links /\ r.link[s.margin].kind = "free" /\ s.link[s.margin].asked = <<>>)
  BY EnteredOpens
<1>11. Target(r) = r.goto
  BY DEF Target
<1>12. r.goto \notin {0, 3} =>
          SlotName(r) = n /\ (r.full \/ Own(r, D, n, A) \/ (Shut(r) /\ r.goto \in {4, 7}))
  BY <1>11 DEF Removing
<1>13. r.goto \in {1, 2, 5, 6, 7} /\ Own(r, D, n, A) => Own(s, D, n, A)
  <2>1. ASSUME r.goto \in {2, 5, 6, 7}
        PROVE  RequestOf(e) \in Deleting(n)
    BY <1>1, <1>3, <1>12, <2>1, TameRequest
  <2>2. ASSUME r.goto \in {1, 2, 5, 6, 7}, r.margin # None, AskedIn(r.link[r.margin], Deleting(n))
        PROVE  AskedIn(s.link[r.margin], Deleting(n))
    <3>1. r.margin \in Links
      BY <2>2, FieldsTyped
    <3>2. r.goto \in {2, 5, 6, 7, 8, 9, 10, 11} => RequestOf(Arrived(r)) \in Deleting(n)
      BY <2>1, <2>2
    <3> QED
      BY <2>2, <3>1, <3>2, EnteredAsks
  <2> HIDE DEF s, e
  <2>3. r.goto \in {1, 2, 5, 6, 7} => s.margin = r.margin
    BY <1>8
  <2> QED
    BY <2>2, <2>3 DEF Own
<1>14. r.goto = 7 /\ Shut(r) => Shut(s) /\ s.goto = 4
  <2> HIDE DEF s, e
  <2>1. ASSUME r.goto = 7, Shut(r)
        PROVE  ~Ready(e, e.margin)
    BY <1>2, <2>1 DEF Ready, State, Shut
  <2>2. ASSUME r.goto = 7, Shut(r)
        PROVE  SameBut(s, e, {"goto"}) /\ s.goto = 4
    BY <1>1, <1>4, <2>1, <2>2 DEF EntersState
  <2> QED
    BY <1>2, <2>2 DEF SameBut, FieldNames, Shut
<1>15. r.goto = 3 => s.link = r.link
  BY <1>1, <1>2, <1>4 DEF EntersState
<1> HIDE DEF s, e
<1>16. r.goto = 4 /\ ~s.full => Spare(s, D)
  <2>1. \A x \in Links : s.link[x].asked = <<>> => AskedIn(s.link[x], Sparing)
    BY DEF AskedIn
  <2> QED
    BY <1>10, <2>1 DEF Spare, Removing
<1>17. Target(s) \notin {0, 3} =>
          SlotName(s) = n /\ (s.full \/ Own(s, D, n, A) \/ (Shut(s) /\ s.goto \in {4, 7}))
  <2>1. Target(s) \notin {0, 3} => r.goto \notin {0, 3}
    BY <1>1, <1>6 DEF Target
  <2>2. r.goto = 4 => s.full \/ Own(s, D, n, A)
    BY <1>16, SpareOwn
  <2>3. r.goto \in {1, 2, 5, 6, 7} => s.full \/ Own(s, D, n, A) \/ (Shut(s) /\ s.goto \in {4, 7})
    BY <1>9, <1>12, <1>13, <1>14
  <2> QED
    BY <1>1, <1>3, <1>12, <2>1, <2>2, <2>3
<1>18. Target(s) = 3 => Spare(s, D) \/ Shut(s)
  <2>1. Target(s) = 3 => r.goto = 3
    BY <1>1, <1>6, NoneApart DEF Target, StateIds
  <2>2. r.goto = 3 => Spare(r, D) \/ Shut(r)
    BY <1>11 DEF Removing
  <2> QED
    BY <1>8, <1>15, <2>1, <2>2 DEF Spare, Shut
<1>19. s.goto = None /\ s.state = 4 => s.full \/ Spare(s, D)
  BY <1>1, <1>16
<1>20. s.state \in {1, 2} /\ s.goto \in {None, 1, 2} => s.up[2] \in {5, 6}
  <2>1. r.goto = 2 => r.state \in {1, 5, 6}
    BY <1>1, NoneApart DEF Removing, Shape, Tame, StateIds
  <2>2. r.goto = 1 => r.state = 2 /\ r.up[2] \in {5, 6}
    BY DEF Removing, Shape
  <2>3. r.goto = 2 /\ r.state = 1 => r.up[2] \in {5, 6}
    BY DEF Removing
  <2> QED
    BY <1>1, <1>7, <2>1, <2>2, <2>3
<1>21. s.goto = 2 => s.state # 0
  BY <1>1, <1>6, NoneApart DEF StateIds
<1>22. Removing(s, D, n, A)
  BY <1>5, <1>17, <1>18, <1>19, <1>20, <1>21 DEF Removing
<1> QED
  BY <1>22 DEF s

\* What a handler may make x of the connection y: it connects nothing, and asks
\* only where there is a connection.
Listens(x, y) ==
    \/ /\ x.kind = y.kind /\ x.reported = y.reported
       /\ x.st \in {y.st, "Closing", "Dead"}
       /\ x.asked = y.asked \/ y.st = "UdpMonitorActive"
    \/ /\ y.kind = "free" /\ x.kind # "free"
       /\ x.asked = <<>> /\ x.st \in {"ConnectActive", "Closed"}

\* A connection that is connected, has requests or has sent a consent has
\* reported its connect status.
Heard(r, D) ==
    \A l \in Links :
        /\ l \in D => r.link[l].kind # "free"
        /\ r.link[l].st = "UdpMonitorActive" \/ r.link[l].asked # <<>> \/ l \in D => r.link[l].reported

\* Such handlers keep that so.
LEMMA ListensHeard ==
    ASSUME NEW s, NEW r, NEW D, NEW E, E \subseteq D, Heard(r, D), \A k \in Links : Listens(s.link[k], r.link[k])
    PROVE  Heard(s, E)
<1>1. ASSUME NEW l \in Links
      PROVE  /\ l \in E => s.link[l].kind # "free"
             /\ s.link[l].st = "UdpMonitorActive" \/ s.link[l].asked # <<>> \/ l \in E => s.link[l].reported
  <2> DEFINE x == s.link[l]
             y == r.link[l]
  <2>1. Listens(x, y) /\ (l \in E => l \in D)
    OBVIOUS
  <2>2. /\ l \in D => y.kind # "free"
        /\ y.st = "UdpMonitorActive" \/ y.asked # <<>> \/ l \in D => y.reported
    BY DEF Heard
  <2> HIDE DEF x, y
  <2>3. /\ l \in E => x.kind # "free"
        /\ x.st = "UdpMonitorActive" \/ x.asked # <<>> \/ l \in E => x.reported
    BY <2>1, <2>2 DEF Listens
  <2> QED
    BY <2>3 DEF x
<1> QED
  BY <1>1 DEF Heard

\* Connections that are the same but for their marks, that are closed, or new.
LEMMA ListensWhen ==
    ASSUME NEW x, NEW y,
           \/ SameLink(x, y, {"ok4", "challenged"})
           \/ SameLink(x, y, {"ok4", "challenged", "asked"}) /\ y.st = "UdpMonitorActive"
           \/ SameLink(x, y, {"st"}) /\ x.st \in {y.st, "Closing", "Dead"}
           \/ /\ y.kind = "free"
              /\ \E kind \in {"auth", "margin"}, st \in {"ConnectActive", "Closed"} :
                     x = [FreeLink EXCEPT !.kind = kind, !.st = st]
    PROVE  Listens(x, y)
<1>1. CASE \/ SameLink(x, y, {"ok4", "challenged"})
           \/ SameLink(x, y, {"ok4", "challenged", "asked"}) /\ y.st = "UdpMonitorActive"
           \/ SameLink(x, y, {"st"}) /\ x.st \in {y.st, "Closing", "Dead"}
  BY <1>1 DEF SameLink, LinkFieldNames, Listens
<1>2. CASE /\ y.kind = "free"
           /\ \E kind \in {"auth", "margin"}, st \in {"ConnectActive", "Closed"} :
                  x = [FreeLink EXCEPT !.kind = kind, !.st = st]
  <2>1. PICK kind \in {"auth", "margin"}, st \in {"ConnectActive", "Closed"} :
            x = [FreeLink EXCEPT !.kind = kind, !.st = st]
    BY <1>2
  <2>2. x.kind = kind /\ x.st = st /\ x.asked = <<>>
    BY <2>1 DEF FreeLink
  <2> QED
    BY <1>2, <2>2 DEF Listens
<1> QED
  BY <1>1, <1>2

\* Entering a state is such a handler.
LEMMA EnteredListens ==
    ASSUME NEW r \in Mediator, r.goto # None, NEW k \in Links
    PROVE  Listens(Entered(r).link[k], r.link[k])
<1> DEFINE s == Entered(r)
           e == Arrived(r)
<1>1. e.link = r.link
  BY ArrivedIs DEF SameBut, FieldNames
<1>2. LinkMoves(s, e, k)
  BY EnteredLinks
<1> HIDE DEF s, e
<1>3. Listens(s.link[k], e.link[k])
  <2> DEFINE x == s.link[k]
             y == e.link[k]
  <2>1. CASE SameLink(x, y, {})
    <3>1. SameLink(x, y, {"ok4", "challenged"})
      BY <2>1 DEF SameLink
    <3> QED
      BY <3>1, ListensWhen
  <2>2. CASE SameLink(x, y, {"st"}) /\ x.st = "Closing"
    BY <2>2, ListensWhen
  <2>3. CASE y.kind = "free" /\ x = [FreeLink EXCEPT !.kind = "auth", !.st = "ConnectActive"]
    BY <2>3, ListensWhen
  <2>4. CASE /\ y.kind = "free"
             /\ \E st \in {"ConnectActive", "Closed"} : x = [FreeLink EXCEPT !.kind = "margin", !.st = st]
    BY <2>4, ListensWhen
  <2>5. CASE y.st = "UdpMonitorActive" /\ SameLink(x, y, {"asked"})
    <3>1. SameLink(x, y, {"ok4", "challenged", "asked"})
      BY <2>5 DEF SameLink
    <3> QED
      BY <2>5, <3>1, ListensWhen
  <2> QED
    BY <1>2, <2>1, <2>2, <2>3, <2>4, <2>5 DEF LinkMoves
<1> QED
  BY <1>1, <1>3 DEF s

\* A margin connection that is being closed.
LEMMA ClosingListens ==
    ASSUME NEW s, NEW r, MarginClosing(s, r) \/ (\E L : LinksClosed(s, r, L))
    PROVE  \A k \in Links : Listens(s.link[k], r.link[k])
<1>1. ASSUME NEW k \in Links
      PROVE  Listens(s.link[k], r.link[k])
  <2>1. SameLink(s.link[k], r.link[k], {"st"}) /\ (s.link[k] # r.link[k] => s.link[k].st = "Closing")
    BY DEF MarginClosing, LinksClosed
  <2>2. s.link[k].st \in {r.link[k].st, "Closing"}
    BY <2>1
  <2> QED
    BY <2>1, <2>2, ListensWhen
<1> QED
  BY <1>1

\* Every completed operation listens.
LEMMA CompletedListens ==
    ASSUME NEW s \in Mediator, NEW r \in Mediator, r.goto = None, NEW i \in Items, CompletedResult(s, r, i)
    PROVE  \A k \in Links : Listens(s.link[k], r.link[k])
<1> DEFINE P == \A k \in Links : Listens(s.link[k], r.link[k])
<1>1. \A x : Listens(x, x)
  BY DEF Listens
<1>2. CASE s.link = r.link
  BY <1>1, <1>2
<1>3. CASE \E F, t, E : Moves(s, r, F, t, E) /\ "link" \notin F
  BY <1>2, <1>3 DEF Moves, SameBut, FieldNames
<1>4. CASE AuthLost(s, r) \/ AuthResult(s, r) \/ AuthReply(s, r, i.msg.characters)
  <2>1. CASE AuthLost(s, r)
    BY <1>3, <2>1 DEF AuthLost
  <2>2. CASE AuthResult(s, r)
    <3>1. CASE Moves(s, r, {}, r.up[1], {Event(0)}) \/ Moves(s, r, {"flag2c", "attempts"}, 0, Errors)
      BY <1>3, <3>1
    <3>2. CASE /\ Opened(s, r, "auth", {"ConnectActive"})
               /\ \A k \in Links : s.link[k].st # r.link[k].st =>
                     \/ s.link[k].st = "Closing"
                     \/ /\ r.link[k].kind = "free"
                        /\ s.link[k] = [FreeLink EXCEPT !.kind = "auth", !.st = "ConnectActive"]
      <4>1. ASSUME NEW k \in Links
            PROVE  Listens(s.link[k], r.link[k])
        <5>1. CASE /\ r.link[k].kind = "free"
                   /\ s.link[k] = [FreeLink EXCEPT !.kind = "auth", !.st = "ConnectActive"]
          BY <5>1, ListensWhen
        <5>2. CASE SameLink(s.link[k], r.link[k], {"st"})
          <6>1. CASE s.link[k].st \in {r.link[k].st, "Closing"}
            BY <5>2, <6>1, ListensWhen
          <6> QED
            BY <3>2, <5>1, <6>1
        <5> QED
          BY <3>2, <5>1, <5>2 DEF Opened
      <4> QED
        BY <4>1
    <3>3. \/ s = r
          \/ Moves(s, r, {}, r.up[1], {Event(0)}) \/ Moves(s, r, {"flag2c", "attempts"}, 0, Errors)
          \/ /\ Opened(s, r, "auth", {"ConnectActive"})
             /\ \A k \in Links : s.link[k].st # r.link[k].st =>
                   \/ s.link[k].st = "Closing"
                   \/ /\ r.link[k].kind = "free"
                      /\ s.link[k] = [FreeLink EXCEPT !.kind = "auth", !.st = "ConnectActive"]
      BY <2>2 DEF AuthResult
    <3> QED
      BY <1>2, <3>1, <3>2, <3>3
  <2>3. CASE AuthReply(s, r, i.msg.characters)
    BY <1>2, <1>3, <2>3 DEF AuthReply
  <2> QED
    BY <1>4, <2>1, <2>2, <2>3
<1>5. CASE MarginOpened(s, r)
  <2>1. ASSUME NEW k \in Links PROVE Listens(s.link[k], r.link[k])
    <3>1. CASE s.link[k] = r.link[k]
      BY <1>1, <3>1
    <3>2. CASE /\ r.link[k].kind = "free"
               /\ \E st \in {"ConnectActive", "Closed"} :
                     s.link[k] = [FreeLink EXCEPT !.kind = "margin", !.st = st]
      BY <3>2, ListensWhen
    <3> QED
      BY <1>5, <3>1, <3>2 DEF MarginOpened
  <2> QED
    BY <2>1
<1>6. CASE MarginLost(s, r) \/ MarginResult(s, r)
  BY <1>2, <1>3, <1>5, <1>6 DEF MarginLost, MarginResult
<1>7. ASSUME NEW l \in Links, \A k \in Links \ {l} : s.link[k] = r.link[k],
             SameLink(s.link[l], r.link[l], {"ok4", "challenged"})
      PROVE  P
  BY <1>1, <1>7, ListensWhen
<1>8. CASE CopyResult(s, r, i.link)
  <2>1. SameLink(s.link[i.link], r.link[i.link], {"ok4", "challenged"})
    BY <1>8 DEF CopyResult, SameLink
  <2>2. i.link \in Links /\ \A k \in Links \ {i.link} : s.link[k] = r.link[k]
    BY <1>8 DEF CopyResult, Items
  <2> QED
    BY <1>7, <2>1, <2>2
<1>9. CASE r.margin \in Links /\ Begun(s, r)
  <2>1. SameLink(s.link[r.margin], r.link[r.margin], {"ok4", "challenged"})
    BY <1>9 DEF Begun, SameLink
  <2> QED
    BY <1>7, <1>9, <2>1 DEF Begun
<1>10. CASE MarginClosing(s, r)
  BY <1>10, ClosingListens
<1>11. CASE r.margin \in Links /\ ChallengeResult(s, r)
  <2>1. CASE Moves(s, r, {}, 0, Errors)
    BY <1>3, <2>1
  <2>2. CASE /\ SameLink(s.link[r.margin], r.link[r.margin], {"challenged", "asked"})
             /\ \/ s.link[r.margin].asked = r.link[r.margin].asked
                \/ r.link[r.margin].st = "UdpMonitorActive"
             /\ \A k \in Links \ {r.margin} : s.link[k] = r.link[k]
    <3>1. Listens(s.link[r.margin], r.link[r.margin])
      BY <2>2 DEF SameLink, LinkFieldNames, Listens
    <3> QED
      BY <1>1, <2>2, <3>1
  <2> QED
    BY <1>11, <2>1, <2>2 DEF ChallengeResult
<1>12. CASE r.margin \in Links /\ MarginReply(s, r)
  <2>1. CASE SectionResult(s, r, 11) \/ SectionResult(s, r, 22)
    <3>1. PICK t, E : Moves(s, r, {"profile", "seen", "expected"}, t, E)
      BY <2>1 DEF SectionResult
    <3> QED
      BY <1>3, <3>1
  <2>2. CASE ClaimResult(s, r)
    BY <1>2, <1>3, <2>2 DEF ClaimResult
  <2>3. CASE VerdictResult(s, r) \/ DeletedResult(s, r)
    BY <1>9, <1>10, <1>12, <2>3 DEF VerdictResult, DeletedResult
  <2>4. CASE SubmittedResult(s, r)
    BY <1>3, <1>10, <2>4 DEF SubmittedResult
  <2>5. CASE Moves(s, r, {}, 3, Errors) \/ Moves(s, r, {"current", "named"}, 3, Errors)
    BY <1>3, <2>5
  <2> QED
    BY <1>2, <1>11, <1>12, <2>1, <2>2, <2>3, <2>4, <2>5 DEF MarginReply
<1>13. i.link \in Links
  BY DEF Items
<1>14. CASE HardClosed(s, r, i.link)
  <2>1. ASSUME NEW k \in Links PROVE Listens(s.link[k], r.link[k])
    <3>1. SameLink(s.link[k], r.link[k], {"st"}) /\ s.link[k].st \in {r.link[k].st, "Dead"}
      BY <1>14 DEF HardClosed
    <3> QED
      BY <3>1, ListensWhen
  <2> QED
    BY <2>1
<1>15. CASE Moves(s, r, {"unread"}, r.goto, {})
  BY <1>3, <1>15
<1> QED
  BY <1>2, <1>4, <1>6, <1>8, <1>12, <1>13, <1>14, <1>15 DEF CompletedResult

\* The margin connection of a completed operation is the same, none or new.
LEMMA CompletedMargin ==
    ASSUME NEW s \in Mediator, NEW r \in Mediator, r.goto = None, NEW i \in Items, CompletedResult(s, r, i)
    PROVE  \/ s.margin = r.margin
           \/ s.margin = None /\ r.margin # None
           \/ /\ r.state = 4 /\ s.goto = None
              /\ s.margin \in Links /\ r.link[s.margin].kind = "free" /\ s.link[s.margin].asked = <<>>
<1>1. CASE s = r
  BY <1>1
<1>2. CASE \E F, t, E : Moves(s, r, F, t, E) /\ "margin" \notin F
  BY <1>2 DEF Moves, SameBut, FieldNames
<1>3. CASE \E F : SameBut(s, r, F) /\ "margin" \notin F
  BY <1>3 DEF SameBut, FieldNames
<1>4. CASE AuthLost(s, r) \/ AuthResult(s, r) \/ AuthReply(s, r, i.msg.characters)
  BY <1>1, <1>2, <1>3, <1>4 DEF AuthLost, AuthResult, AuthReply
<1>5. CASE i.link = r.margin /\ MarginLost(s, r)
  <2>1. r.margin # None
    BY <1>5, LoginAssumption DEF Items
  <2> QED
    BY <1>5, <2>1 DEF MarginLost
<1>6. CASE r.state = 4 /\ MarginOpened(s, r)
  <2>1. s.goto = None
    BY <1>6 DEF MarginOpened, MarginFields, SameBut, FieldNames
  <2>2. \A st : [FreeLink EXCEPT !.kind = "margin", !.st = st].asked = <<>>
    BY DEF FreeLink
  <2>3. s["margin"] = s.margin /\ r["margin"] = r.margin
    OBVIOUS
  <2>4. s.margin # r.margin =>
           /\ s.margin \in Links /\ r.link[s.margin].kind = "free"
           /\ \E st \in {"ConnectActive", "Closed"} :
                 s.link[s.margin] = [FreeLink EXCEPT !.kind = "margin", !.st = st]
    <3>1. s.margin # r.margin => Opened(s, r, "margin", {"ConnectActive", "Closed"})
      BY <1>6 DEF MarginOpened
    <3> QED
      BY <2>3, <3>1 DEF Opened
  <2> QED
    BY <1>6, <2>1, <2>2, <2>4
<1>7. CASE MarginResult(s, r)
  BY <1>1, <1>2, <1>6, <1>7 DEF MarginResult
<1>8. CASE CopyResult(s, r, i.link)
  BY <1>2, <1>3, <1>8 DEF CopyResult
<1>9. CASE MarginReply(s, r)
  <2>1. CASE SectionResult(s, r, 11) \/ SectionResult(s, r, 22)
    BY <1>2, <2>1 DEF SectionResult
  <2>2. CASE ClaimResult(s, r)
    BY <1>1, <1>2, <2>2 DEF ClaimResult
  <2>3. CASE VerdictResult(s, r)
    BY <1>2, <2>3 DEF VerdictResult
  <2>4. CASE DeletedResult(s, r) \/ SubmittedResult(s, r)
    BY <1>2, <2>4 DEF DeletedResult, SubmittedResult
  <2>5. CASE ChallengeResult(s, r)
    BY <1>2, <1>3, <2>5 DEF ChallengeResult
  <2>6. CASE Moves(s, r, {}, 3, Errors) \/ Moves(s, r, {"current", "named"}, 3, Errors)
    BY <1>2, <2>6
  <2> QED
    BY <1>1, <1>9, <2>1, <2>2, <2>3, <2>4, <2>5, <2>6 DEF MarginReply
<1>10. CASE HardClosed(s, r, i.link) \/ Moves(s, r, {"unread"}, r.goto, {})
  BY <1>2, <1>10 DEF HardClosed
<1> QED
  BY <1>1, <1>4, <1>5, <1>7, <1>8, <1>9, <1>10 DEF CompletedResult

\* A tame handler that goes to state 3 from any other than state 4 has no margin
\* connection, or one that is being closed.
LEMMA CompletedShut ==
    ASSUME NEW s \in Mediator, NEW r \in Mediator, r.goto = None, NEW i \in Items, CompletedResult(s, r, i),
           Shape(r), Tame(r), r.state # 4, r.state = 2 => r.up[2] \in {5, 6}, s.goto = 3
    PROVE  Shut(s)
<1>1. /\ r.state \in 0 .. 7 /\ r.state # 4
      /\ r.state = 1 => r.up[1] = 2
      /\ r.state = 5 => r.up[5] = 6
      /\ r.up[6] \in {None, 2, 7}
      /\ None # 3 /\ None # 5 /\ None # 6
  BY NoneApart DEF Shape, Tame, StateIds
<1>2. s # r
  BY <1>1
<1>3. CASE AuthLost(s, r) \/ AuthResult(s, r) \/ AuthReply(s, r, i.msg.characters)
  <2>1. ~AuthLost(s, r)
    BY <1>1 DEF AuthLost, Moves
  <2>2. ~AuthResult(s, r)
    BY <1>1, <1>2 DEF AuthResult, Moves, SameBut, FieldNames
  <2>3. ~AuthReply(s, r, i.msg.characters)
    <3>1. r.state = 2 => (IF r.up[2] \in {0, None} THEN 3 ELSE r.up[2]) # 3
      BY <1>1
    <3> QED
      BY <1>1, <1>2, <3>1 DEF AuthReply, Moves
  <2> QED
    BY <1>3, <2>1, <2>2, <2>3
<1>4. CASE MarginLost(s, r)
  BY <1>4 DEF MarginLost, Shut
<1>5. CASE MarginResult(s, r)
  BY <1>1, <1>2, <1>5 DEF MarginResult
<1>6. CASE CopyResult(s, r, i.link)
  <2>1. CASE SameBut(s, r, {"link"})
    BY <1>1, <2>1 DEF SameBut, FieldNames
  <2>2. CASE r.state = 5 /\ s.goto = Phase(r.up[5])
    BY <1>1, <2>2 DEF Phase
  <2> QED
    BY <1>6, <2>1, <2>2 DEF CopyResult, Moves
<1>7. CASE MarginReply(s, r)
  <2>1. CASE ChallengeResult(s, r)
    BY <1>1, <2>1 DEF ChallengeResult, Moves, SameBut, FieldNames
  <2>2. CASE MarginClosing(s, r) /\ \E F, t, E : Moves(s, r, F, t, E) /\ "margin" \notin F
    <3>1. s.margin = r.margin
      BY <2>2 DEF Moves, SameBut, FieldNames
    <3> QED
      BY <2>2, <3>1 DEF MarginClosing, Shut
  <2>3. CASE VerdictResult(s, r)
    <3>1. CASE \/ Moves(s, r, {"begins", "F14", "link"}, r.goto, {})
               \/ Moves(s, r, {"begins", "F14", "link"}, r.up[6], {Event(18)})
      BY <1>1, <3>1 DEF Moves
    <3>2. MarginClosing(s, r) \/ \/ Moves(s, r, {"begins", "F14", "link"}, r.goto, {})
                                 \/ Moves(s, r, {"begins", "F14", "link"}, r.up[6], {Event(18)})
      BY <2>3 DEF VerdictResult
    <3>3. MarginClosing(s, r) => Moves(s, r, {"begins", "F14", "link"}, r.goto, {})
                                 \/ Moves(s, r, {"begins", "F14", "link"}, r.up[6], {Event(18)})
                                 \/ (\E t \in {2, 4} : Moves(s, r, {"link", "flag2d", "F14"}, t, {}))
                                 \/ Moves(s, r, {"link", "flag2d", "F14", "begins"}, 3, Errors)
      BY <2>3 DEF VerdictResult
    <3> QED
      BY <2>2, <3>1, <3>2, <3>3
  <2>4. CASE DeletedResult(s, r)
    BY <2>2, <2>4 DEF DeletedResult
  <2> QED
    BY <1>1, <1>2, <1>7, <2>1, <2>3, <2>4 DEF MarginReply
<1>8. ~HardClosed(s, r, i.link) /\ ~Moves(s, r, {"unread"}, r.goto, {})
  BY <1>1 DEF HardClosed, Moves
<1> QED
  BY <1>2, <1>3, <1>4, <1>5, <1>6, <1>7, <1>8 DEF CompletedResult

\* Event 8 is the server's consent, on the current connection, to the deletion
\* state 7 has asked for.
LEMMA ConsentAnnounced ==
    ASSUME NEW r \in Mediator, Resting(r), Fit(r), NEW i \in Items, ItemFit(r, i), NEW hashed \in BOOLEAN,
           Event(8) \in Announced(Completed(r, i, hashed))
    PROVE  r.state = 7 /\ i.link = r.margin /\ i.msg.code = "deleted" /\ i.msg.status = "ok"
<1> DEFINE s == Completed(r, i, hashed)
           none == Announced(s)
<1>1. s \in Mediator /\ CompletedResult(s, r, i) /\ r.goto = None /\ Announced(r) = {}
  BY CompletedIs DEF Resting
<1>2. s = Dispatched(r, i, hashed) \/ Announced(s) = {}
  <2>1. i.link \in Links
    BY DEF Items
  <2>2. HardClosed(CloseHard(r, i.link), r, i.link) /\ Moves(Unread(r, i), r, {"unread"}, r.goto, {})
    BY <2>1, HardClosedIs, UnreadIs
  <2>3. Announced(CloseHard(r, i.link)) \subseteq Announced(r) /\ Announced(Unread(r, i)) \subseteq Announced(r)
    BY <2>2 DEF HardClosed, Moves
  <2> QED
    BY <1>1, <2>3 DEF Completed
<1>3. Event(8) \in Announced(s)
  OBVIOUS
<1>4. i.link \in Links
  BY DEF Items
<1> HIDE DEF s
<1>5. r.state = 7
  <2>1. Turned(s, r)
    BY <1>1, CompletedTurned
  <2>2. Event(8) \notin Plain /\ Event(8) # Event(5) /\ Event(8) # Event(6) /\ Event(8) # Event(24)
    BY EventsApart, PlainEnds
  <2>3. Event(8) \notin Errors
    BY EventsApart
  <2> QED
    BY <1>3, <2>1, <2>2, <2>3 DEF Turned, LogsIn, Stays, Breaks, Proceeds, Claims, Submits
<1>6. Event(8) \notin Errors /\ Event(8) # Event(1) /\ Event(8) # Event(15)
  BY EventsApart DEF Event
<1>7. s # r
  BY <1>1, <1>3
<1>8. s # AuthClosed(r)
  BY <1>1, <1>3, <1>6, AuthClosedIs DEF AuthLost, Moves
<1>9. s # MarginClosed(r)
  BY <1>1, <1>3, <1>6, MarginClosedIs DEF MarginLost, Moves
<1>10. AuthStatus(r, i.msg.status) = r /\ MarginStatus(r, i.msg.status) = r /\ AuthMessage(r, i.msg) = r
  BY <1>5 DEF AuthStatus, MarginStatus, AuthMessage
<1>11. s # CopyAnswered(r, i.link, i.msg.status)
  <2>1. CopyResult(CopyAnswered(r, i.link, i.msg.status), r, i.link)
    BY <1>4, CopyAnsweredIs
  <2> DEFINE c == CopyAnswered(r, i.link, i.msg.status)
  <2> HIDE DEF c
  <2>2. SameBut(c, r, {"link"})
    BY <1>5, <2>1 DEF CopyResult, c
  <2>3. Announced(c) = Announced(r)
    BY <2>2 DEF Announced, SameBut, FieldNames
  <2> QED
    BY <1>1, <1>3, <2>3 DEF c
<1>12. s = MarginMessage(r, i.msg, hashed) /\ i.link = r.margin
  BY <1>2, <1>3, <1>7, <1>8, <1>9, <1>10, <1>11 DEF Dispatched
<1>13. i.msg.code = "deleted" /\ s = Deleted(r, i.msg.status)
  BY <1>5, <1>7, <1>12 DEF MarginMessage
<1>14. i.msg.status = "ok"
  <2>1. SUFFICES ASSUME i.msg.status # "ok" PROVE FALSE
    OBVIOUS
  <2> DEFINE f == Fail(r, 3, 9)
  <2>2. s = RequestMarginClose(f)
    BY <1>13, <2>1 DEF Deleted
  <2>6. 3 \in StateIds /\ 9 \in Nat
    BY DEF StateIds
  <2>3. f \in Mediator /\ Announced(f) = Announced(r) \cup {[kind |-> "error", id |-> 9]}
    BY <2>6, FailIs
  <2> HIDE DEF f
  <2>4. SameBut(s, f, {"link", "flag2d", "F14"})
    BY <2>2, <2>3, RequestMarginCloseIs
  <2>5. Announced(s) = Announced(f)
    BY <2>4 DEF Announced, SameBut, FieldNames
  <2> QED
    BY <1>1, <1>3, <2>3, <2>5 DEF Event
<1> QED
  BY <1>5, <1>12, <1>13, <1>14

\* No completed operation takes a character out of the slot table, once there
\* is one.
LEMMA CompletedSlots ==
    ASSUME NEW s \in Mediator, NEW r \in Mediator, r.goto = None, NEW i \in Items, CompletedResult(s, r, i), r.gate
    PROVE  s.slots = r.slots \/ s.slots = Append(r.slots, r.create)
<1>1. CASE s = r
  BY <1>1
<1>2. CASE \E F, t, E : Moves(s, r, F, t, E) /\ "slots" \notin F
  BY <1>2 DEF Moves, SameBut, FieldNames
<1>3. CASE \E F : SameBut(s, r, F) /\ "slots" \notin F
  BY <1>3 DEF SameBut, FieldNames
<1>4. CASE AuthLost(s, r) \/ AuthResult(s, r) \/ AuthReply(s, r, i.msg.characters)
  BY <1>1, <1>2, <1>3, <1>4 DEF AuthLost, AuthResult, AuthReply
<1>5. CASE MarginLost(s, r) \/ MarginResult(s, r)
  <2>1. CASE MarginOpened(s, r)
    BY <1>3, <2>1 DEF MarginOpened, MarginFields
  <2> QED
    BY <1>1, <1>2, <1>5, <2>1 DEF MarginLost, MarginResult
<1>6. CASE CopyResult(s, r, i.link)
  BY <1>2, <1>3, <1>6 DEF CopyResult
<1>7. CASE MarginReply(s, r)
  <2>1. CASE SectionResult(s, r, 11) \/ SectionResult(s, r, 22)
    BY <1>2, <2>1 DEF SectionResult
  <2>2. CASE ClaimResult(s, r)
    BY <1>1, <1>2, <2>2 DEF ClaimResult
  <2>3. CASE VerdictResult(s, r)
    BY <1>2, <2>3 DEF VerdictResult
  <2>4. CASE DeletedResult(s, r) \/ SubmittedResult(s, r)
    BY <1>2, <2>4 DEF DeletedResult, SubmittedResult
  <2>5. CASE ChallengeResult(s, r)
    BY <1>2, <1>3, <2>5 DEF ChallengeResult
  <2>6. CASE Moves(s, r, {}, 3, Errors) \/ Moves(s, r, {"current", "named"}, 3, Errors)
    BY <1>2, <2>6
  <2> QED
    BY <1>1, <1>7, <2>1, <2>2, <2>3, <2>4, <2>5, <2>6 DEF MarginReply
<1>8. CASE HardClosed(s, r, i.link) \/ Moves(s, r, {"unread"}, r.goto, {})
  BY <1>2, <1>8 DEF HardClosed
<1> QED
  BY <1>1, <1>4, <1>5, <1>6, <1>7, <1>8 DEF CompletedResult

\* The client's hashes are no request to make or to delete a character.
LEMMA HashesAre ==
    ASSUME NEW n
    PROVE  Hashes \in Harmless /\ Hashes \in Sparing /\ Hashes \in Deleting(n)
BY DEF Hashes, Harmless, Sparing, Deleting, Request, Requested

\* A completed operation asks nothing but the hashes.
LEMMA CompletedAskedIn ==
    ASSUME NEW s \in Mediator, NEW r \in Mediator, r.goto = None, NEW i \in Items, CompletedResult(s, r, i),
           NEW S, Hashes \in S, NEW k \in Links, AskedIn(r.link[k], S)
    PROVE  AskedIn(s.link[k], S)
<1>1. s.link[k] \in Link /\ r.link[k] \in Link
  BY FieldsTyped
<1>2. s.link[k].asked \in {r.link[k].asked, <<>>, Append(r.link[k].asked, Hashes)}
  BY CompletedAsks
<1>3. CASE s.link[k].asked = r.link[k].asked
  BY <1>3 DEF AskedIn
<1>4. CASE s.link[k].asked = <<>>
  BY <1>4 DEF AskedIn
<1>5. CASE s.link[k].asked = Append(r.link[k].asked, Hashes)
  BY <1>1, <1>5, AskedMore
<1> QED
  BY <1>2, <1>3, <1>4, <1>5

\* A completed operation keeps a mediator tame.
LEMMA CompletedTame ==
    ASSUME NEW s \in Mediator, NEW r \in Mediator, Resting(r), NEW i \in Items, CompletedResult(s, r, i), Tame(r)
    PROVE  Tame(s)
<1>1. r.goto = None /\ Turned(s, r)
  BY CompletedTurned DEF Resting
<1>2. \A l \in Links : AskedIn(s.link[l], Harmless)
  BY <1>1, HashesAre, CompletedAskedIn DEF Tame
<1>3. s.state = r.state /\ r.state \in 0 .. 7
  BY <1>1 DEF Turned, Tame
<1>4. /\ r.up[1] \in {None, 2} /\ r.up[5] \in {None, 6}
      /\ r.up[2] \in {None, 0, 5, 6} /\ r.up[4] \in {None, 6, 7} /\ r.up[6] \in {None, 2, 7}
  BY DEF Resting, Shape, Tame
<1>5. s.goto \in {None} \cup 0 .. 7
  BY <1>1, <1>3, <1>4 DEF Turned, LogsIn, Stays, Breaks, Proceeds, Claims, Submits
<1>6. /\ s.up[2] \in {None, 0, 5, 6}
      /\ s.up[4] \in {None, 6, 7}
      /\ s.up[6] \in {None, 2, 7}
  <2>1. s.up \in {r.up, Forgotten4(r)}
    BY <1>1 DEF Turned, LogsIn, Stays, Breaks, Proceeds, Claims, Submits
  <2>2. /\ Forgotten4(r)[2] = r.up[2]
        /\ Forgotten4(r)[4] = None
        /\ Forgotten4(r)[6] = r.up[6]
    BY FieldsTyped DEF Forgotten4, Cachers
  <2> QED
    BY <1>4, <2>1, <2>2
<1> QED
  BY <1>2, <1>3, <1>5, <1>6 DEF Tame

\* A completed operation keeps to the deletion of n.
LEMMA CompletedRemoving ==
    ASSUME NEW s \in Mediator, NEW r \in Mediator, Resting(r), ~r.full, Fit(r), Tame(r),
           NEW i \in Items, CompletedResult(s, r, i),
           NEW D, NEW E, E \subseteq D, NEW n, NEW A, Removing(r, D, n, A)
    PROVE  Removing(s, E, n, A)
<1>1. r.goto = None /\ Turned(s, r) /\ Kept(s, r) /\ Shape(r) /\ Gate(r)
  BY CompletedTurned, CompletedFit DEF Resting
<1>2. /\ s.state = r.state /\ r.state \in 0 .. 7
      /\ \A x \in 0 .. 13 : x # None
  BY <1>1, NoneApart DEF Turned, Tame, StateIds
<1>3. /\ r.up[1] \in {None, 2} /\ r.up[5] \in {None, 6}
      /\ r.up[4] \in {None, 6, 7} /\ r.up[6] \in {None, 2, 7}
      /\ r.state = 1 => r.up[1] = 2
      /\ r.state = 4 => r.up[4] # None
      /\ r.state = 5 => r.up[5] = 6
      /\ r.state = 6 => r.up[6] # None
      /\ r.state \in {1, 2} => r.up[2] \in {5, 6} /\ r.gate
  <2>1. r.state \in {1, 2} => r.up[2] \in {5, 6}
    BY <1>1 DEF Removing
  <2>2. r.up[2] \in {5, 6} => r.gate
    BY <1>1, <1>2 DEF Gate
  <2> QED
    BY <1>1, <2>1, <2>2 DEF Shape, Tame
<1>4. \/ s.goto = None /\ s.slots = r.slots /\ s.current = r.current
      \/ s.goto \in {0, 3}
      \/ /\ r.state \in {1, 2, 4, 5, 6} /\ s.goto \in {2, 4, 5, 6, 7}
         /\ s.slots = r.slots /\ s.current = r.current
  BY <1>1, <1>2, <1>3 DEF Turned, LogsIn, Stays, Breaks, Proceeds, Claims, Submits
<1>5. s.up[2] = r.up[2]
  <2>1. s.up \in {r.up, Forgotten4(r)}
    BY <1>1 DEF Turned, LogsIn, Stays, Breaks, Proceeds, Claims, Submits
  <2>2. Forgotten4(r)[2] = r.up[2]
    BY FieldsTyped DEF Forgotten4, Cachers
  <2> QED
    BY <2>1, <2>2
<1>6. \A l \in E : l \in Links /\ s.link[l].kind # "free"
  BY <1>1 DEF Removing, Kept
<1>7. \/ s.margin = r.margin /\ r.margin \in Links
      \/ s.margin = None
      \/ /\ r.state = 4 /\ s.goto = None
         /\ s.margin \in Links /\ r.link[s.margin].kind = "free" /\ s.link[s.margin].asked = <<>>
  BY <1>1, CompletedMargin, FieldsTyped
<1>8. ASSUME NEW S, Hashes \in S, r.margin \in Links, AskedIn(r.link[r.margin], S)
      PROVE  AskedIn(s.link[r.margin], S)
  BY <1>1, <1>8, CompletedAskedIn
<1>9. Spare(r, D) /\ s.margin \in {None, r.margin} => Spare(s, E)
  BY <1>7, <1>8, HashesAre DEF Spare
<1>10. Own(r, D, n, A) /\ s.margin \in {None, r.margin} => Own(s, E, n, A)
  BY <1>7, <1>8, HashesAre DEF Own
<1>11. Shut(r) /\ s.margin \in {None, r.margin} => Shut(s)
  <2>1. r.margin \in Links => Listens(s.link[r.margin], r.link[r.margin])
    BY <1>1, CompletedListens
  <2>2. r.margin \in Links => r.link[r.margin].kind = "margin"
    BY LoginAssumption DEF Fit, LinkFit
  <2> QED
    BY <1>7, <2>1, <2>2 DEF Shut, Listens
<1>12. s.margin \notin {None, r.margin} => r.state = 4 /\ s.goto = None /\ Spare(s, E)
  <2>1. s.margin \in Links /\ s.link[s.margin].asked = <<>> => AskedIn(s.link[s.margin], Sparing)
    BY DEF AskedIn
  <2>2. s.margin \in Links /\ r.link[s.margin].kind = "free" => s.margin \notin E
    BY DEF Removing
  <2> QED
    BY <1>7, <2>1, <2>2 DEF Spare
<1>13. r.state \notin {0, 3} => SlotName(r) = n /\ Own(r, D, n, A)
  <2>1. Target(r) = r.state
    BY <1>1 DEF Target
  <2> QED
    BY <1>1, <1>2, <2>1 DEF Removing
<1>14. Target(s) \notin {0, 3} => SlotName(s) = n /\ Own(s, E, n, A)
  <2>1. SUFFICES ASSUME Target(s) \notin {0, 3}
                 PROVE  SlotName(s) = n /\ Own(s, E, n, A)
    OBVIOUS
  <2>2. r.state \notin {0, 3} /\ s.slots = r.slots /\ s.current = r.current
    BY <1>2, <1>4, <2>1 DEF Target
  <2>3. SlotName(s) = SlotName(r)
    BY <2>2 DEF SlotName
  <2>4. Own(s, E, n, A)
    BY <1>10, <1>12, <1>13, <2>2, SpareOwn
  <2> QED
    BY <1>13, <2>2, <2>3, <2>4
<1>15. r.state = 4 => Spare(r, D)
  BY <1>1 DEF Removing
<1>16. Target(s) = 3 => Spare(s, E) \/ Shut(s)
  <2>1. CASE s.goto = None
    <3>1. Target(s) = 3 => r.state = 3 /\ Target(r) = 3
      BY <1>1, <1>2, <2>1 DEF Target
    <3>2. Target(s) = 3 => Spare(r, D) \/ Shut(r)
      BY <3>1 DEF Removing
    <3> QED
      BY <1>2, <1>9, <1>11, <1>12, <3>1, <3>2
  <2>2. CASE s.goto = 3 /\ r.state = 4
    BY <1>2, <1>9, <1>12, <1>15, <2>2
  <2>3. CASE s.goto = 3 /\ r.state # 4
    BY <1>1, <1>3, <2>3, CompletedShut
  <2> QED
    BY <1>2, <2>1, <2>2, <2>3 DEF Target
<1>17. s.goto = None /\ s.state = 4 => Spare(s, E)
  BY <1>2, <1>9, <1>12, <1>15
<1>18. s.state \in {1, 2} => s.up[2] \in {5, 6}
  BY <1>2, <1>3, <1>5
<1>19. s.goto = 2 => s.state # 0
  BY <1>2, <1>4
<1> QED
  BY <1>6, <1>14, <1>16, <1>17, <1>18, <1>19 DEF Removing

\* All of this at once, with c for whether no login has succeeded yet and p for
\* whether n is the character to delete.
Steered(r, D, c, p, n, A) ==
    /\ Shape(r) /\ Tame(r) /\ Heard(r, D)
    /\ c => Calm(r)
    /\ p => Removing(r, D, n, A)

\* Entering a state keeps it so.
LEMMA EnteredSteered ==
    ASSUME NEW r \in Mediator, Fit(r), r.goto # None, NEW D, NEW c, NEW p, NEW n, NEW A,
           Steered(r, D, c, p, n, A)
    PROVE  Steered(Entered(r), D, c, p, n, A)
<1> DEFINE s == Entered(r)
<1>1. Shape(r) /\ Tame(r) /\ Heard(r, D) /\ (c => Calm(r)) /\ (p => Removing(r, D, n, A))
  BY DEF Steered
<1>2. Shape(s) /\ Tame(s)
  BY <1>1, EnteredShape, EnteredTame
<1>3. \A k \in Links : Listens(s.link[k], r.link[k])
  BY EnteredListens
<1>4. c => Calm(s)
  BY <1>1, EnteredCalm
<1>5. p => Removing(s, D, n, A)
  BY <1>1, EnteredRemoving
<1> HIDE DEF s
<1>6. Heard(s, D)
  BY <1>1, <1>3, ListensHeard
<1>7. Steered(s, D, c, p, n, A)
  BY <1>2, <1>4, <1>5, <1>6 DEF Steered
<1> QED
  BY <1>7 DEF s

\* So do all the states that a handler enters.
LEMMA SettledSteered ==
    ASSUME NEW h \in Mediator, Fit(h), NEW D, NEW c, NEW p, NEW n, NEW A, Steered(h, D, c, p, n, A)
    PROVE  Steered(Settled(h), D, c, p, n, A)
<1> DEFINE G(t) == Steered(t, D, c, p, n, A)
<1>1. ASSUME NEW t \in Mediator, Fit(t), G(t)
      PROVE  Onward(t) \in Mediator /\ Fit(Onward(t)) /\ G(Onward(t))
  <2>1. CASE t.goto = None
    BY <1>1, <2>1 DEF Onward
  <2>2. CASE t.goto # None
    BY <1>1, <2>2, EnteredIs, EnteredFit, EnteredSteered DEF Onward
  <2> QED
    BY <2>1, <2>2
<1> DEFINE a == Onward(h)
           b == Onward(a)
           d == Onward(b)
           e == Onward(d)
           f == Onward(e)
<1>2. G(h)
  OBVIOUS
<1> HIDE DEF G
<1>3. a \in Mediator /\ Fit(a) /\ G(a)
  BY <1>1, <1>2
<1> HIDE DEF a
<1>4. b \in Mediator /\ Fit(b) /\ G(b)
  BY <1>1, <1>3
<1> HIDE DEF b
<1>5. d \in Mediator /\ Fit(d) /\ G(d)
  BY <1>1, <1>4
<1> HIDE DEF d
<1>6. e \in Mediator /\ Fit(e) /\ G(e)
  BY <1>1, <1>5
<1> HIDE DEF e
<1>7. G(f)
  BY <1>1, <1>6
<1>8. Rested(h) = f
  BY DEF Rested, a, b, d, e
<1> HIDE DEF f
<1>9. SameBut(Settled(h), Rested(h), {"posted", "after"})
  BY SettledIs
<1> DEFINE x == Settled(h)
           y == Rested(h)
<1> HIDE DEF x, y
<1>10. /\ x.state = y.state /\ x.goto = y.goto /\ x.up = y.up /\ x.margin = y.margin /\ x.full = y.full
       /\ x.slots = y.slots /\ x.current = y.current /\ x.link = y.link
  BY <1>9 DEF SameBut, FieldNames, x, y
<1>11. Steered(y, D, c, p, n, A)
  BY <1>7, <1>8 DEF G, y
<1>12. SlotName(x) = SlotName(y) /\ Target(x) = Target(y)
  BY <1>10 DEF SlotName, Target
<1>13. Shape(x) /\ Tame(x) /\ Heard(x, D) /\ (c => Calm(x))
  BY <1>10, <1>11 DEF Steered, Shape, Tame, Heard, Calm
<1>14. p => Removing(x, D, n, A)
  <2>1. /\ Own(x, D, n, A) <=> Own(y, D, n, A)
        /\ Spare(x, D) <=> Spare(y, D)
        /\ Shut(x) <=> Shut(y)
    BY <1>10 DEF Own, Spare, Shut
  <2> QED
    BY <1>10, <1>11, <1>12, <2>1 DEF Steered, Removing
<1> QED
  BY <1>13, <1>14 DEF Steered, x

\* Taking away the connections that have gone keeps it.
LEMMA TidySteered ==
    ASSUME NEW r \in Mediator, NEW q \in Seq(Items), NEW c, NEW p, NEW n, NEW A,
           Steered(r, Consents(q), c, p, n, A)
    PROVE  Steered(Tidy(r, q), Consents(q), c, p, n, A)
<1> DEFINE s == Tidy(r, q)
           D == Consents(q)
<1>1. SameBut(s, r, {"posted", "link"})
  BY TidyIs
<1>2. \A l \in Links : s.link[l] = IF Gone(r, q, l) THEN FreeLink ELSE r.link[l]
  BY TidyIs
<1>3. \A l \in D : l \in Links /\ ~Gone(r, q, l)
  BY DEF Consents, Gone
<1>4. r.margin # None => r.margin \in Links /\ ~Gone(r, q, r.margin)
  BY FieldsTyped DEF Gone
<1>5. FreeLink.st = "Closed" /\ FreeLink.asked = <<>>
  BY DEF FreeLink
<1> HIDE DEF s, D
<1>6. /\ s.state = r.state /\ s.goto = r.goto /\ s.up = r.up /\ s.margin = r.margin /\ s.full = r.full
      /\ s.slots = r.slots /\ s.current = r.current
  BY <1>1 DEF SameBut, FieldNames
<1>7. SlotName(s) = SlotName(r) /\ Target(s) = Target(r)
  BY <1>6 DEF SlotName, Target
<1>8. r.margin # None => s.link[r.margin] = r.link[r.margin]
  BY <1>2, <1>4
<1>9. \A l \in D : s.link[l] = r.link[l]
  BY <1>2, <1>3
<1>10. Steered(r, D, c, p, n, A)
  BY DEF D
<1>11. Shape(s) /\ (c => Calm(s))
  BY <1>6, <1>10 DEF Steered, Shape, Calm
<1>12. Tame(s)
  <2>1. \A l \in Links : AskedIn(s.link[l], Harmless)
    <3>1. AskedIn(FreeLink, Harmless)
      BY <1>5 DEF AskedIn
    <3> QED
      BY <1>2, <1>10, <3>1 DEF Steered, Tame
  <2> QED
    BY <1>6, <1>10, <2>1 DEF Steered, Tame
<1>13. Heard(s, D)
  <2>1. ASSUME NEW l \in Links
        PROVE  /\ l \in D => s.link[l].kind # "free"
               /\ s.link[l].st = "UdpMonitorActive" \/ s.link[l].asked # <<>> \/ l \in D => s.link[l].reported
    <3>1. s.link[l] = r.link[l] \/ (s.link[l] = FreeLink /\ l \notin D)
      BY <1>2, <1>9
    <3> QED
      BY <1>5, <1>10, <3>1 DEF Steered, Heard
  <2> QED
    BY <2>1 DEF Heard
<1>14. p => Removing(s, D, n, A)
  <2>1. /\ Own(s, D, n, A) <=> Own(r, D, n, A)
        /\ Spare(s, D) <=> Spare(r, D)
        /\ Shut(s) <=> Shut(r)
    BY <1>6, <1>8 DEF Own, Spare, Shut
  <2> QED
    BY <1>6, <1>7, <1>9, <1>10, <2>1 DEF Steered, Removing
<1>15. Steered(s, D, c, p, n, A)
  BY <1>11, <1>12, <1>13, <1>14 DEF Steered
<1> QED
  BY <1>15 DEF s, D

\* Before a login has succeeded, a completed operation keeps the mediator calm,
\* and state 0 is only left on request.
LEMMA CompletedCalm ==
    ASSUME NEW s \in Mediator, NEW r \in Mediator, Resting(r), NEW i \in Items, CompletedResult(s, r, i), Calm(r)
    PROVE  Calm(s) /\ (r.state = 0 => s.goto \in {None, 0})
<1>1. /\ r.goto = None /\ r.margin = None /\ r.state \in 0 .. 3 /\ r.up[2] \in {None, 0}
      /\ r.state = 1 => r.up[1] = 2
      /\ i.link # None
  BY LoginAssumption DEF Resting, Shape, Calm, Items
<1>2. Calm(s) <=> s.state \in 0 .. 3 /\ s.goto \in {None, 0, 1, 2, 3} /\ s.up[2] \in {None, 0} /\ s.margin = None
  BY DEF Calm
<1>3. CASE s = r
  BY <1>1, <1>2, <1>3
<1>4. ASSUME NEW F, NEW t, NEW E, Moves(s, r, F, t, E), F \cap {"state", "up", "margin"} = {},
             t \in {None, 0, 2, 3}, r.state = 0 => t \in {None, 0}
      PROVE  Calm(s) /\ (r.state = 0 => s.goto \in {None, 0})
  <2>1. s.state = r.state /\ s.up = r.up /\ s.margin = r.margin /\ s.goto = t
    BY <1>4 DEF Moves, SameBut, FieldNames
  <2> QED
    BY <1>1, <1>2, <1>4, <2>1
<1>5. CASE AuthLost(s, r)
  <2>1. Moves(s, r, {"auth"}, None, {Event(1)}) \/ Moves(s, r, {"auth"}, 0, Errors)
    BY <1>1, <1>5 DEF AuthLost
  <2> QED
    BY <1>4, <2>1
<1>6. CASE AuthResult(s, r)
  <2>1. CASE r.state = 1 /\ Moves(s, r, {}, r.up[1], {Event(0)})
    BY <1>1, <1>4, <2>1
  <2>2. CASE r.state = 1 /\ SameBut(s, r, {"auth", "link", "full", "flag2c", "authList", "attempts"})
    <3>1. s.state = r.state /\ s.up = r.up /\ s.margin = r.margin /\ s.goto = r.goto
      BY <2>2 DEF SameBut, FieldNames
    <3> QED
      BY <1>1, <1>2, <2>2, <3>1
  <2>3. CASE Moves(s, r, {"flag2c", "attempts"}, 0, Errors)
    BY <1>4, <2>3
  <2> QED
    BY <1>3, <1>6, <2>1, <2>2, <2>3 DEF AuthResult
<1>7. CASE AuthReply(s, r, i.msg.characters)
  <2>1. CASE /\ r.state = 2
             /\ Moves(s, r, {"flag2c", "gate", "current", "slots", "fresh"},
                      IF r.up[2] \in {0, None} THEN 3 ELSE r.up[2], {Event(5), Event(6)})
    <3>1. Moves(s, r, {"flag2c", "gate", "current", "slots", "fresh"}, 3, {Event(5), Event(6)})
      BY <1>1, <2>1
    <3> QED
      BY <1>4, <2>1, <3>1
  <2>2. CASE Moves(s, r, {"flag2c"}, 0, Errors)
    BY <1>4, <2>2
  <2> QED
    BY <1>3, <1>7, <2>1, <2>2 DEF AuthReply
<1>8. CASE CopyResult(s, r, i.link)
  <2>1. SameBut(s, r, {"link"})
    BY <1>1, <1>8 DEF CopyResult
  <2>2. s.state = r.state /\ s.up = r.up /\ s.margin = r.margin /\ s.goto = r.goto
    BY <2>1 DEF SameBut, FieldNames
  <2> QED
    BY <1>1, <1>2, <2>2
<1>9. CASE HardClosed(s, r, i.link) \/ Moves(s, r, {"unread"}, r.goto, {})
  <2>1. PICK F \in {{"link"}, {"unread"}} : Moves(s, r, F, None, {})
    BY <1>1, <1>9 DEF HardClosed
  <2> QED
    BY <1>4, <2>1
<1> QED
  BY <1>1, <1>3, <1>5, <1>6, <1>7, <1>8, <1>9 DEF CompletedResult

\* A completed operation keeps all of it.
LEMMA CompletedSteered ==
    ASSUME NEW s \in Mediator, NEW r \in Mediator, Resting(r), ~r.full, Fit(r),
           NEW i \in Items, CompletedResult(s, r, i),
           NEW D, NEW E, E \subseteq D, NEW c, NEW p, NEW n, NEW A, Steered(r, D, c, p, n, A)
    PROVE  Steered(s, E, c, p, n, A)
<1>1. r.goto = None /\ Shape(r) /\ Tame(r) /\ Heard(r, D) /\ (c => Calm(r)) /\ (p => Removing(r, D, n, A))
  BY DEF Resting, Steered
<1>2. Shape(s)
  BY CompletedTurned, TurnedShape
<1>3. Tame(s)
  BY <1>1, CompletedTame
<1>4. Heard(s, E)
  BY <1>1, CompletedListens, ListensHeard
<1>5. c => Calm(s)
  BY <1>1, CompletedCalm
<1>6. p => Removing(s, E, n, A)
  BY <1>1, CompletedRemoving
<1> QED
  BY <1>2, <1>3, <1>4, <1>5, <1>6 DEF Steered

\* What a call of the client thread leaves.
LEMMA TakenSteered ==
    ASSUME NEW h \in Mediator, Fit(h), NEW q \in Seq(Items), NEW w, Take(h, q, w),
           NEW c, NEW p, NEW n, NEW A, Steered(h, Consents(q), c, p, n, A)
    PROVE  /\ Steered(m', Consents(queue'), c, p, n, A)
           /\ Target(h) \in Idle => m'.state = Target(h)
           /\ m'.slots = h.slots /\ m'.gate = h.gate /\ m'.ready = h.ready
           /\ wish' \in {NoWish, w}
           /\ wish' = w \/ Concludes(Announced(h), w)
           /\ "request" \notin left' => "request" \notin left /\ (wish = NoWish \/ w = wish)
<1> DEFINE r == Settled(h)
<1>1. /\ m' = Tidy(r, q) /\ queue' = q
      /\ wish' = IF Answers(r, w) THEN NoWish ELSE w
      /\ "request" \notin left' => "request" \notin left /\ (wish = NoWish \/ w = wish)
  BY DEF Take
<1>2. r \in Mediator /\ SameBut(r, h, FieldNames \ Steady)
  BY SettledFit
<1>3. Steered(r, Consents(q), c, p, n, A)
  BY SettledSteered
<1>4. /\ \A v : Answers(r, v) => Concludes(Announced(h), v)
      /\ Target(h) \in Idle => r.state = Target(h)
  BY SettledEnds
<1> HIDE DEF r
<1>5. SameBut(m', r, {"posted", "link"}) /\ Steered(m', Consents(q), c, p, n, A)
  BY <1>1, <1>2, <1>3, TidyIs, TidySteered
<1>6. m'.state = r.state /\ m'.slots = h.slots /\ m'.gate = h.gate /\ m'.ready = h.ready
  BY <1>2, <1>5 DEF SameBut, FieldNames, Steady
<1> QED
  BY <1>1, <1>4, <1>5, <1>6

\* The consents of the rest of the queue.
LEMMA ConsentsTail ==
    ASSUME NEW q \in Seq(Items), q # <<>>
    PROVE  /\ Consents(Tail(q)) \subseteq Consents(q)
           /\ Head(q).msg.code = "deleted" /\ Head(q).msg.status = "ok" => Head(q).link \in Consents(q)
<1>1. \A i \in DOMAIN Tail(q) : i + 1 \in DOMAIN q /\ Tail(q)[i] = q[i + 1]
  OBVIOUS
<1>2. 1 \in DOMAIN q /\ Head(q) = q[1]
  OBVIOUS
<1>3. q[1].link \in Links
  BY <1>2, ItemLinks
<1> QED
  BY <1>1, <1>2, <1>3 DEF Consents

\* The consents among more operations.
LEMMA ConsentsMore ==
    ASSUME NEW q \in Seq(Items), NEW s \in Seq(Items), NEW D,
           \A i \in DOMAIN s : s[i].msg.code = "deleted" /\ s[i].msg.status = "ok" => s[i].link \in D
    PROVE  Consents(q \o s) \subseteq Consents(q) \cup D
<1> DEFINE t == q \o s
<1>1. \A i \in DOMAIN t : \/ i \in DOMAIN q /\ t[i] = q[i]
                          \/ i - Len(q) \in DOMAIN s /\ t[i] = s[i - Len(q)]
  OBVIOUS
<1> HIDE DEF t
<1>2. ASSUME NEW l \in Consents(t) PROVE l \in Consents(q) \cup D
  <2>1. PICK i \in DOMAIN t : t[i].link = l /\ t[i].msg.code = "deleted" /\ t[i].msg.status = "ok"
    BY DEF Consents
  <2>2. l \in Links
    BY DEF Consents
  <2>3. CASE i \in DOMAIN q /\ t[i] = q[i]
    BY <2>1, <2>2, <2>3 DEF Consents
  <2>4. CASE i - Len(q) \in DOMAIN s /\ t[i] = s[i - Len(q)]
    BY <2>1, <2>4
  <2> QED
    BY <1>1, <2>3, <2>4
<1> QED
  BY <1>2 DEF t

\* What a worker's report says.
Reporting(l) ==
    /\ account' = account
    /\ Consents(queue') \subseteq Consents(queue)
    /\ SameLink(m'.link[l], m.link[l], {"st", "reported"})
    /\ m.link[l].st # "Closed"
    /\ m'.link[l].reported
    /\ m'.link[l].st = "Closed" \/ (m'.link[l].st = "UdpMonitorActive" /\ ~m.link[l].reported)

\* A report of operations that are no packets is one.
LEMMA ReportsSo ==
    ASSUME Core, NEW l \in Links, NEW st \in Reports, NEW items \in Seq(Items), NEW fault,
           Report(l, st, items, fault), m.link[l].st # "Closed", st = "Closed" \/ ~m.link[l].reported,
           \A i \in DOMAIN items : items[i].msg.code \notin Codes
    PROVE  Reporting(l)
<1>1. m' = Reported(m, l, st) /\ account' = account /\ queue' = queue \o items
  BY DEF Report, Reported
<1>2. /\ SameLink(Reported(m, l, st).link[l], m.link[l], {"st", "reported"})
      /\ Reported(m, l, st).link[l].st = st /\ Reported(m, l, st).link[l].reported
  BY ReportedHere, SelfKept
<1>3. Consents(queue \o items) \subseteq Consents(queue) \cup {}
  <2>1. "deleted" \in Codes /\ queue \in Seq(Items)
    BY SelfKept DEF Codes
  <2> QED
    BY <2>1, ConsentsMore
<1>4. st \in {"Closed", "UdpMonitorActive"}
  BY DEF Reports
<1> QED
  BY <1>1, <1>2, <1>3, <1>4 DEF Reporting

\* The workers' steps are such reports.
LEMMA WorkersReport ==
    ASSUME Core, NEW l \in Links, Connected(l) \/ ConnectFails(l) \/ Ends(l)
    PROVE  Reporting(l)
<1>1. "ok" \in {"ok", "fail"} /\ "fail" \in {"ok", "fail"}
  OBVIOUS
<1>2. "UdpMonitorActive" \in Reports /\ "Closed" \in Reports
  BY DEF Reports
<1>3. CASE Connected(l)
  <2> DEFINE i == StatusItem(l, "ok")
  <2>1. Report(l, "UdpMonitorActive", <<i>>, FALSE) /\ m.link[l].st # "Closed" /\ ~m.link[l].reported
    BY <1>3 DEF Connected, Unreported
  <2>2. i \in Items /\ i.msg.code \notin Codes
    BY <1>1, StatusItemIs
  <2> HIDE DEF i
  <2> DEFINE items == <<i>>
  <2>3. items \in Seq(Items) /\ \A k \in DOMAIN items : items[k] = i
    BY <2>2
  <2>4. Report(l, "UdpMonitorActive", items, FALSE)
    BY <2>1
  <2> HIDE DEF items
  <2> QED
    BY <1>2, <2>1, <2>2, <2>3, <2>4, ReportsSo
<1>4. CASE ConnectFails(l)
  <2> DEFINE i == StatusItem(l, "fail")
             j == CloseItem(l)
  <2>1. m.link[l].st # "Closed"
    BY <1>4 DEF ConnectFails, Unreported
  <2>2. PICK items \in {<<i, j>>, <<i>>, <<j>>} : Report(l, "Closed", items, TRUE)
    BY <1>4 DEF ConnectFails
  <2>3. i \in Items /\ i.msg.code \notin Codes /\ j \in Items /\ j.msg.code \notin Codes
    BY <1>1, StatusItemIs, CloseItemIs
  <2> HIDE DEF i, j
  <2>4. items \in Seq(Items) /\ \A k \in DOMAIN items : items[k] \in {i, j}
    <3>1. /\ <<i, j>> \in Seq(Items) /\ <<i>> \in Seq(Items) /\ <<j>> \in Seq(Items)
          /\ \A k \in DOMAIN <<i, j>> : <<i, j>>[k] \in {i, j}
          /\ \A k \in DOMAIN <<i>> : <<i>>[k] \in {i, j}
          /\ \A k \in DOMAIN <<j>> : <<j>>[k] \in {i, j}
      BY <2>3
    <3> QED
      BY <2>2, <3>1, Zenon
  <2>5. \A k \in DOMAIN items : items[k].msg.code \notin Codes
    BY <2>3, <2>4
  <2> QED
    BY <1>2, <2>1, <2>2, <2>4, <2>5, ReportsSo
<1>5. CASE Ends(l)
  <2> DEFINE j == CloseItem(l)
             fault == m.link[l].st = "UdpMonitorActive"
  <2>1. Report(l, "Closed", <<j>>, fault) /\ m.link[l].st # "Closed"
    BY <1>5 DEF Ends
  <2>2. j \in Items /\ j.msg.code \notin Codes
    BY CloseItemIs
  <2> HIDE DEF j, fault
  <2> DEFINE items == <<j>>
  <2>3. items \in Seq(Items) /\ \A k \in DOMAIN items : items[k] = j
    BY <2>2
  <2>4. Report(l, "Closed", items, fault)
    BY <2>1
  <2> HIDE DEF items
  <2> QED
    BY <1>2, <2>1, <2>2, <2>3, <2>4, ReportsSo
<1> QED
  BY <1>3, <1>4, <1>5

\* What a server's answer to the request a, which makes no character, says.
Consenting(l, a) ==
    /\ SameLink(m'.link[l], m.link[l], {"asked"})
    /\ m'.link[l].asked = Tail(m.link[l].asked)
    /\ \/ account' = account /\ Consents(queue') \subseteq Consents(queue)
       \/ /\ a.what = "delete"
          /\ account' = account \ {a.who}
          /\ Consents(queue') \subseteq Consents(queue) \cup {l}

\* The servers answer so.
LEMMA ServersAnswer ==
    ASSUME TypeOK, Core, NEW l \in Links, ServerAnswers(l), Head(m.link[l].asked).what # "create"
    PROVE  m.link[l].asked # <<>> /\ Consenting(l, Head(m.link[l].asked))
<1> DEFINE request == Head(m.link[l].asked)
           s == [m EXCEPT !.link[l].asked = Tail(@)]
<1>1. m \in Mediator /\ queue \in Seq(Items)
  BY SelfKept
<1>2. m.link[l].asked # <<>> /\ m.link[l].asked \in Seq(Request) /\ m' = s
  BY <1>1, FieldsTyped, LinkFields DEF ServerAnswers
<1>3. /\ SameLink(s.link[l], m.link[l], {"asked"})
      /\ s.link[l].asked = Tail(m.link[l].asked)
  BY <1>1, <1>2, AnsweredIs
<1> HIDE DEF s
<1>4. request \in Request
  BY <1>2
<1>5. PICK sent \in Replies(request) : \E reply \in {sent} \cup Damaged(sent) :
         /\ queue' = queue \o [k \in DOMAIN reply |-> Item(l, "Packet", reply[k])]
         /\ account' = AccountAfter(request, sent)
  BY DEF ServerAnswers
<1>6. PICK reply \in {sent} \cup Damaged(sent) :
         /\ queue' = queue \o [k \in DOMAIN reply |-> Item(l, "Packet", reply[k])]
         /\ account' = AccountAfter(request, sent)
  BY <1>5
<1>7. request.what # "create"
  OBVIOUS
<1> HIDE DEF request
<1>8. ReplyFit(request, reply)
  BY <1>4, <1>6, RepliesAre, DamagedFit DEF TypeOK
<1> DEFINE items == [k \in DOMAIN reply |-> Item(l, "Packet", reply[k])]
<1>9. /\ items \in Seq(Items) /\ DOMAIN items = DOMAIN reply
      /\ \A k \in DOMAIN reply : items[k].link = l /\ items[k].msg = reply[k]
  <2>1. "Packet" \in {"Status", "Close", "Packet"}
    OBVIOUS
  <2>2. reply \in Seq(Messages) /\ DOMAIN reply = 1 .. Len(reply) /\ Len(reply) \in Nat
    BY <1>8 DEF ReplyFit
  <2>3. \A k \in DOMAIN reply :
           LET i == Item(l, "Packet", reply[k]) IN
           i \in Items /\ i.link = l /\ i.type = "Packet" /\ i.msg = reply[k]
    BY <2>1, <2>2, ItemIs
  <2> QED
    BY <2>2, <2>3
<1>10. queue' = queue \o items
  BY <1>6
<1> HIDE DEF items
<1>11. \A k \in DOMAIN reply : request.what = "delete" <=> reply[k].code = "deleted"
  BY <1>8 DEF ReplyFit, Answering
<1>12. CASE request.what = "delete"
  <2>1. sent \in Either("deleted", {"ok", "fail"})
    BY <1>5, <1>12 DEF Replies
  <2>2. PICK x \in {"ok", "fail"} : sent = <<Msg("deleted", x)>>
    BY <2>1 DEF Either
  <2>3. DOMAIN sent = {1} /\ sent[1].status = x
    BY <2>2 DEF Msg
  <2>6. /\ \A k \in DOMAIN reply : k = 1
        /\ \A k \in DOMAIN reply : reply[k].status \in {x, "garbled", "oversized"}
    <3>1. CASE reply = sent
      BY <2>3, <3>1
    <3>2. CASE reply \in Damaged(sent)
      <4>1. PICK v \in {"garbled", "oversized"} : reply = [sent EXCEPT ![1].status = v]
        BY <2>3, <3>2 DEF Damaged
      <4>2. DOMAIN reply = {1} /\ reply[1] = [sent[1] EXCEPT !.status = v]
        BY <2>3, <4>1
      <4>3. reply[1].status = v
        BY <2>2, <4>2 DEF Msg
      <4> QED
        BY <4>2, <4>3
    <3> QED
      BY <1>6, <3>1, <3>2
  <2>4. CASE sent[1].status = "ok"
    <3>1. account' = account \ {request.who}
      BY <1>6, <1>12, <2>4 DEF AccountAfter
    <3>2. Consents(queue \o items) \subseteq Consents(queue) \cup {l}
      BY <1>1, <1>9, ConsentsMore
    <3> QED
      BY <1>2, <1>3, <1>10, <1>12, <3>1, <3>2 DEF Consenting, request
  <2>5. CASE sent[1].status # "ok"
    <3>1. account' = account
      BY <1>6, <1>12, <2>5 DEF AccountAfter
    <3>2. Consents(queue \o items) \subseteq Consents(queue) \cup {}
      BY <1>1, <1>9, <2>3, <2>5, <2>6, ConsentsMore
    <3> QED
      BY <1>2, <1>3, <1>10, <3>1, <3>2 DEF Consenting, request
  <2> QED
    BY <2>4, <2>5
<1>13. CASE request.what # "delete"
  <2>1. account' = account
    BY <1>6, <1>7, <1>13 DEF AccountAfter
  <2>2. Consents(queue \o items) \subseteq Consents(queue) \cup {}
    BY <1>1, <1>9, <1>11, <1>13, ConsentsMore
  <2> QED
    BY <1>2, <1>3, <1>10, <2>1, <2>2 DEF Consenting, request
<1> QED
  BY <1>12, <1>13

\* The steps of the network keep all of it: who is deleted is who was to be.
LEMMA NetworkSteered ==
    ASSUME TypeOK, Core, NEW l \in Links, Network(l), NEW c, NEW p, NEW n,
           Steered(m, Consents(queue), c, p, n, account)
    PROVE  Steered(m', Consents(queue'), c, p, n, account') /\ account' \subseteq account
<1> DEFINE D == Consents(queue)
           E == Consents(queue')
<1>1. /\ m \in Mediator /\ m.goto = None /\ m.margin \in Links \cup {None} /\ ~m.full
      /\ \A k \in D : k \in Links
      /\ \A k \in E : k \in Links
  BY SelfKept, FieldsTyped DEF Core, AtRest, Consents
<1>2. /\ SameBut(m', m, {"link"})
      /\ \A k \in Links \ {l} : m'.link[k] = m.link[k]
  BY NetworkLinks
<1>3. /\ m'.state = m.state /\ m'.goto = m.goto /\ m'.up = m.up /\ m'.margin = m.margin /\ m'.full = m.full
      /\ m'.slots = m.slots /\ m'.current = m.current
  BY <1>2 DEF SameBut, FieldNames
<1>4. SlotName(m') = SlotName(m) /\ Target(m') = Target(m)
  BY <1>3 DEF SlotName, Target
<1>5. Shape(m) /\ Tame(m) /\ Heard(m, D) /\ (c => Calm(m)) /\ (p => Removing(m, D, n, account))
  BY DEF Steered
<1>6. Shape(m') /\ (c => Calm(m'))
  BY <1>3, <1>5 DEF Shape, Calm
<1>7. \A k \in Links : m.link[k].asked \in Seq(Request)
  BY <1>1, FieldsTyped, LinkFields
<1>8. m.link[l].asked # <<>> => Head(m.link[l].asked) = m.link[l].asked[1] /\ 1 \in DOMAIN m.link[l].asked
  BY <1>7
<1>9. m.link[l].asked # <<>> => Head(m.link[l].asked).what # "create"
  <2>1. AskedIn(m.link[l], Harmless)
    BY <1>5 DEF Tame
  <2> QED
    BY <1>8, <2>1 DEF AskedIn, Harmless
<1> DEFINE a == Head(m.link[l].asked)
<1>10. Reporting(l) \/ (m.link[l].asked # <<>> /\ Consenting(l, a))
  <2>1. CASE ServerAnswers(l)
    <3>1. m.link[l].asked # <<>>
      BY <2>1 DEF ServerAnswers
    <3> QED
      BY <1>9, <2>1, <3>1, ServersAnswer
  <2> QED
    BY <2>1, WorkersReport DEF Network
<1> HIDE DEF D, E, a
<1>11. ASSUME NEW k \in Links, NEW S, AskedIn(m.link[k], S)
       PROVE  AskedIn(m'.link[k], S)
  <2>1. CASE m'.link[k].asked = m.link[k].asked
    BY <1>11, <2>1 DEF AskedIn
  <2>2. CASE k = l /\ m.link[l].asked # <<>> /\ m'.link[l].asked = Tail(m.link[l].asked)
    <3>1. \A i \in DOMAIN m'.link[l].asked :
             i + 1 \in DOMAIN m.link[l].asked /\ m'.link[l].asked[i] = m.link[l].asked[i + 1]
      BY <1>7, <2>2
    <3> QED
      BY <1>11, <2>2, <3>1 DEF AskedIn
  <2>3. Reporting(l) => m'.link[l].asked = m.link[l].asked
    BY DEF Reporting, SameLink, LinkFieldNames
  <2> QED
    BY <1>2, <1>10, <2>1, <2>2, <2>3 DEF Consenting
<1>12. Tame(m')
  BY <1>3, <1>5, <1>11 DEF Tame
<1>13. \A k \in Links : m'.link[k].kind = m.link[k].kind
  BY <1>2, <1>10 DEF Reporting, Consenting, SameLink, LinkFieldNames
<1>14. /\ account' \subseteq account
       /\ \/ E \subseteq D
          \/ /\ Consenting(l, a) /\ a.what = "delete" /\ a.who \notin account' /\ E \subseteq D \cup {l}
             /\ m.link[l].asked # <<>>
  BY <1>10 DEF Reporting, Consenting, D, E
<1>15. m.link[l].asked # <<>> => m.link[l].kind # "free"
  BY InUse
<1>16. Heard(m', E)
  <2>1. ASSUME NEW k \in Links
        PROVE  /\ k \in E => m'.link[k].kind # "free"
               /\ m'.link[k].st = "UdpMonitorActive" \/ m'.link[k].asked # <<>> \/ k \in E => m'.link[k].reported
    <3>1. CASE k # l
      <4>1. m'.link[k] = m.link[k] /\ (k \in E => k \in D)
        BY <1>2, <1>14, <3>1
      <4> QED
        BY <1>5, <4>1 DEF Heard
    <3>2. CASE k = l /\ Reporting(l)
      <4>1. k \in E => k \in D
        <5>1. ~Consenting(l, a) \/ E \subseteq D
          <6>1. SUFFICES ASSUME Consenting(l, a) PROVE E \subseteq D
            OBVIOUS
          <6> QED
            BY <3>2 DEF Reporting, D, E
        <5> QED
          BY <1>14, <3>2, <5>1
      <4> QED
        BY <1>5, <1>13, <3>2, <4>1 DEF Heard, Reporting
    <3>3. CASE k = l /\ m.link[l].asked # <<>> /\ Consenting(l, a)
      <4>1. m'.link[l].reported = m.link[l].reported
        BY <3>3 DEF Consenting, SameLink, LinkFieldNames
      <4>2. m.link[l].reported
        BY <1>5, <3>3 DEF Heard
      <4> QED
        BY <1>13, <1>15, <3>3, <4>1, <4>2
    <3> QED
      BY <1>10, <3>1, <3>2, <3>3
  <2> QED
    BY <2>1 DEF Heard
<1>17. Own(m, D, n, account) => Own(m', E, n, account')
  <2>1. SUFFICES ASSUME m.margin # None, AskedIn(m.link[m.margin], Deleting(n)),
                        m.margin \in D => n \notin account
                 PROVE  AskedIn(m'.link[m.margin], Deleting(n)) /\ (m.margin \in E => n \notin account')
    BY <1>3 DEF Own
  <2>2. AskedIn(m'.link[m.margin], Deleting(n))
    BY <1>1, <1>11, <2>1
  <2>3. m.margin \in E => n \notin account'
    <3>1. CASE m.margin \in D \/ m.margin \notin E
      BY <1>14, <2>1, <3>1
    <3>2. CASE m.margin = l /\ a.what = "delete" /\ a.who \notin account' /\ m.link[l].asked # <<>>
      <4>1. a \in Deleting(n)
        BY <1>8, <2>1, <3>2 DEF AskedIn, a
      <4>2. a.who = n
        BY <3>2, <4>1 DEF Deleting
      <4> QED
        BY <3>2, <4>2
    <3> QED
      BY <1>14, <3>1, <3>2
  <2> QED
    BY <2>2, <2>3
<1>18. Spare(m, D) => Spare(m', E)
  <2>1. SUFFICES ASSUME m.margin # None, AskedIn(m.link[m.margin], Sparing), m.margin \notin D
                 PROVE  AskedIn(m'.link[m.margin], Sparing) /\ m.margin \notin E
    BY <1>3 DEF Spare
  <2>2. AskedIn(m'.link[m.margin], Sparing)
    BY <1>1, <1>11, <2>1
  <2>3. m.margin \notin E
    <3>1. CASE E \subseteq D
      BY <2>1, <3>1
    <3>2. CASE a.what = "delete" /\ E \subseteq D \cup {l} /\ m.link[l].asked # <<>>
      <4>1. m.margin # l
        <5>1. m.margin = l => a \in Sparing
          BY <1>8, <2>1, <3>2 DEF AskedIn, a
        <5> QED
          BY <3>2, <5>1 DEF Sparing
      <4> QED
        BY <2>1, <3>2, <4>1
    <3> QED
      BY <1>14, <3>1, <3>2
  <2> QED
    BY <2>2, <2>3
<1>19. Shut(m) => Shut(m') \/ Spare(m, D)
  <2>1. SUFFICES ASSUME m.margin \in Links, m.margin # None, m.link[m.margin].st \in {"Closing", "Dead", "Closed"},
                        m'.link[m.margin].st \notin {"Closing", "Dead", "Closed"}
                 PROVE  Spare(m, D)
    BY <1>1, <1>3 DEF Shut
  <2>2. m.margin = l
    BY <1>2, <2>1
  <2>3. Reporting(l)
    <3>1. Consenting(l, a) => m'.link[l].st = m.link[l].st
      BY DEF Consenting, SameLink, LinkFieldNames
    <3> QED
      BY <1>10, <2>1, <2>2, <3>1
  <2>4. ~m.link[l].reported
    BY <2>1, <2>2, <2>3 DEF Reporting
  <2>5. m.link[l].asked = <<>> /\ l \notin D
    BY <1>5, <2>4 DEF Heard
  <2> QED
    BY <2>2, <2>5 DEF Spare, AskedIn
<1>20. ASSUME p
       PROVE  Removing(m', E, n, account')
  <2>1. Removing(m, D, n, account)
    BY <1>5, <1>20
  <2>2. \A k \in E : k \in Links /\ m'.link[k].kind # "free"
    BY <1>1, <1>13, <1>14, <1>15, <2>1 DEF Removing
  <2>3. Target(m) \notin {0, 3} => Own(m, D, n, account)
    <3>1. m.goto \notin {4, 7}
      BY <1>1, NoneApart DEF StateIds
    <3> QED
      BY <1>1, <2>1, <3>1 DEF Removing
  <2>4. Target(m') \notin {0, 3} => SlotName(m') = n /\ Own(m', E, n, account')
    BY <1>4, <1>17, <2>1, <2>3 DEF Removing
  <2>5. Target(m') = 3 => Spare(m', E) \/ Shut(m')
    BY <1>4, <1>18, <1>19, <2>1 DEF Removing
  <2>6. m'.goto = None /\ m'.state = 4 => m'.full \/ Spare(m', E)
    BY <1>3, <1>18, <2>1 DEF Removing
  <2>7. /\ m'.state \in {1, 2} /\ m'.goto \in {None, 1, 2} => m'.up[2] \in {5, 6}
        /\ m'.goto = 2 => m'.state # 0
    BY <1>3, <2>1 DEF Removing
  <2> QED
    BY <2>2, <2>4, <2>5, <2>6, <2>7 DEF Removing
<1>21. Steered(m', E, c, p, n, account')
  BY <1>6, <1>12, <1>16, <1>20 DEF Steered
<1> QED
  BY <1>14, <1>21 DEF E

\* A set of numbers that has a bound and is not empty has a greatest one.
LEMMA GreatestNumber ==
    ASSUME NEW n \in Nat, NEW S, S \subseteq 0 .. n, S # {}
    PROVE  Max(S) \in S
<1> DEFINE T == {n - x : x \in S}
           Less == {ss \in Nat \X Nat : ss[1] < ss[2]}
<1>1. T \subseteq Nat /\ T # {}
  <2>1. \A x \in S : n - x \in Nat /\ n - x \in T
    OBVIOUS
  <2>2. \E x : x \in S
    OBVIOUS
  <2>3. \A t \in T : \E x \in S : t = n - x
    OBVIOUS
  <2> QED
    BY <2>1, <2>2, <2>3
<1>2. IsWellFoundedOn(Less, Nat)
  <2>1. OpToRel(<, Nat) = Less
    BY DEF OpToRel
  <2> QED
    BY <2>1, NatLessThanWellFounded, Zenon
<1>3. PICK a \in T : \A b \in T : ~ (<<b, a>> \in Less)
  <2> HIDE DEF Less, T
  <2> QED
    BY <1>1, <1>2, WFMin
<1>4. PICK x \in S : a = n - x
  BY <1>3
<1>5. \A y \in S : x >= y
  <2> TAKE y \in S
  <2>1. n - y \in T /\ n - y \in Nat /\ a \in Nat
    BY <1>1, <1>3
  <2>2. ~ (n - y < a)
    BY <1>3, <2>1
  <2> QED
    BY <1>4, <2>1, <2>2
<1> QED
  BY <1>4, <1>5 DEF Max

\* The observer's wait ends well only at the event that it is for.
LEMMA ObserveOk ==
    ASSUME NEW o \in Observers, NEW r, Settled(r).posted \in Seq(Posting), Observe(o, r) # o,
           Observe(o, r).result = "ok"
    PROVE  Posted(Settled(r), "event", o.expected)
<1> DEFINE p == Settled(r).posted
           errors == {i \in DOMAIN p : p[i].kind = "error"}
           ends == errors \cup {i \in DOMAIN p : p[i] = [kind |-> "event", id |-> o.expected]}
           result == IF Max(ends) \in errors THEN "failed" ELSE "ok"
           some == p[Max(errors)].id # 0
           s == [o EXCEPT !.waiting = FALSE, !.result = result,
                          !.error = IF errors = {} THEN @ ELSE some]
<1>1. Observe(o, r) = IF ends = {} THEN o ELSE s
  BY Zenon DEF Observe
<1>2. s.result = result
  BY DEF Observers
<1>3. ends \subseteq 0 .. Len(p)
  OBVIOUS
<1>4. Max(ends) \in ends \ errors
  <2>1. Len(p) \in Nat
    OBVIOUS
  <2>2. ends # {} /\ result = "ok"
    <3> HIDE DEF s, ends, result
    <3> QED
      BY <1>1, <1>2
  <2>3. Max(ends) \in ends
    <3> HIDE DEF ends, p
    <3> QED
      BY <1>3, <2>1, <2>2, GreatestNumber
  <2> QED
    BY <2>2, <2>3
<1> HIDE DEF s
<1>5. [kind |-> "event", id |-> o.expected] \in ToSet(p)
  <2>1. PICK i \in DOMAIN p : p[i] = [kind |-> "event", id |-> o.expected]
    BY <1>4
  <2> QED
    BY <2>1 DEF ToSet
<1> QED
  BY <1>5 DEF Posted

\* The observer that still waits has not seen its end.
LEMMA ObserveWaits ==
    ASSUME NEW o \in Observers, NEW r
    PROVE  Observe(o, r) = o \/ ~Observe(o, r).waiting
<1> DEFINE p == Settled(r).posted
           errors == {i \in DOMAIN p : p[i].kind = "error"}
           ends == errors \cup {i \in DOMAIN p : p[i] = [kind |-> "event", id |-> o.expected]}
           result == IF Max(ends) \in errors THEN "failed" ELSE "ok"
           some == p[Max(errors)].id # 0
           s == [o EXCEPT !.waiting = FALSE, !.result = result,
                          !.error = IF errors = {} THEN @ ELSE some]
<1>1. Observe(o, r) = IF ends = {} THEN o ELSE s
  BY Zenon DEF Observe
<1>2. s.waiting = FALSE
  BY DEF Observers
<1> HIDE DEF s
<1> QED
  BY <1>1, <1>2

\* The answer to a login, seen by the observer, is one the client takes.
LEMMA LoginAnswered ==
    ASSUME NEW o \in Observers, o.expected = 5, NEW r, NEW w, w.what = "login"
    PROVE  Observe(o, r) = o \/ Answers(Settled(r), w)
<1>1. SUFFICES ASSUME NEW i \in DOMAIN Settled(r).posted,
                      \/ Settled(r).posted[i].kind = "error"
                      \/ Settled(r).posted[i] = [kind |-> "event", id |-> 5]
               PROVE  Answers(Settled(r), w)
  BY ObserveEnds
<1>2. CASE Settled(r).posted[i].kind = "error"
  BY <1>2 DEF Answers
<1>3. CASE Settled(r).posted[i] = [kind |-> "event", id |-> 5]
  <2>1. [kind |-> "event", id |-> 5] \in ToSet(Settled(r).posted)
    BY <1>3 DEF ToSet
  <2> QED
    BY <2>1 DEF Answers, Posted
<1> QED
  BY <1>1, <1>2, <1>3

\* A completed operation ends a deletion, or the first login, on the way to
\* state 0 or 3.
LEMMA TurnedEnds ==
    ASSUME NEW s \in Mediator, NEW r \in Mediator, Resting(r), Turned(s, r), NEW w,
           w.what = "delete" \/ (w.what = "login" /\ Calm(r)), Concludes(Announced(s), w)
    PROVE  s.goto \in {0, 3}
<1> DEFINE A == Announced(s)
<1>1. \A e \in {5, 6, 24} : Event(e) \notin Errors
  BY EventsApart
<1>2. A \cap Errors # {} \/ Event(8) \in A \/ (Event(5) \in A /\ Calm(r))
  BY DEF Concludes
<1> HIDE DEF A
<1>3. ~ (A \subseteq Plain)
  BY <1>2, PlainEnds
<1>4. ~ (A \subseteq {Event(24)})
  BY <1>1, <1>2, EventsApart
<1>5. A \subseteq {Event(5), Event(6)} => Calm(r)
  BY <1>1, <1>2, EventsApart
<1>6. LogsIn(s, r) \/ Breaks(s, r)
  BY <1>3, <1>4 DEF A, Turned, Stays, Proceeds, Claims, Submits
<1>7. CASE LogsIn(s, r)
  <2>1. Calm(r)
    BY <1>5, <1>7 DEF LogsIn, A
  <2>2. s.goto = 3
    BY <1>7, <2>1 DEF LogsIn, Calm
  <2> QED
    BY <2>2
<1> QED
  BY <1>6, <1>7 DEF Breaks

\* At rest in state 0 or 3 a completed operation leads to no other.
LEMMA TurnedRests ==
    ASSUME NEW s \in Mediator, NEW r \in Mediator, Turned(s, r), r.state \in {0, 3}
    PROVE  Target(s) \in {0, 3}
<1>1. s.goto \in {None, 0, 3}
  BY DEF Turned, LogsIn, Stays, Breaks, Proceeds, Claims, Submits
<1> QED
  BY <1>1 DEF Turned, Target

\* The stages before a login has succeeded, and those with a row.
Early == stage \in {"prompt", "login", "close"}
Rowed == stage \in {"menu", "delete", "over"}

\* What the flow deletes is the row it shows, and the wait for it ends well only
\* when the server has deleted it, unless a wait was given up before.
RemovalInv ==
    stage # "client" /\ "request" \notin left =>
        /\ Steered(m, Consents(queue), Early, Rowed, row.name, account)
        /\ wish = NoWish => m.state \in {0, 3}
        /\ stage \in {"prompt", "close"} => m.state = 0 /\ wish = NoWish
        /\ stage = "login" =>
              /\ observer.expected = 5
              /\ ~observer.waiting /\ observer.result # "timeout" => wish = NoWish
        /\ Rowed => wish \in {NoWish, [what |-> "delete", who |-> row.name]}
        /\ stage = "delete" =>
              /\ row.index \in Slots /\ m.slots[row.index + 1] = row.name
              /\ ~observer.waiting /\ observer.result = "ok" => row.name \notin account

\* At first nothing is under way.
LEMMA RemovalInit ==
    ASSUME FlowInit
    PROVE  RemovalInv
<1>1. Shape(m)
  BY PurposeInit DEF PurposeInv
<1>2. /\ m.state = 0 /\ m.goto = None /\ m.margin = None /\ m.up = [s \in Cachers |-> None]
      /\ m.link = [l \in Links |-> FreeLink] /\ queue = <<>> /\ wish = NoWish
  BY DEF FlowInit, Init
<1>3. m.up[2] = None /\ m.up[4] = None /\ m.up[6] = None
  BY <1>2 DEF Cachers
<1>4. \A l \in Links : m.link[l].asked = <<>> /\ m.link[l].st = "Closed"
  BY <1>2 DEF FreeLink
<1>5. Consents(queue) = {}
  BY <1>2 DEF Consents
<1>6. Tame(m) /\ Calm(m)
  BY <1>2, <1>3, <1>4 DEF Tame, Calm, AskedIn
<1>7. Heard(m, Consents(queue))
  BY <1>4, <1>5 DEF Heard
<1>8. stage # "client" => stage = "prompt"
  BY DEF FlowInit
<1>9. stage # "client" => ~Rowed
  BY <1>8 DEF Rowed
<1>10. stage # "client" => Steered(m, Consents(queue), Early, Rowed, row.name, account)
  BY <1>1, <1>6, <1>7, <1>9 DEF Steered
<1> QED
  BY <1>2, <1>8, <1>9, <1>10 DEF RemovalInv

\* The expiry of the reply copy touches nothing of it.
LEMMA ExpirySteered ==
    ASSUME Core, CopyExpires, NEW c, NEW p, NEW n, Steered(m, Consents(queue), c, p, n, account)
    PROVE  Steered(m', Consents(queue'), c, p, n, account') /\ account' \subseteq account
<1>1. m' = [m EXCEPT !.fresh = FALSE] /\ queue' = queue /\ account' = account /\ m \in Mediator
  BY SelfKept DEF CopyExpires
<1>2. /\ m'.state = m.state /\ m'.goto = m.goto /\ m'.up = m.up /\ m'.margin = m.margin
      /\ m'.full = m.full /\ m'.link = m.link /\ m'.slots = m.slots /\ m'.current = m.current
  BY <1>1 DEF Mediator
<1> DEFINE D == Consents(queue)
<1>3. Consents(queue') = D
  BY <1>1
<1> HIDE DEF D
<1>4. Target(m') = Target(m) /\ SlotName(m') = SlotName(m)
  BY <1>2 DEF Target, SlotName
<1>5. Shape(m) => Shape(m')
  BY <1>2 DEF Shape
<1>6. (Tame(m) => Tame(m')) /\ (Calm(m) => Calm(m'))
  BY <1>2 DEF Tame, Calm
<1>7. Heard(m, D) => Heard(m', D)
  BY <1>2 DEF Heard
<1>8. /\ Own(m, D, n, account) => Own(m', D, n, account)
      /\ Spare(m, D) => Spare(m', D)
      /\ Shut(m) => Shut(m')
  BY <1>2 DEF Own, Spare, Shut
<1>9. Removing(m, D, n, account) => Removing(m', D, n, account)
  BY <1>2, <1>4, <1>8 DEF Removing
<1>10. Steered(m, D, c, p, n, account)
  BY DEF D
<1>11. Steered(m', D, c, p, n, account)
  BY <1>5, <1>6, <1>7, <1>9, <1>10 DEF Steered
<1> QED
  BY <1>1, <1>3, <1>11

\* The network and the expiry keep what is being removed.
LEMMA OutsideRemoval ==
    ASSUME TypeInv, RemovalInv, (\E l \in Links : Network(l)) \/ CopyExpires, UNCHANGED flowVars
    PROVE  RemovalInv'
<1>1. TypeOK /\ Core
  BY DEF TypeInv, FlowTypeOK
<1>2. left' = left /\ wish' = wish /\ m'.state = m.state /\ m'.slots = m.slots
  <2>1. CASE \E l \in Links : Network(l)
    BY <1>1, <2>1, NetworkLinks DEF SameBut, FieldNames
  <2>2. CASE CopyExpires
    <3>1. m' = [m EXCEPT !.fresh = FALSE] /\ left' = left /\ wish' = wish /\ m \in Mediator
      BY <1>1, <2>2, SelfKept DEF CopyExpires
    <3> QED
      BY <3>1 DEF Mediator
  <2> QED
    BY <2>1, <2>2
<1>3. stage' = stage /\ observer' = observer /\ row' = row
  BY DEF flowVars
<1>4. Early' = Early /\ Rowed' = Rowed /\ Slots' = Slots
  BY <1>2, <1>3 DEF Early, Rowed, Slots
<1>5. Steered(m, Consents(queue), Early, Rowed, row.name, account) =>
         Steered(m', Consents(queue'), Early, Rowed, row.name, account') /\ account' \subseteq account
  <2> DEFINE c == Early
             p == Rowed
             n == row.name
  <2> HIDE DEF c, p, n
  <2>1. Steered(m, Consents(queue), c, p, n, account) =>
           Steered(m', Consents(queue'), c, p, n, account') /\ account' \subseteq account
    BY <1>1, NetworkSteered, ExpirySteered
  <2> QED
    BY <2>1 DEF c, p, n
<1>6. Early = Early' /\ Rowed = Rowed' /\ row.name = row'.name
  BY <1>3, <1>4
<1>7. Steered(m, Consents(queue), Early, Rowed, row.name, account) =>
         Steered(m', Consents(queue'), Early', Rowed', row'.name, account') /\ account' \subseteq account
  BY <1>3, <1>4, <1>5
<1> QED
  BY <1>2, <1>3, <1>4, <1>7 DEF RemovalInv

\* A row keeps its place when a record is added to the slot table.
LEMMA RowStays ==
    ASSUME NEW S, NEW t \in Seq(S), NEW x, NEW u, u = t \/ u = Append(t, x),
           NEW i \in Nat, i \in 0 .. Len(t) - 1
    PROVE  i \in 0 .. Len(u) - 1 /\ u[i + 1] = t[i + 1]
<1>1. CASE u = Append(t, x)
  <2>1. Len(t) \in Nat /\ i + 1 \in 1 .. Len(t)
    OBVIOUS
  <2>2. Len(u) = Len(t) + 1 /\ u[i + 1] = t[i + 1]
    BY <1>1, <2>1
  <2> QED
    BY <2>1, <2>2
<1> QED
  BY <1>1

\* The observer of a deletion ends well only when the server has deleted the row.
LEMMA ConsentObserved ==
    ASSUME TypeInv, WishFit, PurposeInv, stage = "delete", Rowed,
           Steered(m, Consents(queue), Early, Rowed, row.name, account), queue # <<>>,
           NEW hashed \in BOOLEAN, observer' = Observe(observer, Completed(m, Head(queue), hashed)),
           observer' # observer, observer'.result = "ok"
    PROVE  row.name \notin account
<1> DEFINE h == Completed(m, Head(queue), hashed)
           D == Consents(queue)
<1>1. Core /\ observer \in Observers /\ observer.expected = 8
  BY DEF TypeInv, FlowTypeOK, WishFit, Observers
<1>2. /\ m \in Mediator /\ Fit(m) /\ ~m.full /\ m.goto = None /\ Resting(m) /\ queue \in Seq(Items)
      /\ Head(queue) \in Items /\ ItemFit(m, Head(queue)) /\ h \in Mediator
  BY <1>1, QuietRest, SelfKept, HeadIs, DeliveredIs DEF Resting, PurposeInv, Core, AtRest
<1>3. Event(8) \in Announced(h)
  <2>1. Settled(h) \in Mediator
    BY <1>2, SettledIs
  <2>2. Settled(h).posted \in Seq(Posting)
    BY <2>1, FieldsTyped
  <2>3. observer' = Observe(observer, h)
    OBVIOUS
  <2> HIDE DEF h
  <2>4. Posted(Settled(h), "event", 8)
    BY <1>1, <2>2, <2>3, ObserveOk
  <2> QED
    BY <1>2, <2>4, SettledEnds
<1>4. /\ m.state = 7 /\ Head(queue).link = m.margin
      /\ Head(queue).msg.code = "deleted" /\ Head(queue).msg.status = "ok"
  BY <1>2, <1>3, ConsentAnnounced
<1>5. m.margin \in D /\ m.margin \in Links
  <2>1. m.margin \in Links
    BY <1>2, <1>4 DEF Items
  <2> QED
    BY <1>2, <1>4, <2>1, ConsentsTail
<1>6. Removing(m, D, row.name, account)
  BY DEF Steered
<1> HIDE DEF D, h
<1>7. Own(m, D, row.name, account)
  <2>1. Target(m) = 7
    BY <1>2, <1>4 DEF Target
  <2>2. m.goto \notin {4, 7}
    BY <1>2, NoneApart DEF StateIds
  <2> QED
    BY <1>2, <1>6, <2>1, <2>2 DEF Removing
<1>8. m.margin # None
  BY <1>5, LoginAssumption
<1> QED
  BY <1>5, <1>7, <1>8 DEF Own

\* A delivered operation keeps what is being removed.
LEMMA DeliveredRemoval ==
    ASSUME TypeInv, WishFit, PurposeInv, RemovalInv, WaitDelivers
    PROVE  RemovalInv'
<1>1. TypeOK /\ Core /\ observer \in Observers
  BY DEF TypeInv, FlowTypeOK, Observers
<1>2. PICK hashed \in BOOLEAN : /\ Take(Completed(m, Head(queue), hashed), Tail(queue), wish)
                                /\ observer' = Observe(observer, Completed(m, Head(queue), hashed))
  BY Zenon DEF WaitDelivers
<1>3. /\ stage \in Waits /\ queue # <<>>
      /\ account' = account /\ stage' = stage /\ row' = row
  BY DEF WaitDelivers
<1>4. Early' = Early /\ Rowed' = Rowed
  BY <1>3 DEF Early, Rowed
<1> DEFINE h == Completed(m, Head(queue), hashed)
           q == Tail(queue)
<1>5. SUFFICES ASSUME "request" \notin left'
               PROVE  RemovalInv'
  BY DEF RemovalInv
<1>6. "request" \notin left /\ stage # "client"
  BY <1>2, <1>3, <1>5 DEF Take, Waits
<1>7. /\ m \in Mediator /\ Fit(m) /\ ~m.full /\ m.goto = None /\ Resting(m) /\ queue \in Seq(Items)
      /\ Head(queue) \in Items /\ q \in Seq(Items)
      /\ h \in Mediator /\ CompletedResult(h, m, Head(queue)) /\ Fit(h)
  BY <1>1, <1>3, QuietRest, SelfKept, HeadIs, DeliveredIs DEF Resting, PurposeInv, Core, AtRest
<1>8. Take(h, q, wish) /\ observer' = Observe(observer, h)
  BY <1>2
<1>9. Consents(q) \subseteq Consents(queue)
  BY <1>3, <1>7, ConsentsTail
<1> DEFINE c == Early
           p == Rowed
           n == row.name
<1>10. Steered(m, Consents(queue), c, p, n, account)
  BY <1>6 DEF RemovalInv
<1>11. stage = "delete" /\ observer' # observer /\ observer'.result = "ok" => row.name \notin account
  BY <1>2, <1>3, <1>10, ConsentObserved DEF Rowed
<1> HIDE DEF h, q, c, p, n
<1>12. Steered(h, Consents(q), c, p, n, account)
  BY <1>7, <1>9, <1>10, CompletedSteered
<1>13. /\ Steered(m', Consents(queue'), c, p, n, account)
       /\ Target(h) \in Idle => m'.state = Target(h)
       /\ m'.slots = h.slots
       /\ wish' \in {NoWish, wish}
       /\ wish' = wish \/ Concludes(Announced(h), wish)
  BY <1>7, <1>8, <1>12, TakenSteered
<1>14. Turned(h, m) /\ h.state = m.state
  BY <1>7, CompletedTurned DEF Turned
<1>15. c => Calm(m)
  BY <1>10 DEF Steered
<1>16. wish' = NoWish => m'.state \in {0, 3}
  <2>1. CASE wish = NoWish
    <3>1. m.state \in {0, 3}
      BY <1>6, <2>1 DEF RemovalInv
    <3>2. Target(h) \in {0, 3}
      BY <1>7, <1>14, <3>1, TurnedRests
    <3> QED
      BY <1>13, <3>2 DEF Idle
  <2>2. CASE wish # NoWish /\ wish' = NoWish
    <3>1. Concludes(Announced(h), wish)
      BY <1>13, <2>2
    <3>2. wish.what = "delete" \/ (wish.what = "login" /\ Calm(m))
      <4>1. CASE stage = "delete"
        BY <1>6, <2>2, <4>1 DEF RemovalInv, Rowed
      <4>2. CASE stage # "delete"
        <5>1. stage \in {"login", "close"}
          BY <1>3, <4>2 DEF Waits
        <5> QED
          BY <1>15, <2>2, <5>1 DEF WishFit, c, Early
      <4> QED
        BY <4>1, <4>2
    <3>3. h.goto \in {0, 3}
      BY <1>7, <1>14, <3>1, <3>2, TurnedEnds
    <3>4. Target(h) \in {0, 3}
      BY <3>3, NoneApart DEF Target, StateIds
    <3> QED
      BY <1>13, <3>4 DEF Idle
  <2> QED
    BY <2>1, <2>2
<1>17. stage \in {"prompt", "close"} => m'.state = 0 /\ wish' = NoWish
  <2>1. SUFFICES ASSUME stage \in {"prompt", "close"}
                 PROVE  m'.state = 0 /\ wish' = NoWish
    OBVIOUS
  <2>2. m.state = 0 /\ wish = NoWish
    BY <1>6, <2>1 DEF RemovalInv
  <2>3. h.goto \in {None, 0}
    BY <1>7, <1>15, <2>1, <2>2, CompletedCalm DEF c, Early
  <2>4. Target(h) = 0
    BY <1>14, <2>2, <2>3 DEF Target
  <2> QED
    BY <1>13, <2>2, <2>4 DEF Idle
<1>18. stage = "login" =>
          /\ observer'.expected = 5
          /\ ~observer'.waiting /\ observer'.result # "timeout" => wish' = NoWish
  <2>1. SUFFICES ASSUME stage = "login"
                 PROVE  /\ observer'.expected = 5
                        /\ ~observer'.waiting /\ observer'.result # "timeout" => wish' = NoWish
    OBVIOUS
  <2>2. observer.expected = 5 /\ (~observer.waiting /\ observer.result # "timeout" => wish = NoWish)
    BY <1>6, <2>1 DEF RemovalInv
  <2>3. observer'.expected = 5
    BY <1>1, <1>8, <2>2, ObserveTyped
  <2>4. CASE observer' = observer
    BY <1>13, <2>2, <2>4
  <2>5. CASE observer' # observer
    <3>1. wish = NoWish \/ wish.what = "login"
      BY <2>1 DEF WishFit
    <3>2. wish.what = "login" => Answers(Settled(h), wish)
      BY <1>1, <1>8, <2>2, <2>5, LoginAnswered
    <3>3. Answers(Settled(h), wish) => wish' = NoWish
      BY <1>8 DEF Take
    <3> QED
      BY <1>13, <2>3, <3>1, <3>2, <3>3
  <2> QED
    BY <2>3, <2>4, <2>5
<1>19. Rowed => wish' \in {NoWish, [what |-> "delete", who |-> row.name]}
  BY <1>6, <1>13 DEF RemovalInv
<1>20. stage = "delete" =>
          /\ row.index \in Slots' /\ m'.slots[row.index + 1] = row.name
          /\ ~observer'.waiting /\ observer'.result = "ok" => row.name \notin account
  <2>1. SUFFICES ASSUME stage = "delete"
                 PROVE  /\ row.index \in Slots' /\ m'.slots[row.index + 1] = row.name
                        /\ ~observer'.waiting /\ observer'.result = "ok" => row.name \notin account
    OBVIOUS
  <2>2. /\ row.index \in 0 .. Len(m.slots) - 1 /\ m.slots[row.index + 1] = row.name
        /\ ~observer.waiting /\ observer.result = "ok" => row.name \notin account
    BY <1>6, <2>1 DEF RemovalInv, Slots
  <2>3. ~observer'.waiting /\ observer'.result = "ok" => row.name \notin account
    BY <1>11, <2>1, <2>2
  <2>4. m.slots \in Seq(Characters)
    BY <1>7, FieldsTyped
  <2>5. m.gate
    <3>1. m.slots # <<>>
      BY <2>2, <2>4
    <3> QED
      BY <1>7, <3>1 DEF Resting, Gate
  <2>6. m'.slots = m.slots \/ m'.slots = Append(m.slots, m.create)
    BY <1>7, <1>13, <2>5, CompletedSlots
  <2>7. row.index \in Nat
    BY <2>2, <2>4
  <2> DEFINE t == m.slots
             u == m'.slots
             i == row.index
             x == m.create
  <2>8. t \in Seq(Characters) /\ (u = t \/ u = Append(t, x)) /\ i \in Nat /\ i \in 0 .. Len(t) - 1
    BY <2>2, <2>4, <2>6, <2>7
  <2>9. i \in 0 .. Len(u) - 1 /\ u[i + 1] = t[i + 1]
    <3> HIDE DEF t, u, i, x
    <3> QED
      BY <2>8, RowStays
  <2> QED
    BY <2>2, <2>3, <2>9 DEF Slots
<1>21. Steered(m', Consents(queue'), Early', Rowed', row'.name, account')
  BY <1>3, <1>4, <1>13 DEF c, p, n
<1> QED
  BY <1>3, <1>4, <1>16, <1>17, <1>18, <1>19, <1>20, <1>21 DEF RemovalInv

\* What a call of the client leaves as it was.
LEMMA MovedIs ==
    ASSUME Core, NEW h \in Mediator, NEW F, F \subseteq {"link", "flag2c", "current"}, NEW t,
           Moves(h, m, F, t, {})
    PROVE  /\ h.state = m.state /\ h.up = m.up /\ h.margin = m.margin /\ h.slots = m.slots
           /\ h.full = m.full /\ h.gate = m.gate /\ h.goto = t /\ Announced(h) = {}
           /\ "link" \notin F => h.link = m.link
<1> DEFINE A == Announced(h)
           B == Announced(m)
<1>1. B = {}
  BY QuietRest
<1>2. A \subseteq B \cup {}
  BY DEF Moves
<1>3. SameBut(h, m, F \cup {"goto", "posted", "after"}) /\ h.goto = t
  BY DEF Moves
<1> HIDE DEF A, B
<1>4. A = {}
  BY <1>1, <1>2
<1> QED
  BY <1>3, <1>4 DEF A, SameBut, FieldNames

\* A login, and the end of one that has failed, keep the mediator calm.
LEMMA EarlySteered ==
    ASSUME NEW h \in Mediator, NEW t \in {0, 2}, t = 2 => m.state = 0,
           h.state = m.state, h.up = m.up, h.margin = m.margin, h.goto = t,
           \A k \in Links : h.link[k].asked = m.link[k].asked /\ Listens(h.link[k], m.link[k]),
           NEW D, NEW c, NEW p, ~p, NEW n, NEW A, Steered(m, D, c, p, n, A)
    PROVE  Steered(h, D, c, p, n, A)
<1>1. t \in StateIds /\ t # None
  BY NoneApart DEF StateIds
<1>2. Shape(m) => Shape(h)
  BY <1>1 DEF Shape
<1>3. Tame(m) => Tame(h)
  BY DEF Tame, AskedIn
<1>4. Calm(m) => Calm(h)
  BY DEF Calm
<1>5. Heard(m, D) => Heard(h, D)
  <2>1. D \subseteq D /\ \A k \in Links : Listens(h.link[k], m.link[k])
    OBVIOUS
  <2> QED
    BY <2>1, ListensHeard
<1> QED
  BY <1>2, <1>3, <1>4, <1>5 DEF Steered

\* Nothing announced concludes nothing.
LEMMA SilenceConcludes ==
    ASSUME NEW h \in Mediator, Announced(h) = {}, NEW w
    PROVE  ~Concludes(Announced(h), w) /\ ~Answers(Settled(h), w)
<1>1. ~Concludes({}, w)
  BY DEF Concludes
<1>2. ~Concludes(Announced(h), w)
  BY <1>1
<1>3. Answers(Settled(h), w) => Concludes(Announced(h), w)
  BY SettledEnds
<1> QED
  BY <1>2, <1>3

\* A login is the request that the flow now waits for.
LEMMA LoginRemoval ==
    ASSUME TypeInv, WishFit, PurposeInv, RemovalInv, SubmitCredentials
    PROVE  RemovalInv'
<1>1. TypeOK /\ Core /\ m \in Mediator /\ Fit(m) /\ queue \in Seq(Items)
  BY SelfKept DEF TypeInv, FlowTypeOK
<1> DEFINE w == [what |-> "login", who |-> None]
           h == Switch(m, 2)
<1>2. stage = "prompt" /\ account' = account /\ row' = row
  BY DEF SubmitCredentials, MayCall
<1>3. IF m.state \in 1 .. 4 \cup 6 .. 12 THEN WaitFor("login", 5, m, wish) ELSE WaitFor("login", 5, h, w)
  BY DEF SubmitCredentials
<1>4. SUFFICES ASSUME "request" \notin left'
               PROVE  RemovalInv'
  BY DEF RemovalInv
<1>5. "request" \notin left
  BY <1>3, <1>4 DEF WaitFor, Take
<1>6. m.state = 0 /\ wish = NoWish /\ Steered(m, Consents(queue), Early, Rowed, row.name, account)
  BY <1>2, <1>5 DEF RemovalInv
<1>7. Take(h, queue, w) /\ stage' = "login" /\ observer' = Observe(Registered(5), h)
  BY <1>3, <1>6 DEF WaitFor
<1>8. h \in Mediator /\ Moves(h, m, {}, 2, {}) /\ Fit(h)
  <2>1. 2 \in StateIds \ {10, 11}
    BY DEF StateIds
  <2> QED
    BY <1>1, <2>1, SwitchedIs
<1> HIDE DEF h
<1>9. /\ h.state = m.state /\ h.up = m.up /\ h.margin = m.margin /\ h.goto = 2
      /\ Announced(h) = {} /\ h.link = m.link
  <2> DEFINE F == {}
  <2>1. F \subseteq {"link", "flag2c", "current"} /\ "link" \notin F /\ Moves(h, m, F, 2, {})
    BY <1>8
  <2>2. Core /\ h \in Mediator
    BY <1>1, <1>8
  <2> HIDE DEF F
  <2> QED
    BY <2>1, <2>2, MovedIs, Zenon
<1>10. \A k \in Links : h.link[k].asked = m.link[k].asked /\ Listens(h.link[k], m.link[k])
  BY <1>9 DEF Listens
<1> DEFINE c == Early
           p == Rowed
           n == row.name
<1>11. ~p /\ Early' = c /\ Rowed' = p /\ Steered(m, Consents(queue), c, p, n, account)
  BY <1>2, <1>6, <1>7 DEF Early, Rowed
<1> HIDE DEF c, p, n
<1>12. Steered(h, Consents(queue), c, p, n, account)
  BY <1>6, <1>8, <1>9, <1>10, <1>11, EarlySteered
<1>13. ~Concludes(Announced(h), w) /\ ~Answers(Settled(h), w)
  BY <1>8, <1>9, SilenceConcludes
<1>14. /\ Steered(m', Consents(queue'), c, p, n, account)
       /\ wish' = w
  BY <1>1, <1>7, <1>8, <1>12, <1>13, TakenSteered
<1>15. wish' # NoWish
  BY <1>14 DEF NoWish
<1>16. observer' = Registered(5)
  <2>1. Registered(5) \in Observers /\ Registered(5).expected = 5
    BY RegisteredTyped
  <2>2. w.what = "login"
    OBVIOUS
  <2> HIDE DEF w
  <2> QED
    BY <1>7, <1>13, <2>1, <2>2, LoginAnswered
<1>17. observer'.expected = 5 /\ observer'.waiting
  BY <1>16 DEF Registered
<1>18. Steered(m', Consents(queue'), Early', Rowed', row'.name, account')
  BY <1>2, <1>11, <1>14 DEF n
<1>19. ~Rowed' /\ stage' = "login"
  BY <1>7, <1>11
<1> QED
  BY <1>15, <1>17, <1>18, <1>19 DEF RemovalInv

\* At rest without a margin connection there is nothing of a deletion to come.
LEMMA RestRemoving ==
    ASSUME NEW r \in Mediator, r.goto = None, r.state \in {0, 3}, r.margin = None,
           NEW D, D \subseteq Links, Heard(r, D), NEW n, NEW A
    PROVE  Removing(r, D, n, A)
<1>1. Target(r) \in {0, 3} /\ r.goto \notin {1, 2}
  BY NoneApart DEF Target, StateIds
<1>2. Spare(r, D)
  BY DEF Spare
<1>3. \A l \in D : l \in Links /\ r.link[l].kind # "free"
  BY DEF Heard
<1> QED
  BY <1>1, <1>2, <1>3 DEF Removing

\* After a login the flow shows its rows; a login given up is over.
LEMMA LoginEndsRemoval ==
    ASSUME TypeInv, WishFit, PurposeInv, RemovalInv, LoginEnds
    PROVE  RemovalInv'
<1>1. /\ TypeOK /\ Core /\ m \in Mediator /\ Fit(m) /\ queue \in Seq(Items) /\ m.goto = None
      /\ Consents(queue) \subseteq Links
  BY SelfKept DEF TypeInv, FlowTypeOK, Consents
<1>2. stage = "login" /\ ~observer.waiting /\ row' = row
  BY DEF LoginEnds, WaitEnds
<1>3. SUFFICES ASSUME "request" \notin left'
               PROVE  RemovalInv'
  BY DEF RemovalInv
<1>4. "request" \notin left
  BY <1>3 DEF LoginEnds, WaitFor, Take, vars
<1> DEFINE D == Consents(queue)
<1>5. /\ Steered(m, D, Early, Rowed, row.name, account)
      /\ wish = NoWish => m.state \in {0, 3}
      /\ observer.result # "timeout" => wish = NoWish
  BY <1>2, <1>4 DEF RemovalInv
<1>6. Early /\ ~Rowed
  BY <1>2 DEF Early, Rowed
<1>7. Shape(m) /\ Tame(m) /\ Heard(m, D) /\ Calm(m)
  BY <1>5, <1>6 DEF Steered
<1> HIDE DEF D
<1>8. CASE Succeeded
  <2>1. /\ m' = m /\ queue' = queue /\ account' = account /\ wish' = wish /\ left' = left
        /\ stage' = "menu"
    BY <1>8 DEF LoginEnds, vars
  <2>2. wish = NoWish /\ m.state \in {0, 3}
    BY <1>5, <1>8 DEF Succeeded
  <2>3. m.margin = None
    BY <1>7 DEF Calm
  <2>4. Removing(m, D, row.name, account)
    BY <1>1, <1>7, <2>2, <2>3, RestRemoving DEF D
  <2>5. ~Early' /\ Rowed'
    BY <2>1 DEF Early, Rowed
  <2>6. Steered(m, D, Early', Rowed', row.name, account)
    BY <1>7, <2>4, <2>5 DEF Steered
  <2>7. Steered(m', Consents(queue'), Early', Rowed', row'.name, account')
    BY <1>2, <2>1, <2>6 DEF D
  <2> QED
    BY <2>1, <2>2, <2>7 DEF RemovalInv
<1>9. CASE ~Succeeded
  <2> DEFINE g == Switch(RequestAuthClose(m), 0)
  <2>1. Take(g, queue, NoWish) /\ stage' = "close" /\ account' = account
    BY <1>9 DEF LoginEnds, WaitFor
  <2>2. /\ g \in Mediator /\ Fit(g) /\ Moves(g, m, {"link", "flag2c"}, 0, {})
        /\ LinksClosed(g, m, {m.auth})
    BY <1>1, GivenUpIs
  <2> HIDE DEF g
  <2>3. g.state = m.state /\ g.up = m.up /\ g.margin = m.margin /\ g.goto = 0
    <3> DEFINE F == {"link", "flag2c"}
    <3>1. F \subseteq {"link", "flag2c", "current"} /\ Moves(g, m, F, 0, {}) /\ Core /\ g \in Mediator
      BY <1>1, <2>2
    <3> HIDE DEF F
    <3> QED
      BY <3>1, MovedIs, Zenon
  <2>4. \A k \in Links : g.link[k].asked = m.link[k].asked /\ Listens(g.link[k], m.link[k])
    <3>1. \A k \in Links : Listens(g.link[k], m.link[k])
      BY <2>2, ClosingListens
    <3>2. \A k \in Links : SameLink(g.link[k], m.link[k], {"st"})
      BY <2>2 DEF LinksClosed
    <3>3. \A k \in Links : g.link[k].asked = m.link[k].asked
      BY <3>2 DEF SameLink, LinkFieldNames
    <3> QED
      BY <3>1, <3>3
  <2>5. Target(g) = 0
    BY <2>3, NoneApart DEF Target, StateIds
  <2> DEFINE c == Early
             p == Rowed
             n == row.name
  <2>6. ~p /\ Steered(m, D, c, p, n, account)
    BY <1>5, <1>6
  <2>7. Early' = Early /\ Rowed' = Rowed
    BY <1>6, <2>1 DEF Early, Rowed
  <2> HIDE DEF c, p, n
  <2>8. Steered(g, D, c, p, n, account)
    BY <2>2, <2>3, <2>4, <2>6, EarlySteered
  <2>9. /\ Steered(m', Consents(queue'), c, p, n, account)
        /\ m'.state = 0 /\ wish' = NoWish
    BY <1>1, <2>1, <2>2, <2>5, <2>8, TakenSteered DEF D, Idle
  <2>10. Steered(m', Consents(queue'), Early', Rowed', row'.name, account')
    BY <1>2, <2>1, <2>7, <2>9 DEF c, p, n
  <2>11. ~Rowed'
    BY <2>1 DEF Rowed
  <2> QED
    BY <2>1, <2>9, <2>10, <2>11 DEF RemovalInv
<1> QED
  BY <1>8, <1>9

\* A wait that is given up, and what the user is shown, change nothing of it.
LEMMA StageRemoval ==
    ASSUME TypeInv, RemovalInv,
           WaitTimesOut \/ CloseEnds \/ NoRows \/ \E r \in SelectionRows : SelectRow(r)
    PROVE  RemovalInv'
<1>1. /\ m' = m /\ queue' = queue /\ account' = account /\ wish' = wish /\ left' = left /\ row' = row
  BY DEF WaitTimesOut, CloseEnds, NoRows, SelectRow, vars
<1>2. Slots' = Slots
  BY <1>1 DEF Slots
<1>3. CASE WaitTimesOut
  <2>1. /\ stage' = stage /\ observer'.expected = observer.expected /\ observer'.result = "timeout"
    <3>1. observer \in Observers
      BY DEF TypeInv, FlowTypeOK, Observers
    <3>2. observer' = [observer EXCEPT !.waiting = FALSE, !.result = "timeout"] /\ stage' = stage
      BY <1>3 DEF WaitTimesOut
    <3> QED
      BY <3>1, <3>2 DEF Observers
  <2>2. Early' = Early /\ Rowed' = Rowed
    BY <2>1 DEF Early, Rowed
  <2>3. Steered(m', Consents(queue'), Early', Rowed', row'.name, account')
           = Steered(m, Consents(queue), Early, Rowed, row.name, account)
    BY <1>1, <2>2
  <2> QED
    BY <1>1, <1>2, <2>1, <2>2, <2>3 DEF RemovalInv
<1>4. CASE CloseEnds \/ NoRows
  <2>1. \/ stage = "close" /\ stage' = "prompt"
        \/ stage = "menu" /\ stage' = "over"
    BY <1>4 DEF CloseEnds, NoRows, WaitEnds
  <2>2. Early' = Early /\ Rowed' = Rowed
    BY <2>1 DEF Early, Rowed
  <2>3. Steered(m', Consents(queue'), Early', Rowed', row'.name, account')
           = Steered(m, Consents(queue), Early, Rowed, row.name, account)
    BY <1>1, <2>2
  <2> QED
    BY <1>1, <2>1, <2>2, <2>3 DEF RemovalInv
<1>5. CASE \E r \in SelectionRows : SelectRow(r)
  BY <1>5 DEF SelectRow, RemovalInv
<1> QED
  BY <1>3, <1>4, <1>5

\* A row the user confirms becomes the character to delete.
LEMMA ConfirmedRemoving ==
    ASSUME NEW h \in Mediator, m \in Mediator, m.goto = None, ~m.full, m.state > 2,
           h.state = m.state, h.margin = m.margin, h.link = m.link, h.goto = 7,
           NEW D, NEW n, SlotName(h) = n, NEW o, Removing(m, D, o, account),
           m.state = 3 \/ n = o
    PROVE  Removing(h, D, n, account)
<1>1. Target(h) = 7 /\ Target(m) = m.state /\ m.state \in 0 .. 13
  <2>1. h.goto # None
    BY NoneApart DEF StateIds
  <2> QED
    BY <2>1, FieldsTyped DEF Target, StateIds
<1>2. /\ Own(m, D, n, account) => Own(h, D, n, account)
      /\ Shut(m) => Shut(h)
  BY DEF Own, Shut
<1>3. CASE m.state = 3
  <2>1. Spare(m, D) \/ Shut(m)
    BY <1>1, <1>3 DEF Removing
  <2>2. Own(m, D, n, account) \/ Shut(m)
    BY <2>1, SpareOwn
  <2> QED
    BY <1>1, <1>2, <2>2, NoneApart DEF Removing, StateIds
<1>4. CASE m.state # 3
  <2>1. Target(m) \notin {0, 3}
    BY <1>1, <1>4
  <2>2. m.goto \notin {4, 7}
    BY NoneApart DEF StateIds
  <2>3. Own(m, D, n, account)
    BY <1>4, <2>1, <2>2 DEF Removing
  <2> QED
    BY <1>1, <1>2, <2>3, NoneApart DEF Removing, StateIds
<1> QED
  BY <1>3, <1>4

\* The flow waits for the deletion of the row that it has chosen.
LEMMA DeleteRowRemoval ==
    ASSUME TypeInv, WishFit, PurposeInv, RemovalInv, NEW r \in ExistingRows, DeleteRow(r)
    PROVE  RemovalInv'
<1>1. /\ TypeOK /\ Core /\ m \in Mediator /\ Fit(m) /\ ~m.full /\ m.goto = None /\ queue \in Seq(Items)
  BY SelfKept DEF TypeInv, FlowTypeOK, Core, AtRest
<1> DEFINE i == r.index
<1>2. i \in Slots
  BY RowIs DEF ExistingRows
<1>3. m.state > 2
  <2>1. r \in SelectionRows
    BY DEF ExistingRows
  <2> QED
    BY <2>1 DEF SelectionRows, ListedWorlds
<1> DEFINE n == m.slots[i + 1]
           w == [what |-> "delete", who |-> n]
           h == Switch([m EXCEPT !.current = i], 7)
           D == Consents(queue)
<1>4. /\ Take(h, queue, w) /\ stage = "menu" /\ stage' = "delete" /\ account' = account
      /\ row' = [index |-> i, name |-> n]
      /\ observer' = Observe(Registered(8), h)
  BY DEF DeleteRow, WaitFor, MayCall
<1> HIDE DEF i
<1>5. SUFFICES ASSUME "request" \notin left'
               PROVE  RemovalInv'
  BY DEF RemovalInv
<1>6. "request" \notin left /\ (wish = NoWish \/ wish = w)
  BY <1>4, <1>5 DEF Take
<1>7. /\ i \in 0 .. Len(m.slots) - 1 /\ i \in Nat /\ i + 1 \in 1 .. Len(m.slots) /\ n \in Characters
  BY <1>1, <1>2, SlotIs
<1>8. /\ h \in Mediator /\ Moves(h, m, {"current"}, 7, {}) /\ h.current = i /\ Fit(h)
  BY <1>1, <1>7, SelectedIs
<1> HIDE DEF h
<1>9. /\ h.state = m.state /\ h.up = m.up /\ h.margin = m.margin /\ h.slots = m.slots
      /\ h.goto = 7 /\ Announced(h) = {} /\ h.link = m.link
  <2> DEFINE F == {"current"}
  <2>1. F \subseteq {"link", "flag2c", "current"} /\ "link" \notin F /\ Moves(h, m, F, 7, {})
    BY <1>8
  <2>2. Core /\ h \in Mediator
    BY <1>1, <1>8
  <2> HIDE DEF F
  <2> QED
    BY <2>1, <2>2, MovedIs, Zenon
<1>10. SlotName(h) = n
  <2>1. i # None /\ ~(i >= Len(m.slots))
    <3>1. Len(m.slots) \in Nat
      BY <1>1, FieldsTyped
    <3> QED
      BY <1>7, <3>1, LoginAssumption
  <2> QED
    BY <1>8, <1>9, <2>1 DEF SlotName
<1>11. /\ Steered(m, D, Early, Rowed, row.name, account)
       /\ wish = NoWish => m.state \in {0, 3}
       /\ wish \in {NoWish, [what |-> "delete", who |-> row.name]}
  BY <1>4, <1>6 DEF RemovalInv, Rowed
<1>12. ~Early' /\ Rowed' /\ Rowed
  BY <1>4 DEF Early, Rowed
<1>13. Shape(m) /\ Tame(m) /\ Heard(m, D) /\ Removing(m, D, row.name, account)
  BY <1>11, <1>12 DEF Steered
<1>14. m.state = 3 \/ n = row.name
  <2>1. CASE wish = NoWish
    BY <1>3, <1>11, <2>1
  <2>2. CASE wish # NoWish
    BY <1>6, <1>11, <2>2
  <2> QED
    BY <2>1, <2>2
<1> DEFINE c == Early'
           p == Rowed'
<1>15. Steered(h, D, c, p, n, account)
  <2>1. Shape(h)
    <3>1. h.goto \notin {None, 1, 2, 4, 5, 6}
      BY <1>9, NoneApart DEF StateIds
    <3> QED
      BY <1>9, <1>13, <3>1 DEF Shape
  <2>2. Tame(h) /\ Heard(h, D)
    BY <1>9, <1>13 DEF Tame, Heard
  <2> HIDE DEF n, D
  <2>3. Removing(h, D, n, account)
    BY <1>1, <1>3, <1>8, <1>9, <1>10, <1>13, <1>14, ConfirmedRemoving
  <2> QED
    BY <1>12, <2>1, <2>2, <2>3 DEF Steered
<1>16. ~Concludes(Announced(h), w) /\ ~Answers(Settled(h), w)
  BY <1>8, <1>9, SilenceConcludes
<1>17. observer' = Registered(8)
  <2>1. Registered(8) \in Observers /\ Registered(8).expected = 8
    BY RegisteredTyped
  <2>2. w.what = "delete"
    OBVIOUS
  <2> HIDE DEF w
  <2> QED
    BY <1>4, <1>16, <2>1, <2>2, DeleteAnswered
<1>18. observer'.waiting
  BY <1>17 DEF Registered
<1> HIDE DEF c, p, n, w
<1>19. /\ Steered(m', Consents(queue'), c, p, n, account)
       /\ m'.slots = h.slots
       /\ wish' = w
  BY <1>1, <1>4, <1>8, <1>15, <1>16, TakenSteered DEF D
<1>20. row'.name = n /\ row'.index = i
  BY <1>4
<1>21. Steered(m', Consents(queue'), Early', Rowed', row'.name, account')
  BY <1>4, <1>19, <1>20 DEF c, p
<1>22. wish' = [what |-> "delete", who |-> row'.name] /\ wish' # NoWish
  BY <1>19, <1>20 DEF w, NoWish
<1>23. row'.index \in Slots' /\ m'.slots[row'.index + 1] = row'.name
  BY <1>7, <1>9, <1>19, <1>20 DEF Slots, n
<1> QED
  BY <1>4, <1>18, <1>21, <1>22, <1>23 DEF RemovalInv

\* What the end of a deletion makes of the mediator.
LEMMA RemovedSteered ==
    ASSUME m \in Mediator, NEW h \in Mediator, SameBut(h, m, {"slots"}), m.goto = None, m.state \in {0, 3},
           NEW D, NEW c, NEW p, NEW n, Steered(m, D, c, p, n, account)
    PROVE  Steered(h, D, c, p, n, account)
<1>1. /\ h.state = m.state /\ h.goto = m.goto /\ h.up = m.up /\ h.margin = m.margin
      /\ h.full = m.full /\ h.link = m.link
  BY DEF SameBut, FieldNames
<1>2. Target(h) = Target(m) /\ Target(m) \in {0, 3}
  BY <1>1 DEF Target
<1>3. Shape(m) => Shape(h)
  BY <1>1 DEF Shape
<1>4. (Tame(m) => Tame(h)) /\ (Calm(m) => Calm(h))
  BY <1>1 DEF Tame, Calm
<1>5. Heard(m, D) => Heard(h, D)
  BY <1>1 DEF Heard
<1>6. /\ Spare(m, D) => Spare(h, D)
      /\ Shut(m) => Shut(h)
  BY <1>1 DEF Spare, Shut
<1>7. Removing(m, D, n, account) => Removing(h, D, n, account)
  BY <1>1, <1>2, <1>6 DEF Removing
<1> QED
  BY <1>3, <1>4, <1>5, <1>7 DEF Steered

\* What the flow removes at the end of a deletion is not under way any more.
LEMMA DeleteEndsRemoval ==
    ASSUME TypeInv, WishFit, PurposeInv, RemovalInv, DeleteEnds
    PROVE  RemovalInv'
<1>1. /\ TypeOK /\ Core /\ m \in Mediator /\ Fit(m) /\ m.goto = None /\ queue \in Seq(Items)
      /\ row.index \in Nat
  BY SelfKept DEF TypeInv, FlowTypeOK
<1> DEFINE h == IF Succeeded THEN RemoveRow(m, row.index) ELSE m
           D == Consents(queue)
<1>2. /\ Take(h, queue, wish) /\ stage = "delete" /\ stage' = "menu" /\ ~observer.waiting
      /\ account' = account /\ row' = row
  BY DEF DeleteEnds, WaitEnds
<1>3. SUFFICES ASSUME "request" \notin left'
               PROVE  RemovalInv'
  BY DEF RemovalInv
<1>4. "request" \notin left
  BY <1>2, <1>3 DEF Take
<1>5. /\ Steered(m, D, Early, Rowed, row.name, account)
      /\ wish = NoWish => m.state \in {0, 3}
      /\ wish \in {NoWish, [what |-> "delete", who |-> row.name]}
  BY <1>2, <1>4 DEF RemovalInv, Rowed
<1>6. Succeeded => wish = NoWish
  BY <1>2 DEF Succeeded, WishFit
<1>7. h \in Mediator /\ RemovedRow(h, m) /\ Fit(h)
  BY <1>1, RemoveRowIs DEF RemovedRow
<1>8. h = m \/ wish = NoWish
  BY <1>6
<1> HIDE DEF h
<1>9. SameBut(h, m, {"slots"})
  BY <1>7 DEF RemovedRow, SameBut
<1>10. Target(h) = m.state /\ Announced(h) = {}
  <2>1. h.state = m.state /\ h.goto = None /\ h.posted = m.posted /\ h.after = m.after
    BY <1>1, <1>9 DEF SameBut, FieldNames
  <2>2. Announced(h) = Announced(m) /\ Announced(m) = {}
    BY <1>1, <2>1, QuietRest DEF Announced
  <2> QED
    BY <2>1, <2>2 DEF Target
<1> DEFINE c == Early
           p == Rowed
           n == row.name
<1>11. Early' = c /\ Rowed' = p /\ Rowed'
  BY <1>2 DEF Early, Rowed
<1>12. Steered(h, D, c, p, n, account)
  <2>1. Steered(m, D, c, p, n, account)
    BY <1>5
  <2> HIDE DEF D, c, p, n
  <2> QED
    BY <1>1, <1>5, <1>7, <1>8, <1>9, <2>1, RemovedSteered
<1>13. ~Concludes(Announced(h), wish)
  BY <1>7, <1>10, SilenceConcludes
<1> HIDE DEF c, p, n
<1>14. /\ Steered(m', Consents(queue'), c, p, n, account)
       /\ m.state \in Idle => m'.state = m.state
       /\ wish' = wish
  BY <1>1, <1>2, <1>7, <1>10, <1>12, <1>13, TakenSteered DEF D
<1>15. wish' = NoWish => m'.state \in {0, 3}
  BY <1>5, <1>14 DEF Idle
<1>16. Steered(m', Consents(queue'), Early', Rowed', row'.name, account')
  BY <1>2, <1>11, <1>14 DEF n
<1>17. wish' \in {NoWish, [what |-> "delete", who |-> row'.name]}
  BY <1>2, <1>5, <1>14
<1> QED
  BY <1>2, <1>15, <1>16, <1>17 DEF RemovalInv

\* Every step keeps what is being removed.
LEMMA RemovalKept ==
    ASSUME TypeInv, WishFit, PurposeInv, RemovalInv, [FlowNext]_allVars
    PROVE  RemovalInv'
<1>1. CASE Flow
  BY <1>1, DeliveredRemoval, LoginRemoval, LoginEndsRemoval, StageRemoval, DeleteRowRemoval,
     DeleteEndsRemoval DEF Flow
<1>2. CASE stage = "client" /\ UNCHANGED flowVars
  BY <1>2 DEF flowVars, RemovalInv
<1>3. CASE ((\E l \in Links : Network(l)) \/ CopyExpires) /\ UNCHANGED flowVars
  BY <1>3, OutsideRemoval
<1>4. CASE UNCHANGED allVars
  <2>1. /\ m' = m /\ queue' = queue /\ account' = account /\ wish' = wish /\ left' = left
        /\ stage' = stage /\ observer' = observer /\ row' = row
    BY <1>4 DEF allVars, vars, flowVars
  <2>2. Early' = Early /\ Rowed' = Rowed /\ Slots' = Slots
    BY <2>1 DEF Early, Rowed, Slots
  <2>3. Steered(m', Consents(queue'), Early', Rowed', row'.name, account')
           = Steered(m, Consents(queue), Early, Rowed, row.name, account)
    BY <2>1, <2>2
  <2> QED
    BY <2>1, <2>2, <2>3 DEF RemovalInv
<1> QED
  BY <1>1, <1>2, <1>3, <1>4 DEF FlowNext

\* The states a handler enters leave the slot table as the handler made it.
LEMMA TakenSlots ==
    ASSUME NEW h \in Mediator, Fit(h), NEW q, NEW w, Take(h, q, w)
    PROVE  m'.slots = h.slots /\ m'.ready = h.ready
<1> DEFINE r == Settled(h)
<1>1. r \in Mediator /\ SameBut(r, h, FieldNames \ Steady)
  BY SettledFit
<1>2. m' = Tidy(r, q)
  BY DEF Take
<1> HIDE DEF r
<1>3. r.slots = h.slots /\ r.ready = h.ready
  BY <1>1 DEF SameBut, FieldNames, Steady
<1>4. m'.slots = r.slots /\ m'.ready = r.ready
  BY <1>1, <1>2 DEF Tidy, Mediator
<1> QED
  BY <1>3, <1>4

\* So does a handler that does not touch it.
LEMMA SameSlots ==
    ASSUME NEW h \in Mediator, Fit(h), NEW G, "slots" \notin G, SameBut(h, m, G) \/ (\E t : Moves(h, m, G, t, {})),
           NEW q, NEW w, Take(h, q, w)
    PROVE  m'.slots = m.slots
<1>1. h.slots = m.slots
  BY DEF Moves, SameBut, FieldNames
<1> QED
  BY <1>1, TakenSlots

\* A sequence loses nothing but the element that is removed.
LEMMA RemovedOnly ==
    ASSUME NEW S, NEW q \in Seq(S), NEW k \in 1 .. Len(q), NEW c \in ToSet(q), c \notin ToSet(RemoveAt(q, k))
    PROVE  c = q[k]
<1> DEFINE s == RemoveAt(q, k)
<1>1. /\ s \in Seq(S) /\ Len(s) = Len(q) - 1 /\ Len(q) \in Nat
      /\ \A i \in 1 .. Len(q) - 1 : s[i] = IF i < k THEN q[i] ELSE q[i + 1]
  BY RemoveAtIs
<1> HIDE DEF s
<1>2. PICK j \in 1 .. Len(q) : q[j] = c
  BY DEF ToSet
<1>3. \A i \in 1 .. Len(s) : s[i] # c
  BY <1>1 DEF ToSet, s
<1>4. ~(j < k)
  BY <1>1, <1>2, <1>3
<1>5. ~(j > k)
  <2>1. SUFFICES ASSUME j > k PROVE FALSE
    OBVIOUS
  <2>2. j - 1 \in 1 .. Len(s) /\ ~(j - 1 < k) /\ (j - 1) + 1 = j
    BY <1>1, <1>2, <2>1
  <2> QED
    BY <1>1, <1>2, <1>3, <2>2
<1> QED
  BY <1>2, <1>4, <1>5

\* A delivered operation takes no character out of the slot table.
LEMMA DeliveredSlots ==
    ASSUME Core, PurposeInv, queue # <<>>, NEW hashed \in BOOLEAN, NEW q, NEW w,
           Take(Completed(m, Head(queue), hashed), q, w), NEW c \in ToSet(m.slots)
    PROVE  c \in ToSet(m'.slots)
<1> DEFINE h == Completed(m, Head(queue), hashed)
<1>1. /\ m \in Mediator /\ m.goto = None /\ Gate(m) /\ Head(queue) \in Items
      /\ h \in Mediator /\ CompletedResult(h, m, Head(queue)) /\ Fit(h)
  BY SelfKept, HeadIs, DeliveredIs DEF PurposeInv
<1>2. m'.slots = h.slots
  BY <1>1, TakenSlots
<1> HIDE DEF h
<1>3. m.slots \in Seq(Characters)
  BY <1>1, FieldsTyped
<1>4. m.gate
  <2>1. m.slots # <<>>
    BY <1>3 DEF ToSet
  <2> QED
    BY <1>1, <2>1 DEF Gate
<1>5. h.slots = m.slots \/ h.slots = Append(m.slots, m.create)
  BY <1>1, <1>4, CompletedSlots
<1>6. CASE h.slots = Append(m.slots, m.create)
  <2>1. PICK j \in DOMAIN m.slots : m.slots[j] = c
    BY DEF ToSet
  <2> DEFINE t == m.slots
             x == m.create
             u == Append(t, x)
  <2>2. j \in DOMAIN u /\ u[j] = t[j]
    BY <1>3
  <2> HIDE DEF u
  <2>3. c \in ToSet(u)
    BY <2>1, <2>2 DEF ToSet
  <2> QED
    BY <1>2, <1>6, <2>3 DEF u
<1> QED
  BY <1>2, <1>5, <1>6

\* The calls of the client take only a deleted character out of the slot table.
LEMMA ClientSlots ==
    ASSUME TypeOK, Core, Client, m'.ready
    PROVE  \/ m'.slots = m.slots
           \/ \E k \in 1 .. Len(m.slots) : m'.slots = RemoveAt(m.slots, k) /\ m.slots[k] \notin account
<1>1. m \in Mediator /\ Fit(m)
  BY SelfKept
<1>2. ASSUME NEW h \in Mediator, Fit(h), NEW G, "slots" \notin G, SameBut(h, m, G) \/ (\E t : Moves(h, m, G, t, {})),
             NEW w, Take(h, queue, w)
      PROVE  m'.slots = m.slots
  BY <1>2, SameSlots
<1>3. CASE ProcessLoginRequest
  <2> DEFINE w == [what |-> "login", who |-> None]
             h == Switch(m, 2)
  <2>1. Take(h, queue, w)
    BY <1>3 DEF ProcessLoginRequest
  <2>2. 2 \in StateIds \ {10, 11}
    BY DEF StateIds
  <2>3. h \in Mediator /\ Moves(h, m, {}, 2, {}) /\ Fit(h)
    BY <1>1, <2>2, SwitchedIs
  <2> HIDE DEF h, w
  <2> QED
    BY <1>2, <2>1, <2>3
<1>4. ASSUME NEW i \in Slots, NEW t \in {7, 8}, NEW w, Take(Switch([m EXCEPT !.current = i], t), queue, w)
      PROVE  m'.slots = m.slots
  <2> DEFINE h == Switch([m EXCEPT !.current = i], t)
  <2>1. Take(h, queue, w)
    BY <1>4
  <2>2. h \in Mediator /\ Moves(h, m, {"current"}, t, {}) /\ Fit(h)
    BY <1>1, SlotIs, SelectedIs
  <2> HIDE DEF h
  <2> QED
    BY <1>2, <2>1, <2>2
<1>5. ASSUME NEW i \in Slots, PersistSelectionContextForState8(i) \/ SetSelectionIndexAndSwitchToState7(i)
      PROVE  m'.slots = m.slots
  BY <1>4, <1>5 DEF PersistSelectionContextForState8, SetSelectionIndexAndSwitchToState7
<1>6. ASSUME NEW c \in Characters, ProcessCreateCharacterInput120(c)
      PROVE  m'.slots = m.slots
  <2> DEFINE w == [what |-> "create", who |-> c]
             h == Switch([m EXCEPT !.create = c, !.named = TRUE], 10)
  <2>1. Take(h, queue, w)
    BY <1>6 DEF ProcessCreateCharacterInput120
  <2>2. h \in Mediator /\ Moves(h, m, {"create", "named"}, 10, {}) /\ Fit(h)
    BY <1>1, CreatingIs
  <2> HIDE DEF h, w
  <2> QED
    BY <1>2, <2>1, <2>2
<1>7. ASSUME NEW i \in Slots, RemoveSlotRecord(i)
      PROVE  \E k \in 1 .. Len(m.slots) : m'.slots = RemoveAt(m.slots, k) /\ m.slots[k] \notin account
  <2> DEFINE h == [m EXCEPT !.slots = RemoveAt(@, i + 1)]
  <2>1. Take(h, queue, wish) /\ m.slots[i + 1] \notin account
    BY <1>7 DEF RemoveSlotRecord
  <2>2. i + 1 \in 1 .. Len(m.slots)
    BY SlotIs
  <2>3. h \in Mediator /\ h.slots = RemoveAt(m.slots, i + 1) /\ Fit(h)
    BY <1>1, <2>2, RemovedIs
  <2> HIDE DEF h
  <2>4. m'.slots = RemoveAt(m.slots, i + 1)
    BY <2>1, <2>3, TakenSlots
  <2> QED
    BY <2>1, <2>2, <2>4
<1>8. CASE RequestAuthCloseAndSwitchToState0
  <2> DEFINE h == Switch(RequestAuthClose(m), 0)
  <2>1. Take(h, queue, NoWish)
    BY <1>8 DEF RequestAuthCloseAndSwitchToState0
  <2>2. h \in Mediator /\ Fit(h) /\ Moves(h, m, {"link", "flag2c"}, 0, {})
    BY <1>1, GivenUpIs
  <2> HIDE DEF h
  <2> QED
    BY <1>2, <2>1, <2>2
<1>9. CASE RequestMarginConnectionCloseWaitEvent0f
  <2> DEFINE h == RequestMarginClose(m)
  <2>1. Take(h, queue, wish) /\ m.margin # None
    BY <1>9 DEF RequestMarginConnectionCloseWaitEvent0f
  <2>2. h \in Mediator /\ Fit(h) /\ SameBut(h, m, {"link", "flag2d", "F14"})
    BY <1>1, <2>1, MarginCloseIs
  <2> HIDE DEF h
  <2> QED
    BY <1>2, <2>1, <2>2
<1>10. CASE SetState9OptionalField90AndSwitchToState13
  <2> DEFINE h == Switch(m, 13)
  <2>1. Take(h, queue, wish)
    BY <1>10 DEF SetState9OptionalField90AndSwitchToState13
  <2>2. 13 \in StateIds \ {10, 11}
    BY DEF StateIds
  <2>3. h \in Mediator /\ Moves(h, m, {}, 13, {}) /\ Fit(h)
    BY <1>1, <2>2, SwitchedIs
  <2> HIDE DEF h
  <2> QED
    BY <1>2, <2>1, <2>3
<1>11. CASE SetState9CallbackObjectTriple
  <2>1. PICK c \in {"join", "fail"} : Take([m EXCEPT !.callbacks = c], queue, wish)
    BY <1>11 DEF SetState9CallbackObjectTriple
  <2> DEFINE h == [m EXCEPT !.callbacks = c]
  <2>2. h \in Mediator /\ SameBut(h, m, {"callbacks"}) /\ Fit(h)
    BY <1>1, CallbacksIs
  <2>3. Take(h, queue, wish)
    BY <2>1
  <2> HIDE DEF h
  <2> QED
    BY <1>2, <2>2, <2>3
<1>12. CASE ClearEngine
  <2> DEFINE h == Cleared(m)
  <2>1. Take(h, queue, NoWish)
    BY <1>12 DEF ClearEngine, Cleared
  <2>2. h \in Mediator /\ Fit(h) /\ ~h.ready
    BY <1>1, ClearedIs
  <2> HIDE DEF h
  <2>3. m'.ready = h.ready
    BY <2>1, <2>2, TakenSlots
  <2> QED
    BY <2>2, <2>3
<1> QED
  BY <1>3, <1>5, <1>6, <1>7, <1>8, <1>9, <1>10, <1>11, <1>12 DEF Client

\* The flow takes only the row out of it whose deletion it has seen.
LEMMA FlowSlots ==
    ASSUME TypeInv, WishFit, PurposeInv, RemovalInv, Flow, "request" \notin left,
           NEW c \in Characters, c \in ToSet(m.slots), c \notin ToSet(m'.slots)
    PROVE  c \notin account
<1>1. /\ TypeOK /\ Core /\ m \in Mediator /\ Fit(m) /\ m.slots \in Seq(Characters) /\ row.index \in Nat
  BY SelfKept, FieldsTyped DEF TypeInv, FlowTypeOK
<1>2. m'.slots # m.slots
  OBVIOUS
<1>3. ASSUME NEW h \in Mediator, Fit(h), NEW G, "slots" \notin G, SameBut(h, m, G) \/ (\E t : Moves(h, m, G, t, {})),
             NEW w, Take(h, queue, w)
      PROVE  FALSE
  BY <1>2, <1>3, SameSlots
<1>4. ASSUME NEW w, Take(m, queue, w)
      PROVE  FALSE
  <2>1. SameBut(m, m, {})
    BY DEF SameBut
  <2> QED
    BY <1>1, <1>3, <1>4, <2>1
<1>5. CASE SubmitCredentials
  <2> DEFINE h == Switch(m, 2)
             w == [what |-> "login", who |-> None]
  <2>1. Take(m, queue, wish) \/ Take(h, queue, w)
    BY <1>5 DEF SubmitCredentials, WaitFor
  <2>2. 2 \in StateIds \ {10, 11}
    BY DEF StateIds
  <2>3. h \in Mediator /\ Moves(h, m, {}, 2, {}) /\ Fit(h)
    BY <1>1, <2>2, SwitchedIs
  <2> HIDE DEF h, w
  <2> QED
    BY <1>3, <1>4, <2>1, <2>3
<1>6. CASE WaitDelivers
  <2>1. PICK hashed \in BOOLEAN : Take(Completed(m, Head(queue), hashed), Tail(queue), wish)
    BY <1>6, Zenon DEF WaitDelivers
  <2>2. queue # <<>>
    BY <1>6 DEF WaitDelivers
  <2> QED
    BY <1>1, <2>1, <2>2, DeliveredSlots
<1>7. CASE LoginEnds
  <2> DEFINE h == Switch(RequestAuthClose(m), 0)
  <2>1. UNCHANGED vars \/ Take(h, queue, NoWish) \/ Take(m, queue, NoWish)
    BY <1>7 DEF LoginEnds, WaitFor
  <2>2. h \in Mediator /\ Fit(h) /\ Moves(h, m, {"link", "flag2c"}, 0, {})
    BY <1>1, GivenUpIs
  <2> HIDE DEF h
  <2> QED
    BY <1>2, <1>3, <1>4, <2>1, <2>2 DEF vars
<1>8. CASE WaitTimesOut \/ CloseEnds \/ NoRows \/ \E r \in SelectionRows : SelectRow(r)
  BY <1>2, <1>8 DEF WaitTimesOut, CloseEnds, NoRows, SelectRow, vars
<1>9. ASSUME NEW r \in ExistingRows, DeleteRow(r)
      PROVE  FALSE
  <2> DEFINE i == r.index
  <2>1. i \in Slots
    BY RowIs DEF ExistingRows
  <2> DEFINE w == [what |-> "delete", who |-> m.slots[i + 1]]
             h == Switch([m EXCEPT !.current = i], 7)
  <2>2. Take(h, queue, w)
    BY <1>9 DEF DeleteRow, WaitFor
  <2> HIDE DEF i
  <2>3. h \in Mediator /\ Moves(h, m, {"current"}, 7, {}) /\ Fit(h)
    BY <1>1, <2>1, SlotIs, SelectedIs
  <2> HIDE DEF h, w
  <2> QED
    BY <1>3, <2>2, <2>3
<1>10. CASE DeleteEnds
  <2>1. stage = "delete" /\ ~observer.waiting
    BY <1>10 DEF DeleteEnds, WaitEnds
  <2> DEFINE h == RemoveRow(m, row.index)
  <2>2. Succeeded /\ Take(h, queue, wish)
    BY <1>4, <1>10 DEF DeleteEnds
  <2>3. h \in Mediator /\ Fit(h)
    BY <1>1, RemoveRowIs
  <2>4. /\ row.index \in Slots /\ m.slots[row.index + 1] = row.name
        /\ row.name \notin account
    BY <2>1, <2>2 DEF RemovalInv, Succeeded
  <2>5. /\ row.index \in 0 .. Len(m.slots) - 1 /\ row.index + 1 \in 1 .. Len(m.slots)
    BY <1>1, <2>4, SlotIs
  <2>6. h = m \/ h = [m EXCEPT !.slots = RemoveAt(@, row.index + 1)]
    <3>1. row.index < Len(m.slots)
      BY <1>1, <2>5
    <3> QED
      BY <3>1 DEF RemoveRow
  <2>7. h.slots = m.slots \/ h.slots = RemoveAt(m.slots, row.index + 1)
    <3> HIDE DEF h
    <3> QED
      BY <1>1, <2>6 DEF Mediator
  <2> HIDE DEF h
  <2>8. m'.slots = h.slots
    BY <2>2, <2>3, TakenSlots
  <2>9. c = m.slots[row.index + 1]
    BY <1>1, <1>2, <2>5, <2>7, <2>8, RemovedOnly
  <2> QED
    BY <2>4, <2>9
<1> QED
  BY <1>5, <1>6, <1>7, <1>8, <1>9, <1>10 DEF Flow

\* Every step takes only deleted characters out of the slot table.
LEMMA RemovedDeleted ==
    ASSUME TypeInv, WishFit, PurposeInv, RemovalInv, [FlowNext]_allVars, m'.ready, "request" \notin left,
           NEW c \in Characters, c \in ToSet(m.slots), c \notin ToSet(m'.slots)
    PROVE  c \notin account
<1>1. TypeOK /\ Core /\ m.slots \in Seq(Characters) /\ m'.slots # m.slots
  BY SelfKept, FieldsTyped DEF TypeInv, FlowTypeOK
<1>2. CASE Client
  <2>1. PICK k \in 1 .. Len(m.slots) : m'.slots = RemoveAt(m.slots, k) /\ m.slots[k] \notin account
    BY <1>1, <1>2, ClientSlots
  <2> QED
    BY <1>1, <2>1, RemovedOnly
<1>3. CASE Deliver
  <2>1. PICK hashed \in BOOLEAN : Take(Completed(m, Head(queue), hashed), Tail(queue), wish)
    BY <1>3, Zenon DEF Deliver
  <2>2. queue # <<>>
    BY <1>3 DEF Deliver
  <2> QED
    BY <1>1, <2>1, <2>2, DeliveredSlots
<1>4. CASE \E l \in Links : Network(l)
  <2>1. m'.slots = m.slots
    BY <1>1, <1>4, NetworkLinks DEF SameBut, FieldNames
  <2> QED
    BY <1>1, <2>1
<1>5. CASE CopyExpires
  <2>1. m' = [m EXCEPT !.fresh = FALSE] /\ m \in Mediator
    BY <1>1, <1>5, SelfKept DEF CopyExpires
  <2>2. m'.slots = m.slots
    BY <2>1 DEF Mediator
  <2> QED
    BY <1>1, <2>2
<1>6. CASE UNCHANGED allVars
  BY <1>1, <1>6 DEF allVars, vars
<1> QED
  BY <1>2, <1>3, <1>4, <1>5, <1>6, FlowSlots DEF FlowNext

\* RemovedRowsAreDeleted: the row and the profile the flow removes are those of a
\* character that the server has deleted, for any servers, characters and faults,
\* unless a wait was given up before.
THEOREM DeletedRowsAreRemoved == FlowSpec => RemovedRowsAreDeleted
<1>1. FlowInit => TypeInv /\ WishFit /\ PurposeInv /\ RemovalInv
  BY FlowInitTyped, WishFitInit, PurposeInit, RemovalInit
<1>2. TypeInv /\ WishFit /\ PurposeInv /\ RemovalInv /\ [FlowNext]_allVars
         => TypeInv' /\ WishFit' /\ PurposeInv' /\ RemovalInv'
  BY FlowStepTyped, WishFitKept, PurposeKept, RemovalKept
<1>3. TypeInv /\ WishFit /\ PurposeInv /\ RemovalInv /\ [FlowNext]_allVars
         => (m'.ready /\ "request" \notin left =>
               \A c \in Characters : c \in ToSet(m.slots) /\ c \notin ToSet(m'.slots) => c \notin account)
  BY RemovedDeleted
<1> QED
  BY <1>1, <1>2, <1>3, PTL DEF FlowSpec, RemovedRowsAreDeleted

=============================================================================
