------------------------- MODULE LoginMediator_proofs -------------------------
(***************************************************************************)
(* What the login mediator's operators do, for any servers, worlds and     *)
(* characters: the type of what they return, the fields they leave alone,  *)
(* the connections they change, where they switch to and what they post.   *)
(*                                                                         *)
(* A handler is one expression that unfolds into five states entered one   *)
(* after the other, so nothing about it is proved by expanding it.  Each   *)
(* operator has a lemma that says what it is (EntersState, AuthResult,      *)
(* MarginReply, ...), and the next one is built from that lemma alone.     *)
(* SameBut says which fields of a record have not changed, Moves which     *)
(* state a handler has switched to and what it has posted.                 *)
(***************************************************************************)
EXTENDS LoginMediator, FiniteSetTheorems, TLAPS

Requested == {"login", "copy", "connect", "answer", "delete", "load", "claim", "create", "submit"}
Request == [what : Requested, who : Characters \cup {None}]

\* The fields of a mediator, but for those an operator on the connections changes.
FieldNames ==
    {"state", "goto", "ready", "auth", "margin", "flag2c", "flag2d", "F14", "up", "attempts",
     "authList", "begins", "host", "marginList", "route", "fresh", "gate", "slots", "current",
     "create", "named", "unread", "seen", "expected", "profile", "callbacks", "link", "full", "posted", "after"}
SameBut(s, r, F) == \A f \in FieldNames \ F : s[f] = r[f]

\* A mediator with other connections is one.
LEMMA LinkTyped ==
    ASSUME NEW r \in Mediator, NEW f \in [Links -> Link]
    PROVE  /\ [r EXCEPT !.link = f] \in Mediator
           /\ SameBut([r EXCEPT !.link = f], r, {"link"})
           /\ [r EXCEPT !.link = f].link = f
<1>1. [r EXCEPT !.link = f] \in Mediator
  BY DEF Mediator
<1>2. SameBut([r EXCEPT !.link = f], r, {"link"})
  BY DEF Mediator, SameBut, FieldNames
<1>3. [r EXCEPT !.link = f].link = f
  BY DEF Mediator
<1> QED
  BY <1>1, <1>2, <1>3

\* The types of a mediator's fields.
LEMMA FieldsTyped ==
    ASSUME NEW r \in Mediator
    PROVE  /\ r.link \in [Links -> Link]
           /\ r.auth \in Links \cup {None}
           /\ r.margin \in Links \cup {None}
           /\ r.posted \in Seq(Posting)
           /\ r.after \in Seq(Posting)
           /\ r.slots \in Seq(Characters)
           /\ r.state \in StateIds
           /\ r.goto \in StateIds \cup {None}
           /\ r.up \in [Cachers -> Upstreams]
BY DEF Mediator

\* The types of a connection's fields.
LEMMA LinkFields ==
    ASSUME NEW k \in Link
    PROVE  /\ k.kind \in {"free", "auth", "margin"}
           /\ k.st \in {"Closed", "ConnectActive", "UdpMonitorActive", "Closing", "Dead"}
           /\ k.asked \in Seq(Request)
           /\ k.ok4 \in BOOLEAN /\ k.challenged \in BOOLEAN /\ k.reported \in BOOLEAN
BY DEF Link, Request, Requested

\* s is k but for its fields F.
LinkFieldNames == {"kind", "st", "ok4", "challenged", "reported", "asked"}
SameLink(s, k, F) == \A f \in LinkFieldNames \ F : s[f] = k[f]

\* Close changes at most the state of one connection, to closing.
LEMMA CloseLinkIs ==
    ASSUME NEW r \in Mediator, NEW l \in Links \cup {None}
    PROVE  LET s == CloseLink(r, l) IN
           /\ s \in Mediator
           /\ SameBut(s, r, {"link"})
           /\ \A k \in Links : SameLink(s.link[k], r.link[k], {"st"})
           /\ \A k \in Links : s.link[k] # r.link[k] =>
                 /\ k = l
                 /\ r.link[k].st \in {"ConnectActive", "UdpMonitorActive"}
                 /\ s.link[k].st = "Closing"
<1>1. CASE State(r, l) \in {"ConnectActive", "UdpMonitorActive"}
  <2>1. l \in Links /\ l # None
    BY <1>1, LoginAssumption DEF State
  <2> DEFINE x == [r.link[l] EXCEPT !.st = "Closing"]
             f == [r.link EXCEPT ![l] = x]
  <2>2. r.link \in [Links -> Link] /\ r.link[l] \in Link
    BY <2>1, FieldsTyped
  <2>3. x \in Link /\ SameLink(x, r.link[l], {"st"}) /\ x.st = "Closing"
    BY <2>2 DEF Link, SameLink, LinkFieldNames
  <2> HIDE DEF x
  <2>4. /\ f \in [Links -> Link]
        /\ \A k \in Links : f[k] = IF k = l THEN x ELSE r.link[k]
    BY <2>1, <2>2, <2>3
  <2>5. CloseLink(r, l) = [r EXCEPT !.link = f]
    BY <1>1, <2>1, <2>2 DEF CloseLink, x
  <2>6. \A k \in Links : SameLink(f[k], r.link[k], {"st"})
    BY <2>3, <2>4 DEF SameLink
  <2>7. r.link[l].st \in {"ConnectActive", "UdpMonitorActive"}
    BY <1>1, <2>1 DEF State
  <2> HIDE DEF f
  <2> DEFINE s == CloseLink(r, l)
  <2>8. s \in Mediator /\ SameBut(s, r, {"link"}) /\ s.link = f
    BY <2>4, <2>5, LinkTyped
  <2> QED
    BY <2>3, <2>4, <2>6, <2>7, <2>8
<1>2. CASE State(r, l) \notin {"ConnectActive", "UdpMonitorActive"}
  <2>1. CloseLink(r, l) = r
    BY <1>2 DEF CloseLink
  <2> QED
    BY <2>1 DEF SameBut, SameLink
<1> QED
  BY <1>1, <1>2

\* A hard close changes at most the state of one connection, to dead.
LEMMA CloseHardIs ==
    ASSUME NEW r \in Mediator, NEW l \in Links \cup {None}
    PROVE  LET s == CloseHard(r, l) IN
           /\ s \in Mediator
           /\ SameBut(s, r, {"link"})
           /\ \A k \in Links : SameLink(s.link[k], r.link[k], {"st"})
           /\ \A k \in Links : s.link[k] # r.link[k] =>
                 /\ k = l
                 /\ r.link[k].st \in {"ConnectActive", "UdpMonitorActive"}
                 /\ s.link[k].st = "Dead"
<1>1. CASE State(r, l) \in {"ConnectActive", "UdpMonitorActive"}
  <2>1. l \in Links /\ l # None
    BY <1>1, LoginAssumption DEF State
  <2> DEFINE x == [r.link[l] EXCEPT !.st = "Dead"]
             f == [r.link EXCEPT ![l] = x]
  <2>2. r.link \in [Links -> Link] /\ r.link[l] \in Link
    BY <2>1, FieldsTyped
  <2>3. x \in Link /\ SameLink(x, r.link[l], {"st"}) /\ x.st = "Dead"
    BY <2>2 DEF Link, SameLink, LinkFieldNames
  <2> HIDE DEF x
  <2>4. /\ f \in [Links -> Link]
        /\ \A k \in Links : f[k] = IF k = l THEN x ELSE r.link[k]
    BY <2>1, <2>2, <2>3
  <2>5. CloseHard(r, l) = [r EXCEPT !.link = f]
    BY <1>1, <2>1, <2>2 DEF CloseHard, x
  <2>6. \A k \in Links : SameLink(f[k], r.link[k], {"st"})
    BY <2>3, <2>4 DEF SameLink
  <2>7. r.link[l].st \in {"ConnectActive", "UdpMonitorActive"}
    BY <1>1, <2>1 DEF State
  <2> HIDE DEF f
  <2> DEFINE s == CloseHard(r, l)
  <2>8. s \in Mediator /\ SameBut(s, r, {"link"}) /\ s.link = f
    BY <2>4, <2>5, LinkTyped
  <2> QED
    BY <2>3, <2>4, <2>6, <2>7, <2>8
<1>2. CASE State(r, l) \notin {"ConnectActive", "UdpMonitorActive"}
  <2>1. CloseHard(r, l) = r
    BY <1>2 DEF CloseHard
  <2> QED
    BY <2>1 DEF SameBut, SameLink
<1> QED
  BY <1>1, <1>2

\* Sending adds at most one request, to the connection it is sent on.
LEMMA AskIs ==
    ASSUME NEW r \in Mediator, NEW l \in Links \cup {None}, NEW what \in Requested,
           NEW who \in Characters \cup {None}
    PROVE  LET s == Ask(r, l, what, who) IN
           /\ s \in Mediator
           /\ SameBut(s, r, {"link"})
           /\ \A k \in Links : SameLink(s.link[k], r.link[k], {"asked"})
           /\ IF Ready(r, l)
              THEN /\ l \in Links
                   /\ r.link[l].st = "UdpMonitorActive"
                   /\ s.link[l].asked = Append(r.link[l].asked, [what |-> what, who |-> who])
                   /\ \A k \in Links \ {l} : s.link[k] = r.link[k]
              ELSE s = r
<1>1. CASE Ready(r, l)
  <2>1. l \in Links /\ l # None
    BY <1>1, LoginAssumption DEF State, Ready
  <2> DEFINE e == [what |-> what, who |-> who]
             a == Append(r.link[l].asked, e)
             x == [r.link[l] EXCEPT !.asked = a]
             f == [r.link EXCEPT ![l] = x]
  <2>2. r.link \in [Links -> Link] /\ r.link[l] \in Link /\ r.link[l].asked \in Seq(Request)
    BY <2>1, FieldsTyped, LinkFields
  <2>3. a \in Seq(Request)
    <3>1. e \in Request
      BY DEF Request
    <3> HIDE DEF e
    <3> QED
      BY <2>2, <3>1
  <2>4. x \in Link /\ SameLink(x, r.link[l], {"asked"}) /\ x.asked = a
    <3> HIDE DEF a
    <3> QED
      BY <2>2, <2>3 DEF Link, Request, Requested, SameLink, LinkFieldNames
  <2> HIDE DEF x
  <2>5. /\ f \in [Links -> Link]
        /\ \A k \in Links : f[k] = IF k = l THEN x ELSE r.link[k]
    BY <2>1, <2>2, <2>4
  <2>6. Ask(r, l, what, who) = [r EXCEPT !.link = f]
    BY <1>1, <2>1, <2>2 DEF Ask, x
  <2>7. \A k \in Links : SameLink(f[k], r.link[k], {"asked"})
    BY <2>4, <2>5 DEF SameLink
  <2>8. r.link[l].st = "UdpMonitorActive"
    BY <1>1, <2>1 DEF State, Ready
  <2> HIDE DEF f, a
  <2> DEFINE s == Ask(r, l, what, who)
  <2>9. s \in Mediator /\ SameBut(s, r, {"link"}) /\ s.link = f
    BY <2>5, <2>6, LinkTyped
  <2> HIDE DEF s
  <2>10. /\ s.link[l].asked = a
         /\ \A k \in Links \ {l} : s.link[k] = r.link[k]
    BY <2>1, <2>4, <2>5, <2>9
  <2>11. \A k \in Links : SameLink(s.link[k], r.link[k], {"asked"})
    BY <2>7, <2>9
  <2> QED
    BY <1>1, <2>1, <2>8, <2>9, <2>10, <2>11 DEF s, a
<1>2. CASE ~Ready(r, l)
  <2>1. Ask(r, l, what, who) = r
    BY <1>2 DEF Ask
  <2> QED
    BY <1>2, <2>1 DEF SameBut, SameLink
<1> QED
  BY <1>1, <1>2

\* A mediator with another connection of either kind is one.
LEMMA AuthTyped ==
    ASSUME NEW r \in Mediator, NEW n \in Links \cup {None}
    PROVE  [r EXCEPT !.auth = n] \in Mediator
BY ZenonT(200) DEF Mediator

\* A mediator keeps its type with another margin connection.
LEMMA MarginTyped ==
    ASSUME NEW r \in Mediator, NEW n \in Links \cup {None}
    PROVE  [r EXCEPT !.margin = n] \in Mediator
BY ZenonT(200) DEF Mediator

\* A new connection takes an unused object, or there is none left.
LEMMA NewLinkIs ==
    ASSUME NEW r \in Mediator, NEW kind \in {"auth", "margin"}, NEW st \in {"ConnectActive", "Closed"}
    PROVE  LET s == NewLink(r, kind, st) IN
           /\ s \in Mediator
           /\ SameBut(s, r, {kind, "link", "full"})
           /\ \/ /\ s.full
                 /\ s.link = r.link
                 /\ s.auth = r.auth /\ s.margin = r.margin
              \/ /\ s.full = r.full
                 /\ s[kind] \in Links
                 /\ r.link[s[kind]].kind = "free"
                 /\ s.link = [r.link EXCEPT ![s[kind]] = [FreeLink EXCEPT !.kind = kind, !.st = st]]
                 /\ s.link[s[kind]] = [FreeLink EXCEPT !.kind = kind, !.st = st]
                 /\ \A k \in Links \ {s[kind]} : s.link[k] = r.link[k]
<1>1. CASE Unused(r) = {}
  <2>1. NewLink(r, kind, st) = [r EXCEPT !.full = TRUE]
    BY <1>1 DEF NewLink
  <2>2. /\ [r EXCEPT !.full = TRUE] \in Mediator
        /\ SameBut([r EXCEPT !.full = TRUE], r, {"full"})
        /\ [r EXCEPT !.full = TRUE].full
    <3>1. [r EXCEPT !.full = TRUE] \in Mediator
      BY DEF Mediator
    <3>2. SameBut([r EXCEPT !.full = TRUE], r, {"full"})
      BY DEF Mediator, SameBut, FieldNames
    <3>3. [r EXCEPT !.full = TRUE].full
      BY DEF Mediator
    <3> QED
      BY <3>1, <3>2, <3>3
  <2> HIDE DEF NewLink
  <2>3. kind # "link" /\ kind # "full"
    OBVIOUS
  <2> QED
    BY <2>1, <2>2, <2>3 DEF SameBut, FieldNames
<1>2. CASE Unused(r) # {}
  <2> DEFINE n == NextLink(r)
             x == [FreeLink EXCEPT !.kind = kind, !.st = st]
             f == [r.link EXCEPT ![n] = x]
             s == NewLink(r, kind, st)
  <2>1. n \in Links /\ r.link[n].kind = "free"
    BY <1>2 DEF NextLink, Unused
  <2> HIDE DEF n
  <2>2. x \in Link
    <3>1. <<>> \in Seq(Request)
      OBVIOUS
    <3> QED
      BY <3>1 DEF FreeLink, Link, Request, Requested
  <2> HIDE DEF x
  <2>3. r.link \in [Links -> Link]
    BY FieldsTyped
  <2>4. f \in [Links -> Link] /\ f[n] = x /\ \A k \in Links \ {n} : f[k] = r.link[k]
    BY <2>1, <2>2, <2>3
  <2>5. s = IF kind = "auth" THEN [[r EXCEPT !.link = f] EXCEPT !.auth = n]
            ELSE [[r EXCEPT !.link = f] EXCEPT !.margin = n]
    BY <1>2, <2>1, <2>3 DEF NewLink, x, n
  <2>6. /\ s \in Mediator
        /\ SameBut(s, r, {kind, "link", "full"})
        /\ s.full = r.full
        /\ s.link = f
        /\ s[kind] = n
    <3> HIDE DEF s, f
    <3>1. CASE kind = "auth"
      <4>1. s = [[r EXCEPT !.link = f] EXCEPT !.auth = n]
        BY <2>5, <3>1
      <4>2. s \in Mediator
        <5> DEFINE g == [r EXCEPT !.link = f]
        <5>1. g \in Mediator
          BY <2>4, LinkTyped
        <5>2. s = [g EXCEPT !.auth = n] /\ n \in Links \cup {None}
          BY <2>1, <4>1
        <5> HIDE DEF g
        <5> QED
          BY <5>1, <5>2, AuthTyped
      <4>3. SameBut(s, r, {"auth", "link", "full"})
        BY <4>1 DEF Mediator, SameBut, FieldNames
      <4>4. s.full = r.full /\ s.link = f /\ s.auth = n
        BY <4>1 DEF Mediator
      <4> QED
        BY <3>1, <4>2, <4>3, <4>4
    <3>2. CASE kind = "margin"
      <4>1. s = [[r EXCEPT !.link = f] EXCEPT !.margin = n]
        BY <2>5, <3>2
      <4>2. s \in Mediator
        <5> DEFINE g == [r EXCEPT !.link = f]
        <5>1. g \in Mediator
          BY <2>4, LinkTyped
        <5>2. s = [g EXCEPT !.margin = n] /\ n \in Links \cup {None}
          BY <2>1, <4>1
        <5> HIDE DEF g
        <5> QED
          BY <5>1, <5>2, MarginTyped
      <4>3. SameBut(s, r, {"margin", "link", "full"})
        BY <4>1 DEF Mediator, SameBut, FieldNames
      <4>4. s.full = r.full /\ s.link = f /\ s.margin = n
        BY <4>1 DEF Mediator
      <4> QED
        BY <3>2, <4>2, <4>3, <4>4
    <3> QED
      BY <3>1, <3>2
  <2> HIDE DEF s
  <2> QED
    BY <2>1, <2>4, <2>6 DEF s, x
<1> QED
  BY <1>1, <1>2

Event(e) == [kind |-> "event", id |-> e]
Announced(r) == ToSet(r.posted) \cup ToSet(r.after)

\* What is in a sequence after an append.
LEMMA AppendSet ==
    ASSUME NEW S, NEW q \in Seq(S), NEW e \in S
    PROVE  ToSet(Append(q, e)) = ToSet(q) \cup {e}
<1>1. /\ Append(q, e) \in Seq(S) /\ Len(Append(q, e)) = Len(q) + 1 /\ Len(q) \in Nat
      /\ \A i \in 1 .. Len(q) : Append(q, e)[i] = q[i]
      /\ Append(q, e)[Len(q) + 1] = e
      /\ DOMAIN Append(q, e) = 1 .. Len(q) + 1
      /\ DOMAIN q = 1 .. Len(q)
  OBVIOUS
<1> DEFINE a == Append(q, e)
<1> HIDE DEF a
<1>2. \A i \in 1 .. Len(q) + 1 : i \in 1 .. Len(q) \/ i = Len(q) + 1
  BY <1>1
<1>3. Len(q) + 1 \in 1 .. Len(q) + 1 /\ \A i \in 1 .. Len(q) : i \in 1 .. Len(q) + 1
  BY <1>1
<1> QED
  BY <1>1, <1>2, <1>3 DEF ToSet

\* A posting is announced once and changes nothing else.
LEMMA PostIs ==
    ASSUME NEW r \in Mediator, NEW p \in Posting
    PROVE  LET s == Post(r, p) IN
           /\ s \in Mediator
           /\ SameBut(s, r, {"posted", "after"})
           /\ Announced(s) = Announced(r) \cup {p}
           /\ r.goto = None => s.after = r.after /\ s.posted = Append(r.posted, p)
<1>1. r.posted \in Seq(Posting) /\ r.after \in Seq(Posting)
  BY FieldsTyped
<1>2. CASE r.goto = None
  <2> DEFINE a == Append(r.posted, p)
             s == [r EXCEPT !.posted = a]
  <2>1. a \in Seq(Posting) /\ ToSet(a) = ToSet(r.posted) \cup {p}
    BY <1>1, AppendSet
  <2>2. Post(r, p) = s
    BY <1>2 DEF Post
  <2>3. a = Append(r.posted, p)
    OBVIOUS
  <2> HIDE DEF a
  <2>4. s \in Mediator
    BY <2>1, Zenon DEF Mediator
  <2>5. SameBut(s, r, {"posted", "after"}) /\ s.posted = a /\ s.after = r.after
    BY DEF Mediator, SameBut, FieldNames
  <2> HIDE DEF s
  <2> QED
    BY <1>2, <2>1, <2>2, <2>3, <2>4, <2>5 DEF Announced
<1>3. CASE r.goto # None
  <2> DEFINE a == Append(r.after, p)
             s == [r EXCEPT !.after = a]
  <2>1. a \in Seq(Posting) /\ ToSet(a) = ToSet(r.after) \cup {p}
    BY <1>1, AppendSet
  <2>2. Post(r, p) = s
    BY <1>3 DEF Post
  <2> HIDE DEF a
  <2>4. s \in Mediator
    BY <2>1, Zenon DEF Mediator
  <2>5. SameBut(s, r, {"posted", "after"}) /\ s.posted = r.posted /\ s.after = a
    BY DEF Mediator, SameBut, FieldNames
  <2> HIDE DEF s
  <2> QED
    BY <1>3, <2>1, <2>2, <2>4, <2>5 DEF Announced
<1> QED
  BY <1>2, <1>3

\* PostEvent announces its event.
LEMMA EventIs ==
    ASSUME NEW r \in Mediator, NEW e \in Nat
    PROVE  LET s == PostEvent(r, e) IN
           /\ s \in Mediator
           /\ SameBut(s, r, {"posted", "after"})
           /\ Announced(s) = Announced(r) \cup {Event(e)}
<1>1. Event(e) \in Posting
  BY DEF Event, Posting
<1> QED
  BY <1>1, PostIs DEF PostEvent, Event

\* PostError announces its error.
LEMMA ErrorIs ==
    ASSUME NEW r \in Mediator, NEW e \in Nat
    PROVE  LET s == PostError(r, e) IN
           /\ s \in Mediator
           /\ SameBut(s, r, {"posted", "after"})
           /\ Announced(s) = Announced(r) \cup {[kind |-> "error", id |-> e]}
<1>1. [kind |-> "error", id |-> e] \in Posting
  BY DEF Posting
<1> QED
  BY <1>1, PostIs DEF PostError

\* Closing the authentication connection on purpose sets the flag and touches no
\* other connection.
LEMMA RequestAuthCloseIs ==
    ASSUME NEW r \in Mediator
    PROVE  LET s == RequestAuthClose(r) IN
           /\ s \in Mediator
           /\ SameBut(s, r, {"link", "flag2c"})
           /\ \A k \in Links : SameLink(s.link[k], r.link[k], {"st"})
           /\ \A k \in Links : s.link[k] # r.link[k] =>
                 /\ k = r.auth
                 /\ r.link[k].st \in {"ConnectActive", "UdpMonitorActive"}
                 /\ s.link[k].st = "Closing"
<1>1. CASE r.auth = None
  BY <1>1 DEF RequestAuthClose, SameBut, SameLink
<1>2. CASE r.auth # None
  <2> DEFINE c == [r EXCEPT !.flag2c = TRUE]
             s == CloseLink(c, r.auth)
  <2>1. c \in Mediator /\ r.auth \in Links \cup {None}
    <3>1. c \in Mediator
      BY ZenonT(200) DEF Mediator
    <3> QED
      BY <3>1, FieldsTyped
  <2>2. SameBut(c, r, {"flag2c"}) /\ c.link = r.link
    BY DEF Mediator, SameBut, FieldNames
  <2>3. RequestAuthClose(r) = s
    BY <1>2 DEF RequestAuthClose
  <2> HIDE DEF c
  <2>4. /\ s \in Mediator
        /\ SameBut(s, c, {"link"})
        /\ \A k \in Links : SameLink(s.link[k], c.link[k], {"st"})
        /\ \A k \in Links : s.link[k] # c.link[k] =>
                 /\ k = r.auth
                 /\ c.link[k].st \in {"ConnectActive", "UdpMonitorActive"}
                 /\ s.link[k].st = "Closing"
    BY <2>1, CloseLinkIs
  <2> HIDE DEF s
  <2>5. SameBut(s, r, {"link", "flag2c"})
    BY <2>2, <2>4 DEF SameBut, FieldNames
  <2> QED
    BY <2>2, <2>3, <2>4, <2>5
<1> QED
  BY <1>1, <1>2

\* Closing the margin connection on purpose ends its session and touches no other
\* connection.
LEMMA RequestMarginCloseIs ==
    ASSUME NEW r \in Mediator
    PROVE  LET s == RequestMarginClose(r) IN
           /\ s \in Mediator
           /\ SameBut(s, r, {"link", "flag2d", "F14"})
           /\ r.margin # None => ~s.F14 /\ s.flag2d
           /\ r.margin # None => s.link[r.margin].st \in {"Closing", "Closed", "Dead"}
           /\ r.margin = None => s = r
           /\ \A k \in Links : SameLink(s.link[k], r.link[k], {"st"})
           /\ \A k \in Links : s.link[k] # r.link[k] =>
                 /\ k = r.margin
                 /\ r.link[k].st \in {"ConnectActive", "UdpMonitorActive"}
                 /\ s.link[k].st = "Closing"
<1>1. CASE r.margin = None
  BY <1>1 DEF RequestMarginClose, SameBut, SameLink
<1>2. CASE r.margin # None
  <2> DEFINE c == [r EXCEPT !.F14 = FALSE, !.flag2d = TRUE]
             s == CloseLink(c, r.margin)
  <2>1. c \in Mediator /\ r.margin \in Links \cup {None}
    <3>1. c \in Mediator
      BY ZenonT(200) DEF Mediator
    <3> QED
      BY <3>1, FieldsTyped
  <2>2. SameBut(c, r, {"flag2d", "F14"}) /\ c.link = r.link /\ ~c.F14 /\ c.flag2d
    BY DEF Mediator, SameBut, FieldNames
  <2>3. RequestMarginClose(r) = s
    BY <1>2 DEF RequestMarginClose
  <2> HIDE DEF c
  <2>4. /\ s \in Mediator
        /\ SameBut(s, c, {"link"})
        /\ \A k \in Links : SameLink(s.link[k], c.link[k], {"st"})
        /\ \A k \in Links : s.link[k] # c.link[k] =>
                 /\ k = r.margin
                 /\ c.link[k].st \in {"ConnectActive", "UdpMonitorActive"}
                 /\ s.link[k].st = "Closing"
    BY <2>1, CloseLinkIs
  <2>6. s.link[r.margin].st \in {"Closing", "Closed", "Dead"}
    <3>1. r.margin \in Links /\ c.link \in [Links -> Link] /\ State(c, r.margin) = c.link[r.margin].st
      BY <1>2, <2>1, FieldsTyped DEF State
    <3>2. c.link[r.margin].st \in {"Closed", "ConnectActive", "UdpMonitorActive", "Closing", "Dead"}
      BY <3>1, LinkFields
    <3>3. CASE c.link[r.margin].st \in {"ConnectActive", "UdpMonitorActive"}
      <4>1. s = [c EXCEPT !.link[r.margin].st = "Closing"]
        BY <3>1, <3>3 DEF CloseLink
      <4>2. s.link = [c.link EXCEPT ![r.margin].st = "Closing"]
        BY <2>1, <4>1 DEF Mediator
      <4>3. s.link[r.margin] = [c.link[r.margin] EXCEPT !.st = "Closing"] /\ c.link[r.margin] \in Link
        BY <3>1, <4>2
      <4> QED
        BY <4>3 DEF Link
    <3>4. CASE c.link[r.margin].st \notin {"ConnectActive", "UdpMonitorActive"}
      <4>1. s = c
        BY <3>1, <3>4 DEF CloseLink
      <4> QED
        BY <3>2, <3>4, <4>1
    <3> QED
      BY <3>3, <3>4
  <2> HIDE DEF s
  <2>5. SameBut(s, r, {"link", "flag2d", "F14"}) /\ ~s.F14 /\ s.flag2d
    BY <2>2, <2>4 DEF SameBut, FieldNames
  <2> QED
    BY <1>2, <2>2, <2>3, <2>4, <2>5, <2>6
<1> QED
  BY <1>1, <1>2

\* Mediators with other fields.
LEMMA AuthBegunTyped ==
    ASSUME NEW r \in Mediator, NEW a \in 0 .. AuthAddresses, NEW t \in Nat
    PROVE  [r EXCEPT !.flag2c = FALSE, !.authList = a, !.attempts = t] \in Mediator
BY ZenonT(200) DEF Mediator

\* A mediator keeps its type with another route.
LEMMA RoutedTyped ==
    ASSUME NEW r \in Mediator, NEW world \in Worlds \cup {None}
    PROVE  [r EXCEPT !.flag2d = FALSE, !.route = world] \in Mediator
BY ZenonT(200) DEF Mediator

\* A mediator keeps its type with a host that has no address.
LEMMA UnresolvedTyped ==
    ASSUME NEW r \in Mediator, NEW world \in Worlds \cup {None}
    PROVE  [r EXCEPT !.host = world, !.marginList = 0] \in Mediator
<1>1. 0 \in Nat
  OBVIOUS
<1> QED
  BY <1>1, ZenonT(200) DEF Mediator

\* A mediator keeps its type with the addresses of a host.
LEMMA MarginBegunTyped ==
    ASSUME NEW r \in Mediator, NEW world \in Worlds \cup {None}, NEW list \in Nat, NEW b \in Nat
    PROVE  [r EXCEPT !.host = world, !.marginList = list, !.begins = b] \in Mediator
BY ZenonT(200) DEF Mediator

\* r without its auth connection's or with a new connection: what s is of r on
\* the connections, but for those it closes.
Opened(s, r, kind, sts) ==
    \/ /\ s.full
       /\ s[kind] = r[kind]
       /\ \A k \in Links : SameLink(s.link[k], r.link[k], {"st"})
    \/ /\ s.full = r.full
       /\ s[kind] \in Links
       /\ r.link[s[kind]].kind = "free"
       /\ \E st \in sts : s.link[s[kind]] = [FreeLink EXCEPT !.kind = kind, !.st = st]
       /\ \A k \in Links \ {s[kind]} : SameLink(s.link[k], r.link[k], {"st"})

\* A new authentication connection replaces and closes the one there was.
LEMMA BeginAuthConnectionIs ==
    ASSUME NEW r \in Mediator
    PROVE  LET s == BeginAuthConnection(r) IN
           /\ s \in Mediator
           /\ SameBut(s, r, {"auth", "link", "full", "flag2c", "authList", "attempts"})
           /\ ~s.flag2c
           /\ Opened(s, r, "auth", {"ConnectActive"})
           /\ \A k \in Links : s.link[k].st # r.link[k].st =>
                 \/ /\ k = r.auth /\ s.link[k].st = "Closing"
                    /\ r.link[k].st \in {"ConnectActive", "UdpMonitorActive"}
                 \/ /\ k = s.auth /\ r.link[k].kind = "free"
                    /\ s.link[k] = [FreeLink EXCEPT !.kind = "auth", !.st = "ConnectActive"]
<1> DEFINE c == RequestAuthClose(r)
           n == NewLink(c, "auth", "ConnectActive")
           s == BeginAuthConnection(r)
<1>1. /\ c \in Mediator
      /\ SameBut(c, r, {"link", "flag2c"})
      /\ \A k \in Links : SameLink(c.link[k], r.link[k], {"st"})
      /\ \A k \in Links : c.link[k] # r.link[k] =>
            /\ k = r.auth
            /\ r.link[k].st \in {"ConnectActive", "UdpMonitorActive"}
            /\ c.link[k].st = "Closing"
  BY RequestAuthCloseIs
<1> HIDE DEF c
<1>2. /\ n \in Mediator
      /\ SameBut(n, c, {"auth", "link", "full"})
      /\ \/ /\ n.full
            /\ n.link = c.link
            /\ n.auth = c.auth /\ n.margin = c.margin
         \/ /\ n.full = c.full
            /\ n.auth \in Links
            /\ c.link[n.auth].kind = "free"
            /\ n.link[n.auth] = [FreeLink EXCEPT !.kind = "auth", !.st = "ConnectActive"]
            /\ \A k \in Links \ {n.auth} : n.link[k] = c.link[k]
  BY <1>1, NewLinkIs
<1> DEFINE a == IF n.authList = 0 THEN AuthAddresses ELSE n.authList
           t == n.attempts + 1
<1>3. s = [n EXCEPT !.flag2c = FALSE, !.authList = a, !.attempts = t]
  <2>1. n.authList \in 0 .. AuthAddresses /\ n.attempts \in Nat
    BY <1>2 DEF Mediator
  <2> QED
    BY <1>2 DEF BeginAuthConnection, c, Mediator
<1> HIDE DEF n
<1>4. s \in Mediator
  <2>1. n \in Mediator
    BY <1>2
  <2>2. n.authList \in 0 .. AuthAddresses /\ n.attempts \in Nat
    BY <2>1 DEF Mediator
  <2>3. a \in 0 .. AuthAddresses /\ t \in Nat
    BY <2>2, LoginAssumption
  <2> HIDE DEF a, t
  <2>4. [n EXCEPT !.flag2c = FALSE, !.authList = a, !.attempts = t] \in Mediator
    BY <2>1, <2>3, AuthBegunTyped
  <2> QED
    BY <1>3, <2>4
<1>5. SameBut(s, n, {"flag2c", "authList", "attempts"}) /\ ~s.flag2c
  <2> HIDE DEF a, t
  <2> QED
    BY <1>2, <1>3 DEF Mediator, SameBut, FieldNames
<1> HIDE DEF s
<1>6. SameBut(s, r, {"auth", "link", "full", "flag2c", "authList", "attempts"})
  BY <1>1, <1>2, <1>5 DEF SameBut, FieldNames
<1>7. s.link = n.link /\ s.full = n.full /\ s.auth = n.auth /\ c.full = r.full /\ c.auth = r.auth
  BY <1>1, <1>5 DEF SameBut, FieldNames
<1>8. \A k \in Links : c.link[k].kind = r.link[k].kind
  BY <1>1 DEF SameLink, LinkFieldNames
<1>9. Opened(s, r, "auth", {"ConnectActive"})
  BY <1>1, <1>2, <1>7, <1>8 DEF Opened
<1>10. \A k \in Links : s.link[k].st # r.link[k].st =>
                 \/ /\ k = r.auth /\ s.link[k].st = "Closing"
                    /\ r.link[k].st \in {"ConnectActive", "UdpMonitorActive"}
                 \/ /\ k = s.auth /\ r.link[k].kind = "free"
                    /\ s.link[k] = [FreeLink EXCEPT !.kind = "auth", !.st = "ConnectActive"]
  BY <1>1, <1>2, <1>7, <1>8
<1> QED
  BY <1>4, <1>5, <1>6, <1>9, <1>10 DEF s

\* A new margin connection replaces the one there was, which is not closed.
LEMMA BeginMarginConnectionIs ==
    ASSUME NEW r \in Mediator, NEW world \in Worlds \cup {None}
    PROVE  LET s == BeginMarginConnection(r, world) IN
           /\ s \in Mediator
           /\ SameBut(s, r, {"margin", "link", "full", "flag2d", "route", "host", "marginList", "begins"})
           /\ ~s.flag2d
           /\ Opened(s, r, "margin", {"ConnectActive", "Closed"})
           /\ \A k \in Links :
                 \/ s.link[k] = r.link[k]
                 \/ /\ k = s.margin /\ r.link[k].kind = "free"
                    /\ \E st \in {"ConnectActive", "Closed"} :
                          s.link[k] = [FreeLink EXCEPT !.kind = "margin", !.st = st]
<1> DEFINE resolves == world = r.host /\ r.marginList > 0
           list == IF resolves THEN r.marginList ELSE IF world = None THEN 0 ELSE Addresses[world]
           st == IF list > 0 THEN "ConnectActive" ELSE "Closed"
           n == NewLink(r, "margin", st)
           o == [n EXCEPT !.flag2d = FALSE, !.route = world]
           s == BeginMarginConnection(r, world)
<1>1. list \in Nat /\ world \in Worlds \cup {None} /\ (world # None => world \in Worlds)
  <2>1. r.marginList \in Nat
    BY DEF Mediator
  <2> QED
    BY <2>1, LoginAssumption
<1>2. s = IF world = None THEN o
          ELSE IF list = 0 THEN [o EXCEPT !.host = world, !.marginList = 0]
          ELSE [o EXCEPT !.host = world, !.marginList = list, !.begins = @ + 1]
  BY DEF BeginMarginConnection
<1> HIDE DEF list, s
<1>3. /\ n \in Mediator
      /\ SameBut(n, r, {"margin", "link", "full"})
      /\ \/ /\ n.full
            /\ n.link = r.link
            /\ n.auth = r.auth /\ n.margin = r.margin
         \/ /\ n.full = r.full
            /\ n.margin \in Links
            /\ r.link[n.margin].kind = "free"
            /\ n.link[n.margin] = [FreeLink EXCEPT !.kind = "margin", !.st = st]
            /\ \A k \in Links \ {n.margin} : n.link[k] = r.link[k]
  BY NewLinkIs
<1>4. st \in {"ConnectActive", "Closed"}
  OBVIOUS
<1> HIDE DEF n, st
<1>5. o \in Mediator /\ SameBut(o, n, {"flag2d", "route"}) /\ ~o.flag2d
  <2>1. o \in Mediator
    <3>1. n \in Mediator /\ world \in Worlds \cup {None}
      BY <1>3
    <3> QED
      BY <3>1, RoutedTyped
  <2>2. SameBut(o, n, {"flag2d", "route"}) /\ ~o.flag2d
    BY <1>3 DEF Mediator, SameBut, FieldNames
  <2> QED
    BY <2>1, <2>2
<1> HIDE DEF o
<1>6. s \in Mediator /\ SameBut(s, o, {"host", "marginList", "begins"})
  <2>1. CASE world = None
    BY <1>2, <1>5, <2>1 DEF SameBut
  <2>2. CASE world # None /\ list = 0
    <3> DEFINE p == [o EXCEPT !.host = world, !.marginList = 0]
    <3>1. p \in Mediator
      <4>1. o \in Mediator /\ world \in Worlds \cup {None} /\ 0 \in Nat
        BY <1>5
      <4> QED
        BY <4>1, UnresolvedTyped
    <3>2. SameBut(p, o, {"host", "marginList", "begins"})
      BY <1>5 DEF Mediator, SameBut, FieldNames
    <3> QED
      BY <1>2, <2>2, <3>1, <3>2
  <2>3. CASE world # None /\ list # 0
    <3> DEFINE b == o.begins + 1
               p == [o EXCEPT !.host = world, !.marginList = list, !.begins = b]
    <3>1. b \in Nat
      BY <1>5 DEF Mediator
    <3> HIDE DEF b
    <3>2. p \in Mediator
      <4>1. o \in Mediator /\ world \in Worlds \cup {None} /\ list \in Nat
        BY <1>1, <1>5
      <4> QED
        BY <3>1, <4>1, MarginBegunTyped
    <3>3. SameBut(p, o, {"host", "marginList", "begins"})
      BY <1>5 DEF Mediator, SameBut, FieldNames
    <3>4. s = p
      BY <1>2, <1>5, <2>3 DEF b, Mediator
    <3> QED
      BY <3>2, <3>3, <3>4
  <2> QED
    BY <2>1, <2>2, <2>3
<1>7. /\ SameBut(s, r, {"margin", "link", "full", "flag2d", "route", "host", "marginList", "begins"})
      /\ ~s.flag2d
      /\ s.link = n.link /\ s.full = n.full /\ s.margin = n.margin
  BY <1>3, <1>5, <1>6 DEF SameBut, FieldNames
<1>8. Opened(s, r, "margin", {"ConnectActive", "Closed"})
  BY <1>3, <1>4, <1>7 DEF Opened, SameLink
<1>9. \A k \in Links :
         \/ s.link[k] = r.link[k]
         \/ /\ k = s.margin /\ r.link[k].kind = "free"
            /\ \E x \in {"ConnectActive", "Closed"} :
                  s.link[k] = [FreeLink EXCEPT !.kind = "margin", !.st = x]
  BY <1>3, <1>4, <1>7
<1> QED
  BY <1>6, <1>7, <1>8, <1>9 DEF s

\* s is r with a request more, if the connection l is up.
Asked(s, r, l, what, who) ==
    /\ \A k \in Links : SameLink(s.link[k], r.link[k], {"asked"})
    /\ IF Ready(r, l)
       THEN /\ l \in Links
            /\ r.link[l].st = "UdpMonitorActive"
            /\ s.link[l].asked = Append(r.link[l].asked, [what |-> what, who |-> who])
            /\ \A k \in Links \ {l} : s.link[k] = r.link[k]
       ELSE s.link = r.link

\* Sending, in the form the states use it.
LEMMA AskedIs ==
    ASSUME NEW r \in Mediator, NEW l \in Links \cup {None}, NEW what \in Requested,
           NEW who \in Characters \cup {None}
    PROVE  LET s == Ask(r, l, what, who) IN
           s \in Mediator /\ SameBut(s, r, {"link"}) /\ Asked(s, r, l, what, who)
BY AskIs DEF Asked

\* The selected character and the world state 4 connects to have their types.
LEMMA CurrentTyped ==
    ASSUME NEW r \in Mediator
    PROVE  /\ SlotName(r) \in Characters \cup {None}
           /\ CharacterName(r) \in Characters \cup {None}
           /\ WorldOfSlot(r) \in Worlds \cup {None}
           /\ Route(r) \in Worlds \cup {None}
<1>1. /\ r.current \in Nat \cup {None}
      /\ r.slots \in Seq(Characters)
      /\ r.route \in Worlds \cup {None}
      /\ r.create \in Characters \cup {None}
  <2>1. /\ r.current \in (0 .. MaxSlots - 1) \cup {None}
        /\ r.slots \in Seq(Characters)
        /\ r.route \in Worlds \cup {None}
        /\ r.create \in Characters \cup {None}
    BY DEF Mediator
  <2>2. 0 .. MaxSlots - 1 \subseteq Nat
    BY LoginAssumption
  <2> QED
    BY <2>1, <2>2
<1>2. SlotName(r) \in Characters \cup {None}
  <2>1. CASE r.current = None \/ r.current >= Len(r.slots)
    BY <2>1 DEF SlotName
  <2>2. CASE r.current # None /\ ~(r.current >= Len(r.slots))
    <3>1. r.current + 1 \in 1 .. Len(r.slots)
      BY <1>1, <2>2
    <3>2. r.slots[r.current + 1] \in Characters
      BY <1>1, <3>1
    <3> QED
      BY <2>2, <3>2 DEF SlotName
  <2> QED
    BY <2>1, <2>2
<1>3. WorldOfSlot(r) \in Worlds \cup {None}
  <2>1. CASE r.current = None \/ r.current >= Len(r.slots)
    BY <2>1 DEF WorldOfSlot
  <2>2. CASE r.current # None /\ ~(r.current >= Len(r.slots))
    <3>1. r.current + 1 \in 1 .. Len(r.slots)
      BY <1>1, <2>2
    <3>2. r.slots[r.current + 1] \in Characters
      BY <1>1, <3>1
    <3> QED
      BY <2>2, <3>2, LoginAssumption DEF WorldOfSlot
  <2> QED
    BY <2>1, <2>2
<1> QED
  BY <1>1, <1>2, <1>3, LoginAssumption DEF Route, CharacterName

\* The upstreams with another one at s.
LEMMA UpTyped ==
    ASSUME NEW r \in Mediator, NEW s \in Cachers, NEW u \in Upstreams
    PROVE  LET e == [r EXCEPT !.up[s] = u] IN
           /\ e \in Mediator
           /\ SameBut(e, r, {"up"})
           /\ e.up = [r.up EXCEPT ![s] = u]
<1> DEFINE f == [r.up EXCEPT ![s] = u]
           e == [r EXCEPT !.up = f]
<1>1. f \in [Cachers -> Upstreams]
  BY FieldsTyped
<1>2. [r EXCEPT !.up[s] = u] = e
  BY DEF Mediator
<1> HIDE DEF f
<1>3. e \in Mediator
  BY <1>1, ZenonT(200) DEF Mediator
<1>4. SameBut(e, r, {"up"}) /\ e.up = f
  BY DEF Mediator, SameBut, FieldNames
<1> HIDE DEF e
<1> QED
  BY <1>2, <1>3, <1>4 DEF f

\* A switch changes where the handler goes and nothing else.
LEMMA SwitchIs ==
    ASSUME NEW r \in Mediator, NEW s \in StateIds \cup {None}
    PROVE  Switch(r, s) \in Mediator /\ SameBut(Switch(r, s), r, {"goto"}) /\ Switch(r, s).goto = s
<1>1. Switch(r, s) \in Mediator
  BY ZenonT(200) DEF Switch, Mediator
<1>2. SameBut(Switch(r, s), r, {"goto"}) /\ Switch(r, s).goto = s
  BY DEF Switch, Mediator, SameBut, FieldNames
<1> QED
  BY <1>1, <1>2

\* A failure is a switch and one error.
LEMMA FailIs ==
    ASSUME NEW r \in Mediator, NEW s \in StateIds, NEW e \in Nat
    PROVE  LET f == Fail(r, s, e) IN
           /\ f \in Mediator
           /\ SameBut(f, r, {"goto", "posted", "after"})
           /\ f.goto = s
           /\ Announced(f) = Announced(r) \cup {[kind |-> "error", id |-> e]}
<1> DEFINE w == Switch(r, s)
           f == PostError(w, e)
<1>1. w \in Mediator /\ SameBut(w, r, {"goto"}) /\ w.goto = s
  BY SwitchIs
<1> HIDE DEF w
<1>2. /\ f \in Mediator
      /\ SameBut(f, w, {"posted", "after"})
      /\ Announced(f) = Announced(w) \cup {[kind |-> "error", id |-> e]}
  BY <1>1, ErrorIs
<1>3. Announced(w) = Announced(r)
  BY <1>1 DEF Announced, SameBut, FieldNames
<1>4. Fail(r, s, e) = f
  BY DEF Fail, w
<1> HIDE DEF f
<1>5. SameBut(f, r, {"goto", "posted", "after"}) /\ f.goto = s
  BY <1>1, <1>2 DEF SameBut, FieldNames
<1> QED
  BY <1>2, <1>3, <1>4, <1>5

\* State 1 remembers its sender and opens an authentication connection.
LEMMA Enter1Is ==
    ASSUME NEW r \in Mediator, NEW from \in StateIds
    PROVE  LET s == Enter1(r, from) IN
           /\ s \in Mediator
           /\ SameBut(s, r, {"up", "auth", "link", "full", "flag2c", "authList", "attempts"})
           /\ s.up = [r.up EXCEPT ![1] = from]
           /\ ~s.flag2c
           /\ Opened(s, r, "auth", {"ConnectActive"})
           /\ \A k \in Links : s.link[k].st # r.link[k].st =>
                 \/ /\ k = r.auth /\ s.link[k].st = "Closing"
                    /\ r.link[k].st \in {"ConnectActive", "UdpMonitorActive"}
                 \/ /\ k = s.auth /\ r.link[k].kind = "free"
                    /\ s.link[k] = [FreeLink EXCEPT !.kind = "auth", !.st = "ConnectActive"]
<1> DEFINE e == [r EXCEPT !.up[1] = from]
           s == BeginAuthConnection(e)
<1>1. e \in Mediator /\ SameBut(e, r, {"up"}) /\ e.up = [r.up EXCEPT ![1] = from]
  BY UpTyped DEF Cachers, Upstreams
<1> HIDE DEF e
<1>2. /\ s \in Mediator
      /\ SameBut(s, e, {"auth", "link", "full", "flag2c", "authList", "attempts"})
      /\ ~s.flag2c
      /\ Opened(s, e, "auth", {"ConnectActive"})
      /\ \A k \in Links : s.link[k].st # e.link[k].st =>
            \/ /\ k = e.auth /\ s.link[k].st = "Closing"
               /\ e.link[k].st \in {"ConnectActive", "UdpMonitorActive"}
            \/ /\ k = s.auth /\ e.link[k].kind = "free"
               /\ s.link[k] = [FreeLink EXCEPT !.kind = "auth", !.st = "ConnectActive"]
  BY <1>1, BeginAuthConnectionIs
<1>3. Enter1(r, from) = s
  BY DEF Enter1, e
<1> HIDE DEF s
<1>4. e.link = r.link /\ e.auth = r.auth /\ e.full = r.full /\ e["auth"] = r["auth"]
  BY <1>1 DEF SameBut, FieldNames
<1>5. Opened(s, r, "auth", {"ConnectActive"})
  BY <1>2, <1>4 DEF Opened
<1>6. /\ SameBut(s, r, {"up", "auth", "link", "full", "flag2c", "authList", "attempts"})
      /\ s.up = e.up
  BY <1>1, <1>2 DEF SameBut, FieldNames
<1> QED
  BY <1>1, <1>2, <1>3, <1>4, <1>5, <1>6

\* State 2 sends the login if its connection is up, and goes to state 1 if not.
LEMMA Enter2Is ==
    ASSUME NEW r \in Mediator, NEW from \in StateIds
    PROVE  LET s == Enter2(r, from) IN
           /\ s \in Mediator
           /\ s.up = [r.up EXCEPT ![2] = IF from = 1 THEN @ ELSE from]
           /\ \/ /\ SameBut(s, r, {"up", "link"})
                 /\ Asked(s, r, r.auth, "login", None)
              \/ /\ SameBut(s, r, {"up", "goto", "authList", "attempts"})
                 /\ s.goto = 1
<1> DEFINE u == IF from = 1 THEN r.up[2] ELSE from
           e == [r EXCEPT !.up[2] = u]
           s == Enter2(r, from)
<1>1. u \in Upstreams /\ 2 \in Cachers
  BY FieldsTyped DEF Cachers, Upstreams
<1>2. /\ e \in Mediator /\ SameBut(e, r, {"up"})
      /\ e.up = [r.up EXCEPT ![2] = IF from = 1 THEN @ ELSE from]
  <2> HIDE DEF u
  <2>1. e \in Mediator /\ SameBut(e, r, {"up"}) /\ e.up = [r.up EXCEPT ![2] = u]
    BY <1>1, UpTyped
  <2>2. [r.up EXCEPT ![2] = u] = [r.up EXCEPT ![2] = IF from = 1 THEN @ ELSE from]
    BY <1>1, FieldsTyped DEF u
  <2> QED
    BY <2>1, <2>2
<1>3. s = IF Ready(e, e.auth) THEN Ask(e, e.auth, "login", None)
          ELSE Switch([e EXCEPT !.authList = 0, !.attempts = 0], 1)
  BY <1>1, FieldsTyped DEF Enter2, Mediator
<1> HIDE DEF e, s, u
<1>4. e.link = r.link /\ e.auth = r.auth
  BY <1>2 DEF SameBut, FieldNames
<1>5. CASE Ready(e, e.auth)
  <2>1. s = Ask(e, e.auth, "login", None)
    BY <1>3, <1>5
  <2>2. s \in Mediator /\ SameBut(s, e, {"link"}) /\ Asked(s, e, e.auth, "login", None)
    <3>1. e.auth \in Links \cup {None} /\ "login" \in Requested
      BY <1>2, FieldsTyped DEF Requested
    <3> QED
      BY <1>2, <2>1, <3>1, AskedIs
  <2>3. Asked(s, r, r.auth, "login", None)
    BY <1>4, <2>2 DEF Asked, Ready, State
  <2>4. SameBut(s, r, {"up", "link"}) /\ s.up = e.up
    BY <1>2, <2>2 DEF SameBut, FieldNames
  <2> QED
    BY <1>2, <2>2, <2>3, <2>4 DEF s
<1>6. CASE ~Ready(e, e.auth)
  <2> DEFINE c == [e EXCEPT !.authList = 0, !.attempts = 0]
  <2>1. s = Switch(c, 1)
    BY <1>3, <1>6
  <2>2. c \in Mediator
    <3>1. 0 \in Nat /\ 0 \in 0 .. AuthAddresses
      BY LoginAssumption
    <3> QED
      BY <1>2, <3>1, ZenonT(200) DEF Mediator
  <2>3. SameBut(c, e, {"authList", "attempts"})
    BY <1>2 DEF Mediator, SameBut, FieldNames
  <2> HIDE DEF c
  <2>4. s \in Mediator /\ SameBut(s, c, {"goto"}) /\ s.goto = 1
    BY <2>1, <2>2, SwitchIs DEF StateIds
  <2>5. SameBut(s, r, {"up", "goto", "authList", "attempts"}) /\ s.up = e.up
    BY <1>2, <2>3, <2>4 DEF SameBut, FieldNames
  <2> QED
    BY <1>2, <2>4, <2>5 DEF s
<1> QED
  BY <1>5, <1>6

\* State 4 keeps the sender it has and opens a margin connection, or does nothing
\* for an unknown sender.
LEMMA Enter4Is ==
    ASSUME NEW r \in Mediator, NEW from \in StateIds
    PROVE  LET s == Enter4(r, from) IN
           /\ s \in Mediator
           /\ s.up = [r.up EXCEPT ![4] = IF @ = None THEN from ELSE @]
           /\ \/ SameBut(s, r, {"up"})
              \/ /\ SameBut(s, r, {"up", "margin", "link", "full", "flag2d", "route", "host",
                                   "marginList", "begins"})
                 /\ Opened(s, r, "margin", {"ConnectActive", "Closed"})
           /\ \A k \in Links :
                 \/ s.link[k] = r.link[k]
                 \/ /\ k = s.margin /\ r.link[k].kind = "free"
                    /\ \E st \in {"ConnectActive", "Closed"} :
                          s.link[k] = [FreeLink EXCEPT !.kind = "margin", !.st = st]
<1> DEFINE u == IF r.up[4] = None THEN from ELSE r.up[4]
           e == [r EXCEPT !.up[4] = u]
           s == Enter4(r, from)
<1>1. u \in Upstreams /\ 4 \in Cachers
  BY FieldsTyped DEF Cachers, Upstreams
<1>2. /\ e \in Mediator /\ SameBut(e, r, {"up"})
      /\ e.up = [r.up EXCEPT ![4] = IF @ = None THEN from ELSE @]
  <2> HIDE DEF u
  <2>1. e \in Mediator /\ SameBut(e, r, {"up"}) /\ e.up = [r.up EXCEPT ![4] = u]
    BY <1>1, UpTyped
  <2>2. [r.up EXCEPT ![4] = u] = [r.up EXCEPT ![4] = IF @ = None THEN from ELSE @]
    BY <1>1, FieldsTyped DEF u
  <2> QED
    BY <2>1, <2>2
<1>3. s = Connect4(e)
  BY <1>1, FieldsTyped DEF Enter4, Mediator
<1> HIDE DEF e, s, u
<1>4. e.link = r.link /\ e.margin = r.margin /\ e["margin"] = r["margin"] /\ e.full = r.full
  BY <1>2 DEF SameBut, FieldNames
<1>5. CASE s = e
  BY <1>2, <1>4, <1>5 DEF s
<1>6. CASE s = BeginMarginConnection(e, Route(e))
  <2>1. Route(e) \in Worlds \cup {None}
    BY <1>2, CurrentTyped
  <2>2. /\ s \in Mediator
        /\ SameBut(s, e, {"margin", "link", "full", "flag2d", "route", "host", "marginList", "begins"})
        /\ Opened(s, e, "margin", {"ConnectActive", "Closed"})
        /\ \A k \in Links :
              \/ s.link[k] = e.link[k]
              \/ /\ k = s.margin /\ e.link[k].kind = "free"
                 /\ \E st \in {"ConnectActive", "Closed"} :
                       s.link[k] = [FreeLink EXCEPT !.kind = "margin", !.st = st]
    BY <1>2, <1>6, <2>1, BeginMarginConnectionIs
  <2>3. Opened(s, r, "margin", {"ConnectActive", "Closed"})
    BY <1>4, <2>2 DEF Opened
  <2>4. /\ SameBut(s, r, {"up", "margin", "link", "full", "flag2d", "route", "host",
                          "marginList", "begins"})
        /\ s.up = e.up
    BY <1>2, <2>2 DEF SameBut, FieldNames
  <2> QED
    BY <1>2, <1>4, <2>2, <2>3, <2>4 DEF s
<1> QED
  BY <1>3, <1>5, <1>6 DEF Connect4

\* State 5 sends the copy of the reply if it is fresh, and goes to state 2 if not.
LEMMA Enter5Is ==
    ASSUME NEW r \in Mediator, NEW from \in StateIds
    PROVE  LET s == Enter5(r, from) IN
           /\ s \in Mediator
           /\ s.up = [r.up EXCEPT ![5] = IF @ # None /\ from \in {2, 4} THEN @ ELSE from]
           /\ \/ /\ r.fresh
                 /\ SameBut(s, r, {"up", "link", "posted", "after"})
                 /\ Asked(s, r, r.margin, "copy", None)
                 /\ Announced(s) = Announced(r) \cup {Event(16)}
              \/ /\ SameBut(s, r, {"up", "goto"})
                 /\ s.goto = 2
<1> DEFINE u == IF r.up[5] # None /\ from \in {2, 4} THEN r.up[5] ELSE from
           e == [r EXCEPT !.up[5] = u]
           a == Ask(e, e.margin, "copy", None)
           s == Enter5(r, from)
<1>1. u \in Upstreams /\ 5 \in Cachers
  BY FieldsTyped DEF Cachers, Upstreams
<1>2. /\ e \in Mediator /\ SameBut(e, r, {"up"})
      /\ e.up = [r.up EXCEPT ![5] = IF @ # None /\ from \in {2, 4} THEN @ ELSE from]
  <2> HIDE DEF u
  <2>1. e \in Mediator /\ SameBut(e, r, {"up"}) /\ e.up = [r.up EXCEPT ![5] = u]
    BY <1>1, UpTyped
  <2>2. [r.up EXCEPT ![5] = u]
        = [r.up EXCEPT ![5] = IF @ # None /\ from \in {2, 4} THEN @ ELSE from]
    BY <1>1, FieldsTyped DEF u
  <2> QED
    BY <2>1, <2>2
<1>3. s = IF e.fresh THEN PostEvent(a, 16) ELSE Switch(e, 2)
  BY <1>1, FieldsTyped DEF Enter5, Mediator
<1> HIDE DEF e, s, u, a
<1>4. e.link = r.link /\ e.margin = r.margin /\ e.fresh = r.fresh /\ Announced(e) = Announced(r)
  BY <1>2 DEF SameBut, FieldNames, Announced
<1>5. CASE e.fresh
  <2>1. a \in Mediator /\ SameBut(a, e, {"link"}) /\ Asked(a, e, e.margin, "copy", None)
    <3>1. e.margin \in Links \cup {None} /\ "copy" \in Requested
      BY <1>2, FieldsTyped DEF Requested
    <3> QED
      BY <1>2, <3>1, AskedIs DEF a
  <2>2. /\ s \in Mediator /\ SameBut(s, a, {"posted", "after"})
        /\ Announced(s) = Announced(a) \cup {Event(16)}
    BY <1>3, <1>5, <2>1, EventIs
  <2>3. /\ SameBut(s, r, {"up", "link", "posted", "after"}) /\ s.up = e.up /\ s.link = a.link
        /\ Announced(a) = Announced(e)
    BY <1>2, <2>1, <2>2 DEF SameBut, FieldNames, Announced
  <2>4. Asked(s, r, r.margin, "copy", None)
    BY <1>4, <2>1, <2>3 DEF Asked, Ready, State
  <2> QED
    BY <1>2, <1>4, <1>5, <2>2, <2>3, <2>4 DEF s
<1>6. CASE ~e.fresh
  <2>1. s \in Mediator /\ SameBut(s, e, {"goto"}) /\ s.goto = 2
    BY <1>2, <1>3, <1>6, SwitchIs DEF StateIds
  <2>2. SameBut(s, r, {"up", "goto"}) /\ s.up = e.up
    BY <1>2, <2>1 DEF SameBut, FieldNames
  <2> QED
    BY <1>2, <2>1, <2>2 DEF s
<1> QED
  BY <1>5, <1>6

\* State 6 begins a session, or goes to state 4 or 5 for what that needs.
LEMMA Enter6Is ==
    ASSUME NEW r \in Mediator, NEW from \in StateIds
    PROVE  LET s == Enter6(r, from) IN
           /\ s \in Mediator
           /\ s.up = [r.up EXCEPT ![6] = IF @ # None /\ from \in {4, 5} THEN @ ELSE from]
           /\ \/ /\ SameBut(s, r, {"up", "link", "posted", "after"})
                 /\ Ready(r, r.margin)
                 /\ Asked(s, r, r.margin, "connect", None)
                 /\ Announced(s) = Announced(r) \cup {Event(17)}
              \/ /\ SameBut(s, r, {"up", "goto"})
                 /\ \/ s.goto = 4
                    \/ s.goto = 5 /\ Ready(r, r.margin)
<1> DEFINE u == IF r.up[6] # None /\ from \in {4, 5} THEN r.up[6] ELSE from
           e == [r EXCEPT !.up[6] = u]
           a == Ask(e, e.margin, "connect", None)
           s == Enter6(r, from)
<1>1. u \in Upstreams /\ 6 \in Cachers
  BY FieldsTyped DEF Cachers, Upstreams
<1>2. /\ e \in Mediator /\ SameBut(e, r, {"up"})
      /\ e.up = [r.up EXCEPT ![6] = IF @ # None /\ from \in {4, 5} THEN @ ELSE from]
  <2> HIDE DEF u
  <2>1. e \in Mediator /\ SameBut(e, r, {"up"}) /\ e.up = [r.up EXCEPT ![6] = u]
    BY <1>1, UpTyped
  <2>2. [r.up EXCEPT ![6] = u]
        = [r.up EXCEPT ![6] = IF @ # None /\ from \in {4, 5} THEN @ ELSE from]
    BY <1>1, FieldsTyped DEF u
  <2> QED
    BY <2>1, <2>2
<1>3. s = IF ~Ready(e, e.margin) THEN Switch(e, 4)
          ELSE IF ~e.link[e.margin].ok4 THEN Switch(e, 5) ELSE PostEvent(a, 17)
  BY <1>1, FieldsTyped DEF Enter6, Mediator
<1> HIDE DEF e, s, u, a
<1>4. e.link = r.link /\ e.margin = r.margin /\ Announced(e) = Announced(r)
  BY <1>2 DEF SameBut, FieldNames, Announced
<1>5. CASE s = PostEvent(a, 17) /\ Ready(e, e.margin)
  <2>1. a \in Mediator /\ SameBut(a, e, {"link"}) /\ Asked(a, e, e.margin, "connect", None)
    <3>1. e.margin \in Links \cup {None} /\ "connect" \in Requested
      BY <1>2, FieldsTyped DEF Requested
    <3> QED
      BY <1>2, <3>1, AskedIs DEF a
  <2>2. /\ s \in Mediator /\ SameBut(s, a, {"posted", "after"})
        /\ Announced(s) = Announced(a) \cup {Event(17)}
    BY <1>5, <2>1, EventIs
  <2>3. /\ SameBut(s, r, {"up", "link", "posted", "after"}) /\ s.up = e.up /\ s.link = a.link
        /\ Announced(a) = Announced(e)
    BY <1>2, <2>1, <2>2 DEF SameBut, FieldNames, Announced
  <2>4. Asked(s, r, r.margin, "connect", None) /\ Ready(r, r.margin)
    BY <1>4, <1>5, <2>1, <2>3 DEF Asked, Ready, State
  <2> QED
    BY <1>2, <1>4, <2>2, <2>3, <2>4 DEF s
<1>6. ASSUME NEW t \in {4, 5}, s = Switch(e, t), t = 5 => Ready(e, e.margin)
      PROVE  /\ s \in Mediator /\ SameBut(s, r, {"up", "goto"}) /\ s.up = e.up /\ s.goto = t
             /\ t = 5 => Ready(r, r.margin)
  <2>1. s \in Mediator /\ SameBut(s, e, {"goto"}) /\ s.goto = t
    BY <1>2, <1>6, SwitchIs DEF StateIds
  <2>2. SameBut(s, r, {"up", "goto"}) /\ s.up = e.up
    BY <1>2, <2>1 DEF SameBut, FieldNames
  <2> QED
    BY <1>4, <1>6, <2>1, <2>2 DEF Ready, State
<1>7. CASE ~Ready(e, e.margin)
  BY <1>2, <1>3, <1>6, <1>7 DEF s
<1>8. CASE Ready(e, e.margin) /\ ~e.link[e.margin].ok4
  BY <1>2, <1>3, <1>6, <1>8 DEF s
<1> QED
  BY <1>3, <1>5, <1>7, <1>8

\* A request that needs a session is sent in one, or the state switches to 4 or 6.
LEMMA WithSessionIs ==
    ASSUME NEW r \in Mediator, NEW what \in Requested, NEW who \in Characters \cup {None}, NEW e \in Nat
    PROVE  LET s == WithSession(r, what, who, e) IN
           /\ s \in Mediator
           /\ \/ /\ SameBut(s, r, {"link", "posted", "after"})
                 /\ Ready(r, r.margin) /\ r.F14
                 /\ Asked(s, r, r.margin, what, who)
                 /\ Announced(s) = Announced(r) \cup {Event(e)}
              \/ /\ SameBut(s, r, {"goto"})
                 /\ \/ s.goto = 4 /\ ~Ready(r, r.margin)
                    \/ s.goto = 6 /\ Ready(r, r.margin) /\ ~r.F14
<1> DEFINE s == WithSession(r, what, who, e)
           a == Ask(r, r.margin, what, who)
<1>1. CASE ~Ready(r, r.margin)
  <2>1. s = Switch(r, 4)
    BY <1>1 DEF WithSession
  <2> QED
    BY <1>1, <2>1, SwitchIs DEF StateIds
<1>2. CASE Ready(r, r.margin) /\ ~r.F14
  <2>1. s = Switch(r, 6)
    BY <1>2 DEF WithSession
  <2> QED
    BY <1>2, <2>1, SwitchIs DEF StateIds
<1>3. CASE Ready(r, r.margin) /\ r.F14
  <2>1. s = PostEvent(a, e)
    BY <1>3 DEF WithSession
  <2>2. a \in Mediator /\ SameBut(a, r, {"link"}) /\ Asked(a, r, r.margin, what, who)
    BY FieldsTyped, AskedIs
  <2> HIDE DEF a, s
  <2>3. /\ s \in Mediator /\ SameBut(s, a, {"posted", "after"})
        /\ Announced(s) = Announced(a) \cup {Event(e)}
    BY <2>1, <2>2, EventIs
  <2>4. /\ SameBut(s, r, {"link", "posted", "after"}) /\ s.link = a.link
        /\ Announced(a) = Announced(r)
    BY <2>2, <2>3 DEF SameBut, FieldNames, Announced
  <2>5. Asked(s, r, r.margin, what, who)
    BY <2>2, <2>4 DEF Asked
  <2> QED
    BY <1>3, <2>3, <2>4, <2>5 DEF s
<1> QED
  BY <1>1, <1>2, <1>3

\* State 8 asks for the selected profile in a session, and begins to count.
LEMMA Enter8Is ==
    ASSUME NEW r \in Mediator
    PROVE  LET s == Enter8(r) IN
           /\ s \in Mediator
           /\ \/ /\ SameBut(s, r, {"link", "posted", "after", "seen", "expected"})
                 /\ Ready(r, r.margin) /\ r.F14
                 /\ s.seen = 0 /\ s.expected = 0
                 /\ Asked(s, r, r.margin, "load", SlotName(r))
                 /\ Announced(s) = Announced(r) \cup {Event(9)}
              \/ /\ SameBut(s, r, {"goto"})
                 /\ \/ s.goto = 4 /\ ~Ready(r, r.margin)
                    \/ s.goto = 6 /\ Ready(r, r.margin) /\ ~r.F14
<1> DEFINE c == IF Ready(r, r.margin) /\ r.F14 THEN [r EXCEPT !.seen = 0, !.expected = 0] ELSE r
           s == WithSession(c, "load", SlotName(c), 9)
<1>1. Enter8(r) = s
  BY DEF Enter8, LoadRequest
<1>2. c \in Mediator
  <2>1. 0 \in 0 .. 255
    OBVIOUS
  <2>2. [r EXCEPT !.seen = 0, !.expected = 0] \in Mediator
    BY <2>1, ZenonT(200) DEF Mediator
  <2> QED
    BY <2>2
<1>3. IF Ready(r, r.margin) /\ r.F14
      THEN SameBut(c, r, {"seen", "expected"}) /\ c.seen = 0 /\ c.expected = 0
      ELSE c = r
  BY DEF Mediator, SameBut, FieldNames
<1> HIDE DEF c
<1>4. /\ c.link = r.link /\ c.margin = r.margin /\ c.F14 = r.F14 /\ SlotName(c) = SlotName(r)
      /\ Announced(c) = Announced(r)
  BY <1>3 DEF SameBut, FieldNames, SlotName, Announced
<1>5. /\ s \in Mediator
      /\ \/ /\ SameBut(s, c, {"link", "posted", "after"})
            /\ Ready(c, c.margin) /\ c.F14
            /\ Asked(s, c, c.margin, "load", SlotName(c))
            /\ Announced(s) = Announced(c) \cup {Event(9)}
         \/ /\ SameBut(s, c, {"goto"})
            /\ \/ s.goto = 4 /\ ~Ready(c, c.margin)
               \/ s.goto = 6 /\ Ready(c, c.margin) /\ ~c.F14
  <2>1. SlotName(c) \in Characters \cup {None} /\ "load" \in Requested
    BY <1>2, CurrentTyped DEF Requested
  <2> HIDE DEF s
  <2> QED
    BY <1>2, <2>1, WithSessionIs DEF s
<1> HIDE DEF s
<1>6. Ready(c, c.margin) <=> Ready(r, r.margin)
  BY <1>4 DEF Ready, State
<1>7. CASE Ready(r, r.margin) /\ r.F14
  <2>1. /\ SameBut(s, r, {"link", "posted", "after", "seen", "expected"})
        /\ s.seen = 0 /\ s.expected = 0
    BY <1>3, <1>4, <1>5, <1>6, <1>7 DEF SameBut, FieldNames
  <2>2. Asked(s, r, r.margin, "load", SlotName(r))
    BY <1>4, <1>5, <1>6, <1>7 DEF Asked, Ready, State
  <2> QED
    BY <1>1, <1>4, <1>5, <1>6, <1>7, <2>1, <2>2
<1>8. CASE ~(Ready(r, r.margin) /\ r.F14)
  BY <1>1, <1>3, <1>5, <1>8
<1> QED
  BY <1>7, <1>8

\* State 9 submits at most, and reports at most its success.
LEMMA Enter9Is ==
    ASSUME NEW r \in Mediator
    PROVE  LET s == Enter9(r) IN
           /\ s \in Mediator
           /\ SameBut(s, r, {"link", "posted", "after"})
           /\ s.link = r.link \/ Asked(s, r, r.margin, "submit", None)
           /\ Announced(s) \subseteq Announced(r) \cup {Event(23)}
<1> DEFINE a == State9SubmitFollowup(r)
           s == Enter9(r)
<1>1. /\ a \in Mediator /\ SameBut(a, r, {"link"})
      /\ a.link = r.link \/ Asked(a, r, r.margin, "submit", None)
  <2>1. CASE a = r
    BY <2>1 DEF SameBut
  <2>2. CASE a = Ask(r, r.margin, "submit", None)
    <3>1. r.margin \in Links \cup {None} /\ "submit" \in Requested
      BY FieldsTyped DEF Requested
    <3> HIDE DEF a
    <3> QED
      BY <2>2, <3>1, AskedIs
  <2> QED
    BY <2>1, <2>2 DEF State9SubmitFollowup
<1>2. s = a \/ s = PostEvent(a, 23)
  BY DEF Enter9
<1> HIDE DEF a, s
<1>3. /\ s \in Mediator /\ SameBut(s, a, {"posted", "after"})
      /\ Announced(s) \subseteq Announced(a) \cup {Event(23)}
  <2>1. CASE s = a
    BY <1>1, <2>1 DEF SameBut
  <2>2. CASE s = PostEvent(a, 23)
    BY <1>1, <2>2, EventIs
  <2> QED
    BY <1>2, <2>1, <2>2
<1>4. /\ SameBut(s, r, {"link", "posted", "after"}) /\ s.link = a.link
      /\ Announced(a) = Announced(r)
  BY <1>1, <1>3 DEF SameBut, FieldNames, Announced
<1>5. s.link = r.link \/ Asked(s, r, r.margin, "submit", None)
  BY <1>1, <1>4 DEF Asked
<1> QED
  BY <1>3, <1>4, <1>5 DEF s

\* State 11 asks for the new character and begins to count.
LEMMA Enter11Is ==
    ASSUME NEW r \in Mediator
    PROVE  LET s == Enter11(r) IN
           /\ s \in Mediator
           /\ SameBut(s, r, {"link", "posted", "after", "seen", "expected"})
           /\ s.seen = 0 /\ s.expected = 0
           /\ Asked(s, r, r.margin, "create", r.create)
           /\ Announced(s) = Announced(r) \cup {Event(21)}
<1> DEFINE c == [r EXCEPT !.seen = 0, !.expected = 0]
           a == Ask(c, r.margin, "create", r.create)
           s == Enter11(r)
<1>1. c \in Mediator
  <2>1. 0 \in 0 .. 255
    OBVIOUS
  <2> QED
    BY <2>1, ZenonT(200) DEF Mediator
<1>2. SameBut(c, r, {"seen", "expected"}) /\ c.seen = 0 /\ c.expected = 0
  BY DEF Mediator, SameBut, FieldNames
<1>3. s = PostEvent(a, 21)
  BY DEF Enter11
<1> HIDE DEF c
<1>4. a \in Mediator /\ SameBut(a, c, {"link"}) /\ Asked(a, c, r.margin, "create", r.create)
  <2>1. r.margin \in Links \cup {None} /\ "create" \in Requested /\ r.create \in Characters \cup {None}
    BY FieldsTyped DEF Requested, Mediator
  <2> QED
    BY <1>1, <2>1, AskedIs
<1> HIDE DEF a, s
<1>5. /\ s \in Mediator /\ SameBut(s, a, {"posted", "after"})
      /\ Announced(s) = Announced(a) \cup {Event(21)}
  BY <1>3, <1>4, EventIs
<1>6. /\ SameBut(s, r, {"link", "posted", "after", "seen", "expected"}) /\ s.link = a.link
      /\ s.seen = 0 /\ s.expected = 0
      /\ Announced(a) = Announced(r) /\ c.link = r.link
  BY <1>2, <1>4, <1>5 DEF SameBut, FieldNames, Announced
<1>7. Asked(s, r, r.margin, "create", r.create)
  BY <1>4, <1>6 DEF Asked, Ready, State
<1> QED
  BY <1>5, <1>6, <1>7 DEF s

\* A mediator that has just switched, before the new state acts.
Arrived(r) == [r EXCEPT !.state = r.goto, !.goto = None, !.unread = FALSE]

\* Arriving in a state changes the state and what it has ignored only.
LEMMA ArrivedIs ==
    ASSUME NEW r \in Mediator, r.goto # None
    PROVE  /\ Arrived(r) \in Mediator
           /\ SameBut(Arrived(r), r, {"state", "goto", "unread"})
           /\ Arrived(r).state = r.goto
           /\ Arrived(r).goto = None
           /\ Announced(Arrived(r)) = Announced(r)
<1> DEFINE g == r.goto
           e == [r EXCEPT !.state = g, !.goto = None, !.unread = FALSE]
<1>1. g \in StateIds
  BY FieldsTyped
<1> HIDE DEF g
<1>2. e \in Mediator
  BY <1>1, ZenonT(200) DEF Mediator
<1>3. SameBut(e, r, {"state", "goto", "unread"}) /\ e.state = g /\ e.goto = None
  BY DEF Mediator, SameBut, FieldNames
<1> HIDE DEF e
<1>4. Announced(e) = Announced(r)
  BY <1>3 DEF SameBut, FieldNames, Announced
<1> QED
  BY <1>2, <1>3, <1>4 DEF Arrived, g, e

\* What s, in the state t, is of e, which arrives there from another.
EntersState(s, e, from) ==
    LET t == e.state IN
    /\ t = 1 => /\ SameBut(s, e, {"up", "auth", "link", "full", "flag2c", "authList", "attempts"})
                /\ s.up = [e.up EXCEPT ![1] = from]
                /\ ~s.flag2c
                /\ Opened(s, e, "auth", {"ConnectActive"})
                /\ \A k \in Links : s.link[k].st # e.link[k].st =>
                      \/ /\ k = e.auth /\ s.link[k].st = "Closing"
                         /\ e.link[k].st \in {"ConnectActive", "UdpMonitorActive"}
                      \/ /\ k = s.auth /\ e.link[k].kind = "free"
                         /\ s.link[k] = [FreeLink EXCEPT !.kind = "auth", !.st = "ConnectActive"]
    /\ t = 2 => /\ s.up = [e.up EXCEPT ![2] = IF from = 1 THEN @ ELSE from]
                /\ \/ /\ SameBut(s, e, {"up", "link"})
                      /\ Asked(s, e, e.auth, "login", None)
                   \/ /\ SameBut(s, e, {"up", "goto", "authList", "attempts"})
                      /\ s.goto = 1
    /\ t = 4 => /\ s.up = [e.up EXCEPT ![4] = IF @ = None THEN from ELSE @]
                /\ \/ SameBut(s, e, {"up"})
                   \/ /\ SameBut(s, e, {"up", "margin", "link", "full", "flag2d", "route", "host",
                                        "marginList", "begins"})
                      /\ Opened(s, e, "margin", {"ConnectActive", "Closed"})
                /\ \A k \in Links :
                      \/ s.link[k] = e.link[k]
                      \/ /\ k = s.margin /\ e.link[k].kind = "free"
                         /\ \E st \in {"ConnectActive", "Closed"} :
                               s.link[k] = [FreeLink EXCEPT !.kind = "margin", !.st = st]
    /\ t = 5 => /\ s.up = [e.up EXCEPT ![5] = IF @ # None /\ from \in {2, 4} THEN @ ELSE from]
                /\ \/ /\ e.fresh
                      /\ SameBut(s, e, {"up", "link", "posted", "after"})
                      /\ Asked(s, e, e.margin, "copy", None)
                      /\ Announced(s) = Announced(e) \cup {Event(16)}
                   \/ /\ SameBut(s, e, {"up", "goto"})
                      /\ s.goto = 2
    /\ t = 6 => /\ s.up = [e.up EXCEPT ![6] = IF @ # None /\ from \in {4, 5} THEN @ ELSE from]
                /\ \/ /\ SameBut(s, e, {"up", "link", "posted", "after"})
                      /\ Ready(e, e.margin)
                      /\ Asked(s, e, e.margin, "connect", None)
                      /\ Announced(s) = Announced(e) \cup {Event(17)}
                   \/ /\ SameBut(s, e, {"up", "goto"})
                      /\ \/ s.goto = 4
                         \/ s.goto = 5 /\ Ready(e, e.margin)
    /\ t \in {7, 8, 10} =>
          \/ /\ SameBut(s, e, {"link", "posted", "after", "seen", "expected"})
             /\ Ready(e, e.margin) /\ e.F14
             /\ t = 8 => s.seen = 0 /\ s.expected = 0
             /\ t # 8 => s.seen = e.seen /\ s.expected = e.expected
             /\ Asked(s, e, e.margin,
                      CASE t = 7 -> "delete" [] t = 8 -> "load" [] t = 10 -> "claim",
                      IF t = 10 THEN CharacterName(e) ELSE SlotName(e))
             /\ Announced(s) = Announced(e) \cup
                   {Event(CASE t = 7 -> 7 [] t = 8 -> 9 [] t = 10 -> 19)}
          \/ /\ SameBut(s, e, {"goto"})
             /\ \/ s.goto = 4 /\ ~Ready(e, e.margin)
                \/ s.goto = 6 /\ Ready(e, e.margin) /\ ~e.F14
    /\ t = 9 => /\ SameBut(s, e, {"link", "posted", "after"})
                /\ s.link = e.link \/ Asked(s, e, e.margin, "submit", None)
                /\ Announced(s) \subseteq Announced(e) \cup {Event(23)}
    /\ t = 11 => /\ SameBut(s, e, {"link", "posted", "after", "seen", "expected"})
                 /\ s.seen = 0 /\ s.expected = 0
                 /\ Asked(s, e, e.margin, "create", e.create)
                 /\ Announced(s) = Announced(e) \cup {Event(21)}
    /\ t \in {0, 3, 12, 13} => s = e

\* Entering a state does what the state does.
LEMMA EnteredIs ==
    ASSUME NEW r \in Mediator, r.goto # None
    PROVE  Entered(r) \in Mediator /\ EntersState(Entered(r), Arrived(r), r.state)
<1> DEFINE e == Arrived(r)
           s == Entered(r)
           from == r.state
<1>1. e \in Mediator /\ e.state = r.goto /\ e.state \in StateIds /\ from \in StateIds
  BY ArrivedIs, FieldsTyped
<1>2. s = CASE e.state = 1 -> Enter1(e, from)
            [] e.state = 2 -> Enter2(e, from)
            [] e.state = 4 -> Enter4(e, from)
            [] e.state = 5 -> Enter5(e, from)
            [] e.state = 6 -> Enter6(e, from)
            [] e.state = 7 -> Enter7(e)
            [] e.state = 8 -> Enter8(e)
            [] e.state = 9 -> Enter9(e)
            [] e.state = 10 -> Enter10(e)
            [] e.state = 11 -> Enter11(e)
            [] OTHER -> e
  BY <1>1 DEF Entered, Arrived
<1> HIDE DEF e, s, from
<1>3. CASE e.state = 1
  <2>1. s = Enter1(e, from)
    BY <1>2, <1>3
  <2> QED
    BY <1>1, <1>3, <2>1, Enter1Is DEF EntersState, s, e, from
<1>4. CASE e.state = 2
  <2>1. s = Enter2(e, from)
    BY <1>2, <1>4
  <2> QED
    BY <1>1, <1>4, <2>1, Enter2Is DEF EntersState, s, e, from
<1>5. CASE e.state = 4
  <2>1. s = Enter4(e, from)
    BY <1>2, <1>5
  <2> QED
    BY <1>1, <1>5, <2>1, Enter4Is DEF EntersState, s, e, from
<1>6. CASE e.state = 5
  <2>1. s = Enter5(e, from)
    BY <1>2, <1>6
  <2> QED
    BY <1>1, <1>6, <2>1, Enter5Is DEF EntersState, s, e, from
<1>7. CASE e.state = 6
  <2>1. s = Enter6(e, from)
    BY <1>2, <1>7
  <2> QED
    BY <1>1, <1>7, <2>1, Enter6Is DEF EntersState, s, e, from
<1>8. ASSUME NEW what \in Requested, NEW who \in Characters \cup {None}, NEW id \in Nat,
             s = WithSession(e, what, who, id)
      PROVE  /\ s \in Mediator
             /\ \/ /\ SameBut(s, e, {"link", "posted", "after", "seen", "expected"})
                   /\ s.seen = e.seen /\ s.expected = e.expected
                   /\ Ready(e, e.margin) /\ e.F14
                   /\ Asked(s, e, e.margin, what, who)
                   /\ Announced(s) = Announced(e) \cup {Event(id)}
                \/ /\ SameBut(s, e, {"goto"})
                   /\ \/ s.goto = 4 /\ ~Ready(e, e.margin)
                      \/ s.goto = 6 /\ Ready(e, e.margin) /\ ~e.F14
  <2>1. /\ s \in Mediator
        /\ \/ /\ SameBut(s, e, {"link", "posted", "after"})
              /\ Ready(e, e.margin) /\ e.F14
              /\ Asked(s, e, e.margin, what, who)
              /\ Announced(s) = Announced(e) \cup {Event(id)}
           \/ /\ SameBut(s, e, {"goto"})
              /\ \/ s.goto = 4 /\ ~Ready(e, e.margin)
                 \/ s.goto = 6 /\ Ready(e, e.margin) /\ ~e.F14
    BY <1>1, <1>8, WithSessionIs
  <2>2. SameBut(s, e, {"link", "posted", "after"}) =>
           /\ SameBut(s, e, {"link", "posted", "after", "seen", "expected"})
           /\ s.seen = e.seen /\ s.expected = e.expected
    BY DEF SameBut, FieldNames
  <2> QED
    BY <2>1, <2>2
<1>9. CASE e.state = 7
  <2>1. s = WithSession(e, "delete", SlotName(e), 7)
    BY <1>2, <1>9 DEF Enter7
  <2>2. "delete" \in Requested /\ SlotName(e) \in Characters \cup {None} /\ 7 \in Nat
    BY <1>1, CurrentTyped DEF Requested
  <2> QED
    BY <1>1, <1>8, <1>9, <2>1, <2>2 DEF EntersState, s, e, from
<1>10. CASE e.state = 8
  <2>1. s = Enter8(e)
    BY <1>2, <1>10
  <2> QED
    BY <1>1, <1>10, <2>1, Enter8Is DEF EntersState, s, e, from
<1>11. CASE e.state = 9
  <2>1. s = Enter9(e)
    BY <1>2, <1>11
  <2> QED
    BY <1>1, <1>11, <2>1, Enter9Is DEF EntersState, s, e, from
<1>12. CASE e.state = 10
  <2>1. s = WithSession(e, "claim", CharacterName(e), 19)
    BY <1>2, <1>12 DEF Enter10
  <2>2. "claim" \in Requested /\ CharacterName(e) \in Characters \cup {None} /\ 19 \in Nat
    BY <1>1, CurrentTyped DEF Requested
  <2> QED
    BY <1>1, <1>8, <1>12, <2>1, <2>2 DEF EntersState, s, e, from
<1>13. CASE e.state = 11
  <2>1. s = Enter11(e)
    BY <1>2, <1>13
  <2> QED
    BY <1>1, <1>13, <2>1, Enter11Is DEF EntersState, s, e, from
<1>14. CASE e.state \in {0, 3, 12, 13}
  <2>1. s = e
    BY <1>2, <1>14
  <2> QED
    BY <1>1, <1>14, <2>1 DEF EntersState, s, e, from
<1> QED
  BY <1>1, <1>3, <1>4, <1>5, <1>6, <1>7, <1>9, <1>10, <1>11, <1>12, <1>13, <1>14 DEF StateIds

\* The fields that entering a state leaves alone.
Steady == {"ready", "F14", "fresh", "gate", "slots", "current", "create", "named", "profile",
           "callbacks"}

\* Entering any state leaves the fields named Steady alone.
LEMMA EnteredSteady ==
    ASSUME NEW r \in Mediator, r.goto # None
    PROVE  /\ SameBut(Entered(r), r, FieldNames \ Steady)
           /\ Entered(r).state = r.goto
<1> DEFINE s == Entered(r)
           e == Arrived(r)
<1>1. EntersState(s, e, r.state) /\ e.state = r.goto /\ e.state \in StateIds
  BY EnteredIs, ArrivedIs, FieldsTyped
<1>2. SameBut(e, r, {"state", "goto", "unread"})
  BY ArrivedIs
<1> HIDE DEF s, e
<1>3. SameBut(s, e, FieldNames \ (Steady \cup {"state"}))
  <2>1. CASE e.state \in {0, 3, 12, 13}
    <3>1. s = e
      BY <1>1, <2>1 DEF EntersState
    <3> QED
      BY <3>1 DEF SameBut
  <2>2. CASE e.state = 1
    BY <1>1, <2>2 DEF EntersState, SameBut, FieldNames, Steady
  <2>3. CASE e.state = 2
    BY <1>1, <2>3 DEF EntersState, SameBut, FieldNames, Steady
  <2>4. CASE e.state = 4
    BY <1>1, <2>4 DEF EntersState, SameBut, FieldNames, Steady
  <2>5. CASE e.state = 5
    BY <1>1, <2>5 DEF EntersState, SameBut, FieldNames, Steady
  <2>6. CASE e.state = 6
    BY <1>1, <2>6 DEF EntersState, SameBut, FieldNames, Steady
  <2>7. CASE e.state \in {7, 8, 10}
    BY <1>1, <2>7 DEF EntersState, SameBut, FieldNames, Steady
  <2>8. CASE e.state = 9
    BY <1>1, <2>8 DEF EntersState, SameBut, FieldNames, Steady
  <2>9. CASE e.state = 11
    BY <1>1, <2>9 DEF EntersState, SameBut, FieldNames, Steady
  <2> QED
    BY <1>1, <2>1, <2>2, <2>3, <2>4, <2>5, <2>6, <2>7, <2>8, <2>9 DEF StateIds
<1>4. s.state = r.goto /\ SameBut(s, r, FieldNames \ Steady)
  BY <1>1, <1>2, <1>3 DEF SameBut, FieldNames, Steady
<1> QED
  BY <1>4 DEF s

\* Where a state switches to as it is entered.
LEMMA EnteredGoto ==
    ASSUME NEW r \in Mediator, r.goto # None
    PROVE  LET s == Entered(r) IN
           /\ r.goto \in {0, 1, 3, 4, 9, 11, 12, 13} => s.goto = None
           /\ r.goto = 2 => s.goto \in {None, 1}
           /\ r.goto = 5 => s.goto \in {None, 2}
           /\ r.goto = 6 => s.goto \in {None, 4, 5}
           /\ r.goto \in {7, 8, 10} => s.goto \in {None, 4, 6}
           /\ s.goto # None => Announced(s) = Announced(r) /\ s.link = r.link
<1> DEFINE s == Entered(r)
           e == Arrived(r)
<1>1. EntersState(s, e, r.state) /\ e.state = r.goto /\ e.state \in StateIds
  BY EnteredIs, ArrivedIs, FieldsTyped
<1>2. SameBut(e, r, {"state", "goto", "unread"}) /\ e.goto = None
  BY ArrivedIs
<1>3. e.link = r.link /\ e.posted = r.posted /\ e.after = r.after
  BY <1>2 DEF SameBut, FieldNames
<1> HIDE DEF s, e
<1> DEFINE P == /\ r.goto \in {0, 1, 3, 4, 9, 11, 12, 13} => s.goto = None
                /\ r.goto = 2 => s.goto \in {None, 1}
                /\ r.goto = 5 => s.goto \in {None, 2}
                /\ r.goto = 6 => s.goto \in {None, 4, 5}
                /\ r.goto \in {7, 8, 10} => s.goto \in {None, 4, 6}
                /\ s.goto # None => s.link = e.link /\ s.posted = e.posted /\ s.after = e.after
<1>4. P
  <2>1. CASE e.state \in {0, 3, 12, 13}
    <3>1. s = e
      BY <1>1, <2>1 DEF EntersState
    <3> QED
      BY <1>1, <1>2, <2>1, <3>1
  <2>2. CASE e.state = 1
    BY <1>1, <1>2, <2>2 DEF EntersState, SameBut, FieldNames
  <2>3. CASE e.state = 2
    BY <1>1, <1>2, <2>3 DEF EntersState, SameBut, FieldNames
  <2>4. CASE e.state = 4
    BY <1>1, <1>2, <2>4 DEF EntersState, SameBut, FieldNames
  <2>5. CASE e.state = 5
    BY <1>1, <1>2, <2>5 DEF EntersState, SameBut, FieldNames
  <2>6. CASE e.state = 6
    BY <1>1, <1>2, <2>6 DEF EntersState, SameBut, FieldNames
  <2>7. CASE e.state \in {7, 8, 10}
    BY <1>1, <1>2, <2>7 DEF EntersState, SameBut, FieldNames
  <2>8. CASE e.state = 9
    BY <1>1, <1>2, <2>8 DEF EntersState, SameBut, FieldNames
  <2>9. CASE e.state = 11
    BY <1>1, <1>2, <2>9 DEF EntersState, SameBut, FieldNames
  <2> HIDE DEF P
  <2> QED
    BY <1>1, <2>1, <2>2, <2>3, <2>4, <2>5, <2>6, <2>7, <2>8, <2>9 DEF StateIds
<1>5. s.goto # None => Announced(s) = Announced(r) /\ s.link = r.link
  BY <1>3, <1>4 DEF Announced
<1> QED
  BY <1>4, <1>5 DEF s

\* What the states post as they are entered.
Doing == {Event(e) : e \in {7, 9, 16, 17, 19, 21, 23}}

\* Entering any state announces what is under way, no error and no outcome.
LEMMA EnteredAnnounces ==
    ASSUME NEW r \in Mediator, r.goto # None
    PROVE  Announced(Entered(r)) \subseteq Announced(r) \cup Doing
<1> DEFINE s == Entered(r)
           e == Arrived(r)
<1>1. EntersState(s, e, r.state) /\ e.state = r.goto /\ e.state \in StateIds
  BY EnteredIs, ArrivedIs, FieldsTyped
<1>2. Announced(e) = Announced(r)
  BY ArrivedIs
<1> HIDE DEF s, e
<1>3. s.posted = e.posted /\ s.after = e.after => Announced(s) \subseteq Announced(e) \cup Doing
  BY DEF Announced
<1>4. Announced(s) \subseteq Announced(e) \cup Doing
  <2>1. CASE e.state \in {0, 3, 12, 13}
    <3>1. s = e
      BY <1>1, <2>1 DEF EntersState
    <3> QED
      BY <1>3, <3>1
  <2>2. CASE e.state = 1
    <3>1. s.posted = e.posted /\ s.after = e.after
      BY <1>1, <2>2 DEF EntersState, SameBut, FieldNames
    <3> QED
      BY <1>3, <3>1
  <2>3. CASE e.state = 2
    <3>1. s.posted = e.posted /\ s.after = e.after
      BY <1>1, <2>3 DEF EntersState, SameBut, FieldNames
    <3> QED
      BY <1>3, <3>1
  <2>4. CASE e.state = 4
    <3>1. s.posted = e.posted /\ s.after = e.after
      BY <1>1, <2>4 DEF EntersState, SameBut, FieldNames
    <3> QED
      BY <1>3, <3>1
  <2>5. CASE e.state = 5
    <3>1. \/ Announced(s) = Announced(e) \cup {Event(16)}
          \/ SameBut(s, e, {"up", "goto"})
      BY <1>1, <2>5 DEF EntersState
    <3>2. SameBut(s, e, {"up", "goto"}) => s.posted = e.posted /\ s.after = e.after
      BY DEF SameBut, FieldNames
    <3>3. Event(16) \in Doing
      BY DEF Doing
    <3> QED
      BY <1>3, <3>1, <3>2, <3>3
  <2>6. CASE e.state = 6
    <3>1. \/ Announced(s) = Announced(e) \cup {Event(17)}
          \/ SameBut(s, e, {"up", "goto"})
      BY <1>1, <2>6 DEF EntersState
    <3>2. SameBut(s, e, {"up", "goto"}) => s.posted = e.posted /\ s.after = e.after
      BY DEF SameBut, FieldNames
    <3>3. Event(17) \in Doing
      BY DEF Doing
    <3> QED
      BY <1>3, <3>1, <3>2, <3>3
  <2>7. CASE e.state \in {7, 8, 10}
    <3>1. \/ Announced(s) = Announced(e) \cup {Event(CASE e.state = 7 -> 7 [] e.state = 8 -> 9 [] e.state = 10 -> 19)}
          \/ SameBut(s, e, {"goto"})
      BY <1>1, <2>7 DEF EntersState
    <3>2. SameBut(s, e, {"goto"}) => s.posted = e.posted /\ s.after = e.after
      BY DEF SameBut, FieldNames
    <3>3. Event(7) \in Doing /\ Event(9) \in Doing /\ Event(19) \in Doing
      BY DEF Doing
    <3> QED
      BY <1>3, <2>7, <3>1, <3>2, <3>3
  <2>8. CASE e.state = 9
    <3>1. Announced(s) \subseteq Announced(e) \cup {Event(23)} /\ Event(23) \in Doing
      BY <1>1, <2>8 DEF EntersState, Doing
    <3> QED
      BY <3>1
  <2>9. CASE e.state = 11
    <3>1. Announced(s) = Announced(e) \cup {Event(21)} /\ Event(21) \in Doing
      BY <1>1, <2>9 DEF EntersState, Doing
    <3> QED
      BY <3>1
  <2> QED
    BY <1>1, <2>1, <2>2, <2>3, <2>4, <2>5, <2>6, <2>7, <2>8, <2>9 DEF StateIds
<1> QED
  BY <1>2, <1>4 DEF s

\* The request a state sends, and the connection it sends it on.
RequestOf(e) ==
    [what |-> CASE e.state = 2 -> "login" [] e.state = 5 -> "copy" [] e.state = 6 -> "connect"
                [] e.state = 7 -> "delete" [] e.state = 8 -> "load" [] e.state = 9 -> "submit"
                [] e.state = 10 -> "claim" [] e.state = 11 -> "create",
     who |-> CASE e.state \in {7, 8} -> SlotName(e)
               [] e.state = 10 -> CharacterName(e)
               [] e.state = 11 -> e.create
               [] OTHER -> None]
ConnectionOf(e) == IF e.state = 2 THEN e.auth ELSE e.margin

\* What becomes of a connection k as a state is entered: nothing, it is closed,
\* it is new, or it takes a request.
LinkMoves(s, e, k) ==
    \/ SameLink(s.link[k], e.link[k], {})
    \/ /\ e.state = 1 /\ k = e.auth
       /\ SameLink(s.link[k], e.link[k], {"st"})
       /\ s.link[k].st = "Closing"
       /\ e.link[k].st \in {"ConnectActive", "UdpMonitorActive"}
    \/ /\ e.state = 1 /\ k = s.auth /\ e.link[k].kind = "free"
       /\ s.link[k] = [FreeLink EXCEPT !.kind = "auth", !.st = "ConnectActive"]
    \/ /\ e.state = 4 /\ k = s.margin /\ e.link[k].kind = "free"
       /\ \E st \in {"ConnectActive", "Closed"} :
             s.link[k] = [FreeLink EXCEPT !.kind = "margin", !.st = st]
    \/ /\ e.state \in {2, 5, 6, 7, 8, 9, 10, 11} /\ k = ConnectionOf(e)
       /\ s.goto = None
       /\ e.state \in {7, 8, 10} => e.F14
       /\ e.link[k].st = "UdpMonitorActive"
       /\ SameLink(s.link[k], e.link[k], {"asked"})
       /\ s.link[k].asked = Append(e.link[k].asked, RequestOf(e))

\* What the states send is one of the moves of a connection.
LEMMA AskedMoves ==
    ASSUME NEW s, NEW e, NEW what, NEW who, NEW k \in Links, Asked(s, e, ConnectionOf(e), what, who),
           e.state \in {2, 5, 6, 7, 8, 9, 10, 11}, s.goto = None, e.state \in {7, 8, 10} => e.F14,
           RequestOf(e) = [what |-> what, who |-> who]
    PROVE  LinkMoves(s, e, k)
<1> DEFINE l == ConnectionOf(e)
           q == [what |-> what, who |-> who]
           a == RequestOf(e)
<1>1. a = q
  OBVIOUS
<1> HIDE DEF l, q, a
<1>2. Asked(s, e, l, what, who)
  BY DEF l
<1>3. CASE Ready(e, l) /\ k = l
  <2>1. /\ e.link[k].st = "UdpMonitorActive"
        /\ SameLink(s.link[k], e.link[k], {"asked"})
        /\ s.link[k].asked = Append(e.link[k].asked, q)
    BY <1>2, <1>3 DEF Asked, q
  <2> QED
    BY <1>1, <1>3, <2>1 DEF LinkMoves, l, a
<1>4. CASE ~(Ready(e, l) /\ k = l)
  <2>1. s.link[k] = e.link[k]
    BY <1>2, <1>4 DEF Asked
  <2> QED
    BY <2>1 DEF LinkMoves, SameLink
<1> QED
  BY <1>3, <1>4

\* Entering a state changes the connections as the state does.
LEMMA EnteredLinks ==
    ASSUME NEW r \in Mediator, r.goto # None, NEW k \in Links
    PROVE  LinkMoves(Entered(r), Arrived(r), k)
<1> DEFINE s == Entered(r)
           e == Arrived(r)
<1>1. /\ EntersState(s, e, r.state) /\ e.state = r.goto /\ e.state \in StateIds
      /\ s \in Mediator /\ e \in Mediator /\ e.goto = None
  BY EnteredIs, ArrivedIs, FieldsTyped
<1> HIDE DEF s, e
<1>2. s.link = e.link => LinkMoves(s, e, k)
  BY DEF LinkMoves, SameLink
<1>3. LinkMoves(s, e, k)
  <2>1. CASE e.state \in {0, 3, 12, 13}
    <3>1. s = e
      BY <1>1, <2>1 DEF EntersState
    <3> QED
      BY <1>2, <3>1
  <2>2. CASE e.state = 1
    <3>1. Opened(s, e, "auth", {"ConnectActive"})
      BY <1>1, <2>2 DEF EntersState
    <3>2. s.link[k].st # e.link[k].st =>
             \/ /\ k = e.auth /\ s.link[k].st = "Closing"
                /\ e.link[k].st \in {"ConnectActive", "UdpMonitorActive"}
             \/ /\ k = s.auth /\ e.link[k].kind = "free"
                /\ s.link[k] = [FreeLink EXCEPT !.kind = "auth", !.st = "ConnectActive"]
      BY <1>1, <2>2 DEF EntersState
    <3>3. CASE k = s.auth /\ e.link[k].kind = "free" /\ s.link[k] = [FreeLink EXCEPT !.kind = "auth", !.st = "ConnectActive"]
      BY <2>2, <3>3 DEF LinkMoves
    <3>4. CASE SameLink(s.link[k], e.link[k], {"st"})
      <4>1. CASE s.link[k].st = e.link[k].st
        <5>1. SameLink(s.link[k], e.link[k], {})
          BY <3>4, <4>1 DEF SameLink
        <5> QED
          BY <5>1 DEF LinkMoves
      <4>2. CASE s.link[k].st # e.link[k].st
        BY <2>2, <3>2, <3>3, <3>4, <4>2 DEF LinkMoves
      <4> QED
        BY <4>1, <4>2
    <3>5. SameLink(s.link[k], e.link[k], {"st"}) \/ (k = s.auth /\ e.link[k].kind = "free" /\ s.link[k] = [FreeLink EXCEPT !.kind = "auth", !.st = "ConnectActive"])
      <4>1. s["auth"] = s.auth
        OBVIOUS
      <4> QED
        BY <3>1, <4>1 DEF Opened
    <3> QED
      BY <3>3, <3>4, <3>5
  <2>3. CASE e.state = 2
    <3>1. CASE SameBut(s, e, {"up", "goto", "authList", "attempts"})
      BY <1>2, <3>1 DEF SameBut, FieldNames
    <3>2. CASE SameBut(s, e, {"up", "link"}) /\ Asked(s, e, e.auth, "login", None)
      <4>1. s.goto = None
        BY <1>1, <3>2 DEF SameBut, FieldNames
      <4>2. Asked(s, e, ConnectionOf(e), "login", None) /\ RequestOf(e) = [what |-> "login", who |-> None]
        BY <2>3, <3>2 DEF ConnectionOf, RequestOf
      <4> QED
        BY <2>3, <4>1, <4>2, AskedMoves
    <3> QED
      BY <1>1, <2>3, <3>1, <3>2 DEF EntersState
  <2>4. CASE e.state = 4
    <3>1. CASE SameBut(s, e, {"up"})
      BY <1>2, <3>1 DEF SameBut, FieldNames
    <3>2. CASE Opened(s, e, "margin", {"ConnectActive", "Closed"})
      <4>1. \/ s.link[k] = e.link[k]
            \/ /\ k = s.margin /\ e.link[k].kind = "free"
               /\ \E st \in {"ConnectActive", "Closed"} :
                     s.link[k] = [FreeLink EXCEPT !.kind = "margin", !.st = st]
        BY <1>1, <2>4 DEF EntersState
      <4> QED
        BY <2>4, <4>1 DEF LinkMoves, SameLink
    <3> QED
      BY <1>1, <2>4, <3>1, <3>2 DEF EntersState
  <2>5. CASE e.state = 5
    <3>1. CASE SameBut(s, e, {"up", "goto"})
      BY <1>2, <3>1 DEF SameBut, FieldNames
    <3>2. CASE SameBut(s, e, {"up", "link", "posted", "after"}) /\ Asked(s, e, e.margin, "copy", None)
      <4>1. s.goto = None
        BY <1>1, <3>2 DEF SameBut, FieldNames
      <4>2. Asked(s, e, ConnectionOf(e), "copy", None) /\ RequestOf(e) = [what |-> "copy", who |-> None]
        BY <2>5, <3>2 DEF ConnectionOf, RequestOf
      <4> QED
        BY <2>5, <4>1, <4>2, AskedMoves
    <3> QED
      BY <1>1, <2>5, <3>1, <3>2 DEF EntersState
  <2>6. CASE e.state = 6
    <3>1. CASE SameBut(s, e, {"up", "goto"})
      BY <1>2, <3>1 DEF SameBut, FieldNames
    <3>2. CASE SameBut(s, e, {"up", "link", "posted", "after"}) /\ Asked(s, e, e.margin, "connect", None)
      <4>1. s.goto = None
        BY <1>1, <3>2 DEF SameBut, FieldNames
      <4>2. Asked(s, e, ConnectionOf(e), "connect", None) /\ RequestOf(e) = [what |-> "connect", who |-> None]
        BY <2>6, <3>2 DEF ConnectionOf, RequestOf
      <4> QED
        BY <2>6, <4>1, <4>2, AskedMoves
    <3> QED
      BY <1>1, <2>6, <3>1, <3>2 DEF EntersState
  <2>7. CASE e.state \in {7, 8, 10}
    <3>1. CASE SameBut(s, e, {"goto"})
      BY <1>2, <3>1 DEF SameBut, FieldNames
    <3>2. CASE ~SameBut(s, e, {"goto"})
      <4> DEFINE what == CASE e.state = 7 -> "delete" [] e.state = 8 -> "load" [] e.state = 10 -> "claim"
                 who == IF e.state = 10 THEN CharacterName(e) ELSE SlotName(e)
      <4>1. /\ SameBut(s, e, {"link", "posted", "after", "seen", "expected"})
            /\ e.F14
            /\ Asked(s, e, e.margin, what, who)
        BY <1>1, <2>7, <3>2 DEF EntersState
      <4>2. s.goto = None
        BY <1>1, <4>1 DEF SameBut, FieldNames
      <4>3. ConnectionOf(e) = e.margin /\ RequestOf(e) = [what |-> what, who |-> who]
        BY <2>7 DEF ConnectionOf, RequestOf
      <4> HIDE DEF what, who
      <4> QED
        BY <2>7, <4>1, <4>2, <4>3, AskedMoves
    <3> QED
      BY <3>1, <3>2
  <2>8. CASE e.state = 9
    <3>1. CASE s.link = e.link
      BY <1>2, <3>1
    <3>2. CASE Asked(s, e, e.margin, "submit", None)
      <4>1. s.goto = None
        BY <1>1, <2>8 DEF EntersState, SameBut, FieldNames
      <4>2. Asked(s, e, ConnectionOf(e), "submit", None) /\ RequestOf(e) = [what |-> "submit", who |-> None]
        BY <2>8, <3>2 DEF ConnectionOf, RequestOf
      <4> QED
        BY <2>8, <4>1, <4>2, AskedMoves
    <3> QED
      BY <1>1, <2>8, <3>1, <3>2 DEF EntersState
  <2>9. CASE e.state = 11
    <3>1. s.goto = None
      BY <1>1, <2>9 DEF EntersState, SameBut, FieldNames
    <3>2. Asked(s, e, ConnectionOf(e), "create", e.create) /\ RequestOf(e) = [what |-> "create", who |-> e.create]
      BY <1>1, <2>9 DEF ConnectionOf, RequestOf, EntersState
    <3> QED
      BY <2>9, <3>1, <3>2, AskedMoves
  <2> QED
    BY <1>1, <2>1, <2>2, <2>3, <2>4, <2>5, <2>6, <2>7, <2>8, <2>9 DEF StateIds
<1> QED
  BY <1>3 DEF s, e

\* The elements of a sequence after an append.
LEMMA AppendElements ==
    ASSUME NEW S, NEW q \in Seq(S), NEW e \in S
    PROVE  /\ DOMAIN Append(q, e) = 1 .. Len(q) + 1
           /\ \A i \in DOMAIN Append(q, e) :
                 \/ i \in DOMAIN q /\ Append(q, e)[i] = q[i]
                 \/ i = Len(q) + 1 /\ Append(q, e)[i] = e
<1> DEFINE a == Append(q, e)
<1>1. /\ a \in Seq(S) /\ Len(q) \in Nat
      /\ \A i \in 1 .. Len(q) : a[i] = q[i]
      /\ a[Len(q) + 1] = e
      /\ DOMAIN a = 1 .. Len(q) + 1
      /\ DOMAIN q = 1 .. Len(q)
  OBVIOUS
<1> HIDE DEF a
<1>2. \A i \in 1 .. Len(q) + 1 : i \in 1 .. Len(q) \/ i = Len(q) + 1
  BY <1>1
<1> QED
  BY <1>1, <1>2 DEF a

\* Which connection the mediator points to changes when a new one is made.
LEMMA EnteredPointers ==
    ASSUME NEW r \in Mediator, r.goto # None
    PROVE  LET s == Entered(r) IN
           /\ s.auth # r.auth =>
                 r.goto = 1 /\ s.auth \in Links /\ r.link[s.auth].kind = "free" /\ s.link[s.auth].kind = "auth"
           /\ s.margin # r.margin =>
                 /\ r.goto = 4 /\ s.margin \in Links
                 /\ r.link[s.margin].kind = "free"
                 /\ s.link[s.margin].kind = "margin"
<1> DEFINE s == Entered(r)
           e == Arrived(r)
<1>1. EntersState(s, e, r.state) /\ e.state = r.goto /\ e.state \in StateIds
  BY EnteredIs, ArrivedIs, FieldsTyped
<1>2. e.auth = r.auth /\ e.margin = r.margin /\ e.link = r.link
  BY ArrivedIs DEF SameBut, FieldNames
<1> HIDE DEF s, e
<1>3. e.state \notin {1, 4} => s.auth = e.auth /\ s.margin = e.margin
  BY <1>1 DEF EntersState, SameBut, FieldNames, StateIds
<1>4. CASE e.state = 1
  <2>1. s.margin = e.margin
    BY <1>1, <1>4 DEF EntersState, SameBut, FieldNames
  <2>2. Opened(s, e, "auth", {"ConnectActive"})
    BY <1>1, <1>4 DEF EntersState
  <2>3. s["auth"] = s.auth /\ e["auth"] = e.auth
    OBVIOUS
  <2>4. \A st : [FreeLink EXCEPT !.kind = "auth", !.st = st].kind = "auth"
    BY DEF FreeLink
  <2>5. s.auth # e.auth =>
           /\ s.auth \in Links /\ e.link[s.auth].kind = "free"
           /\ \E st \in {"ConnectActive"} : s.link[s.auth] = [FreeLink EXCEPT !.kind = "auth", !.st = st]
    BY <2>2, <2>3 DEF Opened
  <2> QED
    BY <1>1, <1>2, <1>4, <2>1, <2>4, <2>5 DEF s
<1>5. CASE e.state = 4
  <2>1. s.auth = e.auth
    BY <1>1, <1>5 DEF EntersState, SameBut, FieldNames
  <2>2. s.margin = e.margin \/ Opened(s, e, "margin", {"ConnectActive", "Closed"})
    BY <1>1, <1>5 DEF EntersState, SameBut, FieldNames
  <2>3. s["margin"] = s.margin /\ e["margin"] = e.margin
    OBVIOUS
  <2>4. \A st : [FreeLink EXCEPT !.kind = "margin", !.st = st].kind = "margin"
    BY DEF FreeLink
  <2>5. s.margin # e.margin =>
           /\ s.margin \in Links /\ e.link[s.margin].kind = "free"
           /\ \E st \in {"ConnectActive", "Closed"} :
                 s.link[s.margin] = [FreeLink EXCEPT !.kind = "margin", !.st = st]
    BY <2>2, <2>3 DEF Opened
  <2> QED
    BY <1>1, <1>2, <1>5, <2>1, <2>4, <2>5 DEF s
<1> QED
  BY <1>2, <1>3, <1>4, <1>5 DEF s

\* The upstreams once a state is entered from another.
UpAfter(e, from) ==
    CASE e.state = 1 -> [e.up EXCEPT ![1] = from]
      [] e.state = 2 -> [e.up EXCEPT ![2] = IF from = 1 THEN @ ELSE from]
      [] e.state = 4 -> [e.up EXCEPT ![4] = IF @ = None THEN from ELSE @]
      [] e.state = 5 -> [e.up EXCEPT ![5] = IF @ # None /\ from \in {2, 4} THEN @ ELSE from]
      [] e.state = 6 -> [e.up EXCEPT ![6] = IF @ # None /\ from \in {4, 5} THEN @ ELSE from]
      [] OTHER -> e.up

\* Who a state remembers as its sender when it is entered.
LEMMA EnteredUp ==
    ASSUME NEW r \in Mediator, r.goto # None
    PROVE  Entered(r).up = UpAfter(Arrived(r), r.state)
<1> DEFINE s == Entered(r)
           e == Arrived(r)
<1>1. EntersState(s, e, r.state) /\ e.state \in StateIds
  BY EnteredIs, ArrivedIs, FieldsTyped
<1> HIDE DEF s, e
<1>2. e.state \notin {1, 2, 4, 5, 6} => s.up = e.up
  BY <1>1 DEF EntersState, SameBut, FieldNames, StateIds
<1>3. e.state \in {1, 2, 4, 5, 6} => s.up = UpAfter(e, r.state)
  BY <1>1 DEF EntersState, UpAfter
<1>4. e.state \notin {1, 2, 4, 5, 6} => UpAfter(e, r.state) = e.up
  BY DEF UpAfter
<1> QED
  BY <1>2, <1>3, <1>4 DEF s, e

\* A connection object that nobody uses is as new, and each kind of connection
\* takes its own requests.
Fits(x) ==
    /\ x.kind = "free" => x.st = "Closed" /\ x.asked = <<>>
    /\ \A i \in DOMAIN x.asked :
          /\ x.kind = "auth" <=> x.asked[i].what = "login"
          /\ x.asked[i].what = "create" => x.asked[i].who # None

LinkFit(r) ==
    /\ r.auth # None => r.link[r.auth].kind = "auth"
    /\ r.margin # None => r.link[r.margin].kind = "margin"
    /\ \A l \in Links : Fits(r.link[l])

\* No connection of r has gone.
Kept(s, r) == \A l \in Links : r.link[l].kind # "free" => s.link[l].kind = r.link[l].kind

\* A character to create is known in the states that create it and in those
\* that lead there.
CreateKnown(r) ==
    (\E s \in {10, 11} : s \in {r.state, r.goto} \/ \E k \in Cachers : r.up[k] = s) => r.create # None

Fit(r) == LinkFit(r) /\ CreateKnown(r) /\ Len(r.slots) <= MaxSlots

\* A new connection fits its kind: nothing was asked on it.
LEMMA NewFits ==
    ASSUME NEW kind \in {"auth", "margin"}, NEW st
    PROVE  LET x == [FreeLink EXCEPT !.kind = kind, !.st = st] IN
           x.kind = kind /\ x.st = st /\ x.asked = <<>> /\ ~x.challenged /\ ~x.reported /\ ~x.ok4 /\ Fits(x)
<1> DEFINE x == [FreeLink EXCEPT !.kind = kind, !.st = st]
<1>1. x.kind = kind /\ x.st = st /\ x.asked = <<>> /\ ~x.challenged /\ ~x.reported /\ ~x.ok4
  BY DEF FreeLink
<1>2. DOMAIN x.asked = {}
  BY <1>1
<1> HIDE DEF x
<1>3. Fits(x)
  BY <1>1, <1>2 DEF Fits
<1> QED
  BY <1>1, <1>3 DEF x

\* Entering any state keeps pointers, connections and requests fitting.
LEMMA EnteredFit ==
    ASSUME NEW r \in Mediator, r.goto # None, Fit(r)
    PROVE  Fit(Entered(r)) /\ Kept(Entered(r), r)
<1> DEFINE s == Entered(r)
           e == Arrived(r)
<1>1. s \in Mediator /\ e \in Mediator
  BY EnteredIs, ArrivedIs
<1>2. /\ e.link = r.link /\ e.auth = r.auth /\ e.margin = r.margin /\ e.up = r.up
      /\ e.state = r.goto /\ e.state \in StateIds /\ e.create = r.create
  BY ArrivedIs, FieldsTyped DEF SameBut, FieldNames
<1>3. s.create = r.create /\ s.slots = r.slots /\ s.state = r.goto
  BY EnteredSteady DEF SameBut, FieldNames, Steady
<1>4. \A k \in Links : LinkMoves(s, e, k)
  BY EnteredLinks
<1>5. s.up = UpAfter(e, r.state)
  BY EnteredUp
<1>6. /\ s.auth # r.auth => s.link[s.auth].kind = "auth" /\ r.link[s.auth].kind = "free"
      /\ s.margin # r.margin => s.link[s.margin].kind = "margin" /\ r.link[s.margin].kind = "free"
  BY EnteredPointers
<1>7. /\ r.goto \in {0, 1, 3, 4, 9, 11, 12, 13} => s.goto = None
      /\ s.goto \in {None, 1, 2, 4, 5, 6}
  BY <1>2, EnteredGoto DEF StateIds
<1> HIDE DEF s, e
<1>8. ASSUME NEW k \in Links
      PROVE  /\ Fits(s.link[k])
             /\ r.link[k].kind # "free" => s.link[k].kind = r.link[k].kind
  <2>1. /\ s.link[k] \in Link /\ e.link[k] \in Link
        /\ s.link[k].asked \in Seq(Request) /\ e.link[k].asked \in Seq(Request)
    BY <1>1, FieldsTyped, LinkFields
  <2>2. Fits(e.link[k])
    BY <1>2 DEF Fit, LinkFit
  <2>3. CASE SameLink(s.link[k], e.link[k], {})
    BY <1>2, <2>2, <2>3 DEF Fits, SameLink, LinkFieldNames
  <2>4. CASE /\ SameLink(s.link[k], e.link[k], {"st"}) /\ e.link[k].st # "Closed"
    <3>1. e.link[k].kind # "free"
      BY <2>2, <2>4 DEF Fits
    <3> QED
      BY <1>2, <2>2, <2>4, <3>1 DEF Fits, SameLink, LinkFieldNames
  <2>5. CASE /\ e.link[k].kind = "free"
             /\ \E kind \in {"auth", "margin"}, st \in {"ConnectActive", "Closed"} :
                   s.link[k] = [FreeLink EXCEPT !.kind = kind, !.st = st]
    <3>1. PICK kind \in {"auth", "margin"}, st \in {"ConnectActive", "Closed"} :
             s.link[k] = [FreeLink EXCEPT !.kind = kind, !.st = st]
      BY <2>5
    <3>2. Fits([FreeLink EXCEPT !.kind = kind, !.st = st])
      BY NewFits
    <3>3. Fits(s.link[k])
      BY <3>1, <3>2
    <3> QED
      BY <1>2, <2>5, <3>3
  <2>6. CASE /\ e.state \in {2, 5, 6, 7, 8, 9, 10, 11} /\ k = ConnectionOf(e)
             /\ e.link[k].st = "UdpMonitorActive"
             /\ SameLink(s.link[k], e.link[k], {"asked"})
             /\ s.link[k].asked = Append(e.link[k].asked, RequestOf(e))
    <3>1. e.link[k].kind # "free"
      BY <2>2, <2>6 DEF Fits
    <3>2. k # None
      BY LoginAssumption
    <3>3. e.link[k].kind = "auth" <=> RequestOf(e).what = "login"
      <4>1. CASE e.state = 2
        BY <1>2, <2>6, <3>2, <4>1 DEF ConnectionOf, RequestOf, Fit, LinkFit
      <4>2. CASE e.state # 2
        <5>1. k = e.margin /\ e.link[k].kind = "margin"
          BY <1>2, <2>6, <3>2, <4>2 DEF ConnectionOf, Fit, LinkFit
        <5>2. RequestOf(e).what # "login"
          BY <2>6, <4>2 DEF RequestOf
        <5> QED
          BY <5>1, <5>2
      <4> QED
        BY <4>1, <4>2
    <3>4. RequestOf(e).what = "create" => RequestOf(e).who # None
      <4>1. e.state = 11 => e.create # None
        BY <1>2 DEF Fit, CreateKnown
      <4>2. RequestOf(e).what = "create" => e.state = 11
        BY <2>6 DEF RequestOf
      <4>3. e.state = 11 => RequestOf(e).who = e.create
        BY DEF RequestOf
      <4> QED
        BY <4>1, <4>2, <4>3
    <3>5. RequestOf(e) \in Request
      <4>1. Append(e.link[k].asked, RequestOf(e))[Len(e.link[k].asked) + 1] = RequestOf(e)
        BY <2>1
      <4>2. s.link[k].asked[Len(e.link[k].asked) + 1] \in Request
        <5>1. Len(s.link[k].asked) = Len(e.link[k].asked) + 1 /\ Len(e.link[k].asked) \in Nat
          BY <2>1, <2>6
        <5>2. s.link[k].asked \in Seq(Request)
          BY <2>1
        <5> DEFINE q == s.link[k].asked
                   n == Len(e.link[k].asked) + 1
        <5>3. q \in Seq(Request) /\ n \in 1 .. Len(q)
          BY <5>1, <5>2
        <5> HIDE DEF q, n
        <5>4. q[n] \in Request
          BY <5>3
        <5> QED
          BY <5>4 DEF q, n
      <4> QED
        BY <2>6, <4>1, <4>2
    <3>6. \A i \in DOMAIN s.link[k].asked :
             \/ i \in DOMAIN e.link[k].asked /\ s.link[k].asked[i] = e.link[k].asked[i]
             \/ s.link[k].asked[i] = RequestOf(e)
      BY <2>1, <2>6, <3>5, AppendElements
    <3>7. s.link[k].kind = e.link[k].kind
      BY <2>6 DEF SameLink, LinkFieldNames
    <3> QED
      BY <1>2, <2>2, <3>1, <3>3, <3>4, <3>6, <3>7 DEF Fits
  <2> QED
    BY <1>4, <2>3, <2>4, <2>5, <2>6 DEF LinkMoves
<1>9. LinkFit(s)
  <2>1. s.auth # None => s.link[s.auth].kind = "auth"
    <3>1. CASE s.auth = r.auth
      <4>1. r.auth # None => r.auth \in Links /\ r.link[r.auth].kind = "auth"
        BY FieldsTyped DEF Fit, LinkFit
      <4> QED
        BY <1>8, <3>1, <4>1
    <3> QED
      BY <1>6, <3>1
  <2>2. s.margin # None => s.link[s.margin].kind = "margin"
    <3>1. CASE s.margin = r.margin
      <4>1. r.margin # None => r.margin \in Links /\ r.link[r.margin].kind = "margin"
        BY FieldsTyped DEF Fit, LinkFit
      <4> QED
        BY <1>8, <3>1, <4>1
    <3> QED
      BY <1>6, <3>1
  <2> QED
    BY <1>8, <2>1, <2>2 DEF LinkFit
<1>10. CreateKnown(s)
  <2> SUFFICES ASSUME NEW t \in {10, 11}, t \in {s.state, s.goto} \/ \E k \in Cachers : s.up[k] = t
               PROVE  r.create # None
    BY <1>3 DEF CreateKnown
  <2>1. CASE t \in {s.state, s.goto}
    <3>1. t = r.goto
      BY <1>3, <1>7, <2>1, LoginAssumption
    <3> QED
      BY <3>1 DEF Fit, CreateKnown
  <2>2. ASSUME NEW k \in Cachers, s.up[k] = t
        PROVE  r.create # None
    <3>1. s.up[k] = r.up[k] \/ s.up[k] = r.state
      <4>1. r.up \in [Cachers -> Upstreams]
        BY FieldsTyped
      <4> QED
        BY <1>2, <1>5, <4>1 DEF UpAfter, Cachers
    <3>2. r.up[k] = t \/ r.state = t
      BY <2>2, <3>1
    <3> QED
      BY <3>2 DEF Fit, CreateKnown
  <2> QED
    BY <2>1, <2>2
<1> QED
  BY <1>3, <1>8, <1>9, <1>10 DEF Fit, Kept, s

\* What is in two sequences put together.
LEMMA ConcatSet ==
    ASSUME NEW S, NEW p \in Seq(S), NEW q \in Seq(S)
    PROVE  p \o q \in Seq(S) /\ ToSet(p \o q) = ToSet(p) \cup ToSet(q)
<1> DEFINE c == p \o q
           a == Len(p)
           b == Len(q)
<1>1. /\ c \in Seq(S) /\ a \in Nat /\ b \in Nat
      /\ DOMAIN c = 1 .. a + b /\ DOMAIN p = 1 .. a /\ DOMAIN q = 1 .. b
      /\ \A i \in 1 .. a + b : c[i] = IF i <= a THEN p[i] ELSE q[i - a]
  OBVIOUS
<1> HIDE DEF c, a, b
<1>2. ToSet(c) \subseteq ToSet(p) \cup ToSet(q)
  <2> SUFFICES ASSUME NEW i \in 1 .. a + b
               PROVE  c[i] \in ToSet(p) \cup ToSet(q)
    BY <1>1 DEF ToSet
  <2>1. CASE i <= a
    <3>1. i \in 1 .. a
      BY <1>1, <2>1
    <3> QED
      BY <1>1, <2>1, <3>1 DEF ToSet
  <2>2. CASE ~(i <= a)
    <3>1. i - a \in 1 .. b
      BY <1>1, <2>2
    <3> QED
      BY <1>1, <2>2, <3>1 DEF ToSet
  <2> QED
    BY <2>1, <2>2
<1>3. ASSUME NEW i \in 1 .. a PROVE p[i] \in ToSet(c)
  <2>1. i \in 1 .. a + b /\ i <= a
    BY <1>1
  <2> QED
    BY <1>1, <2>1 DEF ToSet
<1>4. ASSUME NEW i \in 1 .. b PROVE q[i] \in ToSet(c)
  <2> DEFINE k == i + a
  <2>1. k \in 1 .. a + b /\ ~(k <= a) /\ k - a = i
    BY <1>1
  <2> HIDE DEF k
  <2>2. c[k] = q[i]
    BY <1>1, <2>1
  <2> QED
    BY <1>1, <2>1, <2>2 DEF ToSet
<1>5. ToSet(p) \cup ToSet(q) \subseteq ToSet(c)
  BY <1>1, <1>3, <1>4 DEF ToSet
<1> QED
  BY <1>1, <1>2, <1>5 DEF c

\* A mediator that has entered all the states its handler led to.
Rested(r) == Onward(Onward(Onward(Onward(Onward(r)))))

\* One more entry, if one is pending.
LEMMA OnwardIs ==
    ASSUME NEW r \in Mediator
    PROVE  LET s == Onward(r) IN
           /\ s \in Mediator
           /\ SameBut(s, r, FieldNames \ Steady)
           /\ Announced(s) \subseteq Announced(r) \cup Doing
           /\ r.goto = None => s = r
           /\ r.goto # None => s.state = r.goto
<1>1. CASE r.goto = None
  <2>1. Onward(r) = r
    BY <1>1 DEF Onward
  <2> QED
    BY <1>1, <2>1 DEF SameBut
<1>2. CASE r.goto # None
  <2>1. Onward(r) = Entered(r)
    BY <1>2 DEF Onward
  <2>2. /\ Entered(r) \in Mediator
        /\ SameBut(Entered(r), r, FieldNames \ Steady)
        /\ Entered(r).state = r.goto
        /\ Announced(Entered(r)) \subseteq Announced(r) \cup Doing
    BY <1>2, EnteredIs, EnteredSteady, EnteredAnnounces
  <2> QED
    BY <1>2, <2>1, <2>2
<1> QED
  BY <1>1, <1>2

\* The longest way is 8, 6, 5, 2, 1.
LEMMA OnwardGoto ==
    ASSUME NEW r \in Mediator
    PROVE  LET g == Onward(r).goto IN
           /\ g \in {None, 1, 2, 4, 5, 6}
           /\ r.goto \in {None, 1, 2, 4, 5, 6} => g \in {None, 1, 2, 4, 5}
           /\ r.goto \in {None, 1, 2, 4, 5} => g \in {None, 1, 2}
           /\ r.goto \in {None, 1, 2} => g \in {None, 1}
           /\ r.goto \in {None, 1} => g = None
<1>1. CASE r.goto = None
  BY <1>1 DEF Onward
<1>2. CASE r.goto # None
  <2>1. r.goto \in StateIds
    BY <1>2, FieldsTyped
  <2>2. Onward(r) = Entered(r)
    BY <1>2 DEF Onward
  <2> DEFINE g == Entered(r).goto
  <2>3. /\ r.goto \in {0, 1, 3, 4, 9, 11, 12, 13} => g = None
        /\ r.goto = 2 => g \in {None, 1}
        /\ r.goto = 5 => g \in {None, 2}
        /\ r.goto = 6 => g \in {None, 4, 5}
        /\ r.goto \in {7, 8, 10} => g \in {None, 4, 6}
    BY <1>2, EnteredGoto
  <2> HIDE DEF g
  <2> QED
    BY <1>2, <2>1, <2>2, <2>3 DEF g, StateIds
<1> QED
  BY <1>1, <1>2

\* Five entries are enough: no switch is pending after them.
LEMMA RestedIs ==
    ASSUME NEW r \in Mediator
    PROVE  LET s == Rested(r) IN
           /\ s \in Mediator
           /\ s.goto = None
           /\ SameBut(s, r, FieldNames \ Steady)
           /\ Announced(s) \subseteq Announced(r) \cup Doing
           /\ r.goto = None => s = r
           /\ r.goto \in {0, 1, 3, 4, 9, 11, 12, 13} => s.state = r.goto
<1> DEFINE a == Onward(r)
           b == Onward(a)
           c == Onward(b)
           d == Onward(c)
           s == Onward(d)
<1>1. /\ a \in Mediator /\ SameBut(a, r, FieldNames \ Steady)
      /\ Announced(a) \subseteq Announced(r) \cup Doing
      /\ a.goto \in {None, 1, 2, 4, 5, 6}
      /\ r.goto = None => a = r
      /\ r.goto # None => a.state = r.goto
  BY OnwardIs, OnwardGoto
<1>2. r.goto \in {0, 1, 3, 4, 9, 11, 12, 13} => a.goto = None
  <2>1. r.goto \in {0, 1, 3, 4, 9, 11, 12, 13} => r.goto # None
    BY LoginAssumption
  <2> QED
    BY <2>1, EnteredGoto DEF Onward
<1> HIDE DEF a
<1>3. /\ b \in Mediator /\ SameBut(b, a, FieldNames \ Steady)
      /\ Announced(b) \subseteq Announced(a) \cup Doing
      /\ b.goto \in {None, 1, 2, 4, 5}
      /\ a.goto = None => b = a
  BY <1>1, OnwardIs, OnwardGoto
<1> HIDE DEF b
<1>4. /\ c \in Mediator /\ SameBut(c, b, FieldNames \ Steady)
      /\ Announced(c) \subseteq Announced(b) \cup Doing
      /\ c.goto \in {None, 1, 2}
      /\ b.goto = None => c = b
  BY <1>3, OnwardIs, OnwardGoto
<1> HIDE DEF c
<1>5. /\ d \in Mediator /\ SameBut(d, c, FieldNames \ Steady)
      /\ Announced(d) \subseteq Announced(c) \cup Doing
      /\ d.goto \in {None, 1}
      /\ c.goto = None => d = c
  BY <1>4, OnwardIs, OnwardGoto
<1> HIDE DEF d
<1>6. /\ s \in Mediator /\ SameBut(s, d, FieldNames \ Steady)
      /\ Announced(s) \subseteq Announced(d) \cup Doing
      /\ s.goto = None
      /\ d.goto = None => s = d
  BY <1>5, OnwardIs, OnwardGoto
<1>7. Rested(r) = s
  BY DEF Rested, a, b, c, d
<1> HIDE DEF s
<1>8. SameBut(s, r, FieldNames \ Steady)
  BY <1>1, <1>3, <1>4, <1>5, <1>6 DEF SameBut, FieldNames, Steady
<1>9. Announced(s) \subseteq Announced(r) \cup Doing
  BY <1>1, <1>3, <1>4, <1>5, <1>6
<1>10. a.goto = None => s = a
  BY <1>3, <1>4, <1>5, <1>6
<1>11. /\ r.goto = None => s = r
       /\ r.goto \in {0, 1, 3, 4, 9, 11, 12, 13} => s.state = r.goto
  <2>1. r.goto \in {0, 1, 3, 4, 9, 11, 12, 13} => r.goto # None
    BY LoginAssumption
  <2> QED
    BY <1>1, <1>2, <1>10, <2>1
<1> QED
  BY <1>6, <1>7, <1>8, <1>9, <1>11

\* The function Settled recurs by is the five entries one after the other.
LEMMA SettledRested ==
    ASSUME NEW r
    PROVE  Settled(r) = [Rested(r) EXCEPT !.posted = @ \o Rested(r).after, !.after = <<>>]
<1> DEFINE a == Onward(r)
           b == Onward(a)
           c == Onward(b)
           d == Onward(c)
           e == Onward(d)
           W(f) == [i \in 0 .. 5 |-> IF i = 0 THEN r ELSE Onward(f[i - 1])]
           way == CHOOSE f : f = W(f)
<1>1. \E f : f = W(f)
  <2> DEFINE g == [i \in 0 .. 5 |-> IF i = 0 THEN r ELSE IF i = 1 THEN a ELSE IF i = 2 THEN b
                                   ELSE IF i = 3 THEN c ELSE IF i = 4 THEN d ELSE e]
  <2>1. ASSUME NEW i \in 0 .. 5 PROVE g[i] = IF i = 0 THEN r ELSE Onward(g[i - 1])
    <3>1. g[0] = r /\ g[1] = a /\ g[2] = b /\ g[3] = c /\ g[4] = d /\ g[5] = e
      OBVIOUS
    <3> HIDE DEF g
    <3>2. i \in {0, 1, 2, 3, 4, 5}
      OBVIOUS
    <3>3. 1 - 1 = 0 /\ 2 - 1 = 1 /\ 3 - 1 = 2 /\ 4 - 1 = 3 /\ 5 - 1 = 4
      OBVIOUS
    <3> QED
      BY <3>1, <3>2, <3>3
  <2>2. g = W(g)
    BY <2>1
  <2> QED
    BY <2>2
<1>2. way = W(way)
  BY <1>1
<1> HIDE DEF way
<1>3. \A i \in 0 .. 5 : way[i] = IF i = 0 THEN r ELSE Onward(way[i - 1])
  BY <1>2
<1>4. /\ way[0] = r /\ way[1] = Onward(way[0]) /\ way[2] = Onward(way[1])
      /\ way[3] = Onward(way[2]) /\ way[4] = Onward(way[3]) /\ way[5] = Onward(way[4])
  BY <1>3
<1>5. way[5] = Rested(r)
  BY <1>4, Zenon DEF Rested
<1>6. Settled(r) = [way[5] EXCEPT !.posted = @ \o way[5].after, !.after = <<>>]
  BY DEF Settled, way
<1> QED
  BY <1>5, <1>6

\* A handler's call ends at rest, and what was posted is what was announced.
LEMMA SettledIs ==
    ASSUME NEW r \in Mediator
    PROVE  LET s == Settled(r) IN
           /\ s \in Mediator
           /\ SameBut(s, Rested(r), {"posted", "after"})
           /\ s.after = <<>>
           /\ ToSet(s.posted) = Announced(Rested(r))
<1> DEFINE e == Rested(r)
           p == e.posted \o e.after
           s == [e EXCEPT !.posted = p, !.after = <<>>]
<1>1. e \in Mediator
  BY RestedIs
<1>2. Settled(r) = s
  BY <1>1, SettledRested DEF Mediator
<1> HIDE DEF e
<1>3. p \in Seq(Posting) /\ ToSet(p) = Announced(e)
  BY <1>1, FieldsTyped, ConcatSet DEF Announced
<1>4. <<>> \in Seq(Posting)
  OBVIOUS
<1> DEFINE z == <<>>
<1> HIDE DEF p, z
<1>5. [e EXCEPT !.posted = p, !.after = z] \in Mediator
  BY <1>1, <1>3, <1>4, ZenonT(200) DEF Mediator, z
<1>6. /\ SameBut([e EXCEPT !.posted = p, !.after = z], e, {"posted", "after"})
      /\ [e EXCEPT !.posted = p, !.after = z].posted = p
      /\ [e EXCEPT !.posted = p, !.after = z].after = z
  BY <1>1 DEF Mediator, SameBut, FieldNames
<1> QED
  BY <1>2, <1>3, <1>5, <1>6 DEF e, z

\* Pointers, connections and requests still fit when no switch is pending.
LEMMA RestedFit ==
    ASSUME NEW r \in Mediator, Fit(r)
    PROVE  Fit(Rested(r)) /\ Kept(Rested(r), r)
<1>1. ASSUME NEW t \in Mediator, Fit(t)
      PROVE  Onward(t) \in Mediator /\ Fit(Onward(t)) /\ Kept(Onward(t), t)
  <2>1. CASE t.goto = None
    BY <1>1, <2>1 DEF Onward, Kept
  <2>2. CASE t.goto # None
    BY <1>1, <2>2, EnteredIs, EnteredFit DEF Onward
  <2> QED
    BY <2>1, <2>2
<1> DEFINE a == Onward(r)
           b == Onward(a)
           c == Onward(b)
           d == Onward(c)
           s == Onward(d)
<1>2. a \in Mediator /\ Fit(a) /\ Kept(a, r)
  BY <1>1
<1> HIDE DEF a
<1>3. b \in Mediator /\ Fit(b) /\ Kept(b, a)
  BY <1>1, <1>2
<1> HIDE DEF b
<1>4. c \in Mediator /\ Fit(c) /\ Kept(c, b)
  BY <1>1, <1>3
<1> HIDE DEF c
<1>5. d \in Mediator /\ Fit(d) /\ Kept(d, c)
  BY <1>1, <1>4
<1> HIDE DEF d
<1>6. s \in Mediator /\ Fit(s) /\ Kept(s, d)
  BY <1>1, <1>5
<1>7. Rested(r) = s
  BY DEF Rested, a, b, c, d
<1> HIDE DEF s
<1>8. Kept(s, r)
  BY <1>2, <1>3, <1>4, <1>5, <1>6 DEF Kept
<1> QED
  BY <1>6, <1>7, <1>8

Errors == {p \in Posting : p.kind = "error"}

\* s is r but for the fields F, has switched to t and announced no more than E.
Moves(s, r, F, t, E) ==
    /\ SameBut(s, r, F \cup {"goto", "posted", "after"})
    /\ s.goto = t
    /\ Announced(s) \subseteq Announced(r) \cup E

\* The steps a handler is made of.
LEMMA MovesChain ==
    ASSUME NEW s \in Mediator, NEW r \in Mediator, NEW F, NEW G, NEW t, NEW E, NEW D,
           Moves(s, r, F, t, E), F \subseteq G, E \subseteq D
    PROVE  Moves(s, r, G, t, D)
BY DEF Moves, SameBut

\* An event after a move is the move with one more announcement.
LEMMA EventMoves ==
    ASSUME NEW q \in Mediator, NEW r \in Mediator, NEW F, NEW t, NEW e \in Nat, NEW E, Moves(q, r, F, t, E)
    PROVE  PostEvent(q, e) \in Mediator /\ Moves(PostEvent(q, e), r, F, t, E \cup {Event(e)})
<1> DEFINE s == PostEvent(q, e)
<1>1. s \in Mediator /\ SameBut(s, q, {"posted", "after"}) /\ Announced(s) = Announced(q) \cup {Event(e)}
  BY EventIs
<1> HIDE DEF s
<1>2. SameBut(s, r, F \cup {"goto", "posted", "after"}) /\ s.goto = q.goto
  BY <1>1 DEF Moves, SameBut, FieldNames
<1> QED
  BY <1>1, <1>2 DEF Moves, s

\* A switch after a move is the move to another state.
LEMMA SwitchMoves ==
    ASSUME NEW q \in Mediator, NEW r \in Mediator, NEW F, NEW t \in StateIds \cup {None}, NEW E, NEW u,
           Moves(q, r, F, u, E)
    PROVE  Switch(q, t) \in Mediator /\ Moves(Switch(q, t), r, F, t, E)
<1> DEFINE s == Switch(q, t)
<1>1. s \in Mediator /\ SameBut(s, q, {"goto"}) /\ s.goto = t
  BY SwitchIs
<1> HIDE DEF s
<1>2. SameBut(s, r, F \cup {"goto", "posted", "after"}) /\ Announced(s) = Announced(q)
  BY <1>1 DEF Moves, SameBut, FieldNames, Announced
<1> QED
  BY <1>1, <1>2 DEF Moves, s

\* A failure after a move is the move to another state with an error.
LEMMA FailMoves ==
    ASSUME NEW q \in Mediator, NEW r \in Mediator, NEW F, NEW t \in StateIds, NEW e \in Nat, NEW u,
           Moves(q, r, F, u, {})
    PROVE  Fail(q, t, e) \in Mediator /\ Moves(Fail(q, t, e), r, F, t, Errors)
<1> DEFINE s == Fail(q, t, e)
<1>1. /\ s \in Mediator /\ SameBut(s, q, {"goto", "posted", "after"}) /\ s.goto = t
      /\ Announced(s) = Announced(q) \cup {[kind |-> "error", id |-> e]}
  BY FailIs
<1> HIDE DEF s
<1>2. SameBut(s, r, F \cup {"goto", "posted", "after"})
  BY <1>1 DEF Moves, SameBut, FieldNames
<1>3. [kind |-> "error", id |-> e] \in Errors
  BY DEF Errors, Posting
<1> QED
  BY <1>1, <1>2, <1>3 DEF Moves, s

\* A mediator that differs in fields a handler does not switch or post with.
LEMMA FieldMoves ==
    ASSUME NEW q \in Mediator, NEW r \in Mediator, NEW F, SameBut(q, r, F),
           F \cap {"goto", "posted", "after"} = {}
    PROVE  Moves(q, r, F, r.goto, {})
<1>1. q.goto = r.goto /\ q.posted = r.posted /\ q.after = r.after
  BY DEF SameBut, FieldNames
<1>2. Announced(q) = Announced(r)
  BY <1>1 DEF Announced
<1> QED
  BY <1>1, <1>2 DEF Moves, SameBut

\* The flag of an expected close changes nothing else.
LEMMA Flag2cIs ==
    ASSUME NEW r \in Mediator
    PROVE  LET s == [r EXCEPT !.flag2c = TRUE] IN
           s \in Mediator /\ SameBut(s, r, {"flag2c"}) /\ s.flag2c
<1>1. [r EXCEPT !.flag2c = TRUE] \in Mediator
  BY ZenonT(200) DEF Mediator
<1>2. SameBut([r EXCEPT !.flag2c = TRUE], r, {"flag2c"}) /\ [r EXCEPT !.flag2c = TRUE].flag2c
  BY DEF Mediator, SameBut, FieldNames
<1> QED
  BY <1>1, <1>2

\* OnOperationCompleted, the authentication connection.
AuthLost(s, r) ==
    /\ s.auth = None
    /\ \/ r.flag2c /\ Moves(s, r, {"auth"}, r.goto, {Event(1)})
       \/ ~r.flag2c /\ Moves(s, r, {"auth"}, 0, Errors)

\* The handler of an authentication connection's close.
LEMMA AuthClosedIs ==
    ASSUME NEW r \in Mediator
    PROVE  AuthClosed(r) \in Mediator /\ AuthLost(AuthClosed(r), r)
<1> DEFINE c == [r EXCEPT !.auth = None]
           s == AuthClosed(r)
<1>1. c \in Mediator
  BY AuthTyped
<1>2. SameBut(c, r, {"auth"}) /\ c.auth = None /\ c.flag2c = r.flag2c
  BY DEF Mediator, SameBut, FieldNames
<1>3. s = IF c.flag2c THEN PostEvent(c, 1) ELSE Fail(c, 0, 1)
  BY DEF AuthClosed
<1> HIDE DEF c, s
<1>4. Moves(c, r, {"auth"}, r.goto, {})
  BY <1>1, <1>2, FieldMoves
<1>5. CASE c.flag2c
  <2>1. s = PostEvent(c, 1)
    BY <1>3, <1>5
  <2>2. s \in Mediator /\ Moves(s, r, {"auth"}, r.goto, {} \cup {Event(1)})
    BY <1>1, <1>4, <2>1, EventMoves
  <2>3. s.auth = c.auth
    BY <1>1, <2>1, EventIs DEF SameBut, FieldNames
  <2> QED
    BY <1>2, <1>5, <2>2, <2>3 DEF AuthLost, s
<1>6. CASE ~c.flag2c
  <2>1. s = Fail(c, 0, 1) /\ 0 \in StateIds
    BY <1>3, <1>6 DEF StateIds
  <2>2. s \in Mediator /\ Moves(s, r, {"auth"}, 0, Errors)
    BY <1>1, <1>4, <2>1, FailMoves
  <2>3. s.auth = c.auth
    BY <1>1, <2>1, FailIs DEF SameBut, FieldNames
  <2> QED
    BY <1>2, <1>6, <2>2, <2>3 DEF AuthLost, s
<1> QED
  BY <1>5, <1>6

AuthResult(s, r) ==
    \/ s = r
    \/ r.state = 1 /\ Moves(s, r, {}, r.up[1], {Event(0)})
    \/ /\ r.state = 1
       /\ SameBut(s, r, {"auth", "link", "full", "flag2c", "authList", "attempts"})
       /\ Opened(s, r, "auth", {"ConnectActive"})
       /\ \A k \in Links : s.link[k].st # r.link[k].st =>
             \/ /\ k = r.auth /\ s.link[k].st = "Closing"
                /\ r.link[k].st \in {"ConnectActive", "UdpMonitorActive"}
             \/ /\ k = s.auth /\ r.link[k].kind = "free"
                /\ s.link[k] = [FreeLink EXCEPT !.kind = "auth", !.st = "ConnectActive"]
    \/ r.state = 1 /\ s.flag2c /\ Moves(s, r, {"flag2c", "attempts"}, 0, Errors)

\* The handler of an authentication connection's connect status.
LEMMA AuthStatusIs ==
    ASSUME NEW r \in Mediator, NEW status
    PROVE  AuthStatus(r, status) \in Mediator /\ AuthResult(AuthStatus(r, status), r)
<1> DEFINE f == [r EXCEPT !.flag2c = TRUE]
           g == [f EXCEPT !.attempts = 0]
           s == AuthStatus(r, status)
<1>1. f \in Mediator /\ SameBut(f, r, {"flag2c"}) /\ f.flag2c
  BY Flag2cIs
<1>2. s = IF r.state # 1 THEN r
          ELSE IF status = "ok" THEN PostEvent(Switch(r, r.up[1]), 0)
          ELSE IF f.attempts < f.authList THEN BeginAuthConnection(f) ELSE Fail(g, 0, 0)
  BY DEF AuthStatus
<1> HIDE DEF f, s
<1>3. g \in Mediator
  <2>1. 0 \in Nat
    OBVIOUS
  <2> QED
    BY <1>1, <2>1, ZenonT(200) DEF Mediator
<1>4. SameBut(g, f, {"attempts"}) /\ g.flag2c = f.flag2c
  BY <1>1 DEF Mediator, SameBut, FieldNames
<1> HIDE DEF g
<1>5. SameBut(r, r, {})
  BY DEF SameBut
<1>6. CASE r.state = 1 /\ status = "ok"
  <2>1. r.up[1] \in StateIds \cup {None}
    BY FieldsTyped DEF Upstreams, Cachers
  <2>2. Moves(r, r, {}, r.goto, {})
    BY <1>5, FieldMoves
  <2>3. Switch(r, r.up[1]) \in Mediator /\ Moves(Switch(r, r.up[1]), r, {}, r.up[1], {})
    BY <2>1, <2>2, SwitchMoves
  <2>4. s = PostEvent(Switch(r, r.up[1]), 0)
    BY <1>2, <1>6
  <2>5. s \in Mediator /\ Moves(s, r, {}, r.up[1], {} \cup {Event(0)})
    BY <2>3, <2>4, EventMoves
  <2> QED
    BY <1>6, <2>5 DEF AuthResult, s
<1>7. CASE r.state = 1 /\ s = BeginAuthConnection(f)
  <2>1. /\ s \in Mediator
        /\ SameBut(s, f, {"auth", "link", "full", "flag2c", "authList", "attempts"})
        /\ Opened(s, f, "auth", {"ConnectActive"})
        /\ \A k \in Links : s.link[k].st # f.link[k].st =>
             \/ /\ k = f.auth /\ s.link[k].st = "Closing"
                /\ f.link[k].st \in {"ConnectActive", "UdpMonitorActive"}
             \/ /\ k = s.auth /\ f.link[k].kind = "free"
                /\ s.link[k] = [FreeLink EXCEPT !.kind = "auth", !.st = "ConnectActive"]
    BY <1>1, <1>7, BeginAuthConnectionIs
  <2>2. f.link = r.link /\ f.auth = r.auth /\ f["auth"] = r["auth"] /\ f.full = r.full
    BY <1>1 DEF SameBut, FieldNames
  <2>3. SameBut(s, r, {"auth", "link", "full", "flag2c", "authList", "attempts"})
    BY <1>1, <2>1 DEF SameBut, FieldNames
  <2>4. Opened(s, r, "auth", {"ConnectActive"})
    BY <2>1, <2>2 DEF Opened
  <2> QED
    BY <1>7, <2>1, <2>2, <2>3, <2>4 DEF AuthResult, s
<1>8. CASE r.state = 1 /\ s = Fail(g, 0, 0)
  <2>1. SameBut(g, r, {"flag2c", "attempts"})
    BY <1>1, <1>4 DEF SameBut, FieldNames
  <2>2. Moves(g, r, {"flag2c", "attempts"}, r.goto, {}) /\ 0 \in StateIds
    BY <1>3, <2>1, FieldMoves DEF StateIds
  <2>3. s \in Mediator /\ Moves(s, r, {"flag2c", "attempts"}, 0, Errors)
    BY <1>3, <1>8, <2>2, FailMoves
  <2>4. SameBut(s, g, {"goto", "posted", "after"})
    BY <1>3, <1>8, <2>2, FailIs
  <2>5. s.flag2c = g.flag2c
    BY <2>4 DEF SameBut, FieldNames
  <2> QED
    BY <1>1, <1>4, <1>8, <2>3, <2>5 DEF AuthResult, s
<1>9. CASE r.state # 1
  BY <1>2, <1>9 DEF AuthResult, s
<1> QED
  BY <1>2, <1>6, <1>7, <1>8, <1>9

\* The first reply of a process fills the slot table.
AuthReply(s, r, characters) ==
    \/ s = r
    \/ /\ r.state = 2
       /\ s.gate /\ s.fresh
       /\ r.gate => s.slots = r.slots /\ s.current = r.current
       /\ ~r.gate => s.slots = SlotRecords(characters) /\ s.current = None
       /\ Moves(s, r, {"flag2c", "gate", "current", "slots", "fresh"},
                IF r.up[2] \in {0, None} THEN 3 ELSE r.up[2], {Event(5), Event(6)})
    \/ r.state = 2 /\ Moves(s, r, {"flag2c"}, 0, Errors)

\* The slot table takes no more characters than it has room for.
LEMMA SlotRecordsTyped ==
    ASSUME NEW characters \in Seq(Characters)
    PROVE  SlotRecords(characters) \in Seq(Characters) /\ Len(SlotRecords(characters)) <= MaxSlots
<1>1. CASE Len(characters) > MaxSlots
  <2>1. SubSeq(characters, 1, MaxSlots) \in Seq(Characters) /\ Len(SubSeq(characters, 1, MaxSlots)) = MaxSlots
    BY <1>1, LoginAssumption
  <2> QED
    BY <1>1, <2>1, LoginAssumption DEF SlotRecords
<1>2. CASE ~(Len(characters) > MaxSlots)
  BY <1>2, LoginAssumption DEF SlotRecords
<1> QED
  BY <1>1, <1>2

\* A mediator keeps its type when the first login fills its table.
LEMMA FirstLoginTyped ==
    ASSUME NEW r \in Mediator, NEW q \in Seq(Characters)
    PROVE  [r EXCEPT !.gate = TRUE, !.current = None, !.slots = q] \in Mediator
BY ZenonT(200) DEF Mediator

\* A mediator keeps its type with a reply copy, fresh or not.
LEMMA FreshTyped ==
    ASSUME NEW r \in Mediator, NEW b \in BOOLEAN
    PROVE  [r EXCEPT !.fresh = b] \in Mediator
BY ZenonT(200) DEF Mediator

\* The handler of a successful login.
LEMMA LoggedInIs ==
    ASSUME NEW r \in Mediator, NEW characters \in Seq(Characters), r.state = 2, r.goto = None
    PROVE  LET s == LoggedIn(r, characters) IN
           /\ s \in Mediator
           /\ s.gate /\ s.fresh
           /\ r.gate => s.slots = r.slots /\ s.current = r.current
           /\ ~r.gate => s.slots = SlotRecords(characters) /\ s.current = None
           /\ Moves(s, r, {"gate", "current", "slots", "fresh"},
                    IF r.up[2] \in {0, None} THEN 3 ELSE r.up[2], {Event(5), Event(6)})
<1> DEFINE q == SlotRecords(characters)
           g == [r EXCEPT !.gate = TRUE, !.current = None, !.slots = q]
           first == PostEvent(g, 6)
           known == IF r.gate THEN r ELSE first
           l == [known EXCEPT !.fresh = TRUE]
           t == IF Phase(l.up[2]) = 0 THEN 3 ELSE l.up[2]
           w == Switch(l, t)
           s == LoggedIn(r, characters)
           F == {"gate", "current", "slots", "fresh"}
<1>1. s = PostEvent(w, 5)
  BY DEF LoggedIn
<1> HIDE DEF s
<1>2. q \in Seq(Characters)
  BY SlotRecordsTyped
<1> HIDE DEF q
<1>3. g \in Mediator
  BY <1>2, FirstLoginTyped
<1>4. SameBut(g, r, {"gate", "current", "slots"}) /\ g.gate /\ g.slots = q /\ g.current = None
  BY DEF Mediator, SameBut, FieldNames
<1> HIDE DEF g
<1>5. first \in Mediator /\ SameBut(first, g, {"posted", "after"}) /\ Announced(first) = Announced(g) \cup {Event(6)}
  BY <1>3, EventIs
<1> HIDE DEF first
<1>6. first.goto = r.goto /\ Announced(g) = Announced(r) /\ first.gate /\ first.slots = q /\ first.current = None
      /\ SameBut(first, r, F \cup {"posted", "after"})
  BY <1>4, <1>5 DEF SameBut, FieldNames, Announced
<1>7. /\ known \in Mediator
      /\ SameBut(known, r, F \cup {"posted", "after"})
      /\ Announced(known) \subseteq Announced(r) \cup {Event(6)}
      /\ known.gate
      /\ r.gate => known.slots = r.slots /\ known.current = r.current
      /\ ~r.gate => known.slots = q /\ known.current = None
  <2>1. CASE r.gate
    <3>1. known = r
      BY <2>1
    <3> QED
      BY <2>1, <3>1 DEF SameBut
  <2>2. CASE ~r.gate
    <3>1. known = first
      BY <2>2
    <3> QED
      BY <2>2, <3>1, <1>5, <1>6
  <2> QED
    BY <2>1, <2>2
<1> HIDE DEF known
<1>8. l \in Mediator
  BY <1>7, FreshTyped
<1>9. SameBut(l, known, {"fresh"}) /\ l.fresh
  BY <1>7 DEF Mediator, SameBut, FieldNames
<1> HIDE DEF l
<1>10. /\ l.up = r.up /\ Announced(l) = Announced(known)
       /\ SameBut(l, r, F \cup {"posted", "after"})
       /\ l.gate = known.gate /\ l.slots = known.slots /\ l.current = known.current
  BY <1>7, <1>9 DEF SameBut, FieldNames, Announced
<1>11. /\ t = IF r.up[2] \in {0, None} THEN 3 ELSE r.up[2]
       /\ t \in StateIds \cup {None}
  <2>1. r.up[2] \in StateIds \cup {None}
    BY FieldsTyped DEF Upstreams, Cachers
  <2> QED
    BY <1>10, <2>1 DEF Phase, StateIds
<1> HIDE DEF t
<1>12. w \in Mediator /\ SameBut(w, l, {"goto"}) /\ w.goto = t
  BY <1>8, <1>11, SwitchIs
<1> HIDE DEF w
<1>13. s \in Mediator /\ SameBut(s, w, {"posted", "after"}) /\ Announced(s) = Announced(w) \cup {Event(5)}
  BY <1>1, <1>12, EventIs
<1>14. /\ SameBut(s, r, F \cup {"goto", "posted", "after"})
       /\ s.goto = t /\ Announced(w) = Announced(l)
       /\ s.gate = l.gate /\ s.slots = l.slots /\ s.current = l.current /\ s.fresh = l.fresh
  BY <1>10, <1>12, <1>13 DEF SameBut, FieldNames, Announced
<1>15. Announced(s) \subseteq Announced(r) \cup {Event(5), Event(6)}
  BY <1>7, <1>10, <1>13, <1>14
<1>16. Moves(s, r, F, t, {Event(5), Event(6)})
  BY <1>14, <1>15 DEF Moves
<1> QED
  BY <1>7, <1>9, <1>10, <1>11, <1>13, <1>14, <1>16 DEF s, q

\* The handler of an authentication server's reply.
LEMMA AuthMessageIs ==
    ASSUME NEW r \in Mediator, r.goto = None, NEW msg, msg.characters \in Seq(Characters),
           msg.status \in {"ok", "badKey", "badSignature", "refused"}
    PROVE  AuthMessage(r, msg) \in Mediator /\ AuthReply(AuthMessage(r, msg), r, msg.characters)
<1> DEFINE h == [r EXCEPT !.flag2c = TRUE]
           s == AuthMessage(r, msg)
<1>1. h \in Mediator /\ SameBut(h, r, {"flag2c"})
  BY Flag2cIs
<1>2. \/ s = r
      \/ r.state = 2 /\ s = LoggedIn(h, msg.characters)
      \/ r.state = 2 /\ \E e \in {2, 15, 4} : s = Fail(h, 0, e)
  BY DEF AuthMessage
<1> HIDE DEF h, s
<1>3. CASE s = r
  BY <1>3 DEF AuthReply, s
<1>4. CASE r.state = 2 /\ s = LoggedIn(h, msg.characters)
  <2>1. /\ h.state = 2 /\ h.goto = None /\ h.gate = r.gate /\ h.slots = r.slots /\ h.current = r.current
        /\ h.up = r.up /\ Announced(h) = Announced(r)
    BY <1>1, <1>4 DEF SameBut, FieldNames, Announced
  <2>2. /\ s \in Mediator
        /\ s.gate /\ s.fresh
        /\ h.gate => s.slots = h.slots /\ s.current = h.current
        /\ ~h.gate => s.slots = SlotRecords(msg.characters) /\ s.current = None
        /\ Moves(s, h, {"gate", "current", "slots", "fresh"},
                 IF h.up[2] \in {0, None} THEN 3 ELSE h.up[2], {Event(5), Event(6)})
    BY <1>1, <1>4, <2>1, LoggedInIs
  <2>3. SameBut(s, r, {"flag2c", "gate", "current", "slots", "fresh"} \cup {"goto", "posted", "after"})
    BY <1>1, <2>2 DEF SameBut, FieldNames, Moves
  <2>4. Moves(s, r, {"flag2c", "gate", "current", "slots", "fresh"},
              IF r.up[2] \in {0, None} THEN 3 ELSE r.up[2], {Event(5), Event(6)})
    BY <2>1, <2>2, <2>3 DEF Moves
  <2> QED
    BY <1>4, <2>1, <2>2, <2>4 DEF AuthReply, s
<1>5. ASSUME r.state = 2, NEW e \in {2, 15, 4}, s = Fail(h, 0, e)
      PROVE  s \in Mediator /\ AuthReply(s, r, msg.characters)
  <2>1. Moves(h, r, {"flag2c"}, r.goto, {}) /\ 0 \in StateIds
    BY <1>1, FieldMoves DEF StateIds
  <2>2. s \in Mediator /\ Moves(s, r, {"flag2c"}, 0, Errors)
    BY <1>1, <1>5, <2>1, FailMoves
  <2> QED
    BY <1>5, <2>2 DEF AuthReply
<1> QED
  BY <1>2, <1>3, <1>4, <1>5 DEF s

\* OnOperationCompleted, the margin connection.
MarginLost(s, r) ==
    /\ s.margin = None
    /\ \/ r.state = 13 /\ Moves(s, r, {"margin"}, r.goto, {})
       \/ r.flag2d /\ Moves(s, r, {"margin"}, r.goto, {Event(15)})
       \/ ~r.flag2d /\ Moves(s, r, {"margin"}, 3, Errors)

\* The handler of a margin connection's close.
LEMMA MarginClosedIs ==
    ASSUME NEW r \in Mediator
    PROVE  MarginClosed(r) \in Mediator /\ MarginLost(MarginClosed(r), r)
<1> DEFINE c == [r EXCEPT !.margin = None]
           s == MarginClosed(r)
<1>1. c \in Mediator
  BY MarginTyped
<1>2. SameBut(c, r, {"margin"}) /\ c.margin = None /\ c.flag2d = r.flag2d /\ c.state = r.state
  BY DEF Mediator, SameBut, FieldNames
<1>3. s = IF c.state = 13 THEN c ELSE IF c.flag2d THEN PostEvent(c, 15) ELSE Fail(c, 3, 7)
  BY DEF MarginClosed
<1> HIDE DEF c, s
<1>4. Moves(c, r, {"margin"}, r.goto, {})
  BY <1>1, <1>2, FieldMoves
<1>5. CASE c.state # 13 /\ c.flag2d
  <2>1. s = PostEvent(c, 15)
    BY <1>3, <1>5
  <2>2. s \in Mediator /\ Moves(s, r, {"margin"}, r.goto, {} \cup {Event(15)})
    BY <1>1, <1>4, <2>1, EventMoves
  <2>3. s.margin = c.margin
    BY <1>1, <2>1, EventIs DEF SameBut, FieldNames
  <2> QED
    BY <1>2, <1>5, <2>2, <2>3 DEF MarginLost, s
<1>6. CASE c.state # 13 /\ ~c.flag2d
  <2>1. s = Fail(c, 3, 7) /\ 3 \in StateIds
    BY <1>3, <1>6 DEF StateIds
  <2>2. s \in Mediator /\ Moves(s, r, {"margin"}, 3, Errors)
    BY <1>1, <1>4, <2>1, FailMoves
  <2>3. s.margin = c.margin
    BY <1>1, <2>1, FailIs DEF SameBut, FieldNames
  <2> QED
    BY <1>2, <1>6, <2>2, <2>3 DEF MarginLost, s
<1>7. CASE c.state = 13
  BY <1>1, <1>2, <1>3, <1>4, <1>7 DEF MarginLost, s
<1> QED
  BY <1>5, <1>6, <1>7

MarginFields == {"margin", "link", "full", "flag2d", "route", "host", "marginList", "begins"}

\* A margin connection has been opened or not.
MarginOpened(s, r) ==
    /\ SameBut(s, r, MarginFields)
    /\ s.margin # r.margin => Opened(s, r, "margin", {"ConnectActive", "Closed"})
    /\ \A k \in Links :
          \/ s.link[k] = r.link[k]
          \/ /\ k = s.margin /\ r.link[k].kind = "free"
             /\ \E st \in {"ConnectActive", "Closed"} :
                   s.link[k] = [FreeLink EXCEPT !.kind = "margin", !.st = st]

\* State 4 opens a margin connection for the senders it knows.
LEMMA Connect4Is ==
    ASSUME NEW r \in Mediator
    PROVE  Connect4(r) \in Mediator /\ MarginOpened(Connect4(r), r)
<1>1. CASE Connect4(r) = r
  BY <1>1 DEF MarginOpened, SameBut
<1>2. CASE Connect4(r) = BeginMarginConnection(r, Route(r))
  <2>1. Route(r) \in Worlds \cup {None}
    BY CurrentTyped
  <2> DEFINE s == Connect4(r)
  <2>2. /\ s \in Mediator
        /\ SameBut(s, r, {"margin", "link", "full", "flag2d", "route", "host", "marginList", "begins"})
        /\ Opened(s, r, "margin", {"ConnectActive", "Closed"})
        /\ \A k \in Links :
              \/ s.link[k] = r.link[k]
              \/ /\ k = s.margin /\ r.link[k].kind = "free"
                 /\ \E st \in {"ConnectActive", "Closed"} :
                       s.link[k] = [FreeLink EXCEPT !.kind = "margin", !.st = st]
    BY <1>2, <2>1, BeginMarginConnectionIs
  <2> HIDE DEF s
  <2> QED
    BY <2>2 DEF MarginOpened, MarginFields, s
<1> QED
  BY <1>1, <1>2 DEF Connect4

Forgotten4(r) == [r.up EXCEPT ![4] = None]

MarginResult(s, r) ==
    \/ s = r
    \/ /\ r.state = 4
       /\ s.up = Forgotten4(r)
       /\ \/ Moves(s, r, {"up"}, Phase(r.up[4]), {Event(14)})
          \/ Moves(s, r, {"up", "flag2d", "begins"}, 3, Errors)
    \/ r.state = 4 /\ MarginOpened(s, r)
    \/ r.state = 4 /\ r.up[4] = 13 /\ Moves(s, r, {"flag2d"}, r.goto, Errors)

\* The handler of a margin connection's connect status.
LEMMA MarginStatusIs ==
    ASSUME NEW r \in Mediator, NEW status
    PROVE  MarginStatus(r, status) \in Mediator /\ MarginResult(MarginStatus(r, status), r)
<1> DEFINE back == [r EXCEPT !.up[4] = None]
           f == [r EXCEPT !.flag2d = TRUE]
           g == [f EXCEPT !.up[4] = None, !.begins = 0]
           b == [f EXCEPT !.up[4] = None]
           z == 0
           h == [b EXCEPT !.begins = z]
           s == MarginStatus(r, status)
<1>1. back \in Mediator /\ SameBut(back, r, {"up"}) /\ back.up = Forgotten4(r)
  BY UpTyped DEF Cachers, Upstreams, Forgotten4
<1>2. f \in Mediator
  BY ZenonT(200) DEF Mediator
<1>3. SameBut(f, r, {"flag2d"}) /\ f.up = r.up
  BY DEF Mediator, SameBut, FieldNames
<1>4. s = IF r.state # 4 THEN r
          ELSE IF status = "ok" THEN PostEvent(Switch(back, Phase(r.up[4])), 14)
          ELSE IF f.begins < f.marginList THEN Connect4(f)
          ELSE IF Phase(f.up[4]) = 13 THEN PostError(f, 6)
          ELSE Fail(g, 3, 6)
  BY DEF MarginStatus
<1> HIDE DEF f
<1>5. b \in Mediator /\ SameBut(b, f, {"up"}) /\ b.up = Forgotten4(r)
  BY <1>2, <1>3, UpTyped DEF Cachers, Upstreams, Forgotten4
<1>6. g = h
  BY <1>2 DEF Mediator
<1> HIDE DEF back, g, b, s
<1>7. h \in Mediator
  <2>1. z \in Nat
    OBVIOUS
  <2> HIDE DEF z
  <2> QED
    BY <1>5, <2>1, ZenonT(200) DEF Mediator
<1>8. SameBut(h, b, {"begins"})
  BY <1>5 DEF Mediator, SameBut, FieldNames
<1> HIDE DEF h
<1>9. SameBut(g, r, {"up", "flag2d", "begins"}) /\ g.up = Forgotten4(r) /\ g \in Mediator
  BY <1>3, <1>5, <1>6, <1>7, <1>8 DEF SameBut, FieldNames
<1>10. r.up[4] \in Upstreams
  BY FieldsTyped DEF Cachers
<1>11. CASE r.state # 4
  BY <1>4, <1>11 DEF MarginResult, s
<1>12. CASE r.state = 4 /\ s = PostEvent(Switch(back, Phase(r.up[4])), 14)
  <2>1. Phase(r.up[4]) \in StateIds \cup {None}
    BY <1>10 DEF Phase, Upstreams, StateIds
  <2>2. Moves(back, r, {"up"}, r.goto, {})
    BY <1>1, FieldMoves
  <2> DEFINE w == Switch(back, Phase(r.up[4]))
  <2>3. w \in Mediator /\ Moves(w, r, {"up"}, Phase(r.up[4]), {}) /\ SameBut(w, back, {"goto"})
    BY <1>1, <2>1, <2>2, SwitchMoves, SwitchIs
  <2> HIDE DEF w
  <2>4. /\ s \in Mediator /\ Moves(s, r, {"up"}, Phase(r.up[4]), {} \cup {Event(14)})
        /\ SameBut(s, w, {"posted", "after"})
    BY <1>12, <2>3, EventMoves, EventIs DEF w
  <2>5. s.up = back.up
    BY <2>3, <2>4 DEF SameBut, FieldNames
  <2> QED
    BY <1>1, <1>12, <2>4, <2>5 DEF MarginResult, s
<1>13. CASE r.state = 4 /\ s = Connect4(f)
  <2>1. s \in Mediator /\ MarginOpened(s, f)
    BY <1>2, <1>13, Connect4Is
  <2>2. f.link = r.link /\ f.margin = r.margin /\ f["margin"] = r["margin"] /\ f.full = r.full
    BY <1>3 DEF SameBut, FieldNames
  <2>3. SameBut(s, r, MarginFields)
    BY <1>3, <2>1 DEF SameBut, FieldNames, MarginOpened, MarginFields
  <2>4. MarginOpened(s, r)
    BY <2>1, <2>2, <2>3 DEF MarginOpened, Opened
  <2> QED
    BY <1>13, <2>1, <2>4 DEF MarginResult, s
<1>14. CASE r.state = 4 /\ Phase(f.up[4]) = 13 /\ s = PostError(f, 6)
  <2>1. r.up[4] = 13
    BY <1>3, <1>14 DEF Phase
  <2>2. s \in Mediator /\ SameBut(s, f, {"posted", "after"})
        /\ Announced(s) = Announced(f) \cup {[kind |-> "error", id |-> 6]}
    BY <1>2, <1>14, ErrorIs
  <2>3. [kind |-> "error", id |-> 6] \in Errors
    BY DEF Errors, Posting
  <2>4. SameBut(s, r, {"flag2d"} \cup {"goto", "posted", "after"}) /\ s.goto = r.goto /\ Announced(f) = Announced(r)
    BY <1>3, <2>2 DEF SameBut, FieldNames, Announced
  <2> QED
    BY <1>14, <2>1, <2>2, <2>3, <2>4 DEF MarginResult, Moves, s
<1>15. CASE r.state = 4 /\ s = Fail(g, 3, 6)
  <2>1. Moves(g, r, {"up", "flag2d", "begins"}, r.goto, {}) /\ 3 \in StateIds
    BY <1>9, FieldMoves DEF StateIds
  <2>2. /\ s \in Mediator /\ Moves(s, r, {"up", "flag2d", "begins"}, 3, Errors)
        /\ SameBut(s, g, {"goto", "posted", "after"})
    BY <1>9, <1>15, <2>1, FailMoves, FailIs
  <2>3. s.up = g.up
    BY <2>2 DEF SameBut, FieldNames
  <2> QED
    BY <1>9, <1>15, <2>2, <2>3 DEF MarginResult, s
<1> QED
  BY <1>4, <1>11, <1>12, <1>13, <1>14, <1>15

\* The answer to the reply copy is kept with its connection.
CopyResult(s, r, l) ==
    /\ \A k \in Links \ {l} : s.link[k] = r.link[k]
    /\ SameLink(s.link[l], r.link[l], {"ok4"})
    /\ \/ SameBut(s, r, {"link"})
       \/ /\ l = r.margin /\ r.state = 5
          /\ Moves(s, r, {"link", "flag2d"}, Phase(r.up[5]), {})

\* The handler of the answer to the reply copy, on any connection.
LEMMA CopyAnsweredIs ==
    ASSUME NEW r \in Mediator, NEW l \in Links, NEW status
    PROVE  CopyAnswered(r, l, status) \in Mediator /\ CopyResult(CopyAnswered(r, l, status), r, l)
<1> DEFINE k4 == status = "ok"
           x == [r.link[l] EXCEPT !.ok4 = k4]
           f == [r.link EXCEPT ![l] = x]
           q == [r EXCEPT !.link = f]
           b == q.flag2d \/ status # "ok"
           h == [q EXCEPT !.flag2d = b]
           s == CopyAnswered(r, l, status)
<1>1. r.link \in [Links -> Link] /\ r.link[l] \in Link
  BY FieldsTyped
<1>2. x \in Link /\ SameLink(x, r.link[l], {"ok4"})
  <2>1. k4 \in BOOLEAN
    OBVIOUS
  <2> HIDE DEF k4
  <2>2. x \in Link
    BY <1>1, <2>1 DEF Link
  <2>3. SameLink(x, r.link[l], {"ok4"})
    BY <1>1 DEF Link, SameLink, LinkFieldNames
  <2> QED
    BY <2>2, <2>3
<1>3. [r EXCEPT !.link[l].ok4 = status = "ok"] = q
  BY <1>1 DEF Mediator
<1> HIDE DEF x
<1>4. f \in [Links -> Link] /\ f[l] = x /\ \A k \in Links \ {l} : f[k] = r.link[k]
  BY <1>1, <1>2
<1> HIDE DEF f
<1>5. q \in Mediator /\ SameBut(q, r, {"link"}) /\ q.link = f
  BY <1>4, LinkTyped
<1> HIDE DEF q
<1>6. s = IF l # r.margin \/ r.state # 5 THEN q ELSE Switch(h, Phase(q.up[5]))
  BY <1>3, <1>5 DEF CopyAnswered, Mediator
<1> HIDE DEF s
<1>7. h \in Mediator
  <2>1. b \in BOOLEAN
    BY <1>5 DEF Mediator
  <2> HIDE DEF b
  <2> QED
    BY <1>5, <2>1, ZenonT(200) DEF Mediator
<1>8. SameBut(h, q, {"flag2d"})
  <2> HIDE DEF b
  <2> QED
    BY <1>5 DEF Mediator, SameBut, FieldNames
<1> HIDE DEF h
<1>9. CASE s = q
  BY <1>2, <1>4, <1>5, <1>9 DEF CopyResult, s
<1>10. CASE l = r.margin /\ r.state = 5 /\ s = Switch(h, Phase(q.up[5]))
  <2>1. q.up = r.up /\ r.up[5] \in Upstreams
    BY <1>5, FieldsTyped DEF SameBut, FieldNames, Cachers
  <2>2. Phase(q.up[5]) \in StateIds \cup {None} /\ Phase(q.up[5]) = Phase(r.up[5])
    BY <2>1 DEF Phase, Upstreams, StateIds
  <2>3. SameBut(h, r, {"link", "flag2d"}) /\ h.link = f
    BY <1>5, <1>8 DEF SameBut, FieldNames
  <2>4. Moves(h, r, {"link", "flag2d"}, r.goto, {})
    BY <1>7, <2>3, FieldMoves
  <2>5. s \in Mediator /\ Moves(s, r, {"link", "flag2d"}, Phase(r.up[5]), {}) /\ SameBut(s, h, {"goto"})
    BY <1>7, <1>10, <2>2, <2>4, SwitchMoves, SwitchIs
  <2>6. s.link = f
    BY <2>3, <2>5 DEF SameBut, FieldNames
  <2> QED
    BY <1>2, <1>4, <1>10, <2>5, <2>6 DEF CopyResult, s
<1> QED
  BY <1>6, <1>9, <1>10

\* A session has begun on the margin connection.
Begun(s, r) ==
    /\ s.F14
    /\ s.link[r.margin].challenged
    /\ SameLink(s.link[r.margin], r.link[r.margin], {"challenged"})
    /\ \A k \in Links \ {r.margin} : s.link[k] = r.link[k]

\* Marking the session of the margin connection touches no other.
LEMMA ChallengedLink ==
    ASSUME NEW r \in Mediator, r.margin \in Links
    PROVE  LET f == [r.link EXCEPT ![r.margin].challenged = TRUE] IN
           /\ f \in [Links -> Link]
           /\ f[r.margin].challenged
           /\ SameLink(f[r.margin], r.link[r.margin], {"challenged"})
           /\ \A k \in Links \ {r.margin} : f[k] = r.link[k]
<1> DEFINE l == r.margin
           x == [r.link[l] EXCEPT !.challenged = TRUE]
           f == [r.link EXCEPT ![l] = x]
<1>1. r.link \in [Links -> Link] /\ l \in Links /\ r.link[l] \in Link
  BY FieldsTyped
<1>2. [r.link EXCEPT ![r.margin].challenged = TRUE] = f
  BY <1>1
<1> HIDE DEF l
<1>3. x \in Link
  BY <1>1 DEF Link
<1>4. SameLink(x, r.link[l], {"challenged"}) /\ x.challenged
  BY <1>1 DEF Link, SameLink, LinkFieldNames
<1> HIDE DEF x
<1>5. f \in [Links -> Link] /\ f[l] = x /\ \A k \in Links \ {l} : f[k] = r.link[k]
  BY <1>1, <1>3
<1> HIDE DEF f
<1> QED
  BY <1>2, <1>4, <1>5 DEF l

\* The gate flag of the session changes nothing else.
LEMMA F14Typed ==
    ASSUME NEW r \in Mediator, NEW b \in BOOLEAN
    PROVE  [r EXCEPT !.F14 = b] \in Mediator /\ SameBut([r EXCEPT !.F14 = b], r, {"F14"}) /\ [r EXCEPT !.F14 = b].F14 = b
<1>1. [r EXCEPT !.F14 = b] \in Mediator
  BY ZenonT(200) DEF Mediator
<1>2. SameBut([r EXCEPT !.F14 = b], r, {"F14"}) /\ [r EXCEPT !.F14 = b].F14 = b
  BY DEF Mediator, SameBut, FieldNames
<1> QED
  BY <1>1, <1>2

\* The count of attempts changes nothing else.
LEMMA BeginsTyped ==
    ASSUME NEW r \in Mediator, NEW b \in Nat
    PROVE  [r EXCEPT !.begins = b] \in Mediator /\ SameBut([r EXCEPT !.begins = b], r, {"begins"})
<1>1. [r EXCEPT !.begins = b] \in Mediator
  BY ZenonT(200) DEF Mediator
<1>2. SameBut([r EXCEPT !.begins = b], r, {"begins"})
  BY DEF Mediator, SameBut, FieldNames
<1> QED
  BY <1>1, <1>2

ChallengeResult(s, r) ==
    \/ Moves(s, r, {}, 0, Errors)
    \/ /\ SameBut(s, r, {"F14", "link"})
       /\ s.F14
       /\ s.link[r.margin].challenged
       /\ SameLink(s.link[r.margin], r.link[r.margin], {"challenged", "asked"})
       /\ \/ s.link[r.margin].asked = r.link[r.margin].asked
          \/ /\ r.link[r.margin].st = "UdpMonitorActive"
             /\ s.link[r.margin].asked = Append(r.link[r.margin].asked, [what |-> "answer", who |-> None])
       /\ \A k \in Links \ {r.margin} : s.link[k] = r.link[k]

\* The handler of a session challenge.
LEMMA SessionChallengeIs ==
    ASSUME NEW r \in Mediator, r.margin \in Links, NEW hashed \in BOOLEAN
    PROVE  SessionChallenge(r, hashed) \in Mediator /\ ChallengeResult(SessionChallenge(r, hashed), r)
<1> DEFINE f == [r.link EXCEPT ![r.margin].challenged = TRUE]
           b == [r EXCEPT !.F14 = TRUE]
           q == [b EXCEPT !.link = f]
           g == [r EXCEPT !.F14 = TRUE, !.link[r.margin].challenged = TRUE]
           s == SessionChallenge(r, hashed)
<1>1. /\ f \in [Links -> Link]
      /\ f[r.margin].challenged
      /\ SameLink(f[r.margin], r.link[r.margin], {"challenged"})
      /\ \A k \in Links \ {r.margin} : f[k] = r.link[k]
  BY ChallengedLink
<1>2. g = q
  BY DEF Mediator
<1>3. s = IF ~hashed THEN Fail(r, 0, 3) ELSE Ask(g, r.margin, "answer", None)
  BY DEF SessionChallenge
<1>4. b \in Mediator /\ SameBut(b, r, {"F14"}) /\ b.F14
  BY F14Typed
<1> HIDE DEF f, b, g, s
<1>5. q \in Mediator /\ SameBut(q, b, {"link"}) /\ q.link = f
  BY <1>1, <1>4, LinkTyped
<1> HIDE DEF q
<1>6. SameBut(q, r, {"F14", "link"}) /\ q.F14 /\ q.link = f
  BY <1>4, <1>5 DEF SameBut, FieldNames
<1>7. CASE ~hashed
  <2>1. SameBut(r, r, {}) /\ 0 \in StateIds
    BY DEF SameBut, StateIds
  <2>2. Moves(r, r, {}, r.goto, {})
    BY <2>1, FieldMoves
  <2>3. s \in Mediator /\ Moves(s, r, {}, 0, Errors)
    BY <1>3, <1>7, <2>1, <2>2, FailMoves
  <2> QED
    BY <2>3 DEF ChallengeResult, s
<1>8. CASE hashed
  <2> DEFINE l == r.margin
             e == [what |-> "answer", who |-> None]
  <2>1. s = Ask(q, l, "answer", None)
    BY <1>2, <1>3, <1>8
  <2>2. s \in Mediator /\ SameBut(s, q, {"link"}) /\ Asked(s, q, l, "answer", None)
    BY <1>5, <2>1, AskedIs DEF Requested
  <2>3. SameBut(s, r, {"F14", "link"}) /\ s.F14
    BY <1>6, <2>2 DEF SameBut, FieldNames
  <2>4. \A k \in Links : SameLink(s.link[k], q.link[k], {"asked"})
    BY <2>2 DEF Asked
  <2>5. \/ s.link[l].asked = q.link[l].asked
        \/ q.link[l].st = "UdpMonitorActive" /\ s.link[l].asked = Append(q.link[l].asked, e)
    BY <2>2 DEF Asked
  <2>6. \A k \in Links \ {l} : s.link[k] = q.link[k]
    BY <2>2 DEF Asked
  <2>7. l \in Links /\ q.link[l].asked = r.link[l].asked /\ q.link[l].st = r.link[l].st
    BY <1>1, <1>6 DEF SameLink, LinkFieldNames
  <2>8. s.link[l].challenged /\ SameLink(s.link[l], r.link[l], {"challenged", "asked"})
    BY <1>1, <1>6, <2>4, <2>7 DEF SameLink, LinkFieldNames
  <2> HIDE DEF e
  <2> QED
    BY <1>1, <1>6, <2>2, <2>3, <2>5, <2>6, <2>7, <2>8 DEF ChallengeResult, s, e
<1> QED
  BY <1>7, <1>8

\* A close of the margin connection is requested, and F14 forgotten.
MarginClosing(s, r) ==
    /\ ~s.F14
    /\ s.link[r.margin].st \in {"Closing", "Closed", "Dead"}
    /\ \A k \in Links : SameLink(s.link[k], r.link[k], {"st"})
    /\ \A k \in Links : s.link[k] # r.link[k] =>
          /\ k = r.margin
          /\ r.link[k].st \in {"ConnectActive", "UdpMonitorActive"}
          /\ s.link[k].st = "Closing"

VerdictResult(s, r) ==
    \/ /\ Begun(s, r)
       /\ \/ r.up[6] = None /\ Moves(s, r, {"begins", "F14", "link"}, r.goto, {})
          \/ r.up[6] # None /\ Moves(s, r, {"begins", "F14", "link"}, r.up[6], {Event(18)})
    \/ /\ MarginClosing(s, r)
       /\ \E t \in {2, 4} : Moves(s, r, {"link", "flag2d", "F14"}, t, {})
    \/ /\ MarginClosing(s, r)
       /\ Moves(s, r, {"link", "flag2d", "F14", "begins"}, 3, Errors)

\* The handler of the verdict on a session.
LEMMA SessionVerdictIs ==
    ASSUME NEW r \in Mediator, r.margin \in Links, NEW status
    PROVE  SessionVerdict(r, status) \in Mediator /\ VerdictResult(SessionVerdict(r, status), r)
<1> DEFINE f == [r.link EXCEPT ![r.margin].challenged = TRUE]
           z == 0
           a == [r EXCEPT !.begins = z]
           b == [a EXCEPT !.F14 = TRUE]
           q == [b EXCEPT !.link = f]
           begun == [r EXCEPT !.begins = 0, !.F14 = TRUE, !.link[r.margin].challenged = TRUE]
           closed == RequestMarginClose(r)
           g == [closed EXCEPT !.begins = z]
           s == SessionVerdict(r, status)
<1>1. /\ f \in [Links -> Link]
      /\ f[r.margin].challenged
      /\ SameLink(f[r.margin], r.link[r.margin], {"challenged"})
      /\ \A k \in Links \ {r.margin} : f[k] = r.link[k]
  BY ChallengedLink
<1>2. begun = q
  BY DEF Mediator
<1>3. \/ r.up[6] = None /\ s = begun
      \/ r.up[6] # None /\ s = PostEvent(Switch(begun, r.up[6]), 18)
      \/ \E t \in {2, 4} : s = Switch(closed, t)
      \/ s = Fail(g, 3, 8)
  BY DEF SessionVerdict
<1>4. z \in Nat
  OBVIOUS
<1> HIDE DEF z, begun, f, s
<1>5. a \in Mediator /\ SameBut(a, r, {"begins"})
  BY <1>4, BeginsTyped
<1> HIDE DEF a
<1>6. b \in Mediator /\ SameBut(b, a, {"F14"}) /\ b.F14
  BY <1>5, F14Typed
<1> HIDE DEF b
<1>7. q \in Mediator /\ SameBut(q, b, {"link"}) /\ q.link = f
  BY <1>1, <1>6, LinkTyped
<1> HIDE DEF q
<1>8. SameBut(q, r, {"begins", "F14", "link"}) /\ q.F14
  BY <1>5, <1>6, <1>7 DEF SameBut, FieldNames
<1>9. Moves(q, r, {"begins", "F14", "link"}, r.goto, {}) /\ Begun(q, r)
  <2>1. Begun(q, r)
    BY <1>1, <1>7, <1>8 DEF Begun
  <2> QED
    BY <1>7, <1>8, <2>1, FieldMoves
<1>10. CASE r.up[6] = None /\ s = begun
  BY <1>2, <1>7, <1>9, <1>10 DEF VerdictResult, s
<1>11. CASE r.up[6] # None /\ s = PostEvent(Switch(begun, r.up[6]), 18)
  <2> DEFINE w == Switch(q, r.up[6])
  <2>1. r.up[6] \in StateIds \cup {None}
    BY FieldsTyped DEF Upstreams, Cachers
  <2>2. w \in Mediator /\ Moves(w, r, {"begins", "F14", "link"}, r.up[6], {}) /\ SameBut(w, q, {"goto"})
    BY <1>7, <1>9, <2>1, SwitchMoves, SwitchIs
  <2>3. s = PostEvent(w, 18)
    BY <1>2, <1>11
  <2> HIDE DEF w
  <2>4. /\ s \in Mediator /\ Moves(s, r, {"begins", "F14", "link"}, r.up[6], {} \cup {Event(18)})
        /\ SameBut(s, w, {"posted", "after"})
    BY <2>2, <2>3, EventMoves, EventIs
  <2>5. s.link = q.link /\ s.F14 = q.F14
    BY <2>2, <2>4 DEF SameBut, FieldNames
  <2>6. Begun(s, r)
    BY <1>9, <2>5 DEF Begun
  <2> QED
    BY <1>11, <2>4, <2>6 DEF VerdictResult, s
<1>12. /\ closed \in Mediator
       /\ SameBut(closed, r, {"link", "flag2d", "F14"})
       /\ MarginClosing(closed, r)
  <2>1. r.margin # None
    BY LoginAssumption
  <2> QED
    BY <2>1, RequestMarginCloseIs DEF MarginClosing
<1> HIDE DEF closed
<1>13. Moves(closed, r, {"link", "flag2d", "F14"}, r.goto, {})
  BY <1>12, FieldMoves
<1>14. ASSUME NEW t \in {2, 4}, s = Switch(closed, t)
       PROVE  s \in Mediator /\ VerdictResult(s, r)
  <2>1. t \in StateIds \cup {None}
    BY DEF StateIds
  <2>2. s \in Mediator /\ Moves(s, r, {"link", "flag2d", "F14"}, t, {}) /\ SameBut(s, closed, {"goto"})
    BY <1>12, <1>13, <1>14, <2>1, SwitchMoves, SwitchIs
  <2>3. s.link = closed.link /\ s.F14 = closed.F14
    BY <2>2 DEF SameBut, FieldNames
  <2>4. MarginClosing(s, r)
    BY <1>12, <2>3 DEF MarginClosing
  <2> QED
    BY <2>2, <2>4 DEF VerdictResult
<1>15. CASE s = Fail(g, 3, 8)
  <2>1. g \in Mediator /\ SameBut(g, closed, {"begins"})
    BY <1>4, <1>12, BeginsTyped
  <2> HIDE DEF g
  <2>2. SameBut(g, r, {"link", "flag2d", "F14", "begins"}) /\ 3 \in StateIds
    BY <1>12, <2>1 DEF SameBut, FieldNames, StateIds
  <2>3. Moves(g, r, {"link", "flag2d", "F14", "begins"}, r.goto, {})
    BY <2>1, <2>2, FieldMoves
  <2>4. /\ s \in Mediator /\ Moves(s, r, {"link", "flag2d", "F14", "begins"}, 3, Errors)
        /\ SameBut(s, g, {"goto", "posted", "after"})
    BY <1>15, <2>1, <2>2, <2>3, FailMoves, FailIs
  <2>5. s.link = closed.link /\ s.F14 = closed.F14
    BY <2>1, <2>4 DEF SameBut, FieldNames
  <2>6. MarginClosing(s, r)
    BY <1>12, <2>5 DEF MarginClosing
  <2> QED
    BY <2>4, <2>6 DEF VerdictResult, s
<1> QED
  BY <1>3, <1>10, <1>11, <1>14, <1>15 DEF s

\* A handler's last line may close the margin connection.
LEMMA ClosingMoves ==
    ASSUME NEW q \in Mediator, NEW r \in Mediator, q.margin \in Links, q.margin = r.margin, q.link = r.link,
           NEW t, NEW E, Moves(q, r, {}, t, E)
    PROVE  LET s == RequestMarginClose(q) IN
           s \in Mediator /\ MarginClosing(s, r) /\ Moves(s, r, {"link", "flag2d", "F14"}, t, E)
<1> DEFINE s == RequestMarginClose(q)
<1>1. q.margin # None
  BY LoginAssumption
<1>2. /\ s \in Mediator
      /\ SameBut(s, q, {"link", "flag2d", "F14"})
      /\ MarginClosing(s, r)
  BY <1>1, RequestMarginCloseIs DEF MarginClosing
<1> HIDE DEF s
<1>3. /\ SameBut(s, r, {"link", "flag2d", "F14"} \cup {"goto", "posted", "after"})
      /\ s.goto = t /\ s.posted = q.posted /\ s.after = q.after
  BY <1>2 DEF Moves, SameBut, FieldNames
<1> QED
  BY <1>2, <1>3 DEF Moves, Announced, s

\* Doing nothing is a move.
LEMMA SelfMoves ==
    ASSUME NEW r \in Mediator
    PROVE  Moves(r, r, {}, r.goto, {})
BY DEF Moves, SameBut

DeletedResult(s, r) ==
    /\ MarginClosing(s, r)
    /\ \/ Moves(s, r, {"link", "flag2d", "F14"}, 3, {Event(8)})
       \/ Moves(s, r, {"link", "flag2d", "F14"}, 3, Errors)

\* The handler of the answer to a delete.
LEMMA DeletedIs ==
    ASSUME NEW r \in Mediator, r.margin \in Links, NEW status
    PROVE  Deleted(r, status) \in Mediator /\ DeletedResult(Deleted(r, status), r)
<1> DEFINE w == Switch(r, 3)
           p == PostEvent(w, 8)
           f == Fail(r, 3, 9)
<1>1. Deleted(r, status) = RequestMarginClose(IF status = "ok" THEN p ELSE f)
  BY DEF Deleted
<1>2. 3 \in StateIds /\ 3 \in StateIds \cup {None}
  BY DEF StateIds
<1>3. w \in Mediator /\ Moves(w, r, {}, 3, {})
  BY <1>2, SelfMoves, SwitchMoves
<1> HIDE DEF w
<1>4. p \in Mediator /\ Moves(p, r, {}, 3, {} \cup {Event(8)})
  BY <1>3, EventMoves
<1>5. f \in Mediator /\ Moves(f, r, {}, 3, Errors)
  BY <1>2, SelfMoves, FailMoves
<1> HIDE DEF p, f
<1>6. /\ p.margin = r.margin /\ p.link = r.link
      /\ f.margin = r.margin /\ f.link = r.link
  BY <1>4, <1>5 DEF Moves, SameBut, FieldNames
<1>7. CASE status = "ok"
  <2>1. Deleted(r, status) = RequestMarginClose(p)
    BY <1>1, <1>7
  <2> QED
    BY <1>4, <1>6, <2>1, ClosingMoves DEF DeletedResult
<1>8. CASE status # "ok"
  <2>1. Deleted(r, status) = RequestMarginClose(f)
    BY <1>1, <1>8
  <2> QED
    BY <1>5, <1>6, <2>1, ClosingMoves DEF DeletedResult
<1> QED
  BY <1>7, <1>8

SubmittedResult(s, r) ==
    \/ MarginClosing(s, r) /\ Moves(s, r, {"link", "flag2d", "F14"}, 12, {Event(24)})
    \/ Moves(s, r, {}, 3, Errors)

\* The handler of the answer to a submit.
LEMMA SubmittedIs ==
    ASSUME NEW r \in Mediator, r.margin \in Links, NEW status
    PROVE  Submitted(r, status) \in Mediator /\ SubmittedResult(Submitted(r, status), r)
<1> DEFINE c == RequestMarginClose(r)
           w == Switch(c, 12)
           s == PostEvent(w, 24)
           f == Fail(r, 3, 13)
           F == {"link", "flag2d", "F14"}
<1>1. Submitted(r, status) = IF status = "ok" THEN s ELSE f
  BY DEF Submitted
<1>2. 3 \in StateIds /\ 12 \in StateIds \cup {None}
  BY DEF StateIds
<1>3. c \in Mediator /\ MarginClosing(c, r) /\ Moves(c, r, F, r.goto, {})
  BY SelfMoves, ClosingMoves
<1> HIDE DEF c
<1>4. w \in Mediator /\ Moves(w, r, F, 12, {}) /\ SameBut(w, c, {"goto"})
  BY <1>2, <1>3, SwitchMoves, SwitchIs
<1> HIDE DEF w
<1>5. s \in Mediator /\ Moves(s, r, F, 12, {} \cup {Event(24)}) /\ SameBut(s, w, {"posted", "after"})
  BY <1>4, EventMoves, EventIs
<1>6. f \in Mediator /\ Moves(f, r, {}, 3, Errors)
  BY <1>2, SelfMoves, FailMoves
<1> HIDE DEF s, f
<1>7. s.link = c.link /\ s.F14 = c.F14
  BY <1>4, <1>5 DEF SameBut, FieldNames
<1>8. MarginClosing(s, r)
  BY <1>3, <1>7 DEF MarginClosing
<1> QED
  BY <1>1, <1>5, <1>6, <1>8 DEF SubmittedResult

ClaimResult(s, r) ==
    \/ Moves(s, r, {}, 3, Errors)
    \/ s = r
    \/ /\ Len(r.slots) < MaxSlots
       /\ s.slots = Append(r.slots, r.create)
       /\ s.current = Len(r.slots)
       /\ Moves(s, r, {"current", "slots"}, 11, {Event(20)})

\* The handler of the answer to the claim of a name.
LEMMA NameClaimedIs ==
    ASSUME NEW r \in Mediator, r.create # None, NEW status
    PROVE  NameClaimed(r, status) \in Mediator /\ ClaimResult(NameClaimed(r, status), r)
<1> DEFINE n == Len(r.slots)
           a == Append(r.slots, r.create)
           q == [r EXCEPT !.current = n, !.slots = a]
           w == Switch(q, 11)
           s == NameClaimed(r, status)
<1>1. r.slots \in Seq(Characters) /\ r.create \in Characters
  BY DEF Mediator
<1>2. a \in Seq(Characters) /\ n \in Nat
  BY <1>1
<1>3. \/ s = Fail(r, 3, 11)
      \/ s = r
      \/ n < MaxSlots /\ s = PostEvent(Switch([r EXCEPT !.current = Len(r.slots), !.slots = a], 11), 20)
  <2>1. [r EXCEPT !.current = Len(r.slots), !.slots = Append(@, r.create)] = [r EXCEPT !.current = Len(r.slots), !.slots = a]
    BY DEF Mediator
  <2> QED
    BY <1>2, <2>1, LoginAssumption DEF NameClaimed
<1>4. 3 \in StateIds /\ 11 \in StateIds \cup {None}
  BY DEF StateIds
<1> HIDE DEF s
<1>5. CASE s = Fail(r, 3, 11)
  BY <1>4, <1>5, SelfMoves, FailMoves DEF ClaimResult, s
<1>6. CASE s = r
  BY <1>6 DEF ClaimResult, s
<1>7. CASE n < MaxSlots /\ s = PostEvent(w, 20)
  <2>1. n \in (0 .. MaxSlots - 1) \cup {None}
    BY <1>2, <1>7, LoginAssumption
  <2>2. n = Len(r.slots) /\ a = Append(r.slots, r.create)
    OBVIOUS
  <2> HIDE DEF n, a
  <2>3. q \in Mediator
    BY <1>2, <2>1, ZenonT(200) DEF Mediator
  <2>4. SameBut(q, r, {"current", "slots"}) /\ q.current = n /\ q.slots = a
    BY DEF Mediator, SameBut, FieldNames
  <2> HIDE DEF q
  <2>5. Moves(q, r, {"current", "slots"}, r.goto, {})
    BY <2>3, <2>4, FieldMoves
  <2>6. w \in Mediator /\ Moves(w, r, {"current", "slots"}, 11, {}) /\ SameBut(w, q, {"goto"})
    BY <1>4, <2>3, <2>5, SwitchMoves, SwitchIs
  <2> HIDE DEF w
  <2>7. /\ s \in Mediator /\ Moves(s, r, {"current", "slots"}, 11, {} \cup {Event(20)})
        /\ SameBut(s, w, {"posted", "after"})
    BY <1>7, <2>6, EventMoves, EventIs
  <2>8. s.slots = a /\ s.current = n
    BY <2>4, <2>6, <2>7 DEF SameBut, FieldNames
  <2> QED
    BY <1>7, <2>2, <2>7, <2>8 DEF ClaimResult, s
<1> QED
  BY <1>3, <1>5, <1>6, <1>7 DEF w, q, n

\* A section is stored and counted; the last one ends the state.
SectionResult(s, r, event) ==
    /\ r.seen # 0 => s.profile.name = r.profile.name /\ s.profile.id = r.profile.id
    /\ \/ Moves(s, r, {"profile", "seen", "expected"}, r.goto, {})
       \/ Moves(s, r, {"profile", "seen", "expected"}, 9, {Event(event)})

\* A mediator keeps its type with another profile.
LEMMA ProfileTyped ==
    ASSUME NEW r \in Mediator, NEW p \in Profile
    PROVE  LET s == [r EXCEPT !.profile = p] IN
           s \in Mediator /\ SameBut(s, r, {"profile"}) /\ s.profile = p
<1>1. [r EXCEPT !.profile = p] \in Mediator
  BY ZenonT(200) DEF Mediator
<1>2. SameBut([r EXCEPT !.profile = p], r, {"profile"}) /\ [r EXCEPT !.profile = p].profile = p
  BY DEF Mediator, SameBut, FieldNames
<1> QED
  BY <1>1, <1>2

\* The count of the sections seen changes nothing else.
LEMMA SeenTyped ==
    ASSUME NEW r \in Mediator, NEW n \in 0 .. 255
    PROVE  LET s == [r EXCEPT !.seen = n] IN s \in Mediator /\ SameBut(s, r, {"seen"}) /\ s.seen = n
<1>1. [r EXCEPT !.seen = n] \in Mediator
  BY ZenonT(200) DEF Mediator
<1>2. SameBut([r EXCEPT !.seen = n], r, {"seen"}) /\ [r EXCEPT !.seen = n].seen = n
  BY DEF Mediator, SameBut, FieldNames
<1> QED
  BY <1>1, <1>2

\* The number of sections expected changes nothing else.
LEMMA ExpectedTyped ==
    ASSUME NEW r \in Mediator, NEW n \in 0 .. 255
    PROVE  LET s == [r EXCEPT !.expected = n] IN s \in Mediator /\ SameBut(s, r, {"expected"}) /\ s.expected = n
<1>1. [r EXCEPT !.expected = n] \in Mediator
  BY ZenonT(200) DEF Mediator
<1>2. SameBut([r EXCEPT !.expected = n], r, {"expected"}) /\ [r EXCEPT !.expected = n].expected = n
  BY DEF Mediator, SameBut, FieldNames
<1> QED
  BY <1>1, <1>2

\* A remainder is at most what is divided.
LEMMA Remainder ==
    ASSUME NEW n \in Nat, NEW d \in Nat \ {0}
    PROVE  n % d \in Nat /\ n % d <= n
<1>1. n % d \in 0 .. d - 1
  BY SMT
<1>2. n \div d \in Nat /\ n = d * (n \div d) + (n % d)
  BY SMTT(30)
<1>3. d * (n \div d) \in Nat
  <2> DEFINE q == n \div d
  <2>1. q \in Nat
    BY <1>2
  <2> HIDE DEF q
  <2>2. d * q \in Nat
    BY <2>1
  <2> QED
    BY <2>2 DEF q
<1> QED
  BY <1>1, <1>2, <1>3

\* Storing a section keeps a profile a profile, and whose it is.
LEMMA StoredTyped ==
    ASSUME NEW p \in Profile, NEW s \in SectionData
    PROVE  /\ Stored8(p, s) \in Profile /\ Stored8(p, s).name = p.name /\ Stored8(p, s).id = p.id
           /\ Stored11(p, s) \in Profile /\ Stored11(p, s).name = p.name /\ Stored11(p, s).id = p.id
<1> DEFINE n == s.number
<1>1. s.kind \in {"body", "list", "chunk"} /\ n \in Nat
  BY LoginAssumption DEF SectionData, Kinds
<1> HIDE DEF n
<1>2. LET b == [p EXCEPT !.body = n] IN b \in Profile /\ b.name = p.name /\ b.id = p.id
  BY <1>1 DEF Profile
<1>3. Listed(p, s) \in Profile /\ Listed(p, s).name = p.name /\ Listed(p, s).id = p.id
  <2> DEFINE length == (Len(p.list) + 1) % ListRoom
             a == SubSeq(Append(p.list, n), 1, length)
             c == p.cut \/ length = 0
             b == [p EXCEPT !.list = a, !.cut = c]
  <2>1. Listed(p, s) = b
    BY DEF Listed, Profile, n
  <2>2. p.list \in Seq(Nat) /\ p.cut \in BOOLEAN
    BY DEF Profile
  <2>3. Append(p.list, n) \in Seq(Nat) /\ Len(Append(p.list, n)) = Len(p.list) + 1 /\ Len(p.list) \in Nat
    BY <1>1, <2>2
  <2>4. length \in Nat /\ length <= Len(p.list) + 1
    <3> DEFINE x == Len(p.list) + 1
    <3>1. x \in Nat /\ ListRoom \in Nat \ {0}
      BY <2>3, LoginAssumption
    <3> HIDE DEF x
    <3>2. x % ListRoom \in Nat /\ x % ListRoom <= x
      BY <3>1, Remainder
    <3> QED
      BY <3>2 DEF x
  <2> HIDE DEF length
  <2>5. a \in Seq(Nat)
    BY <2>3, <2>4
  <2>6. c \in BOOLEAN
    OBVIOUS
  <2> HIDE DEF a, c
  <2>7. b \in Profile
    BY <2>5, <2>6, Zenon DEF Profile
  <2>8. b.name = p.name /\ b.id = p.id
    BY DEF Profile
  <2> QED
    BY <2>1, <2>7, <2>8
<1>4. LET b == [p EXCEPT !.chunks = p.chunks \cup {n}] IN b \in Profile /\ b.name = p.name /\ b.id = p.id
  BY <1>1 DEF Profile
<1>5. /\ Body(p, s) = [p EXCEPT !.body = n]
      /\ Chunk(p, s) = p \/ Chunk(p, s) = [p EXCEPT !.chunks = p.chunks \cup {n}]
  BY DEF Body, Chunk, Profile, n
<1>6. Stored8(p, s) \in Profile /\ Stored8(p, s).name = p.name /\ Stored8(p, s).id = p.id
  <2>1. CASE s.kind = "body"
    <3>1. Stored8(p, s) = [p EXCEPT !.body = n]
      BY <1>5, <2>1 DEF Stored8
    <3> QED
      BY <1>2, <3>1
  <2>2. CASE s.kind = "list"
    <3>1. Stored8(p, s) = Listed(p, s)
      BY <2>2 DEF Stored8
    <3> QED
      BY <1>3, <3>1
  <2>3. CASE s.kind = "chunk"
    <3>1. Stored8(p, s) = p \/ Stored8(p, s) = [p EXCEPT !.chunks = p.chunks \cup {n}]
      BY <1>5, <2>3 DEF Stored8
    <3> QED
      BY <1>4, <3>1
  <2> QED
    BY <1>1, <2>1, <2>2, <2>3
<1> QED
  BY <1>6 DEF Stored11

\* A new profile has the type of one.
LEMMA NamedTyped ==
    ASSUME NEW x \in Characters \cup {None}, NEW y \in Characters \cup {None}
    PROVE  [NoProfile EXCEPT !.name = x, !.id = y] \in Profile
<1>1. /\ None \in Characters \cup {None} /\ 0 \in Nat /\ <<>> \in Seq(Nat) /\ {} \in SUBSET Nat
      /\ FALSE \in BOOLEAN
  OBVIOUS
<1>2. NoProfile \in Profile
  BY <1>1, Zenon DEF NoProfile, Profile
<1> QED
  BY <1>2, Zenon DEF Profile

\* The end of a section's handler: on to state 9 when all have come.
LEMMA FinishedIs ==
    ASSUME NEW q \in Mediator, NEW r \in Mediator, Moves(q, r, {"profile", "seen", "expected"}, r.goto, {}),
           NEW event \in Nat
    PROVE  LET s == Finished(q, event) IN
           /\ s \in Mediator
           /\ s.profile = q.profile
           /\ \/ Moves(s, r, {"profile", "seen", "expected"}, r.goto, {})
              \/ Moves(s, r, {"profile", "seen", "expected"}, 9, {Event(event)})
<1> DEFINE F == {"profile", "seen", "expected"}
           z == 0
           a == [q EXCEPT !.seen = z]
           b == [a EXCEPT !.expected = z]
           w == Switch(b, 9)
           s == Finished(q, event)
<1>1. s = q \/ s = PostEvent(Switch([q EXCEPT !.seen = 0, !.expected = 0], 9), event)
  BY DEF Finished
<1>2. [q EXCEPT !.seen = 0, !.expected = 0] = b
  BY DEF Mediator
<1>3. z \in 0 .. 255
  OBVIOUS
<1> HIDE DEF z, s
<1>4. CASE s = q
  BY <1>4 DEF s
<1>5. CASE s = PostEvent(w, event)
  <2>1. a \in Mediator /\ SameBut(a, q, {"seen"})
    BY <1>3, SeenTyped
  <2> HIDE DEF a
  <2>2. b \in Mediator /\ SameBut(b, a, {"expected"})
    BY <1>3, <2>1, ExpectedTyped
  <2> HIDE DEF b
  <2>3. Moves(b, r, F, r.goto, {}) /\ b.profile = q.profile
    BY <2>1, <2>2 DEF Moves, SameBut, FieldNames, Announced
  <2>4. w \in Mediator /\ Moves(w, r, F, 9, {}) /\ SameBut(w, b, {"goto"})
    BY <2>2, <2>3, SwitchMoves, SwitchIs DEF StateIds
  <2> HIDE DEF w
  <2>5. s \in Mediator /\ Moves(s, r, F, 9, {} \cup {Event(event)}) /\ SameBut(s, w, {"posted", "after"})
    BY <1>5, <2>4, EventMoves, EventIs
  <2>6. s.profile = q.profile
    BY <2>3, <2>4, <2>5 DEF SameBut, FieldNames
  <2> QED
    BY <2>5, <2>6 DEF s
<1> QED
  BY <1>1, <1>2, <1>4, <1>5

\* The tail of both section handlers.
LEMMA SectionTail ==
    ASSUME NEW r \in Mediator, NEW f \in Mediator, SameBut(f, r, {"profile"}), NEW d \in SectionData,
           NEW p \in Profile, NEW event \in Nat
    PROVE  LET s == Finished(Counted([Seeded(f, d) EXCEPT !.profile = p]), event) IN
           /\ s \in Mediator
           /\ s.profile = p
           /\ \/ Moves(s, r, {"profile", "seen", "expected"}, r.goto, {})
              \/ Moves(s, r, {"profile", "seen", "expected"}, 9, {Event(event)})
<1> DEFINE x == Seeded(f, d)
           y == [x EXCEPT !.profile = p]
           n == IF y.seen < 255 THEN y.seen + 1 ELSE y.seen
           z == [y EXCEPT !.seen = n]
<1>1. x \in Mediator /\ SameBut(x, f, {"expected"})
  <2>1. d.number \in 0 .. 255
    BY LoginAssumption DEF SectionData
  <2>2. CASE d.final
    <3>1. x = [f EXCEPT !.expected = d.number]
      BY <2>2 DEF Seeded
    <3> HIDE DEF x
    <3> QED
      BY <2>1, <3>1, ExpectedTyped
  <2>3. CASE ~d.final
    <3>1. x = f
      BY <2>3 DEF Seeded
    <3> QED
      BY <3>1 DEF SameBut
  <2> QED
    BY <2>2, <2>3
<1> HIDE DEF x
<1>2. y \in Mediator /\ SameBut(y, x, {"profile"}) /\ y.profile = p
  BY <1>1, ProfileTyped
<1> HIDE DEF y
<1>3. y.seen \in 0 .. 255
  BY <1>2 DEF Mediator
<1>4. n \in 0 .. 255
  BY <1>3
<1>5. Counted(y) = z
  BY <1>2 DEF Counted, Mediator
<1> HIDE DEF n
<1>6. z \in Mediator /\ SameBut(z, y, {"seen"})
  BY <1>2, <1>4, SeenTyped
<1> HIDE DEF z
<1>7. SameBut(z, r, {"profile", "seen", "expected"}) /\ z.profile = p
  BY <1>1, <1>2, <1>6 DEF SameBut, FieldNames
<1>8. Moves(z, r, {"profile", "seen", "expected"}, r.goto, {})
  BY <1>6, <1>7, FieldMoves
<1>9. Finished(Counted([Seeded(f, d) EXCEPT !.profile = p]), event) = Finished(z, event)
  BY <1>5 DEF y, x
<1> QED
  BY <1>6, <1>7, <1>8, <1>9, FinishedIs

\* The handler of a section of a loaded profile.
LEMMA Section8Is ==
    ASSUME NEW r \in Mediator, NEW d \in SectionData
    PROVE  Section8(r, d) \in Mediator /\ SectionResult(Section8(r, d), r, 11)
<1> DEFINE p == [NoProfile EXCEPT !.name = SlotName(r), !.id = d.of]
           f == IF r.seen = 0 THEN [r EXCEPT !.profile = p] ELSE r
           g == Stored8(f.profile, d)
           x == Seeded(f, d)
           s == Section8(r, d)
<1>1. p \in Profile
  <2>1. SlotName(r) \in Characters \cup {None} /\ d.of \in Characters \cup {None}
    BY CurrentTyped DEF SectionData
  <2> QED
    BY <2>1, NamedTyped
<1> HIDE DEF p
<1>2. f \in Mediator /\ SameBut(f, r, {"profile"}) /\ (r.seen # 0 => f = r)
  <2>1. CASE r.seen = 0
    <3>1. f = [r EXCEPT !.profile = p]
      BY <2>1
    <3> HIDE DEF f
    <3> QED
      BY <1>1, <2>1, <3>1, ProfileTyped
  <2>2. CASE r.seen # 0
    <3>1. f = r
      BY <2>2
    <3> QED
      BY <3>1 DEF SameBut
  <2> QED
    BY <2>1, <2>2
<1>3. s = IF r.seen = 0 /\ SlotName(r) = None THEN f
          ELSE Finished(Counted([x EXCEPT !.profile = Stored8(@, d)]), 11)
  BY DEF Section8, Fresh8, p
<1> HIDE DEF f, s
<1>4. x.profile = f.profile /\ x \in Mediator
  <2>1. d.number \in 0 .. 255
    BY LoginAssumption DEF SectionData
  <2>2. x = f \/ x = [f EXCEPT !.expected = d.number]
    BY DEF Seeded
  <2>3. LET e == [f EXCEPT !.expected = d.number] IN e \in Mediator /\ SameBut(e, f, {"expected"})
    BY <1>2, <2>1, ExpectedTyped
  <2> HIDE DEF x
  <2> QED
    BY <1>2, <2>2, <2>3 DEF SameBut, FieldNames
<1>5. [x EXCEPT !.profile = Stored8(@, d)] = [x EXCEPT !.profile = g]
  BY <1>4 DEF Mediator
<1>6. f.profile \in Profile
  BY <1>2 DEF Mediator
<1>7. g \in Profile /\ g.name = f.profile.name /\ g.id = f.profile.id
  BY <1>6, StoredTyped
<1> HIDE DEF g
<1>8. CASE s = f
  <2>1. Moves(f, r, {"profile", "seen", "expected"}, r.goto, {})
    <3>1. SameBut(f, r, {"profile", "seen", "expected"})
      BY <1>2 DEF SameBut
    <3> QED
      BY <1>2, <3>1, FieldMoves
  <2> QED
    BY <1>2, <1>8, <2>1 DEF SectionResult, s
<1>9. CASE s = Finished(Counted([x EXCEPT !.profile = g]), 11)
  <2>1. /\ s \in Mediator
        /\ s.profile = g
        /\ \/ Moves(s, r, {"profile", "seen", "expected"}, r.goto, {})
           \/ Moves(s, r, {"profile", "seen", "expected"}, 9, {Event(11)})
    BY <1>2, <1>7, <1>9, SectionTail DEF x
  <2>2. r.seen # 0 => s.profile.name = r.profile.name /\ s.profile.id = r.profile.id
    BY <1>2, <1>7, <2>1
  <2>3. SectionResult(s, r, 11)
    BY <2>1, <2>2 DEF SectionResult
  <2> QED
    BY <2>1, <2>3 DEF s
<1> QED
  BY <1>3, <1>5, <1>8, <1>9

\* The handler of a section of a created profile.
LEMMA Section11Is ==
    ASSUME NEW r \in Mediator, NEW d \in SectionData
    PROVE  Section11(r, d) \in Mediator /\ SectionResult(Section11(r, d), r, 22)
<1> DEFINE p == [NoProfile EXCEPT !.name = CharacterName(r), !.id = d.of]
           f == IF r.seen = 0 THEN [r EXCEPT !.profile = p] ELSE r
           g == Stored11(f.profile, d)
           x == Seeded(f, d)
           s == Section11(r, d)
<1>1. p \in Profile
  <2>1. CharacterName(r) \in Characters \cup {None}
    BY CurrentTyped
  <2>2. d.of \in Characters \cup {None}
    BY DEF SectionData
  <2> QED
    BY <2>1, <2>2, NamedTyped
<1> HIDE DEF p
<1>2. f \in Mediator /\ SameBut(f, r, {"profile"}) /\ (r.seen # 0 => f = r)
  <2>1. CASE r.seen = 0
    <3>1. f = [r EXCEPT !.profile = p]
      BY <2>1
    <3> HIDE DEF f
    <3> QED
      BY <1>1, <2>1, <3>1, ProfileTyped
  <2>2. CASE r.seen # 0
    <3>1. f = r
      BY <2>2
    <3> QED
      BY <3>1 DEF SameBut
  <2> QED
    BY <2>1, <2>2
<1>3. s = Finished(Counted([x EXCEPT !.profile = Stored11(@, d)]), 22)
  BY DEF Section11, Fresh11, p
<1> HIDE DEF f, s
<1>4. x.profile = f.profile /\ x \in Mediator
  <2>1. d.number \in 0 .. 255
    BY LoginAssumption DEF SectionData
  <2>2. x = f \/ x = [f EXCEPT !.expected = d.number]
    BY DEF Seeded
  <2>3. LET e == [f EXCEPT !.expected = d.number] IN e \in Mediator /\ SameBut(e, f, {"expected"})
    BY <1>2, <2>1, ExpectedTyped
  <2> HIDE DEF x
  <2> QED
    BY <1>2, <2>2, <2>3 DEF SameBut, FieldNames
<1>5. [x EXCEPT !.profile = Stored11(@, d)] = [x EXCEPT !.profile = g]
  BY <1>4 DEF Mediator
<1>6. f.profile \in Profile
  BY <1>2 DEF Mediator
<1>7. g \in Profile /\ g.name = f.profile.name /\ g.id = f.profile.id
  BY <1>6, StoredTyped
<1> HIDE DEF g
<1>8. s = Finished(Counted([Seeded(f, d) EXCEPT !.profile = g]), 22)
  BY <1>3, <1>5 DEF x
<1> HIDE DEF x
<1>9. /\ s \in Mediator
      /\ s.profile = g
      /\ \/ Moves(s, r, {"profile", "seen", "expected"}, r.goto, {})
         \/ Moves(s, r, {"profile", "seen", "expected"}, 9, {Event(22)})
  <2>1. 22 \in Nat
    OBVIOUS
  <2> QED
    BY <1>2, <1>7, <1>8, <2>1, SectionTail
<1>10. r.seen # 0 => g.name = r.profile.name /\ g.id = r.profile.id
  BY <1>2, <1>7
<1>11. r.seen # 0 => s.profile.name = r.profile.name /\ s.profile.id = r.profile.id
  BY <1>9, <1>10
<1>12. SectionResult(s, r, 22)
  BY <1>9, <1>11 DEF SectionResult
<1> QED
  BY <1>9, <1>12 DEF s

\* What a margin server's message leads to.
MarginReply(s, r) ==
    \/ s = r
    \/ r.state = 6 /\ (ChallengeResult(s, r) \/ VerdictResult(s, r))
    \/ r.state = 7 /\ DeletedResult(s, r)
    \/ r.state = 8 /\ (SectionResult(s, r, 11) \/ Moves(s, r, {}, 3, Errors))
    \/ r.state = 11 /\ (SectionResult(s, r, 22) \/ Moves(s, r, {"current", "named"}, 3, Errors))
    \/ r.state = 10 /\ ClaimResult(s, r)
    \/ r.state = 9 /\ SubmittedResult(s, r)

\* A load that is refused is a failure to state 3.
LEMMA Failed8Is ==
    ASSUME NEW r \in Mediator
    PROVE  Failed8(r) \in Mediator /\ Moves(Failed8(r), r, {}, 3, Errors)
<1>1. 3 \in StateIds /\ 10 \in Nat
  BY DEF StateIds
<1> QED
  BY <1>1, SelfMoves, FailMoves DEF Failed8

\* A creation that is refused is a failure to state 3 without a selection and
\* without a name.
LEMMA Failed11Is ==
    ASSUME NEW r \in Mediator
    PROVE  Failed11(r) \in Mediator /\ Moves(Failed11(r), r, {"current", "named"}, 3, Errors)
<1> DEFINE q == [r EXCEPT !.current = None, !.named = FALSE]
<1>1. 3 \in StateIds /\ 12 \in Nat
  BY DEF StateIds
<1>2. q \in Mediator
  <2>1. None \in 0 .. MaxSlots - 1 \cup {None}
    OBVIOUS
  <2> QED
    BY <2>1, ZenonT(200) DEF Mediator
<1>3. SameBut(q, r, {"current", "named"})
  BY DEF Mediator, SameBut, FieldNames
<1>4. Failed11(r) = Fail(q, 3, 12)
  BY DEF Failed11
<1> HIDE DEF q
<1>5. Moves(q, r, {"current", "named"}, r.goto, {})
  BY <1>2, <1>3, FieldMoves
<1> QED
  BY <1>1, <1>2, <1>4, <1>5, FailMoves

\* The handler of a margin server's message, whatever the state.
LEMMA MarginMessageIs ==
    ASSUME NEW r \in Mediator, r.margin \in Links, CreateKnown(r), NEW msg \in Messages,
           msg.code = "section" /\ msg.status = "ok" => msg.data \in SectionData,
           NEW hashed \in BOOLEAN
    PROVE  LET s == MarginMessage(r, msg, hashed) IN s \in Mediator /\ MarginReply(s, r)
<1> DEFINE s == MarginMessage(r, msg, hashed)
<1>1. s = CASE r.state = 6 /\ msg.code = "challenge" -> SessionChallenge(r, hashed)
            [] r.state = 6 /\ msg.code = "verdict" -> SessionVerdict(r, msg.status)
            [] r.state = 7 /\ msg.code = "deleted" -> Deleted(r, msg.status)
            [] r.state = 8 /\ msg.code = "section" ->
                  IF msg.status = "ok" THEN Section8(r, msg.data) ELSE Failed8(r)
            [] r.state = 11 /\ msg.code = "section" ->
                  IF msg.status = "ok" THEN Section11(r, msg.data) ELSE Failed11(r)
            [] r.state = 10 /\ msg.code = "claimed" -> NameClaimed(r, msg.status)
            [] r.state = 9 /\ msg.code = "submitted" -> Submitted(r, msg.status)
            [] OTHER -> r
  BY DEF MarginMessage
<1> HIDE DEF s
<1>2. CASE r.state = 6 /\ msg.code = "challenge"
  <2>1. s = SessionChallenge(r, hashed)
    BY <1>1, <1>2
  <2> QED
    BY <1>2, <2>1, SessionChallengeIs DEF MarginReply, s
<1>3. CASE r.state = 6 /\ msg.code = "verdict"
  <2>1. s = SessionVerdict(r, msg.status)
    BY <1>1, <1>3
  <2> QED
    BY <1>3, <2>1, SessionVerdictIs DEF MarginReply, s
<1>4. CASE r.state = 7 /\ msg.code = "deleted"
  <2>1. s = Deleted(r, msg.status)
    BY <1>1, <1>4
  <2> QED
    BY <1>4, <2>1, DeletedIs DEF MarginReply, s
<1>5. CASE r.state = 8 /\ msg.code = "section"
  <2>1. s = IF msg.status = "ok" THEN Section8(r, msg.data) ELSE Failed8(r)
    BY <1>1, <1>5
  <2>2. msg.status = "ok" => msg.data \in SectionData
    BY <1>5
  <2> QED
    BY <1>5, <2>1, <2>2, Section8Is, Failed8Is DEF MarginReply, s
<1>6. CASE r.state = 11 /\ msg.code = "section"
  <2>1. s = IF msg.status = "ok" THEN Section11(r, msg.data) ELSE Failed11(r)
    BY <1>1, <1>6
  <2>2. msg.status = "ok" => msg.data \in SectionData
    BY <1>6
  <2> QED
    BY <1>6, <2>1, <2>2, Section11Is, Failed11Is DEF MarginReply, s
<1>7. CASE r.state = 10 /\ msg.code = "claimed"
  <2>1. s = NameClaimed(r, msg.status)
    BY <1>1, <1>7
  <2>2. r.create # None
    BY <1>7 DEF CreateKnown
  <2> QED
    BY <1>7, <2>1, <2>2, NameClaimedIs DEF MarginReply, s
<1>8. CASE r.state = 9 /\ msg.code = "submitted"
  <2>1. s = Submitted(r, msg.status)
    BY <1>1, <1>8
  <2> QED
    BY <1>8, <2>1, SubmittedIs DEF MarginReply, s
<1>9. CASE s = r
  BY <1>9 DEF MarginReply, s
<1> QED
  BY <1>1, <1>2, <1>3, <1>4, <1>5, <1>6, <1>7, <1>8, <1>9

\* An item of the queue, and what it is about.
ItemFit(r, i) ==
    /\ r.link[i.link].kind # "free"
    /\ i.type = "Packet" => (r.link[i.link].kind = "auth" <=> i.msg.code = "authReply")
    /\ i.msg.code = "authReply" =>
          i.msg.status \in {"ok", "badKey", "badSignature", "refused", "garbled", "oversized"}
    /\ i.msg.code = "section" /\ i.msg.status = "ok" => i.msg.data \in SectionData

\* The connection of an oversized packet is closed.
HardClosed(s, r, l) ==
    /\ Moves(s, r, {"link"}, r.goto, {})
    /\ \A k \in Links : SameLink(s.link[k], r.link[k], {"st"})
    /\ \A k \in Links : s.link[k] # r.link[k] =>
          /\ k = l
          /\ r.link[k].st \in {"ConnectActive", "UdpMonitorActive"}
          /\ s.link[k].st = "Dead"

\* What a completed operation leads to.
CompletedResult(s, r, i) ==
    \/ s = r
    \/ i.link = r.auth /\ (AuthLost(s, r) \/ AuthResult(s, r) \/ AuthReply(s, r, i.msg.characters))
    \/ i.link = r.margin /\ (MarginLost(s, r) \/ MarginResult(s, r) \/ MarginReply(s, r))
    \/ CopyResult(s, r, i.link)
    \/ HardClosed(s, r, i.link)
    \/ Moves(s, r, {"unread"}, r.goto, {})

\* An oversized packet closes its connection and does nothing else.
LEMMA HardClosedIs ==
    ASSUME NEW r \in Mediator, NEW l \in Links
    PROVE  CloseHard(r, l) \in Mediator /\ HardClosed(CloseHard(r, l), r, l)
<1> DEFINE s == CloseHard(r, l)
<1>1. /\ s \in Mediator
      /\ SameBut(s, r, {"link"})
      /\ \A k \in Links : SameLink(s.link[k], r.link[k], {"st"})
      /\ \A k \in Links : s.link[k] # r.link[k] =>
            /\ k = l
            /\ r.link[k].st \in {"ConnectActive", "UdpMonitorActive"}
            /\ s.link[k].st = "Dead"
  BY CloseHardIs
<1> HIDE DEF s
<1>2. Moves(s, r, {"link"}, r.goto, {})
  BY <1>1, FieldMoves
<1> QED
  BY <1>1, <1>2 DEF HardClosed, s

\* A message that cannot be read is noted at most.
LEMMA UnreadIs ==
    ASSUME NEW r \in Mediator, NEW i
    PROVE  Unread(r, i) \in Mediator /\ Moves(Unread(r, i), r, {"unread"}, r.goto, {})
<1> DEFINE q == [r EXCEPT !.unread = TRUE]
           s == Unread(r, i)
<1>1. q \in Mediator
  BY ZenonT(200) DEF Mediator
<1>2. SameBut(q, r, {"unread"})
  BY DEF Mediator, SameBut, FieldNames
<1>3. s = r \/ s = q
  BY DEF Unread
<1> HIDE DEF q, s
<1>4. s \in Mediator /\ SameBut(s, r, {"unread"})
  BY <1>1, <1>2, <1>3 DEF SameBut
<1> QED
  BY <1>4, FieldMoves DEF s

\* The handler of any completed operation that is read.
LEMMA DispatchedIs ==
    ASSUME NEW r \in Mediator, r.goto = None, Fit(r), NEW i \in Items, ItemFit(r, i), NEW hashed \in BOOLEAN,
           i.type = "Packet" => i.msg.status \notin {"garbled", "oversized"}
    PROVE  LET s == Dispatched(r, i, hashed) IN s \in Mediator /\ CompletedResult(s, r, i)
<1> DEFINE s == Dispatched(r, i, hashed)
<1>1. i.link \in Links /\ i.msg \in Messages /\ i.msg.characters \in Seq(Characters)
  BY DEF Items, Messages
<1>2. s = CASE i.type = "Close" /\ i.link = r.auth -> AuthClosed(r)
            [] i.type = "Close" /\ i.link = r.margin -> MarginClosed(r)
            [] i.type = "Status" /\ i.link = r.auth -> AuthStatus(r, i.msg.status)
            [] i.type = "Status" /\ i.link = r.margin -> MarginStatus(r, i.msg.status)
            [] i.type = "Packet" /\ i.link = r.auth -> AuthMessage(r, i.msg)
            [] i.type = "Packet" /\ i.msg.code = "copied" -> CopyAnswered(r, i.link, i.msg.status)
            [] i.type = "Packet" /\ i.msg.code # "copied" /\ i.link = r.margin ->
                  MarginMessage(r, i.msg, hashed)
            [] OTHER -> r
  BY DEF Dispatched
<1> HIDE DEF s
<1>3. CASE s = AuthClosed(r) /\ i.link = r.auth
  BY <1>3, AuthClosedIs DEF CompletedResult, s
<1>4. CASE s = MarginClosed(r) /\ i.link = r.margin
  BY <1>4, MarginClosedIs DEF CompletedResult, s
<1>5. CASE s = AuthStatus(r, i.msg.status) /\ i.link = r.auth
  BY <1>5, AuthStatusIs DEF CompletedResult, s
<1>6. CASE s = MarginStatus(r, i.msg.status) /\ i.link = r.margin
  BY <1>6, MarginStatusIs DEF CompletedResult, s
<1>7. CASE s = AuthMessage(r, i.msg) /\ i.type = "Packet" /\ i.link = r.auth
  <2>1. r.link[i.link].kind = "auth"
    BY <1>1, <1>7, LoginAssumption DEF Fit, LinkFit
  <2>2. i.msg.status \in {"ok", "badKey", "badSignature", "refused"}
    BY <1>7, <2>1 DEF ItemFit
  <2> QED
    BY <1>1, <1>7, <2>2, AuthMessageIs DEF CompletedResult, s
<1>8. CASE s = CopyAnswered(r, i.link, i.msg.status)
  BY <1>1, <1>8, CopyAnsweredIs DEF CompletedResult, s
<1>9. CASE s = MarginMessage(r, i.msg, hashed) /\ i.link = r.margin
  <2>1. i.msg.code = "section" /\ i.msg.status = "ok" => i.msg.data \in SectionData
    BY DEF ItemFit
  <2> QED
    BY <1>1, <1>9, <2>1, MarginMessageIs DEF CompletedResult, s, Fit
<1>10. CASE s = r
  BY <1>10 DEF CompletedResult, s
<1> QED
  BY <1>2, <1>3, <1>4, <1>5, <1>6, <1>7, <1>8, <1>9, <1>10

\* The handler of any completed operation.
LEMMA CompletedIs ==
    ASSUME NEW r \in Mediator, r.goto = None, Fit(r), NEW i \in Items, ItemFit(r, i), NEW hashed \in BOOLEAN
    PROVE  LET s == Completed(r, i, hashed) IN s \in Mediator /\ CompletedResult(s, r, i)
<1>1. i.link \in Links
  BY DEF Items
<1>2. CASE i.type = "Packet" /\ i.msg.status = "oversized"
  BY <1>1, <1>2, HardClosedIs DEF Completed, CompletedResult
<1>3. CASE i.type = "Packet" /\ i.msg.status = "garbled"
  BY <1>3, UnreadIs DEF Completed, CompletedResult
<1>4. CASE i.type = "Packet" => i.msg.status \notin {"garbled", "oversized"}
  BY <1>4, DispatchedIs DEF Completed
<1> QED
  BY <1>2, <1>3, <1>4

\* What a handler does to a connection: it closes it or notes a server's answer
\* on it, answers a challenge, or puts a new one in the place of a free one.
LinkHandled(x, y) ==
    \/ /\ SameLink(x, y, {"st", "ok4", "challenged"})
       /\ y.kind = "free" => x.st = y.st
    \/ /\ y.kind = "margin"
       /\ SameLink(x, y, {"asked", "challenged"})
       /\ x.asked = Append(y.asked, [what |-> "answer", who |-> None])
    \/ /\ y.kind = "free"
       /\ \E kind \in {"auth", "margin"}, st \in {"ConnectActive", "Closed"} :
             x = [FreeLink EXCEPT !.kind = kind, !.st = st]

\* What handlers do to a connection keeps its requests fitting.
LEMMA LinkHandledFits ==
    ASSUME NEW x \in Link, NEW y \in Link, LinkHandled(x, y), Fits(y)
    PROVE  Fits(x) /\ (y.kind # "free" => x.kind = y.kind)
<1>1. CASE SameLink(x, y, {"st", "ok4", "challenged"}) /\ (y.kind = "free" => x.st = y.st)
  <2>1. x.kind = y.kind /\ x.asked = y.asked
    BY <1>1 DEF SameLink, LinkFieldNames
  <2> QED
    BY <1>1, <2>1 DEF Fits
<1>2. CASE /\ y.kind = "margin"
           /\ SameLink(x, y, {"asked", "challenged"})
           /\ x.asked = Append(y.asked, [what |-> "answer", who |-> None])
  <2>1. x.kind = "margin" /\ x.st = y.st
    BY <1>2 DEF SameLink, LinkFieldNames
  <2>2. y.asked \in Seq(Request) /\ [what |-> "answer", who |-> None] \in Request
    BY LinkFields DEF Request, Requested
  <2>3. \A i \in DOMAIN x.asked :
           \/ i \in DOMAIN y.asked /\ x.asked[i] = y.asked[i]
           \/ x.asked[i] = [what |-> "answer", who |-> None]
    BY <1>2, <2>2, AppendElements
  <2>4. ASSUME NEW i \in DOMAIN x.asked
        PROVE  \/ x.asked[i].what = "answer"
               \/ i \in DOMAIN y.asked /\ x.asked[i] = y.asked[i]
    <3>1. [what |-> "answer", who |-> None].what = "answer"
      OBVIOUS
    <3>2. CASE x.asked[i] = [what |-> "answer", who |-> None]
      BY <3>1, <3>2
    <3> QED
      BY <2>3, <3>2
  <2>5. ASSUME NEW i \in DOMAIN y.asked
        PROVE  y.asked[i].what # "login" /\ (y.asked[i].what = "create" => y.asked[i].who # None)
    BY <1>2 DEF Fits
  <2> QED
    BY <1>2, <2>1, <2>4, <2>5 DEF Fits
<1>3. CASE /\ y.kind = "free"
           /\ \E kind \in {"auth", "margin"}, st \in {"ConnectActive", "Closed"} :
                 x = [FreeLink EXCEPT !.kind = kind, !.st = st]
  <2>1. PICK kind \in {"auth", "margin"}, st \in {"ConnectActive", "Closed"} :
           x = [FreeLink EXCEPT !.kind = kind, !.st = st]
    BY <1>3
  <2>2. Fits(x)
    BY <2>1, NewFits
  <2> QED
    BY <1>3, <2>2
<1> QED
  BY <1>1, <1>2, <1>3 DEF LinkHandled

\* A handler that leaves the pointers, or points to connections of their kind,
\* keeps all fitting.
LEMMA HandledFit ==
    ASSUME NEW s \in Mediator, NEW r \in Mediator, Fit(r),
           \A k \in Links : LinkHandled(s.link[k], r.link[k]),
           s.auth \in {None, r.auth} \/ s.link[s.auth].kind = "auth",
           s.margin \in {None, r.margin} \/ s.link[s.margin].kind = "margin",
           Len(s.slots) <= MaxSlots, CreateKnown(s)
    PROVE  Fit(s) /\ Kept(s, r)
<1>1. \A k \in Links : s.link[k] \in Link /\ r.link[k] \in Link
  BY FieldsTyped
<1>2. \A k \in Links : Fits(s.link[k]) /\ (r.link[k].kind # "free" => s.link[k].kind = r.link[k].kind)
  BY <1>1, LinkHandledFits DEF Fit, LinkFit
<1>3. s.auth # None => s.link[s.auth].kind = "auth"
  BY <1>2, FieldsTyped DEF Fit, LinkFit
<1>4. s.margin # None => s.link[s.margin].kind = "margin"
  BY <1>2, FieldsTyped DEF Fit, LinkFit
<1> QED
  BY <1>2, <1>3, <1>4 DEF Fit, LinkFit, Kept

\* A connection a handler does not touch.
LEMMA SameHandled ==
    ASSUME NEW x
    PROVE  LinkHandled(x, x)
  BY DEF LinkHandled, SameLink

\* What is known of a character to create stays so with fewer places to come back to.
LEMMA CreateStays ==
    ASSUME NEW s \in Mediator, NEW r \in Mediator, CreateKnown(r), s.create = r.create, s.state = r.state,
           \A k \in Cachers : s.up[k] \in {r.up[k], None},
           s.goto \in {10, 11} => r.create # None
    PROVE  CreateKnown(s)
<1>1. None \notin {10, 11}
  BY LoginAssumption
<1> QED
  BY <1>1 DEF CreateKnown

\* The fit of what a handler makes of r.
LEMMA MovedFit ==
    ASSUME NEW s \in Mediator, NEW r \in Mediator, Fit(r), NEW F, NEW t, NEW E, Moves(s, r, F, t, E),
           F \cap {"create", "state"} = {},
           \A k \in Links : LinkHandled(s.link[k], r.link[k]),
           s.auth \in {None, r.auth} \/ s.link[s.auth].kind = "auth",
           s.margin \in {None, r.margin} \/ s.link[s.margin].kind = "margin",
           s.up \in {r.up, Forgotten4(r)},
           Len(s.slots) <= MaxSlots,
           t \in {10, 11} => r.create # None
    PROVE  Fit(s) /\ Kept(s, r)
<1>1. s.create = r.create /\ s.state = r.state /\ s.goto = t
  BY DEF Moves, SameBut, FieldNames
<1>2. \A k \in Cachers : s.up[k] \in {r.up[k], None}
  BY FieldsTyped DEF Forgotten4, Cachers
<1>3. CreateKnown(s)
  BY <1>1, <1>2, CreateStays DEF Fit
<1> QED
  BY <1>3, HandledFit

\* The fit of what it makes of r without a change of the connections.
LEMMA SettledLinksFit ==
    ASSUME NEW s \in Mediator, NEW r \in Mediator, Fit(r), NEW F, NEW t, NEW E, Moves(s, r, F, t, E),
           F \cap {"create", "state", "link", "slots"} = {},
           s.auth \in {None, r.auth},
           s.margin \in {None, r.margin},
           s.up \in {r.up, Forgotten4(r)},
           t \in {10, 11} => r.create # None
    PROVE  Fit(s) /\ Kept(s, r)
<1>1. s.link = r.link /\ s.slots = r.slots
  BY DEF Moves, SameBut, FieldNames
<1>2. \A k \in Links : LinkHandled(s.link[k], r.link[k])
  BY <1>1, SameHandled
<1>3. Len(s.slots) <= MaxSlots
  BY <1>1 DEF Fit
<1> QED
  BY <1>2, <1>3, MovedFit

\* A handler that changes nothing keeps all fitting.
LEMMA SameFit ==
    ASSUME NEW r, Fit(r)
    PROVE  Fit(r) /\ Kept(r, r)
  BY DEF Kept

\* Where a handler goes back to.
LEMMA UpKnown ==
    ASSUME NEW r \in Mediator, CreateKnown(r), NEW k \in Cachers
    PROVE  r.up[k] \in {10, 11} \/ Phase(r.up[k]) \in {10, 11} => r.create # None
<1>1. Phase(r.up[k]) \in {0, r.up[k]}
  BY DEF Phase
<1> QED
  BY <1>1 DEF CreateKnown

\* Losing the authentication connection keeps all fitting.
LEMMA AuthLostFit ==
    ASSUME NEW s \in Mediator, NEW r \in Mediator, r.goto = None, Fit(r), AuthLost(s, r)
    PROVE  Fit(s) /\ Kept(s, r)
<1>1. PICK t \in {None, 0}, E \in {{Event(1)}, Errors} : Moves(s, r, {"auth"}, t, E)
  BY DEF AuthLost
<1>2. s.margin = r.margin /\ s.up = r.up /\ s.auth = None
  BY <1>1 DEF Moves, SameBut, FieldNames, AuthLost
<1>3. t \notin {10, 11}
  BY <1>1, LoginAssumption
<1> QED
  BY <1>1, <1>2, <1>3, SettledLinksFit

\* Losing the margin connection keeps all fitting.
LEMMA MarginLostFit ==
    ASSUME NEW s \in Mediator, NEW r \in Mediator, r.goto = None, Fit(r), MarginLost(s, r)
    PROVE  Fit(s) /\ Kept(s, r)
<1>1. PICK t \in {None, 3}, E \in {{}, {Event(15)}, Errors} : Moves(s, r, {"margin"}, t, E)
  BY DEF MarginLost
<1>2. s.auth = r.auth /\ s.up = r.up /\ s.margin = None
  BY <1>1 DEF Moves, SameBut, FieldNames, MarginLost
<1>3. t \notin {10, 11}
  BY <1>1, LoginAssumption
<1> QED
  BY <1>1, <1>2, <1>3, SettledLinksFit

\* The authentication connection's status keeps all fitting.
LEMMA AuthResultFit ==
    ASSUME NEW s \in Mediator, NEW r \in Mediator, r.goto = None, Fit(r), AuthResult(s, r)
    PROVE  Fit(s) /\ Kept(s, r)
<1>1. CASE s = r
  BY <1>1, SameFit
<1>2. CASE Moves(s, r, {}, r.up[1], {Event(0)})
  <2>1. s.auth = r.auth /\ s.margin = r.margin /\ s.up = r.up
    BY <1>2 DEF Moves, SameBut, FieldNames
  <2>2. r.up[1] \in {10, 11} => r.create # None
    BY UpKnown DEF Fit, Cachers
  <2> QED
    BY <1>2, <2>1, <2>2, SettledLinksFit
<1>3. CASE Moves(s, r, {"flag2c", "attempts"}, 0, Errors)
  <2>1. s.auth = r.auth /\ s.margin = r.margin /\ s.up = r.up
    BY <1>3 DEF Moves, SameBut, FieldNames
  <2> QED
    BY <1>3, <2>1, SettledLinksFit
<1>4. CASE /\ SameBut(s, r, {"auth", "link", "full", "flag2c", "authList", "attempts"})
           /\ Opened(s, r, "auth", {"ConnectActive"})
           /\ \A k \in Links : s.link[k].st # r.link[k].st =>
                 \/ /\ k = r.auth /\ s.link[k].st = "Closing"
                    /\ r.link[k].st \in {"ConnectActive", "UdpMonitorActive"}
                 \/ /\ k = s.auth /\ r.link[k].kind = "free"
                    /\ s.link[k] = [FreeLink EXCEPT !.kind = "auth", !.st = "ConnectActive"]
  <2>1. /\ s.margin = r.margin /\ s.up = r.up /\ s.slots = r.slots /\ s.create = r.create
        /\ s.state = r.state /\ s.goto = r.goto
    BY <1>4 DEF SameBut, FieldNames
  <2>2. ASSUME NEW k \in Links
        PROVE  LinkHandled(s.link[k], r.link[k])
    <3>1. r.link[k].kind = "free" => r.link[k].st = "Closed"
      BY DEF Fit, LinkFit, Fits
    <3>2. CASE s.link[k] = [FreeLink EXCEPT !.kind = "auth", !.st = "ConnectActive"] /\ r.link[k].kind = "free"
      BY <3>2 DEF LinkHandled
    <3>3. CASE SameLink(s.link[k], r.link[k], {"st"})
      <4>1. SameLink(s.link[k], r.link[k], {"st", "ok4", "challenged"})
        BY <3>3 DEF SameLink
      <4>2. CASE s.link[k].st = r.link[k].st
        BY <4>1, <4>2 DEF LinkHandled
      <4>3. CASE r.link[k].st \in {"ConnectActive", "UdpMonitorActive"}
        BY <3>1, <4>1, <4>3 DEF LinkHandled
      <4> QED
        BY <1>4, <3>2, <4>2, <4>3
    <3>4. CASE s.full
      BY <1>4, <3>2, <3>3, <3>4 DEF Opened
    <3> QED
      BY <1>4, <3>2, <3>3 DEF Opened
  <2>3. s.auth = r.auth \/ s.link[s.auth].kind = "auth"
    <3>1. s.auth = r.auth \/ s.link[s.auth] = [FreeLink EXCEPT !.kind = "auth", !.st = "ConnectActive"]
      BY <1>4 DEF Opened
    <3>2. [FreeLink EXCEPT !.kind = "auth", !.st = "ConnectActive"].kind = "auth"
      BY NewFits
    <3> QED
      BY <3>1, <3>2
  <2>4. Len(s.slots) <= MaxSlots /\ CreateKnown(s)
    BY <2>1 DEF Fit, CreateKnown
  <2> QED
    BY <2>1, <2>2, <2>3, <2>4, HandledFit
<1> QED
  BY <1>1, <1>2, <1>3, <1>4 DEF AuthResult

\* The authentication server's reply keeps all fitting.
LEMMA AuthReplyFit ==
    ASSUME NEW s \in Mediator, NEW r \in Mediator, r.goto = None, Fit(r), NEW q \in Seq(Characters), AuthReply(s, r, q)
    PROVE  Fit(s) /\ Kept(s, r)
<1>1. CASE s = r
  BY <1>1, SameFit
<1>2. CASE Moves(s, r, {"flag2c"}, 0, Errors)
  <2>1. s.auth = r.auth /\ s.margin = r.margin /\ s.up = r.up
    BY <1>2 DEF Moves, SameBut, FieldNames
  <2> QED
    BY <1>2, <2>1, SettledLinksFit
<1>3. CASE /\ r.gate => s.slots = r.slots
           /\ ~r.gate => s.slots = SlotRecords(q)
           /\ Moves(s, r, {"flag2c", "gate", "current", "slots", "fresh"},
                    IF r.up[2] \in {0, None} THEN 3 ELSE r.up[2], {Event(5), Event(6)})
  <2> DEFINE t == IF r.up[2] \in {0, None} THEN 3 ELSE r.up[2]
  <2>1. s.auth = r.auth /\ s.margin = r.margin /\ s.up = r.up /\ s.link = r.link
    BY <1>3 DEF Moves, SameBut, FieldNames
  <2>2. Len(s.slots) <= MaxSlots
    BY <1>3, SlotRecordsTyped DEF Fit
  <2>3. t \in {10, 11} => r.create # None
    BY UpKnown DEF Fit, Cachers
  <2>4. \A k \in Links : LinkHandled(s.link[k], r.link[k])
    BY <2>1, SameHandled
  <2> HIDE DEF t
  <2>5. Moves(s, r, {"flag2c", "gate", "current", "slots", "fresh"}, t, {Event(5), Event(6)})
    BY <1>3 DEF t
  <2> QED
    BY <2>1, <2>2, <2>3, <2>4, <2>5, MovedFit
<1> QED
  BY <1>1, <1>2, <1>3 DEF AuthReply

\* Opening a margin connection keeps all fitting.
LEMMA MarginOpenedFit ==
    ASSUME NEW s \in Mediator, NEW r \in Mediator, r.goto = None, Fit(r), MarginOpened(s, r)
    PROVE  Fit(s) /\ Kept(s, r)
<1>1. /\ s.auth = r.auth /\ s.up = r.up /\ s.slots = r.slots /\ s.create = r.create
      /\ s.state = r.state /\ s.goto = r.goto
  BY DEF MarginOpened, MarginFields, SameBut, FieldNames
<1>2. \A k \in Links : LinkHandled(s.link[k], r.link[k])
  BY SameHandled DEF MarginOpened, LinkHandled
<1>3. s.margin = r.margin \/ s.link[s.margin].kind = "margin"
  <2>1. CASE s.margin # r.margin
    <3>1. PICK st \in {"ConnectActive", "Closed"} :
             \/ s.link[s.margin] = [FreeLink EXCEPT !.kind = "margin", !.st = st]
             \/ s.margin = r.margin
      BY <2>1 DEF MarginOpened, Opened
    <3>2. [FreeLink EXCEPT !.kind = "margin", !.st = st].kind = "margin"
      BY NewFits
    <3> QED
      BY <3>1, <3>2
  <2> QED
    BY <2>1
<1>4. Len(s.slots) <= MaxSlots /\ CreateKnown(s)
  BY <1>1 DEF Fit, CreateKnown
<1> QED
  BY <1>1, <1>2, <1>3, <1>4, HandledFit

\* The margin connection's status keeps all fitting.
LEMMA MarginResultFit ==
    ASSUME NEW s \in Mediator, NEW r \in Mediator, r.goto = None, Fit(r), MarginResult(s, r)
    PROVE  Fit(s) /\ Kept(s, r)
<1>1. CASE s = r
  BY <1>1, SameFit
<1>2. CASE s.up = Forgotten4(r) /\ Moves(s, r, {"up"}, Phase(r.up[4]), {Event(14)})
  <2>1. s.auth = r.auth /\ s.margin = r.margin
    BY <1>2 DEF Moves, SameBut, FieldNames
  <2>2. Phase(r.up[4]) \in {10, 11} => r.create # None
    BY UpKnown DEF Fit, Cachers
  <2> QED
    BY <1>2, <2>1, <2>2, SettledLinksFit
<1>3. CASE s.up = Forgotten4(r) /\ Moves(s, r, {"up", "flag2d", "begins"}, 3, Errors)
  <2>1. s.auth = r.auth /\ s.margin = r.margin
    BY <1>3 DEF Moves, SameBut, FieldNames
  <2> QED
    BY <1>3, <2>1, SettledLinksFit
<1>4. CASE MarginOpened(s, r)
  BY <1>4, MarginOpenedFit
<1>5. CASE Moves(s, r, {"flag2d"}, r.goto, Errors)
  <2>1. s.auth = r.auth /\ s.margin = r.margin /\ s.up = r.up
    BY <1>5 DEF Moves, SameBut, FieldNames
  <2>2. r.goto \notin {10, 11}
    BY LoginAssumption
  <2> QED
    BY <1>5, <2>1, <2>2, SettledLinksFit
<1> QED
  BY <1>1, <1>2, <1>3, <1>4, <1>5 DEF MarginResult

\* The answer to the copy keeps all fitting.
LEMMA CopyResultFit ==
    ASSUME NEW s \in Mediator, NEW r \in Mediator, r.goto = None, Fit(r), NEW l \in Links, CopyResult(s, r, l)
    PROVE  Fit(s) /\ Kept(s, r)
<1>1. SameLink(s.link[l], r.link[l], {"st", "ok4", "challenged"}) /\ s.link[l].st = r.link[l].st
  BY DEF CopyResult, SameLink, LinkFieldNames
<1>2. \A k \in Links : LinkHandled(s.link[k], r.link[k])
  <2>1. LinkHandled(s.link[l], r.link[l])
    BY <1>1 DEF LinkHandled
  <2>2. \A k \in Links \ {l} : LinkHandled(s.link[k], r.link[k])
    BY SameHandled DEF CopyResult
  <2> QED
    BY <2>1, <2>2
<1>3. PICK t \in {None, Phase(r.up[5])}, F \in {{"link"}, {"link", "flag2d"}} : Moves(s, r, F, t, {})
  <2>1. CASE SameBut(s, r, {"link"})
    <3>1. Moves(s, r, {"link"}, None, {})
      BY <2>1, FieldMoves
    <3> QED
      BY <3>1
  <2> QED
    BY <2>1 DEF CopyResult
<1>4. s.auth = r.auth /\ s.margin = r.margin /\ s.up = r.up /\ s.slots = r.slots
  BY <1>3 DEF Moves, SameBut, FieldNames
<1>5. t \in {10, 11} => r.create # None
  <2>1. None \notin {10, 11}
    BY LoginAssumption
  <2> QED
    BY <1>3, <2>1, UpKnown DEF Fit, Cachers
<1> QED
  BY <1>2, <1>3, <1>4, <1>5, MovedFit DEF Fit

\* A request to close the margin connection keeps it.
LEMMA ClosingHandled ==
    ASSUME NEW s \in Mediator, NEW r \in Mediator, Fit(r), MarginClosing(s, r)
    PROVE  \A k \in Links : LinkHandled(s.link[k], r.link[k])
<1> TAKE k \in Links
<1>1. r.link[k].kind = "free" => r.link[k].st = "Closed"
  BY DEF Fit, LinkFit, Fits
<1>2. SameLink(s.link[k], r.link[k], {"st", "ok4", "challenged"})
  BY DEF MarginClosing, SameLink
<1>3. CASE s.link[k] = r.link[k]
  BY <1>3, SameHandled
<1>4. CASE s.link[k] # r.link[k]
  <2>1. r.link[k].kind # "free"
    BY <1>1, <1>4 DEF MarginClosing
  <2> QED
    BY <1>2, <2>1 DEF LinkHandled
<1> QED
  BY <1>3, <1>4

\* The challenge keeps all fitting.
LEMMA ChallengeFit ==
    ASSUME NEW s \in Mediator, NEW r \in Mediator, r.goto = None, Fit(r), r.margin \in Links,
           ChallengeResult(s, r)
    PROVE  Fit(s) /\ Kept(s, r)
<1>1. CASE Moves(s, r, {}, 0, Errors)
  <2>1. s.auth = r.auth /\ s.margin = r.margin /\ s.up = r.up
    BY <1>1 DEF Moves, SameBut, FieldNames
  <2> QED
    BY <1>1, <2>1, SettledLinksFit
<1>2. CASE /\ SameBut(s, r, {"F14", "link"})
           /\ SameLink(s.link[r.margin], r.link[r.margin], {"challenged", "asked"})
           /\ \/ s.link[r.margin].asked = r.link[r.margin].asked
              \/ s.link[r.margin].asked
                     = Append(r.link[r.margin].asked, [what |-> "answer", who |-> None])
           /\ \A k \in Links \ {r.margin} : s.link[k] = r.link[k]
  <2> DEFINE x == s.link[r.margin]
             y == r.link[r.margin]
  <2>1. y.kind = "margin"
    BY LoginAssumption DEF Fit, LinkFit
  <2>2. SameLink(x, y, {"challenged", "asked"})
    BY <1>2
  <2>3. x.asked = y.asked \/ x.asked = Append(y.asked, [what |-> "answer", who |-> None])
    BY <1>2
  <2>4. \A k \in Links \ {r.margin} : LinkHandled(s.link[k], r.link[k])
    BY <1>2, SameHandled
  <2> HIDE DEF x, y
  <2>5. LinkHandled(x, y)
    <3>1. x.st = y.st
      BY <2>2 DEF SameLink, LinkFieldNames
    <3>2. CASE x.asked = y.asked
      <4>1. SameLink(x, y, {"st", "ok4", "challenged"})
        BY <2>2, <3>2 DEF SameLink, LinkFieldNames
      <4> QED
        BY <3>1, <4>1 DEF LinkHandled
    <3>3. CASE x.asked = Append(y.asked, [what |-> "answer", who |-> None])
      <4>1. SameLink(x, y, {"asked", "challenged"})
        BY <2>2 DEF SameLink
      <4> QED
        BY <2>1, <3>3, <4>1 DEF LinkHandled
    <3> QED
      BY <2>3, <3>2, <3>3
  <2>6. \A k \in Links : LinkHandled(s.link[k], r.link[k])
    BY <2>4, <2>5 DEF x, y
  <2>7. s.auth = r.auth /\ s.margin = r.margin /\ s.up = r.up /\ s.slots = r.slots /\ s.goto = r.goto
    BY <1>2 DEF SameBut, FieldNames
  <2>8. Moves(s, r, {"F14", "link"}, None, {})
    BY <1>2, FieldMoves
  <2>9. None \notin {10, 11}
    BY LoginAssumption
  <2> QED
    BY <2>6, <2>7, <2>8, <2>9, MovedFit DEF Fit
<1> QED
  BY <1>1, <1>2 DEF ChallengeResult

\* What a message leads to that may close the margin connection.
LEMMA ClosingFit ==
    ASSUME NEW s \in Mediator, NEW r \in Mediator, Fit(r), MarginClosing(s, r),
           NEW F \in SUBSET {"link", "flag2d", "F14", "begins"}, NEW t \in 0 .. 9 \cup {12, 13}, NEW E,
           Moves(s, r, F, t, E)
    PROVE  Fit(s) /\ Kept(s, r)
<1>1. s.auth = r.auth /\ s.margin = r.margin /\ s.up = r.up /\ s.slots = r.slots
  BY DEF Moves, SameBut, FieldNames
<1>2. \A k \in Links : LinkHandled(s.link[k], r.link[k])
  BY ClosingHandled
<1> QED
  BY <1>1, <1>2, MovedFit DEF Fit

\* What a message leads to that fails or goes on with the character at hand.
LEMMA RepliedFit ==
    ASSUME NEW s \in Mediator, NEW r \in Mediator, Fit(r),
           NEW F \in SUBSET {"profile", "seen", "expected", "current", "named", "unread"}, NEW t \in 0 .. 9 \cup {None}, NEW E,
           Moves(s, r, F, t, E)
    PROVE  Fit(s) /\ Kept(s, r)
<1>1. s.auth = r.auth /\ s.margin = r.margin /\ s.up = r.up
  BY DEF Moves, SameBut, FieldNames
<1>2. t \notin {10, 11}
  BY LoginAssumption
<1> QED
  BY <1>1, <1>2, SettledLinksFit

\* The verdict keeps all fitting.
LEMMA VerdictFit ==
    ASSUME NEW s \in Mediator, NEW r \in Mediator, r.goto = None, Fit(r), r.margin \in Links,
           VerdictResult(s, r)
    PROVE  Fit(s) /\ Kept(s, r)
<1>1. CASE MarginClosing(s, r) /\ \E t \in {2, 4} : Moves(s, r, {"link", "flag2d", "F14"}, t, {})
  <2>1. PICK t \in 0 .. 9 \cup {12, 13} : Moves(s, r, {"link", "flag2d", "F14"}, t, {})
    BY <1>1
  <2> QED
    BY <1>1, <2>1, ClosingFit
<1>2. CASE MarginClosing(s, r) /\ Moves(s, r, {"link", "flag2d", "F14", "begins"}, 3, Errors)
  <2>1. 3 \in 0 .. 9 \cup {12, 13}
    OBVIOUS
  <2> QED
    BY <1>2, <2>1, ClosingFit
<1>3. CASE /\ Begun(s, r)
           /\ \/ r.up[6] = None /\ Moves(s, r, {"begins", "F14", "link"}, r.goto, {})
              \/ r.up[6] # None /\ Moves(s, r, {"begins", "F14", "link"}, r.up[6], {Event(18)})
  <2>1. PICK t \in {None, r.up[6]}, E \in {{}, {Event(18)}} : Moves(s, r, {"begins", "F14", "link"}, t, E)
    BY <1>3
  <2>2. s.auth = r.auth /\ s.margin = r.margin /\ s.up = r.up /\ s.slots = r.slots
    BY <2>1 DEF Moves, SameBut, FieldNames
  <2>3. LinkHandled(s.link[r.margin], r.link[r.margin])
    <3>1. /\ SameLink(s.link[r.margin], r.link[r.margin], {"st", "ok4", "challenged"})
          /\ s.link[r.margin].st = r.link[r.margin].st
      BY <1>3 DEF Begun, SameLink, LinkFieldNames
    <3> QED
      BY <3>1 DEF LinkHandled
  <2>4. \A k \in Links : LinkHandled(s.link[k], r.link[k])
    <3>1. \A k \in Links \ {r.margin} : LinkHandled(s.link[k], r.link[k])
      BY <1>3, SameHandled DEF Begun
    <3> QED
      BY <2>3, <3>1
  <2>5. t \in {10, 11} => r.create # None
    <3>1. None \notin {10, 11}
      BY LoginAssumption
    <3> QED
      BY <2>1, <3>1, UpKnown DEF Fit, Cachers
  <2> QED
    BY <2>1, <2>2, <2>4, <2>5, MovedFit DEF Fit
<1> QED
  BY <1>1, <1>2, <1>3 DEF VerdictResult

\* The answer to a claim keeps all fitting: state 11 knows whom it creates.
LEMMA ClaimFit ==
    ASSUME NEW s \in Mediator, NEW r \in Mediator, r.goto = None, Fit(r), r.state = 10, ClaimResult(s, r)
    PROVE  Fit(s) /\ Kept(s, r)
<1>1. CASE Moves(s, r, {}, 3, Errors)
  <2>1. 3 \in 0 .. 9 \cup {None}
    OBVIOUS
  <2> QED
    BY <1>1, <2>1, RepliedFit
<1>2. CASE s = r
  BY <1>2, SameFit
<1>3. CASE /\ Len(r.slots) < MaxSlots
           /\ s.slots = Append(r.slots, r.create)
           /\ Moves(s, r, {"current", "slots"}, 11, {Event(20)})
  <2>1. r.create # None
    BY DEF Fit, CreateKnown
  <2>2. s.auth = r.auth /\ s.margin = r.margin /\ s.up = r.up /\ s.link = r.link
    BY <1>3 DEF Moves, SameBut, FieldNames
  <2>3. Len(s.slots) <= MaxSlots
    <3>1. Len(s.slots) = Len(r.slots) + 1
      BY <1>3, FieldsTyped
    <3>2. Len(r.slots) \in Nat
      BY FieldsTyped
    <3> QED
      BY <1>3, <3>1, <3>2, LoginAssumption
  <2>4. \A k \in Links : LinkHandled(s.link[k], r.link[k])
    BY <2>2, SameHandled
  <2> QED
    BY <1>3, <2>1, <2>2, <2>3, <2>4, MovedFit
<1> QED
  BY <1>1, <1>2, <1>3 DEF ClaimResult

\* Any message of a margin server keeps all fitting.
LEMMA MarginReplyFit ==
    ASSUME NEW s \in Mediator, NEW r \in Mediator, r.goto = None, Fit(r), r.margin \in Links,
           MarginReply(s, r)
    PROVE  Fit(s) /\ Kept(s, r)
<1>1. 3 \in 0 .. 9 \cup {12, 13} /\ 12 \in 0 .. 9 \cup {12, 13} /\ 3 \in 0 .. 9 \cup {None} /\ 9 \in 0 .. 9 \cup {None}
      /\ r.goto \in 0 .. 9 \cup {None}
  OBVIOUS
<1>2. CASE s = r
  BY <1>2, SameFit
<1>3. CASE ChallengeResult(s, r)
  BY <1>3, ChallengeFit
<1>4. CASE VerdictResult(s, r)
  BY <1>4, VerdictFit
<1>5. CASE DeletedResult(s, r)
  BY <1>1, <1>5, ClosingFit DEF DeletedResult
<1>6. CASE \E e \in {11, 22} : SectionResult(s, r, e)
  BY <1>1, <1>6, RepliedFit DEF SectionResult
<1>7. CASE \E F \in {{}, {"current", "named"}} : Moves(s, r, F, 3, Errors)
  BY <1>1, <1>7, RepliedFit
<1>8. CASE r.state = 10 /\ ClaimResult(s, r)
  BY <1>8, ClaimFit
<1>9. CASE SubmittedResult(s, r)
  <2>1. CASE MarginClosing(s, r) /\ Moves(s, r, {"link", "flag2d", "F14"}, 12, {Event(24)})
    BY <1>1, <2>1, ClosingFit
  <2>2. CASE Moves(s, r, {}, 3, Errors)
    BY <1>1, <2>2, RepliedFit
  <2> QED
    BY <1>9, <2>1, <2>2 DEF SubmittedResult
<1> QED
  BY <1>2, <1>3, <1>4, <1>5, <1>6, <1>7, <1>8, <1>9 DEF MarginReply

\* An oversized packet keeps all fitting.
LEMMA HardClosedFit ==
    ASSUME NEW s \in Mediator, NEW r \in Mediator, r.goto = None, Fit(r), NEW l, HardClosed(s, r, l)
    PROVE  Fit(s) /\ Kept(s, r)
<1>1. s.auth = r.auth /\ s.margin = r.margin /\ s.up = r.up /\ s.slots = r.slots
  BY DEF HardClosed, Moves, SameBut, FieldNames
<1>2. ASSUME NEW k \in Links
      PROVE  LinkHandled(s.link[k], r.link[k])
  <2>1. r.link[k].kind = "free" => r.link[k].st = "Closed"
    BY DEF Fit, LinkFit, Fits
  <2>2. SameLink(s.link[k], r.link[k], {"st", "ok4", "challenged"})
    BY DEF HardClosed, SameLink
  <2>3. CASE s.link[k] = r.link[k]
    BY <2>3, SameHandled
  <2>4. CASE s.link[k] # r.link[k]
    <3>1. r.link[k].kind # "free"
      BY <2>1, <2>4 DEF HardClosed
    <3> QED
      BY <2>2, <3>1 DEF LinkHandled
  <2> QED
    BY <2>3, <2>4
<1>3. Moves(s, r, {"link"}, None, {}) /\ None \notin {10, 11}
  BY LoginAssumption DEF HardClosed
<1> QED
  BY <1>1, <1>2, <1>3, MovedFit DEF Fit

\* A completed operation keeps the mediator and its connections in order.
LEMMA CompletedFit ==
    ASSUME NEW s \in Mediator, NEW r \in Mediator, r.goto = None, Fit(r), NEW i \in Items,
           CompletedResult(s, r, i)
    PROVE  Fit(s) /\ Kept(s, r)
<1>1. i.link \in Links /\ i.msg.characters \in Seq(Characters)
  BY DEF Items, Messages
<1>2. CASE Moves(s, r, {"unread"}, r.goto, {})
  BY <1>2, RepliedFit
<1>3. CASE HardClosed(s, r, i.link)
  BY <1>3, HardClosedFit
<1> QED
  BY <1>1, <1>2, <1>3, SameFit, AuthLostFit, AuthResultFit, AuthReplyFit, MarginLostFit, MarginResultFit,
     MarginReplyFit, CopyResultFit DEF CompletedResult

\* Between the calls of the client thread.
AtRest(r) == r.goto = None /\ r.posted = <<>> /\ r.after = <<>> /\ ~r.full

QueueFit(r, q) == \A i \in DOMAIN q : ItemFit(r, q[i])

\* The operations of a queue and their connections.
LEMMA ItemLinks ==
    ASSUME NEW q \in Seq(Items)
    PROVE  \A i \in DOMAIN q : q[i] \in Items /\ q[i].link \in Links
<1>1. \A i \in DOMAIN q : q[i] \in Items
  OBVIOUS
<1>2. \A i \in Items : i.link \in Links
  BY DEF Items
<1> QED
  BY <1>1, <1>2

\* An item is still about its connection if that has not gone.
LEMMA KeptQueue ==
    ASSUME NEW r \in Mediator, NEW s \in Mediator, NEW q \in Seq(Items), QueueFit(r, q),
           \A i \in DOMAIN q : s.link[q[i].link].kind = r.link[q[i].link].kind
    PROVE  QueueFit(s, q)
  BY DEF QueueFit, ItemFit

\* A settled handler has no switch pending, keeps the steady fields and keeps all
\* fitting.
LEMMA SettledFit ==
    ASSUME NEW h \in Mediator, Fit(h)
    PROVE  LET s == Settled(h) IN
           /\ s \in Mediator
           /\ SameBut(s, h, FieldNames \ Steady)
           /\ s.goto = None /\ s.after = <<>>
           /\ Fit(s) /\ Kept(s, h)
           /\ \A k \in FieldNames \ {"posted", "after"} : s[k] = Rested(h)[k]
<1> DEFINE s == Settled(h)
           e == Rested(h)
<1>1. s \in Mediator /\ SameBut(s, e, {"posted", "after"}) /\ s.after = <<>>
  BY SettledIs
<1>2. e \in Mediator /\ e.goto = None /\ SameBut(e, h, FieldNames \ Steady)
  BY RestedIs
<1>3. Fit(e) /\ Kept(e, h)
  BY RestedFit
<1> HIDE DEF s, e
<1>4. SameBut(s, h, FieldNames \ Steady)
  BY <1>1, <1>2 DEF SameBut, FieldNames, Steady
<1>5. /\ s.goto = None /\ s.link = e.link /\ s.auth = e.auth /\ s.margin = e.margin
      /\ s.slots = e.slots /\ s.create = e.create /\ s.state = e.state /\ s.up = e.up /\ s.goto = e.goto
  BY <1>1, <1>2 DEF SameBut, FieldNames
<1>6. Fit(s) /\ Kept(s, h)
  BY <1>3, <1>5 DEF Fit, LinkFit, CreateKnown, Kept
<1>7. \A k \in FieldNames \ {"posted", "after"} : s[k] = e[k]
  BY <1>1 DEF SameBut
<1> QED
  BY <1>1, <1>4, <1>5, <1>6, <1>7 DEF s, e

\* An unused connection is a connection and fits.
LEMMA FreeLinkIs == FreeLink \in Link /\ Fits(FreeLink) /\ FreeLink.kind = "free"
<1>1. FreeLink \in Link
  <2>1. <<>> \in Seq([what : {"login", "copy", "connect", "answer", "delete", "load", "claim",
                              "create", "submit"},
                      who : Characters \cup {None}])
    OBVIOUS
  <2> QED
    BY <2>1 DEF FreeLink, Link
<1> QED
  BY <1>1 DEF FreeLink, Fits

\* The connections that have gone are nobody's.
LEMMA TidyIs ==
    ASSUME NEW r \in Mediator, NEW q \in Seq(Items)
    PROVE  LET s == Tidy(r, q) IN
           /\ s \in Mediator
           /\ SameBut(s, r, {"posted", "link"})
           /\ s.posted = <<>>
           /\ \A l \in Links : s.link[l] = IF Gone(r, q, l) THEN FreeLink ELSE r.link[l]
           /\ Fit(r) => Fit(s)
           /\ QueueFit(r, q) => QueueFit(s, q)
<1> DEFINE f == [l \in Links |-> IF Gone(r, q, l) THEN FreeLink ELSE r.link[l]]
           z == <<>>
           b == [r EXCEPT !.posted = z]
           s == Tidy(r, q)
<1>1. s = [b EXCEPT !.link = f]
  BY DEF Tidy, Mediator
<1>2. f \in [Links -> Link] /\ \A l \in Links : f[l] = IF Gone(r, q, l) THEN FreeLink ELSE r.link[l]
  BY FreeLinkIs, FieldsTyped
<1>3. z \in Seq(Posting)
  OBVIOUS
<1> HIDE DEF f, z
<1>4. b \in Mediator
  BY <1>3, ZenonT(200) DEF Mediator
<1>5. SameBut(b, r, {"posted"}) /\ b.posted = z
  BY DEF Mediator, SameBut, FieldNames
<1> HIDE DEF b
<1>6. s \in Mediator /\ SameBut(s, b, {"link"}) /\ s.link = f
  BY <1>1, <1>2, <1>4, LinkTyped
<1> HIDE DEF s
<1>7. SameBut(s, r, {"posted", "link"}) /\ s.posted = <<>>
  BY <1>5, <1>6 DEF SameBut, FieldNames, z
<1>8. \A l \in Links : s.link[l] = IF Gone(r, q, l) THEN FreeLink ELSE r.link[l]
  BY <1>2, <1>6
<1>9. ASSUME Fit(r)
      PROVE  Fit(s)
  <2>1. /\ s.auth = r.auth /\ s.margin = r.margin /\ s.slots = r.slots /\ s.create = r.create
        /\ s.state = r.state /\ s.up = r.up /\ s.goto = r.goto
    BY <1>7 DEF SameBut, FieldNames
  <2>2. \A l \in Links : Fits(s.link[l])
    BY <1>8, <1>9, FreeLinkIs DEF Fit, LinkFit
  <2>3. \A l \in Links : l \in {r.auth, r.margin} => s.link[l] = r.link[l]
    BY <1>8 DEF Gone
  <2> QED
    BY <1>9, <2>1, <2>2, <2>3, FieldsTyped DEF Fit, LinkFit, CreateKnown
<1>10. ASSUME QueueFit(r, q)
       PROVE  QueueFit(s, q)
  <2>1. \A i \in DOMAIN q : q[i].link \in Links
    BY ItemLinks
  <2>2. \A i \in DOMAIN q : s.link[q[i].link] = r.link[q[i].link]
    BY <1>8, <2>1 DEF Gone
  <2> QED
    BY <1>6, <1>10, <2>2, KeptQueue
<1> QED
  BY <1>6, <1>7, <1>8, <1>9, <1>10 DEF s

\* What a call of the client thread leaves.
LEMMA TakenIs ==
    ASSUME NEW r \in Mediator, NEW h \in Mediator, Fit(h), Kept(h, r), NEW q \in Seq(Items), QueueFit(r, q),
           ~Settled(h).full
    PROVE  LET s == Tidy(Settled(h), q) IN
           s \in Mediator /\ AtRest(s) /\ Fit(s) /\ QueueFit(s, q)
<1> DEFINE e == Settled(h)
           s == Tidy(e, q)
<1>1. e \in Mediator /\ e.goto = None /\ e.after = <<>> /\ Fit(e) /\ Kept(e, h)
  BY SettledFit
<1>2. \A i \in DOMAIN q : q[i].link \in Links
  BY ItemLinks
<1> HIDE DEF e
<1>3. \A i \in DOMAIN q : e.link[q[i].link].kind = r.link[q[i].link].kind
  BY <1>1, <1>2 DEF QueueFit, ItemFit, Kept
<1>4. QueueFit(e, q)
  BY <1>1, <1>3, KeptQueue
<1>5. s \in Mediator /\ SameBut(s, e, {"posted", "link"}) /\ s.posted = <<>> /\ Fit(s) /\ QueueFit(s, q)
  BY <1>1, <1>4, TidyIs
<1> HIDE DEF s
<1>6. s.goto = None /\ s.after = <<>> /\ s.full = e.full
  BY <1>1, <1>5 DEF SameBut, FieldNames
<1>7. ~e.full
  BY DEF e
<1> QED
  BY <1>5, <1>6, <1>7 DEF AtRest, e, s

\* The calls of the client.
LEMMA SwitchedIs ==
    ASSUME NEW r \in Mediator, Fit(r), NEW t \in StateIds \ {10, 11}
    PROVE  LET s == Switch(r, t) IN
           s \in Mediator /\ Moves(s, r, {}, t, {}) /\ Fit(s) /\ Kept(s, r)
<1> DEFINE s == Switch(r, t)
<1>1. s \in Mediator /\ Moves(s, r, {}, t, {})
  BY SelfMoves, SwitchMoves
<1> HIDE DEF s
<1>2. s.auth = r.auth /\ s.margin = r.margin /\ s.up = r.up
  BY <1>1 DEF Moves, SameBut, FieldNames
<1>3. Fit(s) /\ Kept(s, r)
  BY <1>1, <1>2, SettledLinksFit
<1> QED
  BY <1>1, <1>3 DEF s

\* The client selects a row and goes to its state.
LEMMA SelectedIs ==
    ASSUME NEW r \in Mediator, Fit(r), NEW i \in 0 .. Len(r.slots) - 1, NEW t \in {7, 8}
    PROVE  LET s == Switch([r EXCEPT !.current = i], t) IN
           s \in Mediator /\ Moves(s, r, {"current"}, t, {}) /\ s.current = i /\ Fit(s) /\ Kept(s, r)
<1> DEFINE c == [r EXCEPT !.current = i]
           s == Switch(c, t)
<1>1. c \in Mediator
  <2>1. i \in 0 .. MaxSlots - 1 \cup {None}
    <3>1. Len(r.slots) \in Nat /\ Len(r.slots) <= MaxSlots
      BY FieldsTyped DEF Fit
    <3> QED
      BY <3>1, LoginAssumption
  <2> QED
    BY <2>1, ZenonT(200) DEF Mediator
<1>2. SameBut(c, r, {"current"}) /\ c.current = i
  BY DEF Mediator, SameBut, FieldNames
<1> HIDE DEF c
<1>3. Moves(c, r, {"current"}, r.goto, {})
  BY <1>1, <1>2, FieldMoves
<1>4. s \in Mediator /\ Moves(s, r, {"current"}, t, {}) /\ SameBut(s, c, {"goto"})
  <2>1. t \in StateIds \cup {None}
    BY DEF StateIds
  <2> QED
    BY <1>1, <1>3, <2>1, SwitchMoves, SwitchIs
<1> HIDE DEF s
<1>5. s.current = i /\ s.auth = r.auth /\ s.margin = r.margin /\ s.up = r.up
  BY <1>2, <1>4 DEF Moves, SameBut, FieldNames
<1>6. Fit(s) /\ Kept(s, r)
  BY <1>4, <1>5, SettledLinksFit
<1> QED
  BY <1>4, <1>5, <1>6 DEF s, c

\* The client names a new character and goes to state 10.
LEMMA CreatingIs ==
    ASSUME NEW r \in Mediator, Fit(r), NEW c \in Characters
    PROVE  LET s == Switch([r EXCEPT !.create = c, !.named = TRUE], 10) IN
           s \in Mediator /\ Moves(s, r, {"create", "named"}, 10, {}) /\ s.create = c /\ s.named /\ Fit(s) /\ Kept(s, r)
<1> DEFINE q == [r EXCEPT !.create = c, !.named = TRUE]
           s == Switch(q, 10)
<1>1. q \in Mediator
  <2>1. c \in Characters \cup {None}
    OBVIOUS
  <2> QED
    BY <2>1, ZenonT(200) DEF Mediator
<1>2. SameBut(q, r, {"create", "named"}) /\ q.create = c /\ q.named
  BY DEF Mediator, SameBut, FieldNames
<1> HIDE DEF q
<1>3. Moves(q, r, {"create", "named"}, r.goto, {})
  BY <1>1, <1>2, FieldMoves
<1>4. s \in Mediator /\ Moves(s, r, {"create", "named"}, 10, {}) /\ SameBut(s, q, {"goto"})
  <2>1. 10 \in StateIds \cup {None}
    BY DEF StateIds
  <2> QED
    BY <1>1, <1>3, <2>1, SwitchMoves, SwitchIs
<1> HIDE DEF s
<1>5. /\ s.create = c /\ s.named /\ s.auth = r.auth /\ s.margin = r.margin /\ s.up = r.up
      /\ s.link = r.link /\ s.slots = r.slots
  BY <1>2, <1>4 DEF Moves, SameBut, FieldNames
<1>6. Fit(s) /\ Kept(s, r)
  <2>1. c # None
    BY LoginAssumption
  <2>2. CreateKnown(s)
    BY <1>5, <2>1 DEF CreateKnown
  <2>3. \A k \in Links : LinkHandled(s.link[k], r.link[k])
    BY <1>5, SameHandled
  <2> QED
    BY <1>4, <1>5, <2>2, <2>3, HandledFit DEF Fit
<1> QED
  BY <1>4, <1>5, <1>6 DEF s, q

\* What a sequence is without one of its elements.
LEMMA RemoveAtIs ==
    ASSUME NEW S, NEW q \in Seq(S), NEW k \in 1 .. Len(q)
    PROVE  /\ RemoveAt(q, k) \in Seq(S)
           /\ Len(RemoveAt(q, k)) = Len(q) - 1
           /\ \A i \in 1 .. Len(q) - 1 : RemoveAt(q, k)[i] = IF i < k THEN q[i] ELSE q[i + 1]
<1> DEFINE a == SubSeq(q, 1, k - 1)
           b == SubSeq(q, k + 1, Len(q))
<1>1. RemoveAt(q, k) = a \o b
  BY DEF RemoveAt
<1>2. a \in Seq(S) /\ Len(a) = k - 1 /\ \A i \in 1 .. k - 1 : a[i] = q[i]
  BY SMTT(60)
<1>3. b \in Seq(S) /\ Len(b) = Len(q) - k /\ \A i \in 1 .. Len(q) - k : b[i] = q[k + i]
  BY SMTT(60)
<1> HIDE DEF a, b
<1>4. a \o b \in Seq(S) /\ Len(a \o b) = Len(q) - 1
  <2>1. a \in Seq(S) /\ b \in Seq(S)
    BY <1>2, <1>3
  <2>2. a \o b \in Seq(S) /\ Len(a \o b) = Len(a) + Len(b)
    BY <2>1
  <2>3. k \in Int /\ Len(q) \in Nat
    OBVIOUS
  <2> QED
    BY <1>2, <1>3, <2>2, <2>3
<1>5. ASSUME NEW i \in 1 .. Len(q) - 1
      PROVE  (a \o b)[i] = IF i < k THEN q[i] ELSE q[i + 1]
  <2>1. (a \o b)[i] = IF i <= Len(a) THEN a[i] ELSE b[i - Len(a)]
    BY <1>2, <1>3
  <2>2. CASE i < k
    BY <1>2, <2>1, <2>2
  <2>3. CASE ~(i < k)
    <3>1. i - Len(a) \in 1 .. Len(q) - k /\ k + (i - Len(a)) = i + 1
      BY <1>2, <2>3
    <3>2. ~(i <= Len(a))
      BY <1>2, <2>3
    <3>3. b[i - Len(a)] = q[k + (i - Len(a))]
      BY <1>3, <3>1
    <3>4. (a \o b)[i] = b[i - Len(a)]
      BY <2>1, <3>2
    <3>5. (a \o b)[i] = q[i + 1]
      BY <3>1, <3>3, <3>4
    <3> QED
      BY <2>3, <3>5
  <2> QED
    BY <2>2, <2>3
<1> QED
  BY <1>1, <1>4, <1>5

\* Removing a row changes the slot table only.
LEMMA RemovedIs ==
    ASSUME NEW r \in Mediator, Fit(r), NEW k \in 1 .. Len(r.slots)
    PROVE  LET s == [r EXCEPT !.slots = RemoveAt(@, k)] IN
           /\ s \in Mediator
           /\ SameBut(s, r, {"slots"})
           /\ s.slots = RemoveAt(r.slots, k)
           /\ Fit(s) /\ Kept(s, r)
<1> DEFINE q == RemoveAt(r.slots, k)
           s == [r EXCEPT !.slots = q]
<1>1. q \in Seq(Characters) /\ Len(q) = Len(r.slots) - 1 /\ Len(r.slots) \in Nat
  <2>1. r.slots \in Seq(Characters)
    BY FieldsTyped
  <2>2. Len(r.slots) \in Nat
    BY <2>1
  <2>3. q \in Seq(Characters) /\ Len(q) = Len(r.slots) - 1
    BY <2>1, RemoveAtIs
  <2> QED
    BY <2>2, <2>3
<1>2. [r EXCEPT !.slots = RemoveAt(@, k)] = s
  BY DEF Mediator
<1> HIDE DEF q
<1>3. s \in Mediator
  BY <1>1, ZenonT(200) DEF Mediator
<1>4. SameBut(s, r, {"slots"}) /\ s.slots = q
  BY DEF Mediator, SameBut, FieldNames
<1> HIDE DEF s
<1>5. /\ s.create = r.create /\ s.auth = r.auth /\ s.margin = r.margin /\ s.up = r.up
      /\ s.link = r.link /\ s.state = r.state /\ s.goto = r.goto
  BY <1>4 DEF SameBut, FieldNames
<1>6. Fit(s) /\ Kept(s, r)
  <2>1. \A k1 \in Links : LinkHandled(s.link[k1], r.link[k1])
    BY <1>5, SameHandled
  <2>2. Len(s.slots) <= MaxSlots
    BY <1>1, <1>4, LoginAssumption DEF Fit
  <2>3. CreateKnown(s)
    BY <1>5 DEF Fit, CreateKnown
  <2> QED
    BY <1>3, <1>5, <2>1, <2>2, <2>3, HandledFit
<1> QED
  BY <1>2, <1>3, <1>4, <1>6 DEF s, q

=============================================================================
