--------------------------- MODULE MarginSession_proofs ---------------------------
(***************************************************************************)
(* Whatever the server and the network do, the packets of a margin         *)
(* connection are readable where they arrive.                              *)
(*                                                                         *)
(* The invariant follows the keys along the queue to the client: each      *)
(* packet is under the key the one before it leaves behind, and the last   *)
(* leaves behind the server's (Chain).  In the other direction the only    *)
(* danger is a plain packet behind a challenge; until the first challenge  *)
(* is answered the queues hold one packet at most (First).                 *)
(*                                                                         *)
(* A packet may be handled and answered by a copy in one step, so the      *)
(* invariant is stated of a connection g, a queue q and a server s, and    *)
(* kept by the operators of either half.                                   *)
(***************************************************************************)
EXTENDS MarginSession, TLAPS

KeyAt(g, q, n) == IF n = 0 THEN g.key ELSE After(q[n])

Chain(g, q, s) ==
    /\ \A i \in 1..Len(q) : q[i].key = KeyAt(g, q, i - 1)
    /\ s.key = KeyAt(g, q, Len(q))

Seeded(p) == p.code \in {2, 5} /\ ~Empty(p)

\* Keys are seeds the server has drawn.
Drawn(g, q, s) ==
    /\ g.key <= s.key
    /\ \A i \in 1..Len(q) : Seeded(q[i]) => 1 <= q[i].seed /\ q[i].seed <= s.key
    /\ \A i \in 1..Len(g.out) : g.out[i].key <= s.key

\* A session has a key.
Keyed(g, q, s) ==
    /\ \A i \in 1..Len(q) : q[i].ok => q[i].key # 0
    /\ s.phase # "idle" => s.key # 0
    /\ g.ok4 => g.key # 0

\* Nothing happens before a copy is sent.
Quiet(g, q, s) == ~g.prepared => g.out = <<>> /\ q = <<>> /\ ~g.ok4 /\ s.phase = "idle"

First(g, q, s) ==
    /\ s.key = 0 => \/ g.out = <<>> /\ q = <<>>
                    \/ g.open /\ g.out = <<>> /\ Len(q) = 1
                    \/ g.open /\ Len(g.out) = 1 /\ q = <<>>
    /\ s.key # 0 /\ g.key = 0 => g.open /\ g.out = <<>> /\ q # <<>> /\ q[1].code = 2 /\ ~Empty(q[1])
    /\ g.key # 0 => \A i \in 1..Len(g.out) : g.out[i].key # 0

Typed(g, q, s) == g \in Margin /\ q \in Seq(Inbound) /\ s \in MarginServer

Sound(g, q, s) ==
    /\ Typed(g, q, s)
    /\ g.st = "up" => /\ Chain(g, q, s)
                      /\ Drawn(g, q, s)
                      /\ Keyed(g, q, s)
                      /\ Quiet(g, q, s)
                      /\ ~g.crossed => First(g, q, s)

IInv == Sound(margin, inbound, marginServer)

-----------------------------------------------------------------------------
(* The client's half                                                       *)

\* A queue without its first element.
LEMMA TailFacts ==
    ASSUME NEW S, NEW q \in Seq(S), q # <<>>
    PROVE  /\ Head(q) \in S
           /\ Head(q) = q[1]
           /\ 1 \in 1..Len(q)
           /\ Tail(q) \in Seq(S)
           /\ Len(Tail(q)) = Len(q) - 1
           /\ Len(q) \in Nat \ {0}
           /\ \A i \in 1..Len(Tail(q)) : i + 1 \in 1..Len(q) /\ Tail(q)[i] = q[i + 1]
  OBVIOUS

\* A queue with one more.
LEMMA AppendFacts ==
    ASSUME NEW S, NEW q \in Seq(S), NEW e \in S
    PROVE  /\ Append(q, e) \in Seq(S)
           /\ Len(Append(q, e)) = Len(q) + 1
           /\ Len(q) \in Nat
           /\ \A i \in 1..Len(q) : Append(q, e)[i] = q[i]
           /\ Append(q, e)[Len(q) + 1] = e
           /\ Append(q, e) # <<>>
  OBVIOUS

\* What a packet that is sent changes.
LEMMA SendPacketFacts ==
    ASSUME NEW g \in Margin, NEW code \in {1, 3, 6}
    PROVE  LET h == SendPacket(g, code)
           IN  /\ h \in Margin
               /\ h = [g EXCEPT !.out = h.out]
               /\ g.st = "up" => /\ Len(h.out) = Len(g.out) + 1
                                 /\ \A i \in 1..Len(g.out) : h.out[i] = g.out[i]
                                 /\ h.out[Len(g.out) + 1].key = g.key
                                 /\ h.out # <<>>
               /\ g.st # "up" => h = g
<1> DEFINE e == [code |-> code, key |-> g.key, copy |-> g.copy]
           h == SendPacket(g, code)
<1>1. e \in Outbound
  BY DEF Outbound, Margin
<1>2. g.out \in Seq(Outbound)
  BY DEF Margin
<1>3. /\ Append(g.out, e) \in Seq(Outbound)
      /\ Len(Append(g.out, e)) = Len(g.out) + 1
      /\ \A i \in 1..Len(g.out) : Append(g.out, e)[i] = g.out[i]
      /\ Append(g.out, e)[Len(g.out) + 1] = e
      /\ Append(g.out, e) # <<>>
  <2> HIDE DEF e
  <2> QED BY <1>1, <1>2, AppendFacts
<1>4. CASE g.st = "up"
  <2>1. h = [g EXCEPT !.out = Append(g.out, e)]
    BY <1>4 DEF SendPacket, Encrypted
  <2>2. h \in Margin
    BY <1>3, <2>1 DEF Margin
  <2>3. h.out = Append(g.out, e)
    BY <2>1 DEF Margin
  <2>4. h = [g EXCEPT !.out = h.out]
    BY <2>1, <2>3
  <2> HIDE DEF h
  <2>5. h.out[Len(g.out) + 1].key = g.key
    BY <1>3, <2>3
  <2> QED
    BY <1>3, <1>4, <2>2, <2>3, <2>4, <2>5 DEF h
<1>5. CASE g.st # "up"
  BY <1>5 DEF SendPacket, Encrypted, Margin
<1> QED
  BY <1>4, <1>5

\* The connection itself is all of its state a chain depends on but its key.
LEMMA SameKeyChain ==
    ASSUME NEW g, NEW h, NEW q, NEW s, h.key = g.key, Chain(g, q, s)
    PROVE  Chain(h, q, s)
  BY DEF Chain, KeyAt

\* Sending a packet keeps the packets readable.
LEMMA SendKeeps ==
    ASSUME NEW g \in Margin, NEW q \in Seq(Inbound), NEW s \in MarginServer,
           NEW code \in {1, 3, 6},
           g.st = "up", Drawn(g, q, s)
    PROVE  /\ Drawn(SendPacket(g, code), q, s)
           /\ g.key # 0 /\ (\A i \in 1..Len(g.out) : g.out[i].key # 0) =>
                \A i \in 1..Len(SendPacket(g, code).out) : SendPacket(g, code).out[i].key # 0
<1> DEFINE h == SendPacket(g, code)
<1>1. /\ h = [g EXCEPT !.out = h.out]
      /\ Len(h.out) = Len(g.out) + 1
      /\ \A i \in 1..Len(g.out) : h.out[i] = g.out[i]
      /\ h.out[Len(g.out) + 1].key = g.key
  BY SendPacketFacts
<1>2. Len(g.out) \in Nat
  BY DEF Margin
<1>3. h.key = g.key
  BY <1>1 DEF Margin
<1> HIDE DEF h
<1>4. ASSUME NEW i \in 1..Len(h.out)
      PROVE  (i \in 1..Len(g.out) /\ h.out[i].key = g.out[i].key) \/ h.out[i].key = g.key
  <2>1. i \in 1..Len(g.out) \/ i = Len(g.out) + 1
    BY <1>1, <1>2
  <2> QED
    BY <1>1, <2>1
<1>5. Drawn(h, q, s)
  BY <1>3, <1>4 DEF Drawn
<1>6. ASSUME g.key # 0, \A i \in 1..Len(g.out) : g.out[i].key # 0
      PROVE  \A i \in 1..Len(h.out) : h.out[i].key # 0
  BY <1>4, <1>6
<1> QED
  BY <1>5, <1>6 DEF h

\* A copy may be sent at any time.
LEMMA CopyKeeps ==
    ASSUME NEW g, NEW q, NEW s, NEW copy \in Nat, NEW private \in Nat, Sound(g, q, s)
    PROVE  Sound(SendCopy(g, copy, private), q, s)
<1> DEFINE f == [g EXCEPT !.copy = copy,
                          !.prepared = TRUE,
                          !.prep = AuthBootstrapState(copy, private),
                          !.open = TRUE,
                          !.crossed = @ \/ g.open]
           h == SendPacket(f, 1)
<1>1. g \in Margin /\ q \in Seq(Inbound) /\ s \in MarginServer
  BY DEF Sound, Typed
<1>2. f \in Margin
  BY <1>1 DEF Margin, Copy, AuthBootstrapState
<1>3. /\ f.st = g.st /\ f.key = g.key /\ f.out = g.out /\ f.ok4 = g.ok4
      /\ f.prepared /\ f.open /\ f.crossed = (g.crossed \/ g.open)
  BY <1>1 DEF Margin
<1> HIDE DEF f
<1>4. /\ h \in Margin
      /\ h = [f EXCEPT !.out = h.out]
      /\ f.st = "up" => Len(h.out) = Len(f.out) + 1
      /\ f.st # "up" => h = f
  BY <1>2, SendPacketFacts
<1>5. /\ h.st = f.st /\ h.key = f.key /\ h.ok4 = f.ok4 /\ h.prepared = f.prepared
      /\ h.open = f.open /\ h.crossed = f.crossed
  BY <1>2, <1>4 DEF Margin
<1>6. CASE g.st # "up"
  <2>1. h.st # "up"
    BY <1>3, <1>5, <1>6
  <2>2. Sound(h, q, s)
    BY <1>1, <1>4, <2>1 DEF Sound, Typed
  <2> QED
    BY <2>2 DEF SendCopy, h, f
<1>7. CASE g.st = "up"
  <2>1. Chain(g, q, s) /\ Drawn(g, q, s) /\ Keyed(g, q, s) /\ (~g.crossed => First(g, q, s))
    BY <1>7 DEF Sound
  <2>2. Drawn(f, q, s)
    BY <1>3, <2>1 DEF Drawn
  <2>3. /\ Drawn(h, q, s)
        /\ f.key # 0 /\ (\A i \in 1..Len(f.out) : f.out[i].key # 0) =>
             \A i \in 1..Len(h.out) : h.out[i].key # 0
    BY <1>1, <1>2, <1>3, <1>7, <2>2, SendKeeps
  <2>4. Chain(h, q, s)
    BY <1>3, <1>5, <2>1, SameKeyChain
  <2>5. Keyed(h, q, s)
    BY <1>3, <1>5, <2>1 DEF Keyed
  <2>6. Quiet(h, q, s)
    BY <1>3, <1>5 DEF Quiet
  <2>7. ASSUME ~h.crossed
        PROVE  First(h, q, s)
    <3>1. ~g.open /\ First(g, q, s)
      BY <1>3, <1>5, <2>1, <2>7
    <3>2. ASSUME s.key = 0
          PROVE  h.open /\ Len(h.out) = 1 /\ q = <<>>
      <4>1. g.out = <<>> /\ q = <<>>
        BY <3>1, <3>2 DEF First
      <4>2. Len(f.out) = 0
        BY <1>3, <4>1
      <4>3. Len(h.out) = Len(f.out) + 1
        BY <1>3, <1>4, <1>7
      <4>4. Len(h.out) = 1
        BY <4>2, <4>3
      <4>5. h.open
        BY <1>3, <1>5
      <4> QED
        BY <4>1, <4>4, <4>5
    <3>3. h.key # 0 => \A i \in 1..Len(h.out) : h.out[i].key # 0
      BY <1>3, <1>5, <2>3, <3>1 DEF First
    <3>4. ~(s.key # 0 /\ h.key = 0)
      BY <1>3, <1>5, <3>1 DEF First
    <3> QED
      BY <3>2, <3>3, <3>4 DEF First
  <2>8. Sound(h, q, s)
    BY <1>1, <1>4, <2>3, <2>4, <2>5, <2>6, <2>7 DEF Sound, Typed
  <2> QED
    BY <2>8 DEF SendCopy, h, f
<1> QED
  BY <1>6, <1>7

\* A chain without its first packet starts at the key that packet leaves behind.
LEMMA ChainTail ==
    ASSUME NEW g, NEW h, NEW q \in Seq(Inbound), NEW s, q # <<>>,
           Chain(g, q, s), h.key = After(q[1])
    PROVE  Chain(h, Tail(q), s)
<1> DEFINE r == Tail(q)
<1>1. /\ Len(r) = Len(q) - 1
      /\ Len(q) \in Nat \ {0}
      /\ \A i \in 1..Len(r) : i + 1 \in 1..Len(q) /\ r[i] = q[i + 1]
  BY TailFacts
<1> HIDE DEF r
<1>2. ASSUME NEW n \in 0..Len(r)
      PROVE  KeyAt(h, r, n) = KeyAt(g, q, n + 1)
  <2>1. CASE n = 0
    <3>1. KeyAt(h, r, n) = After(q[1])
      BY <2>1 DEF KeyAt
    <3>2. KeyAt(g, q, 1) = After(q[1])
      BY DEF KeyAt
    <3> QED
      BY <2>1, <3>1, <3>2
  <2>2. CASE n # 0
    <3>1. n \in 1..Len(r) /\ n \in Nat /\ n + 1 # 0
      BY <1>1, <2>2
    <3>2. r[n] = q[n + 1]
      BY <1>1, <3>1
    <3> QED
      BY <2>2, <3>1, <3>2 DEF KeyAt
  <2> QED
    BY <2>1, <2>2
<1>3. ASSUME NEW i \in 1..Len(r)
      PROVE  r[i].key = KeyAt(h, r, i - 1)
  <2>1. i + 1 \in 1..Len(q) /\ r[i] = q[i + 1] /\ i - 1 \in 0..Len(r) /\ i \in Nat
    BY <1>1
  <2>2. q[i + 1].key = KeyAt(g, q, (i + 1) - 1)
    BY <2>1 DEF Chain
  <2>3. (i + 1) - 1 = (i - 1) + 1
    BY <2>1
  <2> QED
    BY <1>2, <2>1, <2>2, <2>3
<1>4. s.key = KeyAt(h, r, Len(r))
  <2>1. Len(r) \in 0..Len(r) /\ Len(r) + 1 = Len(q)
    BY <1>1
  <2> QED
    BY <1>2, <2>1 DEF Chain
<1> QED
  BY <1>3, <1>4 DEF Chain, r

\* What handling a packet leaves alone, and when it closes the connection.
LEMMA ReceivedFacts ==
    ASSUME NEW g \in Margin, NEW p \in Inbound
    PROVE  LET h == Received(g, p)
           IN  /\ h \in Margin
               /\ h.st = "up" => /\ g.st = "up"
                                 /\ p.defect # "oversized"
                                 /\ p.code = 2 /\ ~Empty(p) /\ Readable(g, p) /\ g.prepared => g.prep = p.copy
<1> DEFINE h == Received(g, p)
<1>1. ASSUME p.defect = "oversized"
      PROVE  h = CloseHard(g)
  BY <1>1 DEF Received
<1>2. ASSUME p.defect # "oversized", ~Readable(g, p)
      PROVE  h = g
  BY <1>2 DEF Received
<1>3. ASSUME p.defect # "oversized", Readable(g, p), p.code = 2
      PROVE  h = HandleCode2(g, p)
  BY <1>3 DEF Received, Dispatched, Routed
<1>4. ASSUME p.defect # "oversized", Readable(g, p), p.code = 4
      PROVE  h = HandleCode4(g, p)
  BY <1>4 DEF Received, Dispatched, Routed
<1>5. ASSUME p.defect # "oversized", Readable(g, p), p.code = 5
      PROVE  h = HandleCode5(g, p)
  BY <1>5 DEF Received, Dispatched, Routed
<1>6. ASSUME p.defect # "oversized", Readable(g, p), p.code = 6
      PROVE  h = g
  BY <1>6 DEF Received, Dispatched, Routed
<1>7. p.code \in {2, 4, 5, 6} /\ p.defect \in MarginDefects /\ p.ok \in BOOLEAN /\ p.seed \in Nat
  BY DEF Inbound, Key
<1>8. /\ Close(g) \in Margin /\ Close(g).st # "up"
      /\ CloseHard(g) \in Margin /\ CloseHard(g).st # "up"
      /\ PassedOver(g) \in Margin /\ PassedOver(g).st = g.st
  BY DEF Close, CloseHard, PassedOver, Margin
<1>9. /\ Installed(g, p.seed) \in Margin /\ Installed(g, p.seed).st = g.st
      /\ HandleCode4(g, p) \in Margin /\ HandleCode4(g, p).st = g.st
  BY <1>7, <1>8 DEF Installed, HandleCode4, Margin, Key
<1>10. LET k == SendPacket(Installed(g, p.seed), 3)
       IN  k \in Margin /\ k.st = g.st
  <2> DEFINE f == Installed(g, p.seed)
             k == SendPacket(f, 3)
  <2>1. f \in Margin /\ f.st = g.st
    BY <1>9
  <2> HIDE DEF f
  <2>2. k \in Margin /\ k = [f EXCEPT !.out = k.out]
    BY <2>1, SendPacketFacts
  <2>3. k.st = f.st
    BY <2>1, <2>2 DEF Margin
  <2> QED
    BY <2>1, <2>2, <2>3 DEF f
<1> HIDE DEF h
<1>11. CASE p.defect = "oversized"
  BY <1>1, <1>8, <1>11 DEF h
<1>12. CASE p.defect # "oversized" /\ ~Readable(g, p)
  BY <1>2, <1>12 DEF h
<1>13. CASE p.defect # "oversized" /\ Readable(g, p) /\ p.code = 2
  BY <1>3, <1>8, <1>10, <1>13 DEF h, HandleCode2, Challenged, Answered, DecryptsChallenge
<1>14. CASE p.defect # "oversized" /\ Readable(g, p) /\ p.code = 4
  BY <1>4, <1>9, <1>14 DEF h
<1>15. CASE p.defect # "oversized" /\ Readable(g, p) /\ p.code = 5
  BY <1>5, <1>9, <1>15 DEF h, HandleCode5
<1>16. CASE p.defect # "oversized" /\ Readable(g, p) /\ p.code = 6
  BY <1>6, <1>16 DEF h
<1> QED
  BY <1>7, <1>11, <1>12, <1>13, <1>14, <1>15, <1>16

\* Handling the first packet keeps the rest readable.
LEMMA ReceivedKeeps ==
    ASSUME NEW g, NEW q, NEW s, Sound(g, q, s), q # <<>>
    PROVE  Sound(Received(g, Head(q)), Tail(q), s)
<1> DEFINE p == q[1]
           r == Tail(q)
           h == Received(g, p)
<1>1. g \in Margin /\ q \in Seq(Inbound) /\ s \in MarginServer
  BY DEF Sound, Typed
<1>2. /\ p \in Inbound
      /\ Head(q) = p
      /\ 1 \in 1..Len(q)
      /\ r \in Seq(Inbound)
      /\ Len(r) = Len(q) - 1
      /\ Len(q) \in Nat \ {0}
      /\ \A i \in 1..Len(r) : i + 1 \in 1..Len(q) /\ r[i] = q[i + 1]
  BY <1>1, TailFacts
<1>3. /\ h \in Margin
      /\ h.st = "up" => /\ g.st = "up"
                        /\ p.defect # "oversized"
                        /\ p.code = 2 /\ ~Empty(p) /\ Readable(g, p) /\ g.prepared => g.prep = p.copy
  BY <1>1, <1>2, ReceivedFacts
<1>4. CASE h.st # "up"
  BY <1>1, <1>2, <1>3, <1>4 DEF Sound, Typed
<1>5. CASE h.st = "up"
  <2>1. /\ Chain(g, q, s)
        /\ Drawn(g, q, s)
        /\ Keyed(g, q, s)
        /\ Quiet(g, q, s)
        /\ ~g.crossed => First(g, q, s)
    BY <1>3, <1>5 DEF Sound
  <2>2. g.prepared
    BY <2>1 DEF Quiet
  <2>3. p.key = g.key
    BY <1>2, <2>1 DEF Chain, KeyAt
  <2>4. Readable(g, p) /\ p.defect # "oversized"
    BY <1>3, <1>5, <2>3 DEF Readable, Decrypted
  <2>5. /\ p.code \in {2, 4, 5, 6} /\ p.ok \in BOOLEAN /\ p.seed \in Nat /\ p.key \in Nat
        /\ g.key \in Nat /\ s.key \in Nat /\ g.out \in Seq(Outbound) /\ g.st = "up"
        /\ Len(g.out) \in Nat
    BY <1>1, <1>2, <1>3, <1>5 DEF Inbound, Key, Margin, MarginServer
  <2> HIDE DEF p, r, h
  <2>6. \* the packets that are left
        /\ \A i \in 1..Len(r) : Seeded(r[i]) => 1 <= r[i].seed /\ r[i].seed <= s.key
        /\ \A i \in 1..Len(r) : r[i].ok => r[i].key # 0
    BY <1>2, <2>1 DEF Drawn, Keyed
  <2>7. Seeded(p) => 1 <= p.seed /\ p.seed <= s.key
    BY <1>2, <2>1 DEF Drawn, p
  <2>8. p.ok => p.key # 0
    BY <1>2, <2>1 DEF Keyed, p
  <2>9. ASSUME p.code = 2, ~Empty(p)
        PROVE  Sound(h, r, s)
    <3> DEFINE f == Installed(g, p.seed)
    <3>1. h = SendPacket(f, 3)
      BY <1>3, <1>5, <2>2, <2>4, <2>9 DEF h, Received, Dispatched, Routed, HandleCode2, Challenged, Answered, DecryptsChallenge
    <3>2. f \in Margin
      BY <1>1, <2>5 DEF Installed, Margin, Key
    <3>3. f = [g EXCEPT !.key = p.seed]
      BY DEF Installed
    <3>4. /\ f.st = "up" /\ f.key = p.seed /\ f.out = g.out /\ f.ok4 = g.ok4
          /\ f.prepared = g.prepared /\ f.open = g.open /\ f.crossed = g.crossed
      BY <1>1, <2>5, <3>3 DEF Margin
    <3> HIDE DEF f
    <3>5. h = [f EXCEPT !.out = h.out] /\ h \in Margin /\ Len(h.out) = Len(f.out) + 1
      BY <3>1, <3>2, <3>4, SendPacketFacts
    <3>6. /\ h.key = f.key /\ h.ok4 = f.ok4 /\ h.prepared = f.prepared
          /\ h.open = f.open /\ h.crossed = f.crossed
      BY <3>2, <3>5 DEF Margin
    <3>7. Drawn(f, r, s)
      BY <2>1, <2>6, <2>7, <2>9, <3>4 DEF Drawn, Seeded
    <3>8. /\ Drawn(h, r, s)
          /\ f.key # 0 /\ (\A i \in 1..Len(f.out) : f.out[i].key # 0) =>
               \A i \in 1..Len(h.out) : h.out[i].key # 0
      BY <1>1, <1>2, <3>1, <3>2, <3>4, <3>7, SendKeeps
    <3>9. h.key # 0
      BY <2>5, <2>7, <2>9, <3>4, <3>6 DEF Seeded
    <3>10. Chain(h, r, s)
      <4>1. h.key = After(q[1])
        BY <2>9, <3>4, <3>6 DEF After, p
      <4> QED
        BY <1>1, <2>1, <4>1, ChainTail DEF r
    <3>11. Keyed(h, r, s) /\ Quiet(h, r, s)
      BY <2>1, <2>2, <2>6, <3>4, <3>6, <3>9 DEF Keyed, Quiet
    <3>12. ASSUME ~h.crossed
           PROVE  First(h, r, s)
      <4>1. First(g, q, s)
        BY <2>1, <3>4, <3>6, <3>12
      <4>2. s.key # 0
        BY <2>5, <2>7, <2>9 DEF Seeded
      <4>3. CASE g.key = 0
        <5>1. g.out = <<>>
          BY <4>1, <4>2, <4>3 DEF First
        <5>2. \A i \in 1..Len(f.out) : f.out[i].key # 0
          BY <3>4, <5>1
        <5> QED
          BY <3>4, <3>6, <3>8, <3>9, <4>2, <5>2 DEF First
      <4>4. CASE g.key # 0
        <5>1. \A i \in 1..Len(f.out) : f.out[i].key # 0
          BY <3>4, <4>1, <4>4 DEF First
        <5> QED
          BY <3>4, <3>6, <3>8, <3>9, <4>2, <5>1 DEF First
      <4> QED
        BY <4>3, <4>4
    <3> QED
      BY <1>1, <1>2, <3>5, <3>8, <3>10, <3>11, <3>12 DEF Sound, Typed
  <2>10. ASSUME p.code # 2 \/ Empty(p)
         PROVE  Sound(h, r, s)
    <3> DEFINE verdict == p.code = 4 /\ ~Empty(p)
    <3>1. /\ verdict => h = [g EXCEPT !.ok4 = p.ok, !.open = FALSE]
          /\ p.code = 5 /\ ~Empty(p) => h = [g EXCEPT !.key = p.seed]
          /\ p.code \in {2, 4} /\ Empty(p) => h = PassedOver(g)
          /\ p.code = 6 \/ (p.code = 5 /\ Empty(p)) => h = g
      BY <2>2, <2>4 DEF h, Received, Dispatched, Routed, HandleCode2, HandleCode4, HandleCode5, Installed
    <3>2. /\ h.out = g.out /\ h.crossed = g.crossed /\ h.prepared = g.prepared
          /\ h.key = IF Seeded(p) THEN p.seed ELSE g.key
          /\ h.ok4 = IF verdict THEN p.ok ELSE g.ok4
          /\ h.open = IF verdict THEN FALSE ELSE g.open
      <4>1. CASE verdict
        <5>1. ~Seeded(p)
          BY <4>1 DEF Seeded
        <5>2. /\ h.out = g.out /\ h.crossed = g.crossed /\ h.prepared = g.prepared
              /\ h.key = g.key /\ h.ok4 = p.ok /\ h.open = FALSE
          BY <1>1, <3>1, <4>1 DEF Margin
        <5> QED
          BY <4>1, <5>1, <5>2
      <4>2. CASE p.code = 5 /\ ~Empty(p)
        BY <1>1, <3>1, <4>2 DEF Margin, Seeded
      <4>3. CASE p.code = 6 \/ (p.code = 5 /\ Empty(p))
        <5>1. ~Seeded(p) /\ ~verdict /\ h = g
          BY <3>1, <4>3 DEF Seeded
        <5> QED
          BY <5>1
      <4>4. CASE p.code \in {2, 4} /\ Empty(p)
        BY <1>1, <3>1, <4>4 DEF Margin, Seeded, PassedOver
      <4> QED
        BY <2>5, <2>10, <4>1, <4>2, <4>3, <4>4
    <3>3. h.key = After(q[1])
      BY <2>3, <2>5, <2>10, <3>2 DEF After, Seeded, p
    <3>4. Chain(h, r, s)
      BY <1>1, <2>1, <3>3, ChainTail DEF r
    <3>5. Drawn(h, r, s)
      BY <2>1, <2>6, <2>7, <3>2 DEF Drawn
    <3>6. g.ok4 => h.key # 0
      BY <2>1, <2>7, <2>5, <3>2 DEF Keyed
    <3>7. verdict /\ p.ok => h.key # 0
      BY <2>3, <2>8, <3>2 DEF Seeded
    <3>8. Keyed(h, r, s)
      BY <2>1, <2>6, <3>2, <3>6, <3>7 DEF Keyed
    <3>9. Quiet(h, r, s)
      BY <2>2, <3>2 DEF Quiet
    <3>10. ASSUME ~h.crossed
           PROVE  First(h, r, s)
      <4>1. First(g, q, s)
        BY <2>1, <3>2, <3>10
      <4>2. s.key = 0 => h.out = <<>> /\ r = <<>>
        <5>1. SUFFICES ASSUME s.key = 0
                       PROVE  h.out = <<>> /\ r = <<>>
          OBVIOUS
        <5>2. g.out = <<>> /\ Len(q) = 1
          BY <1>2, <4>1, <5>1 DEF First
        <5>3. Len(r) = 0
          BY <1>2, <5>2
        <5> QED
          BY <1>2, <3>2, <5>2, <5>3
      <4>3. s.key # 0 => g.key # 0
        BY <2>10, <4>1 DEF First, p
      <4>4. s.key # 0 => h.key # 0
        BY <2>5, <2>7, <3>2, <4>3
      <4>5. h.key # 0 => \A i \in 1..Len(h.out) : h.out[i].key # 0
        BY <2>1, <2>5, <2>7, <3>2, <4>1 DEF First, Drawn
      <4> QED
        BY <4>2, <4>4, <4>5 DEF First
    <3> QED
      BY <1>1, <1>2, <1>3, <3>4, <3>5, <3>8, <3>9, <3>10 DEF Sound, Typed
  <2> QED
    BY <1>2, <2>9, <2>10 DEF p, r, h
<1> QED
  BY <1>2, <1>4, <1>5

-----------------------------------------------------------------------------
(* The server's half                                                       *)

\* What the server says under its key goes on with the chain.
LEMMA ChainAppend ==
    ASSUME NEW g, NEW h, NEW q \in Seq(Inbound), NEW s, NEW t, NEW e \in Inbound,
           Chain(g, q, s), h.key = g.key, e.key = s.key, t.key = After(e)
    PROVE  Chain(h, Append(q, e), t)
<1> DEFINE r == Append(q, e)
<1>1. /\ Len(r) = Len(q) + 1
      /\ Len(q) \in Nat
      /\ \A i \in 1..Len(q) : r[i] = q[i]
      /\ r[Len(q) + 1] = e
  BY AppendFacts
<1> HIDE DEF r
<1>2. ASSUME NEW n \in 0..Len(q)
      PROVE  KeyAt(h, r, n) = KeyAt(g, q, n)
  BY <1>1 DEF KeyAt
<1>3. ASSUME NEW i \in 1..Len(r)
      PROVE  r[i].key = KeyAt(h, r, i - 1)
  <2>1. CASE i \in 1..Len(q)
    <3>1. i - 1 \in 0..Len(q)
      BY <1>1, <2>1
    <3> QED
      BY <1>1, <1>2, <2>1, <3>1 DEF Chain
  <2>2. CASE i = Len(q) + 1
    <3>1. i - 1 = Len(q) /\ Len(q) \in 0..Len(q)
      BY <1>1, <2>2
    <3> QED
      BY <1>1, <1>2, <2>2, <3>1 DEF Chain
  <2> QED
    BY <1>1, <2>1, <2>2
<1>4. t.key = KeyAt(h, r, Len(r))
  BY <1>1 DEF KeyAt
<1> QED
  BY <1>3, <1>4 DEF Chain, r

\* What the server takes from the client's queue.
LEMMA TakenFacts ==
    ASSUME NEW g \in Margin, g.out # <<>>
    PROVE  LET h == [g EXCEPT !.out = Tail(@)]
           IN  /\ h \in Margin
               /\ h = [g EXCEPT !.out = h.out]
               /\ Len(g.out) \in Nat \ {0}
               /\ Len(h.out) = Len(g.out) - 1
               /\ Head(g.out) = g.out[1] /\ Head(g.out) \in Outbound /\ 1 \in 1..Len(g.out)
               /\ \A i \in 1..Len(h.out) : i + 1 \in 1..Len(g.out) /\ h.out[i] = g.out[i + 1]
<1>1. g.out \in Seq(Outbound)
  BY DEF Margin
<1>2. /\ Head(g.out) \in Outbound
      /\ Head(g.out) = g.out[1]
      /\ 1 \in 1..Len(g.out)
      /\ Tail(g.out) \in Seq(Outbound)
      /\ Len(Tail(g.out)) = Len(g.out) - 1
      /\ Len(g.out) \in Nat \ {0}
      /\ \A i \in 1..Len(Tail(g.out)) : i + 1 \in 1..Len(g.out) /\ Tail(g.out)[i] = g.out[i + 1]
  BY <1>1, TailFacts
<1> DEFINE h == [g EXCEPT !.out = Tail(g.out)]
<1>3. h \in Margin
  BY <1>2 DEF Margin
<1>4. h.out = Tail(g.out)
  BY DEF Margin
<1>5. h = [g EXCEPT !.out = h.out]
  BY <1>4
<1> HIDE DEF h
<1>6. \A i \in 1..Len(h.out) : i + 1 \in 1..Len(g.out) /\ h.out[i] = g.out[i + 1]
  BY <1>2, <1>4
<1> QED
  BY <1>2, <1>3, <1>4, <1>5, <1>6 DEF h

\* h is what the server leaves of the client's queue, t the server after it
\* has said e.
LEMMA SaysKeeps ==
    ASSUME NEW g, NEW h \in Margin, NEW q, NEW s, NEW t \in MarginServer, NEW e \in Inbound,
           Sound(g, q, s),
           h = [g EXCEPT !.out = h.out],
           \A i \in 1..Len(h.out) : \E j \in 1..Len(g.out) : h.out[i] = g.out[j],
           e.key = s.key, t.key = After(e), s.key <= t.key,
           Seeded(e) => 1 <= e.seed /\ e.seed <= t.key,
           e.ok => e.key # 0,
           t.phase # "idle" => t.key # 0,
           g.st = "up" => g.prepared,
           g.st = "up" /\ ~g.crossed => First(h, Append(q, e), t)
    PROVE  Sound(h, Append(q, e), t)
<1> DEFINE r == Append(q, e)
<1>1. g \in Margin /\ q \in Seq(Inbound) /\ s \in MarginServer
  BY DEF Sound, Typed
<1>2. /\ r \in Seq(Inbound)
      /\ Len(r) = Len(q) + 1
      /\ Len(q) \in Nat
      /\ \A i \in 1..Len(q) : r[i] = q[i]
      /\ r[Len(q) + 1] = e
  BY <1>1, AppendFacts
<1>3. /\ h.st = g.st /\ h.key = g.key /\ h.ok4 = g.ok4
      /\ h.prepared = g.prepared /\ h.crossed = g.crossed
  BY <1>1 DEF Margin
<1> HIDE DEF r
<1>4. ASSUME g.st = "up"
      PROVE  Chain(h, r, t) /\ Drawn(h, r, t) /\ Keyed(h, r, t) /\ Quiet(h, r, t)
  <2>1. Chain(g, q, s) /\ Drawn(g, q, s) /\ Keyed(g, q, s)
    BY <1>4 DEF Sound
  <2>2. Chain(h, r, t)
    BY <1>1, <1>3, <2>1, ChainAppend DEF r
  <2>3. /\ \A i \in 1..Len(q) : q[i] \in Inbound /\ q[i].seed \in Nat
        /\ g.key \in Nat /\ s.key \in Nat /\ t.key \in Nat
        /\ \A i \in 1..Len(g.out) : g.out[i].key \in Nat
    <3>1. g.out \in Seq(Outbound)
      BY <1>1 DEF Margin
    <3>2. \A i \in 1..Len(g.out) : g.out[i] \in Outbound
      BY <3>1
    <3>3. \A i \in 1..Len(q) : q[i] \in Inbound
      BY <1>1
    <3> QED
      BY <1>1, <3>2, <3>3 DEF Margin, MarginServer, Outbound, Inbound, Key
  <2>4. \A i \in 1..Len(r) : (i \in 1..Len(q) /\ r[i] = q[i]) \/ r[i] = e
    BY <1>2
  <2>5. Drawn(h, r, t)
    <3>1. h.key <= t.key
      BY <1>3, <2>1, <2>3 DEF Drawn
    <3>2. \A i \in 1..Len(r) : Seeded(r[i]) => 1 <= r[i].seed /\ r[i].seed <= t.key
      BY <2>1, <2>3, <2>4 DEF Drawn
    <3>3. ASSUME NEW i \in 1..Len(h.out)
          PROVE  h.out[i].key <= t.key
      <4>1. PICK j \in 1..Len(g.out) : h.out[i] = g.out[j]
        OBVIOUS
      <4>2. g.out[j].key <= s.key /\ g.out[j].key \in Nat
        BY <2>1, <2>3 DEF Drawn
      <4>3. g.out[j].key <= t.key
        BY <2>3, <4>2
      <4> QED
        BY <4>1, <4>3
    <3> QED
      BY <3>1, <3>2, <3>3 DEF Drawn
  <2>6. Keyed(h, r, t)
    BY <1>3, <2>1, <2>4 DEF Keyed
  <2>7. Quiet(h, r, t)
    BY <1>3, <1>4 DEF Quiet
  <2> QED
    BY <2>2, <2>5, <2>6, <2>7
<1>5. Typed(h, r, t)
  BY <1>2 DEF Typed
<1> QED
  BY <1>3, <1>4, <1>5 DEF Sound, r

-----------------------------------------------------------------------------
(* The invariant                                                           *)

\* A connection is sound before anything is sent.
LEMMA NewIsSound ==
    ASSUME NEW g \in {NoMargin, NewMargin}
    PROVE  Sound(g, <<>>, NewServer)
<1>1. /\ g.key = 0 /\ g.out = <<>> /\ ~g.ok4 /\ NewServer.key = 0 /\ NewServer.phase = "idle"
      /\ g \in Margin
  <2>1. NoMargin \in Margin
    BY DEF NoMargin, Margin, Copy, Key
  <2>2. NewMargin \in Margin
    BY <2>1 DEF NewMargin, Margin
  <2>3. NewMargin.out = <<>> /\ NewMargin.key = 0 /\ ~NewMargin.ok4
    BY DEF NewMargin, NoMargin
  <2>4. NoMargin.out = <<>> /\ NoMargin.key = 0 /\ ~NoMargin.ok4
    BY DEF NoMargin
  <2>5. NewServer.key = 0 /\ NewServer.phase = "idle"
    BY DEF NewServer
  <2> QED
    BY <2>1, <2>2, <2>3, <2>4, <2>5
<1>2. NewServer \in MarginServer /\ <<>> \in Seq(Inbound)
  BY DEF NewServer, MarginServer, Key
<1> DEFINE q == <<>>
<1>3. Len(q) = 0 /\ 1..Len(q) = {}
  OBVIOUS
<1> HIDE DEF q
<1>4. Chain(g, q, NewServer) /\ Drawn(g, q, NewServer)
  <2>1. 1..Len(g.out) = {}
    BY <1>1
  <2> QED
    BY <1>1, <1>3, <2>1 DEF Chain, Drawn, KeyAt
<1>5. Keyed(g, q, NewServer)
  BY <1>1, <1>3 DEF Keyed
<1>6. Quiet(g, q, NewServer) /\ First(g, q, NewServer)
  BY <1>1, <1>2 DEF Quiet, First, q
<1> QED
  BY <1>1, <1>2, <1>4, <1>5, <1>6 DEF Sound, Typed, q

\* Without a connection there is nothing to read.
THEOREM InitIsSound == MarginInit => IInv
  BY NewIsSound DEF MarginInit, IInv

\* A request, and what the server takes without an answer.
LEMMA RequestedIsSound ==
    ASSUME IInv, Requested
    PROVE  IInv'
<1> DEFINE h == SendPacket(margin, 6)
<1>1. margin \in Margin /\ inbound \in Seq(Inbound) /\ marginServer \in MarginServer
  BY DEF IInv, Sound, Typed
<1>2. margin.st = "up" /\ margin.ok4 /\ margin' = h /\ inbound' = inbound /\ marginServer' = marginServer
  BY DEF Requested
<1>3. /\ Chain(margin, inbound, marginServer) /\ Drawn(margin, inbound, marginServer)
      /\ Keyed(margin, inbound, marginServer) /\ Quiet(margin, inbound, marginServer)
      /\ ~margin.crossed => First(margin, inbound, marginServer)
  BY <1>2 DEF IInv, Sound
<1>4. /\ h \in Margin
      /\ h = [margin EXCEPT !.out = h.out]
  BY <1>1, SendPacketFacts
<1>5. /\ Drawn(h, inbound, marginServer)
      /\ margin.key # 0 /\ (\A i \in 1..Len(margin.out) : margin.out[i].key # 0) =>
           \A i \in 1..Len(h.out) : h.out[i].key # 0
  BY <1>1, <1>2, <1>3, SendKeeps
<1> HIDE DEF h
<1>6. /\ h.key = margin.key /\ h.ok4 = margin.ok4 /\ h.prepared = margin.prepared
      /\ h.open = margin.open /\ h.crossed = margin.crossed
  BY <1>1, <1>4 DEF Margin
<1>7. margin.key # 0 /\ marginServer.key # 0
  BY <1>1, <1>2, <1>3 DEF Keyed, Drawn, Margin, MarginServer, Key
<1>8. Chain(h, inbound, marginServer)
  BY <1>3, <1>6, SameKeyChain
<1>9. Keyed(h, inbound, marginServer)
  BY <1>3, <1>6 DEF Keyed
<1>10. Quiet(h, inbound, marginServer)
  BY <1>2, <1>3, <1>6 DEF Quiet
<1>11. ~h.crossed => First(h, inbound, marginServer)
  BY <1>3, <1>5, <1>6, <1>7 DEF First
<1> QED
  BY <1>1, <1>2, <1>4, <1>5, <1>8, <1>9, <1>10, <1>11 DEF IInv, Sound, Typed

\* A dropped packet changes no key.
LEMMA DropsIsSound ==
    ASSUME IInv, Drops
    PROVE  IInv'
<1> DEFINE h == [margin EXCEPT !.out = Tail(@)]
           p == Head(margin.out)
<1>1. margin \in Margin /\ inbound \in Seq(Inbound) /\ marginServer \in MarginServer
  BY DEF IInv, Sound, Typed
<1>2. /\ margin' = h /\ inbound' = inbound /\ marginServer' = marginServer
      /\ margin.out # <<>>
      /\ ~Accepts(p) \/ (p.code = 3 /\ marginServer.phase # "challenged")
  BY DEF Drops
<1>3. /\ h \in Margin
      /\ h = [margin EXCEPT !.out = h.out]
      /\ Len(margin.out) \in Nat \ {0}
      /\ Len(h.out) = Len(margin.out) - 1
      /\ p = margin.out[1] /\ p \in Outbound /\ 1 \in 1..Len(margin.out)
      /\ \A i \in 1..Len(h.out) : i + 1 \in 1..Len(margin.out) /\ h.out[i] = margin.out[i + 1]
  BY <1>1, <1>2, TakenFacts
<1> HIDE DEF h, p
<1>4. /\ h.key = margin.key /\ h.ok4 = margin.ok4 /\ h.prepared = margin.prepared
      /\ h.open = margin.open /\ h.crossed = margin.crossed /\ h.st = margin.st
  BY <1>1, <1>3 DEF Margin
<1>5. CASE margin.st = "up"
  <2>1. /\ Chain(margin, inbound, marginServer) /\ Drawn(margin, inbound, marginServer)
        /\ Keyed(margin, inbound, marginServer) /\ Quiet(margin, inbound, marginServer)
        /\ ~margin.crossed => First(margin, inbound, marginServer)
    BY <1>5 DEF IInv, Sound
  <2>2. Chain(h, inbound, marginServer)
    BY <1>4, <2>1, SameKeyChain
  <2>3. Drawn(h, inbound, marginServer)
    BY <1>3, <1>4, <2>1 DEF Drawn
  <2>4. Keyed(h, inbound, marginServer) /\ Quiet(h, inbound, marginServer)
    BY <1>2, <1>4, <2>1 DEF Keyed, Quiet
  <2>5. ASSUME ~h.crossed
        PROVE  First(h, inbound, marginServer)
    <3>1. First(margin, inbound, marginServer)
      BY <1>4, <2>1, <2>5
    <3>2. marginServer.key = 0 => h.out = <<>> /\ inbound = <<>>
      <4>1. SUFFICES ASSUME marginServer.key = 0
                     PROVE  h.out = <<>> /\ inbound = <<>>
        OBVIOUS
      <4>2. Len(margin.out) = 1 /\ inbound = <<>>
        BY <1>2, <3>1, <4>1 DEF First
      <4>3. Len(h.out) = 0 /\ h.out \in Seq(Outbound)
        BY <1>3, <4>2 DEF Margin
      <4> QED
        BY <4>2, <4>3
    <3>3. marginServer.key # 0 => margin.key # 0
      BY <1>2, <3>1 DEF First
    <3>4. h.key # 0 => \A i \in 1..Len(h.out) : h.out[i].key # 0
      BY <1>3, <1>4, <3>1 DEF First
    <3> QED
      BY <1>4, <3>2, <3>3, <3>4 DEF First
  <2> QED
    BY <1>1, <1>2, <1>3, <2>2, <2>3, <2>4, <2>5 DEF IInv, Sound, Typed
<1>6. CASE margin.st # "up"
  BY <1>1, <1>2, <1>3, <1>4, <1>6 DEF IInv, Sound, Typed
<1> QED
  BY <1>5, <1>6

\* The server takes a packet and says e; t is the server after that.
LEMMA TakesAndSays ==
    ASSUME IInv, NEW code, Takes(code), NEW e \in Inbound, NEW t \in MarginServer,
           e.key = marginServer.key, t.key = After(e), marginServer.key <= t.key,
           Seeded(e) => 1 <= e.seed /\ e.seed <= t.key,
           e.ok => e.key # 0,
           t.phase # "idle" => t.key # 0,
           t.key # marginServer.key => e.code = 2 /\ ~Empty(e)
    PROVE  Sound(margin', Append(inbound, e), t)
<1> DEFINE h == [margin EXCEPT !.out = Tail(@)]
           r == Append(inbound, e)
<1>1. margin \in Margin /\ inbound \in Seq(Inbound) /\ marginServer \in MarginServer
  BY DEF IInv, Sound, Typed
<1>2. margin' = h /\ margin.out # <<>>
  BY DEF Takes
<1>3. /\ h \in Margin
      /\ h = [margin EXCEPT !.out = h.out]
      /\ Len(margin.out) \in Nat \ {0}
      /\ Len(h.out) = Len(margin.out) - 1
      /\ \A i \in 1..Len(h.out) : i + 1 \in 1..Len(margin.out) /\ h.out[i] = margin.out[i + 1]
  BY <1>1, <1>2, TakenFacts
<1>4. /\ Len(r) = Len(inbound) + 1
      /\ \A i \in 1..Len(inbound) : r[i] = inbound[i]
      /\ r[Len(inbound) + 1] = e
      /\ r # <<>>
  BY <1>1, AppendFacts
<1> HIDE DEF h, r
<1>5. /\ h.key = margin.key /\ h.open = margin.open
  BY <1>1, <1>3 DEF Margin
<1>6. ASSUME margin.st = "up"
      PROVE  margin.prepared
  <2>1. Quiet(margin, inbound, marginServer)
    BY <1>6 DEF IInv, Sound
  <2> QED
    BY <1>2, <2>1 DEF Quiet
<1>7. ASSUME margin.st = "up", ~margin.crossed
      PROVE  First(h, r, t)
  <2>1. First(margin, inbound, marginServer)
    BY <1>7 DEF IInv, Sound
  <2>2. ASSUME marginServer.key = 0
        PROVE  h.open /\ h.out = <<>> /\ Len(r) = 1 /\ r[1] = e
    <3>1. margin.open /\ Len(margin.out) = 1 /\ inbound = <<>>
      BY <1>2, <2>1, <2>2 DEF First
    <3>2. Len(h.out) = 0 /\ h.out \in Seq(Outbound)
      BY <1>3, <3>1 DEF Margin
    <3>3. h.out = <<>>
      BY <3>2
    <3>4. Len(inbound) = 0
      BY <3>1
    <3> QED
      BY <1>4, <1>5, <3>1, <3>3, <3>4
  <2>3. marginServer.key # 0 => margin.key # 0
    BY <1>2, <2>1 DEF First
  <2>4. t.key = 0 => marginServer.key = 0
    BY <1>1 DEF MarginServer, Key
  <2>5. t.key = 0 => h.open /\ h.out = <<>> /\ Len(r) = 1
    BY <2>2, <2>4
  <2>6. t.key # 0 /\ h.key = 0 => h.open /\ h.out = <<>> /\ r # <<>> /\ r[1].code = 2 /\ ~Empty(r[1])
    BY <1>4, <1>5, <2>2, <2>3
  <2>7. h.key # 0 => \A i \in 1..Len(h.out) : h.out[i].key # 0
    BY <1>3, <1>5, <2>1 DEF First
  <2> QED
    BY <2>5, <2>6, <2>7 DEF First
<1>8. Sound(margin, inbound, marginServer)
  BY DEF IInv
<1>9. Sound(h, r, t)
  <2>1. \A i \in 1..Len(h.out) : \E j \in 1..Len(margin.out) : h.out[i] = margin.out[j]
    BY <1>3
  <2> QED
    BY <1>3, <1>6, <1>7, <1>8, <2>1, SaysKeeps DEF r
<1> QED
  BY <1>2, <1>9 DEF r

\* A challenge carries the next seed under the present key.
LEMMA ChallengesIsSound ==
    ASSUME IInv, NEW defect \in MarginDefects \ {"empty"}, MarginChallenges(defect)
    PROVE  IInv'
<1> DEFINE s == marginServer
           e == [code |-> 2, key |-> s.key, seed |-> s.key + 1, copy |-> Head(margin.out).copy,
                 ok |-> FALSE, defect |-> defect]
           t == [s EXCEPT !.phase = "challenged", !.key = @ + 1]
<1>1. margin \in Margin /\ s \in MarginServer
  BY DEF IInv, Sound, Typed
<1>2. Takes(1) /\ marginServer' = t /\ inbound' = Append(inbound, e) /\ margin.out # <<>>
  BY DEF MarginChallenges, Says, Takes
<1>3. Head(margin.out) \in Outbound
  BY <1>1, <1>2, TakenFacts
<1>4. e \in Inbound /\ e.key = s.key /\ e.code = 2 /\ e.seed = s.key + 1 /\ ~e.ok /\ ~Empty(e)
  BY <1>1, <1>3 DEF Inbound, Outbound, MarginServer, Key, Copy, Empty
<1>5. t \in MarginServer /\ t.key = s.key + 1 /\ s.key \in Nat
  <2>1. s.key \in Nat /\ s.key + 1 \in Nat
    BY <1>1 DEF MarginServer, Key
  <2>2. t.key = s.key + 1
    BY <1>1 DEF MarginServer
  <2>3. t \in MarginServer
    BY <1>1, <2>1 DEF MarginServer, Key
  <2> QED
    BY <2>1, <2>2, <2>3
<1> HIDE DEF e, t
<1>6. t.key = After(e)
  BY <1>4, <1>5 DEF After
<1>7. Sound(margin', Append(inbound, e), t)
  BY <1>2, <1>4, <1>5, <1>6, TakesAndSays
<1> QED
  BY <1>2, <1>7 DEF IInv

\* The server's other answers leave its key.
LEMMA AnswersIsSound ==
    ASSUME IInv, NEW code, Takes(code), NEW e \in Inbound, NEW t \in MarginServer,
           e.key = marginServer.key, t.key = marginServer.key, ~Seeded(e),
           e.ok => e.key # 0,
           t.phase # "idle" => t.key # 0,
           inbound' = Append(inbound, e), marginServer' = t
    PROVE  IInv'
<1>1. marginServer \in MarginServer
  BY DEF IInv, Sound, Typed
<1>2. t.key = After(e) /\ marginServer.key <= t.key
  BY <1>1 DEF After, Seeded, MarginServer, Key
<1>3. Sound(margin', Append(inbound, e), t)
  BY <1>2, TakesAndSays
<1> QED
  BY <1>3 DEF IInv

\* So does a challenge with nothing in it.
LEMMA EmptyIsSound ==
    ASSUME IInv, ChallengesEmpty
    PROVE  IInv'
<1> DEFINE e == [code |-> 2, key |-> marginServer.key, seed |-> 0, copy |-> Head(margin.out).copy,
                 ok |-> FALSE, defect |-> "empty"]
           t == [marginServer EXCEPT !.phase = "idle"]
<1>1. margin \in Margin /\ marginServer \in MarginServer
  BY DEF IInv, Sound, Typed
<1>2. Takes(1) /\ marginServer' = t /\ inbound' = Append(inbound, e) /\ margin.out # <<>>
  BY DEF ChallengesEmpty, Says, Takes
<1>3. Head(margin.out) \in Outbound
  BY <1>1, <1>2, TakenFacts
<1>4. e \in Inbound /\ e.key = marginServer.key /\ ~Seeded(e) /\ ~e.ok
  BY <1>1, <1>3 DEF Inbound, Outbound, MarginServer, MarginDefects, Key, Copy, Seeded, Empty
<1>5. t \in MarginServer /\ t.key = marginServer.key /\ t.phase = "idle"
  BY <1>1 DEF MarginServer
<1> HIDE DEF e, t
<1> QED
  BY <1>2, <1>4, <1>5, AnswersIsSound

\* A refusal comes under the present key.
LEMMA RefusesIsSound ==
    ASSUME IInv, NEW defect \in MarginDefects, Refuses(defect)
    PROVE  IInv'
<1> DEFINE e == [code |-> 4, key |-> marginServer.key, seed |-> 0, copy |-> 0,
                 ok |-> FALSE, defect |-> defect]
           t == [marginServer EXCEPT !.phase = "idle"]
<1>1. marginServer \in MarginServer
  BY DEF IInv, Sound, Typed
<1>2. Takes(1) /\ marginServer' = t /\ inbound' = Append(inbound, e)
  BY DEF Refuses, Says
<1>3. e \in Inbound /\ e.key = marginServer.key /\ ~Seeded(e) /\ ~e.ok
  BY <1>1 DEF Inbound, MarginServer, Key, Copy, Seeded
<1>4. t \in MarginServer /\ t.key = marginServer.key /\ t.phase = "idle"
  BY <1>1 DEF MarginServer
<1> HIDE DEF e, t
<1> QED
  BY <1>2, <1>3, <1>4, AnswersIsSound

\* A verdict comes under the key of the answer.
LEMMA VerdictIsSound ==
    ASSUME IInv, NEW ok \in BOOLEAN, NEW defect \in MarginDefects, margin.st = "up", Verdict(ok, defect)
    PROVE  IInv'
<1> DEFINE e == [code |-> 4, key |-> marginServer.key, seed |-> 0, copy |-> 0,
                 ok |-> ok, defect |-> defect]
           t == [marginServer EXCEPT !.phase = IF ok THEN "session" ELSE "idle"]
<1>1. marginServer \in MarginServer
  BY DEF IInv, Sound, Typed
<1>2. /\ Takes(3) /\ marginServer' = t /\ inbound' = Append(inbound, e)
      /\ marginServer.phase = "challenged"
  BY DEF Verdict, Says
<1>3. marginServer.key # 0
  BY <1>2 DEF IInv, Sound, Keyed
<1>4. e \in Inbound /\ e.key = marginServer.key /\ ~Seeded(e) /\ e.ok = ok
  BY <1>1 DEF Inbound, MarginServer, Key, Copy, Seeded
<1>5. t \in MarginServer /\ t.key = marginServer.key
  BY <1>1 DEF MarginServer
<1> HIDE DEF e, t
<1> QED
  BY <1>2, <1>3, <1>4, <1>5, AnswersIsSound

\* An answer to a request comes under the present key.
LEMMA ServesIsSound ==
    ASSUME IInv, NEW defect \in MarginDefects, margin.st = "up", Serves(defect)
    PROVE  IInv'
<1> DEFINE e == [code |-> 6, key |-> marginServer.key, seed |-> 0, copy |-> 0,
                 ok |-> FALSE, defect |-> defect]
<1>1. marginServer \in MarginServer
  BY DEF IInv, Sound, Typed
<1>2. Takes(6) /\ marginServer' = marginServer /\ inbound' = Append(inbound, e)
  BY DEF Serves, Says
<1>3. e \in Inbound /\ e.key = marginServer.key /\ ~Seeded(e) /\ ~e.ok
  BY <1>1 DEF Inbound, MarginServer, Key, Copy, Seeded
<1>4. marginServer.phase # "idle" => marginServer.key # 0
  BY DEF IInv, Sound, Keyed
<1> HIDE DEF e
<1> QED
  BY <1>1, <1>2, <1>3, <1>4, AnswersIsSound

\* A change of seed announces itself under the old key.
LEMMA RekeysIsSound ==
    ASSUME IInv, NEW defect \in MarginDefects \ {"empty"}, margin.st = "up", Rekeys(defect)
    PROVE  IInv'
<1> DEFINE s == marginServer
           e == [code |-> 5, key |-> s.key, seed |-> s.key + 1, copy |-> 0,
                 ok |-> FALSE, defect |-> defect]
           t == [s EXCEPT !.key = @ + 1]
<1>1. margin \in Margin /\ inbound \in Seq(Inbound) /\ s \in MarginServer
  BY DEF IInv, Sound, Typed
<1>2. /\ marginServer' = t /\ inbound' = Append(inbound, e) /\ margin' = margin
      /\ s.phase = "session"
  BY DEF Rekeys, Says
<1>3. s.key \in Nat /\ s.key # 0 /\ margin.key \in Nat
  BY <1>1, <1>2 DEF IInv, Sound, Keyed, MarginServer, Margin, Key
<1>4. e \in Inbound /\ e.key = s.key /\ e.code = 5 /\ e.seed = s.key + 1 /\ ~e.ok /\ ~Empty(e)
  BY <1>3 DEF Inbound, Key, Copy, Empty
<1>5. t.key = s.key + 1
  BY <1>1 DEF MarginServer
<1>6. t \in MarginServer
  BY <1>1, <1>3 DEF MarginServer, Key
<1> HIDE DEF e, t
<1>7. t.key = After(e) /\ s.key <= t.key /\ t.key # 0
  BY <1>3, <1>4, <1>5 DEF After
<1>8. margin.prepared
  BY <1>2 DEF IInv, Sound, Quiet
<1>9. ASSUME ~margin.crossed
      PROVE  First(margin, Append(inbound, e), t)
  <2>1. First(margin, inbound, s)
    BY <1>9 DEF IInv, Sound
  <2>2. /\ Len(Append(inbound, e)) = Len(inbound) + 1
        /\ \A i \in 1..Len(inbound) : Append(inbound, e)[i] = inbound[i]
        /\ Append(inbound, e) # <<>>
    BY <1>1, <1>4, AppendFacts
  <2>3. margin.key = 0 => margin.open /\ margin.out = <<>> /\ inbound # <<>> /\ inbound[1].code = 2 /\ ~Empty(inbound[1])
    BY <1>3, <2>1 DEF First
  <2>4. inbound # <<>> => 1 \in 1..Len(inbound)
    BY <1>1, TailFacts
  <2> QED
    BY <1>7, <2>1, <2>2, <2>3, <2>4 DEF First
<1>10. \A i \in 1..Len(margin.out) : \E j \in 1..Len(margin.out) : margin.out[i] = margin.out[j]
  OBVIOUS
<1>11. margin = [margin EXCEPT !.out = margin.out]
  BY <1>1 DEF Margin
<1>12. Sound(margin, inbound, s)
  BY DEF IInv
<1>13. Sound(margin, Append(inbound, e), t)
  BY <1>1, <1>3, <1>4, <1>5, <1>6, <1>7, <1>8, <1>9, <1>10, <1>11, <1>12, SaysKeeps
<1> QED
  BY <1>2, <1>13 DEF IInv

\* Every step of the session keeps the invariant.
LEMMA StepIsSound == IInv /\ [MarginNext]_marginVars => IInv'
<1> SUFFICES ASSUME IInv, [MarginNext]_marginVars
             PROVE  IInv'
  OBVIOUS
<1>1. CASE MarginOpens
  BY <1>1, NewIsSound DEF MarginOpens, IInv
<1>2. CASE MarginCloses
  BY <1>2, NewIsSound DEF MarginCloses, IInv
<1>3. CASE CopyIsSent
  <2>1. PICK copy \in Nat, private \in Nat :
            CopySent(margin, copy, private) /\ UNCHANGED inbound
    BY <1>3 DEF CopyIsSent
  <2> QED
    BY <2>1, CopyKeeps DEF CopySent, IInv
<1>4. CASE Requested
  BY <1>4, RequestedIsSound
<1>5. CASE Delivered
  <2> DEFINE g == Received(margin, Head(inbound))
  <2>1. inbound # <<>> /\ inbound' = Tail(inbound)
    BY <1>5 DEF Delivered
  <2>2. Sound(g, Tail(inbound), marginServer)
    BY <2>1, ReceivedKeeps DEF IInv
  <2> HIDE DEF g
  <2>3. CASE margin' = g /\ UNCHANGED marginServer
    BY <2>1, <2>2, <2>3 DEF IInv
  <2>4. CASE \E copy, private \in Nat : CopySent(g, copy, private)
    <3>1. PICK copy \in Nat, private \in Nat : CopySent(g, copy, private)
      BY <2>4
    <3> QED
      BY <2>1, <2>2, <3>1, CopyKeeps DEF CopySent, IInv
  <2> QED
    BY <1>5, <2>3, <2>4 DEF Delivered, g
<1>6. ASSUME NEW ok \in BOOLEAN, NEW defect \in MarginDefects, MarginServerActs(ok, defect)
      PROVE  IInv'
  <2>1. margin.st = "up"
    BY <1>6 DEF MarginServerActs
  <2>2. CASE defect # "empty" /\ MarginChallenges(defect)
    BY <2>2, ChallengesIsSound
  <2>8. CASE ChallengesEmpty
    BY <2>8, EmptyIsSound
  <2>3. CASE Refuses(defect)
    BY <2>3, RefusesIsSound
  <2>4. CASE Verdict(ok, defect)
    BY <2>1, <2>4, VerdictIsSound
  <2>5. CASE Serves(defect)
    BY <2>1, <2>5, ServesIsSound
  <2>6. CASE Drops
    BY <2>6, DropsIsSound
  <2>7. CASE defect # "empty" /\ Rekeys(defect)
    BY <2>1, <2>7, RekeysIsSound
  <2> QED
    BY <1>6, <2>2, <2>3, <2>4, <2>5, <2>6, <2>7, <2>8 DEF MarginServerActs
<1>7. CASE UNCHANGED marginVars
  BY <1>7 DEF marginVars, IInv
<1> QED
  BY <1>1, <1>2, <1>3, <1>4, <1>5, <1>6, <1>7 DEF MarginNext

\* The queue to the client is a chain of keys in every reachable state.
THEOREM SoundAlways == MarginSpec => []IInv
  BY InitIsSound, StepIsSound, PTL DEF MarginSpec

\* The records of the model keep their types.
THEOREM MarginTypes == MarginSpec => []MarginTypeOK
<1>1. IInv => MarginTypeOK
  BY DEF IInv, Sound, Typed, MarginTypeOK
<1> QED
  BY <1>1, SoundAlways, PTL

\* A packet that is on its way can be decrypted where it arrives, in both
\* directions, for any number of seeds, copies and packets in the queues.
THEOREM PacketsReadable == MarginSpec => []PacketsAreReadable
<1>1. ASSUME IInv
      PROVE  PacketsAreReadable
  <2>1. SUFFICES ASSUME margin.st = "up"
                 PROVE  /\ \A i \in 1..Len(inbound) : inbound[i].key = KeyAfter(i - 1)
                        /\ marginServer.key = KeyAfter(Len(inbound))
                        /\ ~margin.crossed => \A i \in 1..Len(margin.out) : Accepts(margin.out[i])
    BY DEF PacketsAreReadable
  <2>2. /\ margin \in Margin /\ marginServer \in MarginServer
        /\ Chain(margin, inbound, marginServer)
        /\ Drawn(margin, inbound, marginServer)
        /\ ~margin.crossed => First(margin, inbound, marginServer)
    BY <1>1, <2>1 DEF IInv, Sound, Typed
  <2>3. \A n : KeyAfter(n) = KeyAt(margin, inbound, n)
    BY DEF KeyAfter, KeyAt
  <2>4. ASSUME ~margin.crossed, NEW i \in 1..Len(margin.out)
        PROVE  Accepts(margin.out[i])
    <3>1. First(margin, inbound, marginServer)
      BY <2>2, <2>4
    <3>2. margin.out \in Seq(Outbound) /\ margin.out[i] \in Outbound
      BY <2>2, <2>4 DEF Margin
    <3>3. margin.out[i].key \in Nat /\ marginServer.key \in Nat
      BY <2>2, <3>2 DEF Outbound, Key, MarginServer
    <3>4. margin.out[i].key <= marginServer.key
      BY <2>2, <2>4 DEF Drawn
    <3>5. marginServer.key # 0 => margin.out[i].key # 0
      BY <2>4, <3>1, <3>2 DEF First
    <3> QED
      BY <3>3, <3>4, <3>5 DEF Accepts
  <2> QED
    BY <2>2, <2>3, <2>4 DEF Chain
<1> QED
  BY <1>1, SoundAlways, PTL

-----------------------------------------------------------------------------
(* The copy that is challenged                                             *)

\* What takes part in sending one copy: it, its challenge, the answer, the verdict.
Asks(p) == p.code \in {1, 3}
Tells(p) == p.code \in {2, 4}

Idle(out, q) ==
    /\ \A i \in 1..Len(out) : ~Asks(out[i])
    /\ \A i \in 1..Len(q) : ~Tells(q[i])

\* One of them is on its way, at most.
OneStep(out, q) ==
    /\ \A i, j \in 1..Len(out) : Asks(out[i]) /\ Asks(out[j]) => i = j
    /\ \A i, j \in 1..Len(q) : Tells(q[i]) /\ Tells(q[j]) => i = j
    /\ \A i \in 1..Len(out), j \in 1..Len(q) : ~(Asks(out[i]) /\ Tells(q[j]))

OfCopy(copy, out, q) ==
    /\ \A i \in 1..Len(out) : out[i].code = 1 => out[i].copy = copy
    /\ \A i \in 1..Len(q) : q[i].code = 2 => q[i].copy = copy

\* Until a second copy crosses the first, the exchange is in one place, and
\* over with its verdict; so the challenge is for the copy the client has.
Exchange(g, q) ==
    /\ g.prep \in {g.copy, 0}
    /\ ~g.crossed => /\ OneStep(g.out, q)
                     /\ OfCopy(g.copy, g.out, q)
                     /\ ~g.open => Idle(g.out, q)

InExchange(g, q) == g.st = "up" => Exchange(g, q)

\* Without the packet that came first, an exchange is where it was or nowhere.
LEMMA OneStepTail ==
    ASSUME NEW S, NEW out \in Seq(S), NEW T, NEW q \in Seq(T), NEW copy
    PROVE  /\ out # <<>> /\ OneStep(out, q) =>
                /\ OneStep(Tail(out), q)
                /\ Asks(Head(out)) => Idle(Tail(out), q)
           /\ out # <<>> /\ Idle(out, q) => Idle(Tail(out), q) /\ ~Asks(Head(out))
           /\ out # <<>> /\ OfCopy(copy, out, q) =>
                /\ OfCopy(copy, Tail(out), q)
                /\ Head(out).code = 1 => Head(out).copy = copy
           /\ q # <<>> /\ OneStep(out, q) =>
                /\ OneStep(out, Tail(q))
                /\ Tells(Head(q)) => Idle(out, Tail(q))
           /\ q # <<>> /\ Idle(out, q) => Idle(out, Tail(q)) /\ ~Tells(Head(q))
           /\ q # <<>> /\ OfCopy(copy, out, q) =>
                /\ OfCopy(copy, out, Tail(q))
                /\ Head(q).code = 2 => Head(q).copy = copy
<1>1. ASSUME out # <<>>
      PROVE  /\ Head(out) = out[1] /\ 1 \in 1..Len(out)
             /\ \A i \in 1..Len(Tail(out)) : /\ i + 1 \in 1..Len(out) /\ Tail(out)[i] = out[i + 1]
                                             /\ i + 1 # 1
             /\ \A i, j \in 1..Len(Tail(out)) : i + 1 = j + 1 => i = j
  BY <1>1, TailFacts
<1>2. ASSUME q # <<>>
      PROVE  /\ Head(q) = q[1] /\ 1 \in 1..Len(q)
             /\ \A i \in 1..Len(Tail(q)) : /\ i + 1 \in 1..Len(q) /\ Tail(q)[i] = q[i + 1]
                                           /\ i + 1 # 1
             /\ \A i, j \in 1..Len(Tail(q)) : i + 1 = j + 1 => i = j
  BY <1>2, TailFacts
<1>3. out # <<>> /\ OneStep(out, q) => OneStep(Tail(out), q)
  BY <1>1 DEF OneStep
<1>4. out # <<>> /\ OneStep(out, q) /\ Asks(Head(out)) => Idle(Tail(out), q)
  BY <1>1 DEF OneStep, Idle
<1>5. out # <<>> /\ Idle(out, q) => Idle(Tail(out), q) /\ ~Asks(Head(out))
  BY <1>1 DEF Idle
<1>6. out # <<>> /\ OfCopy(copy, out, q) =>
          OfCopy(copy, Tail(out), q) /\ (Head(out).code = 1 => Head(out).copy = copy)
  BY <1>1 DEF OfCopy
<1>7. q # <<>> /\ OneStep(out, q) => OneStep(out, Tail(q))
  BY <1>2 DEF OneStep
<1>8. q # <<>> /\ OneStep(out, q) /\ Tells(Head(q)) => Idle(out, Tail(q))
  BY <1>2 DEF OneStep, Idle
<1>9. q # <<>> /\ Idle(out, q) => Idle(out, Tail(q)) /\ ~Tells(Head(q))
  BY <1>2 DEF Idle
<1>10. q # <<>> /\ OfCopy(copy, out, q) =>
          OfCopy(copy, out, Tail(q)) /\ (Head(q).code = 2 => Head(q).copy = copy)
  BY <1>2 DEF OfCopy
<1> QED
  BY <1>3, <1>4, <1>5, <1>6, <1>7, <1>8, <1>9, <1>10

\* What the client sends that starts or goes on with an exchange joins an idle one.
LEMMA SentInOneStep ==
    ASSUME NEW S, NEW out \in Seq(S), NEW q, NEW copy, NEW d \in S
    PROVE  /\ OneStep(out, q) /\ (Asks(d) => Idle(out, q)) => OneStep(Append(out, d), q)
           /\ Idle(out, q) /\ ~Asks(d) => Idle(Append(out, d), q)
           /\ OfCopy(copy, out, q) /\ (d.code = 1 => d.copy = copy) => OfCopy(copy, Append(out, d), q)
<1>1. \A i \in 1..Len(Append(out, d)) : \/ i \in 1..Len(out) /\ Append(out, d)[i] = out[i]
                                        \/ i = Len(out) + 1 /\ Append(out, d)[i] = d
  BY AppendFacts
<1>2. OneStep(out, q) /\ (Asks(d) => Idle(out, q)) => OneStep(Append(out, d), q)
  BY <1>1 DEF OneStep, Idle
<1>3. Idle(out, q) /\ ~Asks(d) => Idle(Append(out, d), q)
  BY <1>1 DEF Idle
<1>4. OfCopy(copy, out, q) /\ (d.code = 1 => d.copy = copy) => OfCopy(copy, Append(out, d), q)
  BY <1>1 DEF OfCopy
<1> QED
  BY <1>2, <1>3, <1>4

\* So does what the server says.
LEMMA SaidInOneStep ==
    ASSUME NEW out, NEW T, NEW q \in Seq(T), NEW copy, NEW e \in T
    PROVE  /\ OneStep(out, q) /\ (Tells(e) => Idle(out, q)) => OneStep(out, Append(q, e))
           /\ Idle(out, q) /\ ~Tells(e) => Idle(out, Append(q, e))
           /\ OfCopy(copy, out, q) /\ (e.code = 2 => e.copy = copy) => OfCopy(copy, out, Append(q, e))
<1>1. \A i \in 1..Len(Append(q, e)) : \/ i \in 1..Len(q) /\ Append(q, e)[i] = q[i]
                                      \/ i = Len(q) + 1 /\ Append(q, e)[i] = e
  BY AppendFacts
<1>2. OneStep(out, q) /\ (Tells(e) => Idle(out, q)) => OneStep(out, Append(q, e))
  BY <1>1 DEF OneStep, Idle
<1>3. Idle(out, q) /\ ~Tells(e) => Idle(out, Append(q, e))
  BY <1>1 DEF Idle
<1>4. OfCopy(copy, out, q) /\ (e.code = 2 => e.copy = copy) => OfCopy(copy, out, Append(q, e))
  BY <1>1 DEF OfCopy
<1> QED
  BY <1>2, <1>3, <1>4

\* An idle exchange is in one place, and of any copy.
LEMMA IdleIsOneStep ==
    ASSUME NEW out, NEW q, Idle(out, q), NEW copy
    PROVE  OneStep(out, q) /\ OfCopy(copy, out, q)
  BY DEF Idle, OneStep, OfCopy, Asks, Tells

\* What is sent, and by whom.
LEMMA SentIs ==
    ASSUME NEW g \in Margin, NEW code \in {1, 3, 6}, g.st = "up"
    PROVE  SendPacket(g, code) = [g EXCEPT !.out = Append(g.out, [code |-> code, key |-> g.key, copy |-> g.copy])]
  BY DEF SendPacket, Encrypted

\* A copy opens an exchange, or crosses one.
LEMMA CopyOpensExchange ==
    ASSUME NEW g \in Margin, NEW q \in Seq(Inbound), NEW copy \in Nat, NEW private \in Nat, InExchange(g, q)
    PROVE  InExchange(SendCopy(g, copy, private), q)
<1> DEFINE f == [g EXCEPT !.copy = copy,
                          !.prepared = TRUE,
                          !.prep = AuthBootstrapState(copy, private),
                          !.open = TRUE,
                          !.crossed = @ \/ g.open]
           d == [code |-> 1, key |-> g.key, copy |-> copy]
           h == SendCopy(g, copy, private)
<1>1. f \in Margin /\ g.out \in Seq(Outbound) /\ d \in Outbound
  BY DEF Margin, Copy, AuthBootstrapState, Outbound
<1>2. /\ f.st = g.st /\ f.key = g.key /\ f.out = g.out /\ f.copy = copy
      /\ f.prep \in {copy, 0} /\ f.open /\ f.crossed = (g.crossed \/ g.open)
  BY DEF Margin, AuthBootstrapState
<1>3. h = SendPacket(f, 1)
  BY DEF SendCopy
<1> HIDE DEF f
<1>4. CASE g.st # "up"
  BY <1>2, <1>3, <1>4 DEF SendPacket, InExchange
<1>5. CASE g.st = "up"
  <2>1. h = [f EXCEPT !.out = Append(g.out, d)]
    <3>1. h = [f EXCEPT !.out = Append(f.out, [code |-> 1, key |-> f.key, copy |-> f.copy])]
      BY <1>1, <1>2, <1>3, <1>5, SentIs
    <3> QED
      BY <1>2, <3>1
  <2>2. /\ h.copy = copy /\ h.prep \in {copy, 0} /\ h.open /\ h.crossed = (g.crossed \/ g.open)
        /\ h.out = Append(g.out, d)
    BY <1>1, <1>2, <2>1 DEF Margin
  <2>3. d.copy = copy /\ d.code = 1
    OBVIOUS
  <2> HIDE DEF h, d
  <2>4. ASSUME ~h.crossed
        PROVE  OneStep(h.out, q) /\ OfCopy(copy, h.out, q)
    <3>1. Idle(g.out, q)
      BY <1>5, <2>2, <2>4 DEF InExchange, Exchange
    <3>2. OneStep(g.out, q) /\ OfCopy(copy, g.out, q)
      BY <3>1, IdleIsOneStep
    <3>3. OneStep(Append(g.out, d), q)
      BY <1>1, <3>1, <3>2, SentInOneStep
    <3>4. OfCopy(copy, Append(g.out, d), q)
      BY <1>1, <2>3, <3>2, SentInOneStep
    <3> QED
      BY <2>2, <3>3, <3>4
  <2> QED
    BY <2>2, <2>4 DEF InExchange, Exchange, h
<1> QED
  BY <1>4, <1>5

\* A request in a session is no part of an exchange; an answer goes on with one.
LEMMA PacketInExchange ==
    ASSUME NEW g \in Margin, NEW q \in Seq(Inbound), NEW code \in {3, 6}, g.st = "up", Exchange(g, q),
           code = 3 => g.open /\ Idle(g.out, q)
    PROVE  Exchange(SendPacket(g, code), q)
<1> DEFINE d == [code |-> code, key |-> g.key, copy |-> g.copy]
           h == SendPacket(g, code)
<1>1. g.out \in Seq(Outbound) /\ d \in Outbound
  BY DEF Margin, Outbound
<1>2. h = [g EXCEPT !.out = Append(g.out, d)]
  BY SentIs
<1>3. /\ h.copy = g.copy /\ h.prep = g.prep /\ h.open = g.open /\ h.crossed = g.crossed
      /\ h.out = Append(g.out, d)
  BY <1>2 DEF Margin
<1>4. d.code = code
  OBVIOUS
<1> HIDE DEF h, d
<1>5. ASSUME ~h.crossed
      PROVE  /\ OneStep(h.out, q) /\ OfCopy(g.copy, h.out, q)
             /\ ~g.open => Idle(h.out, q)
  <2>1. /\ OneStep(g.out, q) /\ OfCopy(g.copy, g.out, q)
        /\ ~g.open => Idle(g.out, q)
    BY <1>3, <1>5 DEF Exchange
  <2>2. Asks(d) => g.open /\ Idle(g.out, q)
    BY <1>4 DEF Asks
  <2>3. OneStep(h.out, q)
    BY <1>1, <1>3, <2>1, <2>2, SentInOneStep
  <2>4. OfCopy(g.copy, h.out, q)
    BY <1>1, <1>3, <1>4, <2>1, SentInOneStep
  <2>5. ~g.open => Idle(h.out, q)
    BY <1>1, <1>3, <2>1, <2>2, SentInOneStep
  <2> QED
    BY <2>3, <2>4, <2>5
<1> QED
  BY <1>3, <1>5 DEF Exchange, h

\* What the client reads takes part in its exchange, and ends it with a verdict.
LEMMA ReceivedInExchange ==
    ASSUME NEW g \in Margin, NEW q \in Seq(Inbound), q # <<>>, g.prepared,
           InExchange(g, q)
    PROVE  InExchange(Received(g, Head(q)), Tail(q))
<1> DEFINE p == Head(q)
           r == Tail(q)
           h == Received(g, p)
<1>1. p \in Inbound /\ r \in Seq(Inbound) /\ h \in Margin /\ g.out \in Seq(Outbound)
  BY TailFacts, ReceivedFacts DEF Margin
<1>2. h.st = "up" => /\ g.st = "up"
                     /\ p.defect # "oversized"
                     /\ p.code = 2 /\ ~Empty(p) /\ Readable(g, p) /\ g.prepared => g.prep = p.copy
  BY <1>1, ReceivedFacts
<1>3. /\ OneStep(g.out, q) => OneStep(g.out, r) /\ (Tells(p) => Idle(g.out, r))
      /\ Idle(g.out, q) => Idle(g.out, r) /\ ~Tells(p)
      /\ OfCopy(g.copy, g.out, q) => OfCopy(g.copy, g.out, r)
  BY <1>1, OneStepTail
<1> HIDE DEF p, r
<1>4. SUFFICES ASSUME h.st = "up"
               PROVE  Exchange(h, r)
  BY DEF InExchange, h, p, r
<1>5. g.st = "up" /\ Exchange(g, q)
  BY <1>2, <1>4 DEF InExchange
<1>6. Exchange(g, r)
  BY <1>3, <1>5 DEF Exchange
<1>7. CASE ~Readable(g, p) \/ p.code = 6
  <2>1. h = g
    BY <1>2, <1>4, <1>7 DEF Received, Dispatched, Routed
  <2> QED
    BY <1>6, <2>1
<1>11. CASE Readable(g, p) /\ (p.code \in {2, 4, 5} /\ Empty(p))
  <2>1. h = g \/ h = PassedOver(g)
    BY <1>2, <1>4, <1>11 DEF Received, Dispatched, Routed, HandleCode2, HandleCode4, HandleCode5
  <2>2. /\ h.copy = g.copy /\ h.prep = g.prep /\ h.crossed = g.crossed /\ h.out = g.out
        /\ h.open = g.open
    BY <2>1 DEF PassedOver, Margin
  <2> HIDE DEF h
  <2> QED
    BY <1>6, <2>2 DEF Exchange
<1>8. CASE Readable(g, p) /\ p.code = 2 /\ ~Empty(p)
  <2> DEFINE f == Installed(g, p.seed)
  <2>1. g.prep = p.copy /\ h = SendPacket(f, 3)
    BY <1>2, <1>4, <1>8 DEF Received, Dispatched, Routed, HandleCode2, Challenged,
       DecryptsChallenge, Answered
  <2>2. /\ f \in Margin /\ f.st = g.st /\ f.copy = g.copy /\ f.prep = g.prep
        /\ f.open = g.open /\ f.crossed = g.crossed /\ f.out = g.out
    BY <1>1 DEF Installed, Margin, Inbound, Key
  <2> HIDE DEF f
  <2>3. Exchange(f, r)
    BY <1>6, <2>2 DEF Exchange
  <2>4. CASE ~g.crossed
    <3>1. f.open /\ Idle(f.out, r)
      BY <1>3, <1>5, <1>8, <2>2, <2>4 DEF Exchange, Tells
    <3> QED
      BY <1>1, <1>5, <2>1, <2>2, <2>3, <3>1, PacketInExchange DEF r
  <2>5. CASE g.crossed
    <3>1. h = [f EXCEPT !.out = Append(f.out, [code |-> 3, key |-> f.key, copy |-> f.copy])]
      BY <1>5, <2>1, <2>2, SentIs
    <3>2. h.crossed /\ h.prep = g.prep /\ h.copy = g.copy
      BY <2>2, <2>5, <3>1 DEF Margin
    <3> QED
      BY <1>5, <3>2 DEF Exchange
  <2> QED
    BY <2>4, <2>5
<1>9. CASE Readable(g, p) /\ p.code = 4 /\ ~Empty(p)
  <2>1. h = [g EXCEPT !.ok4 = p.ok, !.open = FALSE]
    BY <1>2, <1>4, <1>9 DEF Received, Dispatched, Routed, HandleCode4
  <2>2. h.copy = g.copy /\ h.prep = g.prep /\ h.crossed = g.crossed /\ h.out = g.out
    BY <2>1 DEF Margin
  <2>3. ~g.crossed => Idle(g.out, r)
    BY <1>3, <1>5, <1>9 DEF Exchange, Tells
  <2> HIDE DEF h
  <2> QED
    BY <1>6, <2>2, <2>3 DEF Exchange
<1>10. CASE Readable(g, p) /\ p.code = 5 /\ ~Empty(p)
  <2>1. h = [g EXCEPT !.key = p.seed]
    BY <1>2, <1>4, <1>10 DEF Received, Dispatched, Routed, HandleCode5, Installed
  <2>2. h.copy = g.copy /\ h.prep = g.prep /\ h.crossed = g.crossed /\ h.out = g.out /\ h.open = g.open
    BY <2>1 DEF Margin
  <2> HIDE DEF h
  <2> QED
    BY <1>6, <2>2 DEF Exchange
<1> QED
  BY <1>1, <1>7, <1>8, <1>9, <1>10, <1>11 DEF Inbound

\* What the server says about a packet it has taken goes on with its exchange.
LEMMA SaidInExchange ==
    ASSUME MarginTypeOK, margin.st = "up", InExchange(margin, inbound), NEW code \in {1, 3, 6},
           Takes(code), NEW e \in Inbound, inbound' = Append(inbound, e),
           Tells(e) => code # 6,
           e.code = 2 => code = 1 /\ e.copy = Head(margin.out).copy
    PROVE  InExchange(margin', inbound')
<1> DEFINE o == margin.out
<1>1. o \in Seq(Outbound) /\ inbound \in Seq(Inbound)
  BY DEF MarginTypeOK, Margin
<1>2. o # <<>> /\ Head(o).code = code /\ margin' = [margin EXCEPT !.out = Tail(o)]
  BY DEF Takes
<1>3. /\ margin'.out = Tail(o) /\ margin'.copy = margin.copy /\ margin'.prep = margin.prep
      /\ margin'.open = margin.open /\ margin'.crossed = margin.crossed
  BY <1>2 DEF MarginTypeOK, Margin
<1>4. Exchange(margin, inbound)
  BY DEF InExchange
<1> HIDE DEF o
<1>5. ASSUME ~margin.crossed
      PROVE  /\ OneStep(Tail(o), inbound') /\ OfCopy(margin.copy, Tail(o), inbound')
             /\ ~margin.open => Idle(Tail(o), inbound')
  <2>1. /\ OneStep(o, inbound) /\ OfCopy(margin.copy, o, inbound)
        /\ ~margin.open => Idle(o, inbound)
    BY <1>4, <1>5 DEF Exchange, o
  <2>2. /\ OneStep(Tail(o), inbound) /\ OfCopy(margin.copy, Tail(o), inbound)
        /\ code # 6 => Idle(Tail(o), inbound)
        /\ ~margin.open => Idle(Tail(o), inbound) /\ code = 6
        /\ code = 1 => Head(o).copy = margin.copy
    BY <1>1, <1>2, <2>1, OneStepTail DEF Asks
  <2>3. OneStep(Tail(o), inbound')
    BY <1>1, <2>2, SaidInOneStep
  <2>4. OfCopy(margin.copy, Tail(o), inbound')
    BY <1>1, <2>2, SaidInOneStep DEF o
  <2>5. ~margin.open => Idle(Tail(o), inbound')
    BY <1>1, <2>2, SaidInOneStep
  <2> QED
    BY <2>3, <2>4, <2>5
<1> QED
  BY <1>3, <1>4, <1>5 DEF InExchange, Exchange

\* Whatever the server does keeps the exchange one.
LEMMA ServerInExchange ==
    ASSUME MarginTypeOK, InExchange(margin, inbound), NEW ok \in BOOLEAN, NEW defect \in MarginDefects,
           MarginServerActs(ok, defect)
    PROVE  InExchange(margin', inbound')
<1>1. margin.st = "up" /\ margin \in Margin /\ inbound \in Seq(Inbound) /\ marginServer \in MarginServer
  BY DEF MarginServerActs, MarginTypeOK
<1>2. margin.out \in Seq(Outbound) /\ marginServer.key \in Nat /\ marginServer.key + 1 \in Nat
  BY <1>1 DEF Margin, MarginServer, Key
<1>3. ASSUME margin.out # <<>>
      PROVE  Head(margin.out).copy \in Nat
  <2>1. Head(margin.out) \in Outbound
    BY <1>2, <1>3, TailFacts
  <2> QED
    BY <2>1 DEF Outbound, Copy
<1>4. CASE MarginChallenges(defect) \/ ChallengesEmpty
  <2>1. PICK seed \in Nat, d \in MarginDefects : Takes(1) /\ Says(2, seed, FALSE, d)
    <3>1. CASE MarginChallenges(defect)
      BY <1>2, <3>1 DEF MarginChallenges
    <3>2. CASE ChallengesEmpty
      BY <3>2 DEF ChallengesEmpty, MarginDefects
    <3> QED
      BY <1>4, <3>1, <3>2
  <2> DEFINE e == [code |-> 2, key |-> marginServer.key, seed |-> seed,
                   copy |-> Head(margin.out).copy, ok |-> FALSE, defect |-> d]
  <2>3. inbound' = Append(inbound, e) /\ margin.out # <<>>
    BY <2>1 DEF Says, Takes
  <2>2. e \in Inbound /\ e.code = 2 /\ e.copy = Head(margin.out).copy
    BY <1>2, <1>3, <2>3 DEF Inbound, Key, Copy
  <2> HIDE DEF e
  <2> QED
    BY <1>1, <2>1, <2>2, <2>3, SaidInExchange
<1>5. CASE Refuses(defect) \/ Verdict(ok, defect)
  <2>1. ASSUME NEW o, Says(4, 0, o, defect)
        PROVE  inbound' = Append(inbound, [code |-> 4, key |-> marginServer.key, seed |-> 0,
                                           copy |-> 0, ok |-> o, defect |-> defect])
    BY <2>1 DEF Says
  <2>2. PICK o \in BOOLEAN, code \in {1, 3} :
            /\ Takes(code)
            /\ inbound' = Append(inbound, [code |-> 4, key |-> marginServer.key, seed |-> 0,
                                           copy |-> 0, ok |-> o, defect |-> defect])
    <3>1. CASE Refuses(defect)
      <4>1. Takes(1) /\ Says(4, 0, FALSE, defect)
        BY <3>1 DEF Refuses
      <4> QED
        BY <2>1, <4>1
    <3>2. CASE Verdict(ok, defect)
      <4>1. Takes(3) /\ Says(4, 0, ok, defect)
        BY <3>2 DEF Verdict
      <4> QED
        BY <2>1, <4>1
    <3> QED
      BY <1>5, <3>1, <3>2
  <2> DEFINE e == [code |-> 4, key |-> marginServer.key, seed |-> 0, copy |-> 0, ok |-> o, defect |-> defect]
  <2>3. e \in Inbound /\ e.code = 4
    BY <1>2 DEF Inbound, Key, Copy
  <2>4. inbound' = Append(inbound, e)
    BY <2>2
  <2> HIDE DEF e
  <2> QED
    BY <1>1, <2>2, <2>3, <2>4, SaidInExchange
<1>6. CASE Serves(defect)
  <2> DEFINE e == [code |-> 6, key |-> marginServer.key, seed |-> 0, copy |-> 0, ok |-> FALSE, defect |-> defect]
  <2>1. Takes(6) /\ inbound' = Append(inbound, e)
    BY <1>6 DEF Serves, Says
  <2>2. e \in Inbound /\ e.code = 6
    BY <1>2 DEF Inbound, Key, Copy
  <2> HIDE DEF e
  <2> QED
    BY <1>1, <2>1, <2>2, SaidInExchange DEF Tells
<1>7. CASE Drops
  <2>1. margin.out # <<>> /\ margin' = [margin EXCEPT !.out = Tail(@)] /\ inbound' = inbound
    BY <1>7 DEF Drops
  <2>2. /\ margin'.out = Tail(margin.out) /\ margin'.copy = margin.copy /\ margin'.prep = margin.prep
        /\ margin'.open = margin.open /\ margin'.crossed = margin.crossed
    BY <1>1, <2>1 DEF Margin
  <2>3. Exchange(margin, inbound)
    BY <1>1 DEF InExchange
  <2> QED
    BY <1>1, <1>2, <2>1, <2>2, <2>3, OneStepTail DEF InExchange, Exchange
<1>8. CASE Rekeys(defect)
  <2> DEFINE e == [code |-> 5, key |-> marginServer.key, seed |-> marginServer.key + 1, copy |-> 0,
                   ok |-> FALSE, defect |-> defect]
  <2>1. margin' = margin /\ inbound' = Append(inbound, e)
    BY <1>8 DEF Rekeys, Says
  <2>2. e \in Inbound /\ e.code = 5
    BY <1>2 DEF Inbound, Key, Copy
  <2>3. Exchange(margin, inbound)
    BY <1>1 DEF InExchange
  <2> HIDE DEF e
  <2>4. ~Tells(e) /\ e.code # 2
    BY <2>2 DEF Tells
  <2>5. ASSUME ~margin.crossed
        PROVE  /\ OneStep(margin.out, inbound') /\ OfCopy(margin.copy, margin.out, inbound')
               /\ ~margin.open => Idle(margin.out, inbound')
    <3>1. /\ OneStep(margin.out, inbound) /\ OfCopy(margin.copy, margin.out, inbound)
          /\ ~margin.open => Idle(margin.out, inbound)
      BY <2>3, <2>5 DEF Exchange
    <3> QED
      BY <1>1, <2>1, <2>2, <2>4, <3>1, SaidInOneStep
  <2> QED
    BY <2>1, <2>3, <2>5 DEF InExchange, Exchange
<1> QED
  BY <1>4, <1>5, <1>6, <1>7, <1>8 DEF MarginServerActs

\* The exchange stays one in every step of the session.
LEMMA StepInExchange ==
    IInv /\ InExchange(margin, inbound) /\ [MarginNext]_marginVars => InExchange(margin', inbound')
<1> SUFFICES ASSUME IInv, InExchange(margin, inbound), [MarginNext]_marginVars
             PROVE  InExchange(margin', inbound')
  OBVIOUS
<1>1. margin \in Margin /\ inbound \in Seq(Inbound) /\ MarginTypeOK
  BY DEF IInv, Sound, Typed, MarginTypeOK
<1>2. InExchange(NewMargin, <<>>) /\ InExchange(NoMargin, <<>>)
  <2>1. NewMargin.out = <<>> /\ NewMargin.prep = 0
    BY DEF NewMargin, NoMargin
  <2>2. NoMargin.st = "none"
    BY DEF NoMargin
  <2>3. Idle(<<>>, <<>>)
    BY DEF Idle
  <2> QED
    BY <2>1, <2>2, <2>3, IdleIsOneStep DEF InExchange, Exchange
<1>3. CASE MarginOpens
  BY <1>2, <1>3 DEF MarginOpens
<1>4. CASE MarginCloses
  BY <1>2, <1>4 DEF MarginCloses
<1>5. CASE CopyIsSent
  BY <1>1, <1>5, CopyOpensExchange DEF CopyIsSent, CopySent
<1>6. CASE Requested
  <2>1. margin.st = "up" /\ margin' = SendPacket(margin, 6) /\ inbound' = inbound
    BY <1>6 DEF Requested
  <2> QED
    BY <1>1, <2>1, PacketInExchange DEF InExchange
<1>7. CASE Delivered
  <2> DEFINE g == Received(margin, Head(inbound))
  <2>1. inbound # <<>> /\ inbound' = Tail(inbound) /\ inbound' \in Seq(Inbound)
    BY <1>1, <1>7, TailFacts DEF Delivered
  <2>2. g \in Margin
    BY <1>1, <2>1, TailFacts, ReceivedFacts
  <2>3. InExchange(g, inbound')
    <3>1. CASE margin.st = "up"
      <4>1. margin.prepared
        BY <2>1, <3>1 DEF IInv, Sound, Quiet
      <4> QED
        BY <1>1, <2>1, <4>1, ReceivedInExchange
    <3>2. CASE margin.st # "up"
      <4>1. g.st # "up"
        BY <1>1, <2>1, <3>2, TailFacts, ReceivedFacts
      <4> QED
        BY <4>1 DEF InExchange
    <3> QED
      BY <3>1, <3>2
  <2> HIDE DEF g
  <2>4. margin' = g \/ \E copy, private \in Nat : margin' = SendCopy(g, copy, private)
    BY <1>7 DEF Delivered, CopySent, g
  <2> QED
    BY <2>1, <2>2, <2>3, <2>4, CopyOpensExchange
<1>8. CASE \E ok \in BOOLEAN, defect \in MarginDefects : MarginServerActs(ok, defect)
  BY <1>1, <1>8, ServerInExchange
<1>9. CASE UNCHANGED marginVars
  BY <1>9 DEF marginVars
<1> QED
  BY <1>3, <1>4, <1>5, <1>6, <1>7, <1>8, <1>9 DEF MarginNext

\* What a margin server challenges is the copy whose key the connection has,
\* until a second copy crosses the first, for any number of copies and seeds.
ChallengeFitsTheCopy ==
    margin.st = "up" /\ ~margin.crossed =>
        \A i \in DOMAIN inbound : inbound[i].code = 2 => margin.prep \in {inbound[i].copy, 0}

\* One exchange at a time is under way, and its challenge is of its copy.
THEOREM ChallengesFit == MarginSpec => []ChallengeFitsTheCopy
<1> DEFINE J == InExchange(margin, inbound)
<1>1. MarginInit => J
  BY DEF MarginInit, NoMargin, InExchange
<1>2. IInv /\ J => ChallengeFitsTheCopy
  <2> SUFFICES ASSUME IInv, J, margin.st = "up", ~margin.crossed,
                      NEW i \in DOMAIN inbound, inbound[i].code = 2
               PROVE  margin.prep \in {inbound[i].copy, 0}
    BY DEF ChallengeFitsTheCopy
  <2>1. inbound \in Seq(Inbound)
    BY DEF IInv, Sound, Typed
  <2>2. DOMAIN inbound = 1..Len(inbound)
    BY <2>1
  <2>3. inbound[i].copy = margin.copy /\ margin.prep \in {margin.copy, 0}
    BY <2>2 DEF InExchange, Exchange, OfCopy
  <2> QED
    BY <2>3
<1>3. IInv /\ J /\ [MarginNext]_marginVars => J'
  BY StepInExchange
<1> HIDE DEF J
<1> QED
  BY <1>1, <1>2, <1>3, SoundAlways, PTL DEF MarginSpec

=============================================================================
