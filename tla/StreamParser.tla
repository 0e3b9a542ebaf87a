----------------------------- MODULE StreamParser -----------------------------
(***************************************************************************)
(* CVariableLengthPrefixedTCPStreamParser: packets out of a byte stream.   *)
(*                                                                         *)
(* The worker thread reads fragments of at most MaxFragment bytes from the *)
(* socket; Parse() collects them in a work item until a packet is complete. *)
(* A packet is a prefix, of one byte below OneByteLimit or of two bytes,   *)
(* and a body of the length the prefix says.  A fragment may end anywhere, *)
(* so one packet may span several fragments and one fragment may hold      *)
(* several packets: the work item and the parser share fragments by        *)
(* reference count, and so do a finished work item, which the client       *)
(* thread reads, and the one that follows it.                              *)
(*                                                                         *)
(* Memory is modelled as it is used: a pointer into a fragment is the      *)
(* fragment and an offset.  Failed allocations are left out.               *)
(***************************************************************************)
EXTENDS Naturals, Sequences, FiniteSets, SequencesExt

CONSTANTS
    ByteBase,       \* values of a byte; 256
    OneByteLimit,   \* first length that needs a two-byte prefix; 0x80
    MaxBody,        \* longest body; 0x1000
    MaxFragment,    \* most bytes one recv() returns; 0x1000
    MaxBytes,       \* bound: bytes the peer sends
    None            \* a null pointer

ASSUME ParserAssumption ==
    /\ ByteBase \in Nat \ {0}
    /\ OneByteLimit \in 1 .. ByteBase - 1
    /\ MaxBody \in Nat
    /\ MaxBody >= OneByteLimit
    /\ MaxFragment \in Nat \ {0}
    /\ MaxBytes \in Nat
    /\ None \notin Nat \cup [frag : Nat, at : Nat]

Byte == 0 .. ByteBase - 1
Fragments == UNION {[1 .. n -> Byte] : n \in 1 .. MaxFragment}

VARIABLES
    \* the connection
    link,       \* "up", "halfClosed" by a graceful Close, "down", "gone" with its parser
    stream,     \* the fragments received so far
    refs,       \* referenceCount04 of each fragment
    \* the parser
    frag,       \* currentCursorFragmentRef04
    cursor,     \* currentCursor08
    unread,     \* unreadBufferedByteCount0C
    list,       \* fragments of currentPacketWorkItem14
    body,       \* its assembledByteCount28; 0 means no prefix decoded yet
    \* OnReceive and Parse on the worker thread
    pc,         \* where it is
    size,       \* packetBodyByteCount while a prefix is decoded
    input,      \* the fragment it was called with
    verdict,    \* what Parse returned last
    corrupt,    \* it has returned 0x700000b
    \* the client thread
    queue,      \* finished work items in the completed-operation queue
    delivered   \* packets the client thread has copied out of them

parserVars == <<frag, cursor, unread, list, body>>
vars == <<link, stream, refs, parserVars, pc, size, input, verdict, corrupt, queue, delivered>>

Ids == 1 .. Len(stream)
Places == [frag : Ids, at : 0 .. MaxFragment]
WorkItems == [list : Seq(Ids), start : Places \cup {None}, body : 0 .. MaxBody]

\* "more" is 0x7000000, "packet" 0 and "corrupt" 0x700000b; 1 is returned only
\* when memory runs out.
Verdicts == {"more", "packet", "corrupt"}

\* "parse" and "drain" are calls of Parse, on the fragment and on nothing.
Steps == {"idle", "parse", "drain", "prefix", "second", "endPrefix", "body", "end"}

\* Every variable holds a value of its type; a reference count never drops
\* below zero.
TypeOK ==
    /\ link \in {"up", "halfClosed", "down", "gone"}
    /\ stream \in Seq(Fragments)
    /\ refs \in [Ids -> Nat]
    /\ frag \in Ids \cup {None}
    /\ cursor \in Places \cup {None}
    /\ unread \in 0 .. MaxBytes
    /\ list \in Seq(Ids)
    /\ body \in 0 .. MaxBody
    /\ pc \in Steps
    /\ size \in 0 .. ByteBase * ByteBase
    /\ input \in Ids \cup {None}
    /\ verdict \in Verdicts
    /\ corrupt \in BOOLEAN
    /\ queue \in Seq(WorkItems)
    /\ delivered \in Seq(Seq(Byte))

Init ==
    /\ link = "up"
    /\ stream = <<>>
    /\ refs = <<>>
    /\ frag = None
    /\ cursor = None
    /\ unread = 0
    /\ list = <<>>
    /\ body = 0
    /\ pc = "idle"
    /\ size = 0
    /\ input = None
    /\ verdict = "more"
    /\ corrupt = FALSE
    /\ queue = <<>>
    /\ delivered = <<>>

-----------------------------------------------------------------------------
(* Reference counts                                                        *)

Retain(r, f) == [r EXCEPT ![f] = @ + 1]
Release(r, f) == [r EXCEPT ![f] = @ - 1]
ReleaseAll(r, fs) == [f \in DOMAIN r |-> r[f] - Cardinality({i \in DOMAIN fs : fs[i] = f})]

-----------------------------------------------------------------------------
(* The buffered bytes                                                      *)

Size(f) == Len(stream[f])
BytesIn(fs) == Cardinality(UNION {{i} \X (1 .. Size(fs[i])) : i \in DOMAIN fs})
ByteAt(place) == stream[place.frag][place.at + 1]

\* The fragments behind f, in the order of the traversal.
Later(f) ==
    LET here == {i \in DOMAIN list : list[i] = f}
    IN  IF here = {} THEN <<>> ELSE SubSeq(list, 1 + CHOOSE i \in here : TRUE, Len(list))

\* The cursor is inside its fragment or just behind its last byte.
InFragment == frag # None /\ cursor # None /\ cursor.frag = frag
Remaining(place) == Size(place.frag) - place.at

\* NormalizeCursorFragment: a cursor behind the last byte of its fragment
\* moves to the next one.
CanNormalize ==
    unread = 0 \/ (InFragment /\ (Remaining(cursor) > 0 \/ Later(frag) # <<>>))
Normalized ==
    IF unread = 0 \/ Remaining(cursor) > 0 THEN cursor
    ELSE [frag |-> Head(Later(frag)), at |-> 0]

\* AdvanceBufferedCursor over n bytes from a place.  With more bytes unread a
\* cursor that reaches the end of its fragment moves on; one that crosses
\* fragments may stop at the end of one.
CanAdvance(place, n) ==
    n = 0 \/ (/\ unread >= n
              /\ n > Remaining(place) => BytesIn(Later(place.frag)) >= n - Remaining(place)
              /\ n = Remaining(place) /\ unread > n => Later(place.frag) # <<>>)
Advanced(place, n) ==
    LET rest == n - Remaining(place)
        later == Later(place.frag)
        k == CHOOSE i \in DOMAIN later :
                /\ BytesIn(SubSeq(later, 1, i)) >= rest
                /\ BytesIn(SubSeq(later, 1, i - 1)) < rest
    IN  CASE n < Remaining(place) \/ n = 0 \/ (n = Remaining(place) /\ unread = n)
                -> [place EXCEPT !.at = @ + n]
          [] n = Remaining(place) /\ unread > n -> [frag |-> Head(later), at |-> 0]
          [] OTHER -> [frag |-> later[k], at |-> rest - BytesIn(SubSeq(later, 1, k - 1))]

\* The parser's fragment reference follows its cursor to f; the references r
\* are those of everything else.
MoveRef(r, f) == IF f = frag THEN r ELSE Retain(Release(r, frag), f)

-----------------------------------------------------------------------------
(* Worker thread: recv() and OnReceive                                     *)

\* recv() returns a fragment, and the worker calls OnReceive: one reference
\* of the worker's, one for the call and one for Parse.
Receive ==
    /\ link \in {"up", "halfClosed"}
    /\ pc = "idle"
    /\ \E n \in 1 .. MaxFragment :
          /\ BytesIn([i \in Ids |-> i]) + n <= MaxBytes
          /\ \E bytes \in [1 .. n -> Byte] : stream' = Append(stream, bytes)
    /\ refs' = Append(refs, 3)
    /\ input' = Len(stream) + 1
    /\ pc' = "parse"
    /\ UNCHANGED <<link, parserVars, size, verdict, corrupt, queue, delivered>>

\* Parse returns.
Return(v) ==
    /\ verdict' = v
    /\ corrupt' = (corrupt \/ v = "corrupt")
    /\ pc' = IF v = "packet" THEN "drain" ELSE "end"
    /\ size' = 0
    /\ UNCHANGED <<link, stream, input, delivered>>

Continue(step) ==
    /\ pc' = step
    /\ UNCHANGED <<link, stream, input, verdict, corrupt, queue, delivered>>

-----------------------------------------------------------------------------
(* Worker thread: Parse                                                    *)

NextStep == IF body = 0 THEN "prefix" ELSE "body"

\* Parse(fragment): the fragment joins the work item, which keeps the reference
\* this call was given; a cursor without a fragment takes one of its own.  Parse
\* takes the first and gives the second back where it returns.
TakeFragment ==
    /\ pc = "parse"
    /\ list' = Append(list, input)
    /\ frag' = IF frag = None THEN input ELSE frag
    /\ refs' = IF frag = None THEN Retain(refs, input) ELSE refs
    /\ cursor' = IF unread = 0 THEN [frag |-> input, at |-> 0] ELSE cursor
    /\ unread' = unread + Size(input)
    /\ Continue(NextStep)
    /\ UNCHANGED <<body, size>>

\* Parse(nullptr)
Drain ==
    /\ pc = "drain"
    /\ IF unread = 0
       THEN Return("more") /\ UNCHANGED queue
       ELSE Continue(NextStep) /\ UNCHANGED size
    /\ UNCHANGED <<refs, parserVars>>

\* Mutant: a prefix is decoded only when a byte follows it.
PrefixStartsMutant == unread >= 3

\* A prefix is not decoded before two bytes are there.
PrefixStarts == unread >= 2

\* The first byte of a prefix; when it says that a second one follows, it is
\* consumed.
Prefix ==
    /\ pc = "prefix"
    /\ IF ~PrefixStarts \/ ~CanNormalize
       THEN Return("more") /\ UNCHANGED <<refs, parserVars, queue>>
       ELSE /\ size' = ByteAt(Normalized)
            /\ IF ByteAt(Normalized) < OneByteLimit
               THEN cursor' = Normalized /\ UNCHANGED unread /\ Continue("endPrefix")
               ELSE /\ cursor' = Advanced(Normalized, 1)
                    /\ unread' = unread - 1
                    /\ Continue("second")
            /\ frag' = cursor'.frag
            /\ refs' = MoveRef(refs, cursor'.frag)
            /\ UNCHANGED <<list, body>>

\* The second byte of a prefix, which must have been needed.
Second ==
    /\ pc = "second"
    /\ IF ~CanNormalize
       THEN Return("more") /\ UNCHANGED <<refs, parserVars, queue>>
       ELSE /\ cursor' = Normalized
            /\ frag' = cursor'.frag
            /\ refs' = MoveRef(refs, cursor'.frag)
            /\ LET n == (size - OneByteLimit) * ByteBase + ByteAt(Normalized)
               IN  IF n < OneByteLimit THEN Return("corrupt") /\ UNCHANGED queue
                   ELSE size' = n /\ Continue("endPrefix")
            /\ UNCHANGED <<unread, list, body>>

\* Mutant: fragments in front of the body stay.
KeptMutant(f) == list

\* RebaseFirstFragmentTo: fragments in front of f leave the work item.
Kept(f) == <<f>> \o Later(f)

\* Mutant: the length is not checked.
TooLongMutant(n) == FALSE

TooLong(n) == n > MaxBody

\* The last byte of the prefix is consumed: the body has size bytes.
EndPrefix ==
    /\ pc = "endPrefix"
    /\ IF ~CanAdvance(cursor, 1)
       THEN Return("more") /\ UNCHANGED <<refs, parserVars, queue>>
       ELSE /\ frag' = Advanced(cursor, 1).frag
            /\ unread' = unread - 1
            /\ cursor' = IF unread = 1 THEN None ELSE Advanced(cursor, 1)
            /\ IF TooLong(size)
               THEN /\ refs' = MoveRef(refs, frag')
                    /\ Return("corrupt")
                    /\ UNCHANGED <<list, body, queue>>
               ELSE /\ body' = size
                    /\ list' = Kept(frag')
                    /\ LET dropped == SubSeq(list, 1, Len(list) - Len(list'))
                       IN  refs' = MoveRef(ReleaseAll(refs, dropped), frag')
                    /\ size' = 0
                    /\ Continue("body")

Finished(start) == [list |-> list, start |-> start, body |-> body]

\* Mutant: a body is complete only when a byte follows it.
CompleteMutant == body < unread

Complete == body <= unread

\* Mutant: the tail is carried over without a reference of the new item's.
CarriedRefsMutant(tail) == MoveRef(refs, tail)

\* ResetAfterPacket with bytes left: the next work item and the cursor hold
\* the last fragment of the finished one, which keeps its own reference.
CarriedRefs(tail) == Retain(MoveRef(refs, tail), tail)

\* The body, once all of it is there: the work item is finished and queued,
\* and the next one begins.
Body ==
    /\ pc = "body"
    /\ IF ~Complete \/ ~CanNormalize \/ ~CanAdvance(Normalized, body)
       THEN Return("more") /\ UNCHANGED <<refs, parserVars, queue>>
       ELSE /\ queue' = Append(queue, Finished(Normalized))
            /\ unread' = unread - body
            /\ IF unread = body
               THEN /\ cursor' = None /\ frag' = None /\ list' = <<>>
                    /\ refs' = Release(refs, frag)
               ELSE /\ cursor' = Advanced(Normalized, body)
                    /\ frag' = Last(list)
                    /\ list' = <<Last(list)>>
                    /\ refs' = CarriedRefs(Last(list))
            /\ body' = 0
            /\ Return("packet")

\* OnReceive after its loop, and the worker's release.  A hard close does
\* nothing to a connection that is being closed already.
EndReceive ==
    /\ pc = "end"
    /\ link' = IF link = "up" /\ verdict = "corrupt" THEN "down" ELSE link
    /\ refs' = Release(Release(refs, input), input)
    /\ input' = None
    /\ pc' = "idle"
    /\ UNCHANGED <<stream, parserVars, size, verdict, corrupt, queue, delivered>>

-----------------------------------------------------------------------------
(* Client thread                                                           *)

\* CopyParsedPacketIntoReceivedMessageRef: from the start in the first
\* fragment on, through the later ones.
Holder(fs, n) ==
    CHOOSE k \in DOMAIN fs : BytesIn(SubSeq(fs, 1, k - 1)) < n /\ n <= BytesIn(SubSeq(fs, 1, k))
ByteOf(fs, n) == stream[fs[Holder(fs, n)]][n - BytesIn(SubSeq(fs, 1, Holder(fs, n) - 1))]
Copies(item) ==
    \/ item.body = 0
    \/ /\ item.start # None
       /\ item.start.frag = Head(item.list)
       /\ item.start.at + item.body <= BytesIn(item.list)
Copied(item) == [n \in 1 .. item.body |-> ByteOf(item.list, item.start.at + n)]

\* The copy and the release of the work item.  A work item that cannot be
\* copied is dropped.
Consume ==
    /\ queue # <<>>
    /\ LET item == Head(queue)
       IN  /\ delivered' = IF Copies(item)
                           THEN Append(delivered, IF item.body = 0 THEN <<>> ELSE Copied(item))
                           ELSE delivered
           /\ refs' = ReleaseAll(refs, item.list)
    /\ queue' = Tail(queue)
    /\ UNCHANGED <<link, stream, parserVars, pc, size, input, verdict, corrupt>>

\* Close(graceful = true): the peer may still send.
HalfClose ==
    /\ link = "up"
    /\ link' = "halfClosed"
    /\ UNCHANGED <<stream, refs, parserVars, pc, size, input, verdict, corrupt, queue, delivered>>

\* The peer closes, anywhere in a packet.
PeerCloses ==
    /\ link \in {"up", "halfClosed"}
    /\ pc = "idle"
    /\ link' = "down"
    /\ UNCHANGED <<stream, refs, parserVars, pc, size, input, verdict, corrupt, queue, delivered>>

\* The connection is released after its close was delivered, which is after
\* all its packets: the parser lets go of what it holds.
DeleteParser ==
    /\ link = "down"
    /\ pc = "idle"
    /\ queue = <<>>
    /\ link' = "gone"
    /\ refs' = ReleaseAll(IF frag = None THEN refs ELSE Release(refs, frag), list)
    /\ list' = <<>>
    /\ frag' = None
    /\ UNCHANGED <<stream, cursor, unread, body, pc, size, input, verdict, corrupt, queue, delivered>>

Next ==
    \/ Receive \/ TakeFragment \/ Drain \/ EndReceive
    \/ Prefix \/ Second \/ EndPrefix \/ Body
    \/ Consume \/ HalfClose \/ PeerCloses \/ DeleteParser

Spec == Init /\ [][Next]_vars

-----------------------------------------------------------------------------
(* Properties                                                              *)

\* A prefix behind the first i bytes: whether it has two bytes, where its body
\* starts and how long that is.
LongAt(bytes, i) == bytes[i + 1] >= OneByteLimit
StartAt(bytes, i) == i + IF LongAt(bytes, i) THEN 2 ELSE 1
LengthAt(bytes, i) ==
    IF LongAt(bytes, i) THEN (bytes[i + 1] - OneByteLimit) * ByteBase + bytes[i + 2]
    ELSE bytes[i + 1]

HasPrefix(bytes, i) == i < Len(bytes) /\ StartAt(bytes, i) <= Len(bytes)
CorruptAt(bytes, i) ==
    /\ HasPrefix(bytes, i)
    /\ \/ LengthAt(bytes, i) > MaxBody
       \/ LongAt(bytes, i) /\ LengthAt(bytes, i) < OneByteLimit

EndAt(bytes, i) == StartAt(bytes, i) + LengthAt(bytes, i)
HasPacket(bytes, i) ==
    HasPrefix(bytes, i) /\ ~CorruptAt(bytes, i) /\ EndAt(bytes, i) <= Len(bytes)
PacketAt(bytes, i) == SubSeq(bytes, StartAt(bytes, i) + 1, EndAt(bytes, i))

\* What the bytes behind the first i are: their complete packets, and whether a
\* corrupt prefix follows them.
FramedAt(bytes, from, i) ==
    IF HasPacket(bytes, i)
    THEN [packets |-> <<PacketAt(bytes, i)>> \o from[EndAt(bytes, i)].packets,
          corrupt |-> from[EndAt(bytes, i)].corrupt]
    ELSE [packets |-> <<>>, corrupt |-> CorruptAt(bytes, i)]
Framed(bytes) ==
    LET from[i \in 0 .. Len(bytes)] == FramedAt(bytes, from, i) IN from

\* What the stream is.
Framing == Framed(FlattenSeq(stream))[0]

InQueue(item) == IF item.body = 0 THEN <<>> ELSE Copied(item)
Emitted == delivered \o [i \in DOMAIN queue |-> InQueue(queue[i])]

\* Every finished work item begins where its body does and holds all of it:
\* the client thread can copy it.
ItemsAreWhole == \A i \in DOMAIN queue : Copies(queue[i])

\* Until the stream is found corrupt, what comes out is what the peer framed:
\* no packet is torn, merged, reordered or invented, however the stream was
\* cut into fragments; and it is found corrupt only if it is.
PacketsAreFramed ==
    /\ ItemsAreWhole
    /\ ~corrupt => IsPrefix(Emitted, Framing.packets)
    /\ corrupt => Framing.corrupt

\* The fragment ends with a two-byte prefix whose body has not begun.
PrefixEndsFragment == body > 0 /\ (unread = 0 \/ ~InFragment)

\* Nothing that is complete is held back between two fragments, except a
\* one-byte packet at the very end; a parser that stopped behind a two-byte
\* prefix is the other exception.
NothingHeldBack ==
    pc = "idle" /\ link # "gone" /\ ~corrupt =>
        \/ Len(Emitted) = Len(Framing.packets)
        \/ unread = 1 /\ Len(Emitted) + 1 = Len(Framing.packets) /\ Last(Framing.packets) = <<>>
        \/ PrefixEndsFragment

\* A fragment's reference count is the number of its holders: it is freed
\* when the last of parser, work items and receive loop lets go of it, and
\* neither before nor never.  No work item holds a fragment twice.
InList(f) == IF f \in ToSet(list) THEN 1 ELSE 0
AtCursor(f) == IF frag = f THEN 1 ELSE 0
InItems(f) == Cardinality({i \in DOMAIN queue : f \in ToSet(queue[i].list)})
InCalls(f) == IF input # f THEN 0 ELSE IF pc = "parse" THEN 3 ELSE 2
RefsMatchHolders ==
    \A f \in Ids : refs[f] = InList(f) + AtCursor(f) + InItems(f) + InCalls(f)

\* Until the stream is found corrupt, a finished work item holds no fragment
\* its body does not need, but the first of an empty body: what the client
\* thread logs as unused buffers never comes.
NoUnusedBuffers ==
    ~corrupt => \A i \in DOMAIN queue :
        LET item == queue[i]
        IN  item.body > 0 =>
              BytesIn(Front(item.list)) < item.start.at + item.body

\* What the header says of the parser's first field: it is the fragment that
\* contains the cursor.
CursorInItsFragment ==
    unread > 0 /\ link # "gone" => InFragment

=============================================================================
