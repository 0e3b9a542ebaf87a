------------------------- MODULE StreamParser_proofs -------------------------
(***************************************************************************)
(* Theorems about StreamParser for any sizes of bytes, packets and         *)
(* fragments, and any number of fragments and packets.                     *)
(***************************************************************************)
EXTENDS StreamParser, SequenceTheorems, FiniteSetTheorems, TLAPS

-----------------------------------------------------------------------------
(* Sums of bytes                                                           *)

\* Every set of numbers that is not empty has a least one.
LEMMA LeastNumber ==
    ASSUME NEW T, T \subseteq Nat, T # {}
    PROVE  \E n \in T : \A m \in T : n <= m
<1> DEFINE Less == {ss \in Nat \X Nat : ss[1] < ss[2]}
<1>1. OpToRel(<, Nat) = Less
  BY DEF OpToRel
<1>2. IsWellFoundedOn(Less, Nat)
  BY <1>1, NatLessThanWellFounded, Zenon
<1>3. PICK n \in T : \A m \in T : ~ (<<m, n>> \in Less)
  <2> HIDE DEF Less
  <2> QED
    BY <1>2, WFMin
<1>4. ASSUME NEW m \in T
      PROVE  n <= m
  <2>1. m \in Nat /\ n \in Nat /\ ~ (<<m, n>> \in Less)
    BY <1>3
  <2> QED
    BY <2>1
<1> QED
  BY <1>3, <1>4

\* Another element between two sequences belongs to either.
LEMMA OneMore ==
    ASSUME NEW S, NEW s \in Seq(S), NEW e \in S, NEW t \in Seq(S)
    PROVE  /\ \A u, v : u = <<e>> \o t /\ v = Append(s, e) => s \o u = v \o t
           /\ s \o Append(t, e) = Append(s \o t, e)
<1>1. <<e>> \in Seq(S) /\ s \o t \in Seq(S)
  OBVIOUS
<1>2. /\ Append(s, e) = s \o <<e>> /\ Append(t, e) = t \o <<e>>
      /\ Append(s \o t, e) = (s \o t) \o <<e>>
  BY <1>1, AppendIsConcat
<1> DEFINE one == <<e>>
<1>3. one \in Seq(S)
  BY <1>1
<1> HIDE DEF one
<1>4. (s \o one) \o t = s \o (one \o t) /\ (s \o t) \o one = s \o (t \o one)
  BY <1>3, ConcatAssociative
<1> QED
  BY <1>2, <1>4 DEF one

\* One cell for each of so many bytes in each of the fragments.
Cells(sizes) == UNION {{i} \X (1 .. sizes[i]) : i \in DOMAIN sizes}

\* There are finitely many cells.
LEMMA CellsFinite ==
    ASSUME NEW m \in Nat, NEW sizes \in Seq(0 .. m)
    PROVE  IsFiniteSet(Cells(sizes)) /\ Cardinality(Cells(sizes)) \in Nat
<1>1. Len(sizes) \in Nat /\ DOMAIN sizes = 1 .. Len(sizes)
  OBVIOUS
<1>2. IsFiniteSet((1 .. Len(sizes)) \X (1 .. m))
  <2>1. IsFiniteSet(1 .. Len(sizes)) /\ IsFiniteSet(1 .. m)
    BY <1>1, FS_Interval
  <2> QED
    BY <2>1, FS_Product
<1>3. \A i \in DOMAIN sizes : 1 .. sizes[i] \subseteq 1 .. m
  <2>1. \A i \in DOMAIN sizes : sizes[i] \in 0 .. m
    OBVIOUS
  <2> QED
    BY <2>1
<1>4. Cells(sizes) \subseteq (1 .. Len(sizes)) \X (1 .. m)
  BY <1>1, <1>3 DEF Cells
<1> QED
  BY <1>2, <1>4, FS_Subset, FS_CardinalityType

\* One fragment more adds its bytes.
LEMMA CellsAppend ==
    ASSUME NEW m \in Nat, NEW sizes \in Seq(0 .. m), NEW k \in 0 .. m
    PROVE  Cardinality(Cells(Append(sizes, k))) = Cardinality(Cells(sizes)) + k
<1> DEFINE n == Len(sizes) + 1
           all == Append(sizes, k)
           new == {n} \X (1 .. k)
<1>1. /\ DOMAIN all = DOMAIN sizes \cup {n} /\ all[n] = k /\ k \in Nat
      /\ \A i \in DOMAIN sizes : all[i] = sizes[i] /\ i # n
  OBVIOUS
<1> HIDE DEF all, n
<1>2. Cells(all) = Cells(sizes) \cup new
  <2>1. \A i \in DOMAIN sizes : {i} \X (1 .. all[i]) = {i} \X (1 .. sizes[i])
    BY <1>1
  <2>2. {n} \X (1 .. all[n]) = new
    BY <1>1
  <2>3. \A p : p \in Cells(all) <=> \E i \in DOMAIN all : p \in {i} \X (1 .. all[i])
    BY DEF Cells
  <2>4. \A p : p \in Cells(sizes) <=> \E i \in DOMAIN sizes : p \in {i} \X (1 .. sizes[i])
    BY DEF Cells
  <2> HIDE DEF new
  <2>5. \A p : p \in Cells(all) <=> p \in Cells(sizes) \/ p \in new
    BY <1>1, <2>1, <2>2, <2>3, <2>4, Zenon
  <2> QED
    BY <2>5
<1>3. Cells(sizes) \cap new = {}
  BY <1>1 DEF Cells
<1>4. IsFiniteSet(new) /\ Cardinality(new) = k
  <2>1. IsFiniteSet({n}) /\ Cardinality({n}) = 1
    BY FS_Singleton
  <2>2. IsFiniteSet(1 .. k) /\ Cardinality(1 .. k) = k
    BY <1>1, FS_Interval
  <2>3. IsFiniteSet(new) /\ Cardinality(new) = 1 * k
    BY <2>1, <2>2, FS_Product
  <2> QED
    BY <1>1, <2>3
<1>5. IsFiniteSet(Cells(sizes)) /\ Cardinality(Cells(sizes)) \in Nat
  BY CellsFinite
<1>6. Cardinality(Cells(sizes) \cup new)
        = Cardinality(Cells(sizes)) + Cardinality(new) - Cardinality(Cells(sizes) \cap new)
  <2> HIDE DEF new
  <2> QED
    BY <1>4, <1>5, FS_Union
<1>7. Cardinality(Cells(all)) = Cardinality(Cells(sizes)) + k
  <2>1. Cardinality(Cells(sizes) \cap new) = 0
    BY <1>3, FS_EmptySet
  <2> HIDE DEF new
  <2>2. Cardinality(Cells(sizes) \cup new) = Cardinality(Cells(sizes)) + k
    BY <1>1, <1>4, <1>5, <1>6, <2>1
  <2> QED
    BY <1>2, <2>2
<1> QED
  BY <1>7 DEF all

\* A fragment has a byte, and not more than a recv() returns.
LEMMA SizeFacts ==
    ASSUME stream \in Seq(Fragments), NEW f \in Ids
    PROVE  Size(f) \in 1 .. MaxFragment /\ Size(f) \in Nat /\ MaxFragment \in Nat /\ stream[f] \in Seq(Byte)
<1>1. stream[f] \in Fragments
  BY DEF Ids
<1>2. PICK n \in 1 .. MaxFragment : stream[f] \in [1 .. n -> Byte]
  BY <1>1 DEF Fragments
<1>3. n \in Nat /\ MaxFragment \in Nat
  BY ParserAssumption
<1>4. stream[f] \in Seq(Byte) /\ Len(stream[f]) = n
  BY <1>2, <1>3
<1> QED
  BY <1>2, <1>3, <1>4 DEF Size

\* The sizes of a list's fragments, and its bytes as cells.
Sizes(fs) == [i \in DOMAIN fs |-> Size(fs[i])]

\* BytesIn counts the cells of the fragments' sizes.
LEMMA BytesAreCells ==
    ASSUME stream \in Seq(Fragments), NEW fs \in Seq(Ids)
    PROVE  /\ Sizes(fs) \in Seq(0 .. MaxFragment)
           /\ BytesIn(fs) = Cardinality(Cells(Sizes(fs)))
           /\ BytesIn(fs) \in Nat
<1>1. Sizes(fs) \in Seq(0 .. MaxFragment) /\ MaxFragment \in Nat
  <2>1. \A i \in 1 .. Len(fs) : fs[i] \in Ids
    OBVIOUS
  <2>2. \A i \in 1 .. Len(fs) : Size(fs[i]) \in 0 .. MaxFragment
    BY <2>1, SizeFacts
  <2>3. DOMAIN fs = 1 .. Len(fs) /\ Len(fs) \in Nat
    OBVIOUS
  <2> QED
    BY <2>2, <2>3, ParserAssumption DEF Sizes
<1>2. Cells(Sizes(fs)) = UNION {{i} \X (1 .. Size(fs[i])) : i \in DOMAIN fs}
  BY DEF Cells, Sizes
<1> QED
  BY <1>1, <1>2, CellsFinite DEF BytesIn

\* No fragments hold no bytes.
LEMMA NoBytes == BytesIn(<<>>) = 0
<1>1. UNION {{i} \X (1 .. Size(<<>>[i])) : i \in DOMAIN <<>>} = {}
  OBVIOUS
<1> QED
  BY <1>1, FS_EmptySet DEF BytesIn

\* The bytes of a list are those of its fragments.
LEMMA BytesAppend ==
    ASSUME stream \in Seq(Fragments), NEW fs \in Seq(Ids), NEW f \in Ids
    PROVE  /\ BytesIn(<<>>) = 0
           /\ BytesIn(Append(fs, f)) = BytesIn(fs) + Size(f)
           /\ BytesIn(fs) \in Nat
<1>1. BytesIn(<<>>) = 0
  BY NoBytes
<1>2. Append(fs, f) \in Seq(Ids) /\ MaxFragment \in Nat
  BY ParserAssumption
<1>3. Sizes(fs) \in Seq(0 .. MaxFragment) /\ Size(f) \in 0 .. MaxFragment
  BY BytesAreCells, SizeFacts
<1>4. Sizes(Append(fs, f)) = Append(Sizes(fs), Size(f))
  <2> DEFINE s == Sizes(fs)
             t == Sizes(Append(fs, f))
  <2>1. /\ Len(fs) \in Nat /\ DOMAIN fs = 1 .. Len(fs)
        /\ DOMAIN Append(fs, f) = 1 .. Len(fs) + 1
        /\ \A i \in 1 .. Len(fs) : Append(fs, f)[i] = fs[i]
        /\ Append(fs, f)[Len(fs) + 1] = f
    OBVIOUS
  <2>2. Len(s) = Len(fs) /\ s \in Seq(0 .. MaxFragment)
        /\ \A i \in 1 .. Len(fs) : s[i] = Size(fs[i])
    BY <1>3, <2>1 DEF Sizes
  <2>3. t = [i \in 1 .. Len(fs) + 1 |-> IF i <= Len(fs) THEN Size(fs[i]) ELSE Size(f)]
    BY <2>1 DEF Sizes
  <2> HIDE DEF s
  <2>4. /\ Append(s, Size(f)) \in Seq(0 .. MaxFragment) /\ Len(Append(s, Size(f))) = Len(fs) + 1
        /\ \A i \in 1 .. Len(fs) : Append(s, Size(f))[i] = s[i]
        /\ Append(s, Size(f))[Len(fs) + 1] = Size(f)
    BY <1>3, <2>2
  <2>5. t \in Seq(0 .. MaxFragment) /\ Len(t) = Len(fs) + 1
    <3>1. Sizes(Append(fs, f)) \in Seq(0 .. MaxFragment)
      BY <1>2, BytesAreCells
    <3>2. DOMAIN t = 1 .. Len(fs) + 1
      BY <2>1 DEF Sizes
    <3> QED
      BY <2>1, <3>1, <3>2
  <2> HIDE DEF t
  <2>6. \A i \in 1 .. Len(fs) + 1 : t[i] = Append(s, Size(f))[i]
    BY <2>1, <2>2, <2>3, <2>4
  <2>7. t = Append(s, Size(f))
    BY <2>4, <2>5, <2>6, SeqEqual
  <2> QED
    BY <2>7 DEF s, t
<1>5. Cardinality(Cells(Append(Sizes(fs), Size(f)))) = Cardinality(Cells(Sizes(fs))) + Size(f)
  BY <1>2, <1>3, CellsAppend
<1> QED
  BY <1>1, <1>2, <1>4, <1>5, BytesAreCells

\* So the bytes up to a fragment are those before it and its own.
LEMMA BytesUpTo ==
    ASSUME stream \in Seq(Fragments), NEW fs \in Seq(Ids)
    PROVE  /\ BytesIn(SubSeq(fs, 1, 0)) = 0
           /\ SubSeq(fs, 1, Len(fs)) = fs
           /\ \A i \in 0 .. Len(fs) : BytesIn(SubSeq(fs, 1, i)) \in Nat
           /\ \A i \in 1 .. Len(fs) :
                 BytesIn(SubSeq(fs, 1, i)) = BytesIn(SubSeq(fs, 1, i - 1)) + Size(fs[i])
<1>1. SubSeq(fs, 1, 0) = <<>> /\ SubSeq(fs, 1, Len(fs)) = fs
  OBVIOUS
<1>2. ASSUME NEW i \in 0 .. Len(fs)
      PROVE  SubSeq(fs, 1, i) \in Seq(Ids) /\ BytesIn(SubSeq(fs, 1, i)) \in Nat
  <2>1. SubSeq(fs, 1, i) \in Seq(Ids)
    OBVIOUS
  <2> QED
    BY <2>1, BytesAreCells
<1>3. ASSUME NEW i \in 1 .. Len(fs)
      PROVE  BytesIn(SubSeq(fs, 1, i)) = BytesIn(SubSeq(fs, 1, i - 1)) + Size(fs[i])
  <2>1. SubSeq(fs, 1, i) = Append(SubSeq(fs, 1, i - 1), fs[i]) /\ SubSeq(fs, 1, i - 1) \in Seq(Ids)
        /\ fs[i] \in Ids
    OBVIOUS
  <2> QED
    BY <2>1, BytesAppend
<1> QED
  BY <1>1, <1>2, <1>3, NoBytes

\* The bytes of two lists.
LEMMA BytesConcat ==
    ASSUME stream \in Seq(Fragments), NEW s \in Seq(Ids), NEW t \in Seq(Ids)
    PROVE  BytesIn(s \o t) = BytesIn(s) + BytesIn(t)
<1> DEFINE Adds(u) == BytesIn(s \o u) = BytesIn(s) + BytesIn(u)
           T == {n \in Nat : \E u \in Seq(Ids) : Len(u) = n /\ ~Adds(u)}
<1>1. T = {}
  <2>1. SUFFICES ASSUME T # {} PROVE FALSE
    OBVIOUS
  <2>2. PICK n \in T : \A m \in T : n <= m
    <3>1. T \subseteq Nat
      OBVIOUS
    <3> HIDE DEF T
    <3> QED
      BY <2>1, <3>1, LeastNumber
  <2>3. PICK u \in Seq(Ids) : Len(u) = n /\ ~Adds(u)
    <3> HIDE DEF Adds
    <3> QED
      BY <2>2
  <2>4. n # 0
    <3>1. SUFFICES ASSUME n = 0 PROVE FALSE
      OBVIOUS
    <3>2. u = <<>> /\ s \o u = s
      BY <2>3, <3>1
    <3>3. BytesIn(s) \in Nat /\ BytesIn(<<>>) = 0
      BY NoBytes, BytesAreCells
    <3> QED
      BY <2>3, <3>2, <3>3
  <2> DEFINE front == SubSeq(u, 1, n - 1)
  <2>5. /\ n \in Nat /\ front \in Seq(Ids) /\ Len(front) = n - 1 /\ u[n] \in Ids
        /\ u = Append(front, u[n]) /\ s \o front \in Seq(Ids)
        /\ s \o u = Append(s \o front, u[n])
    <3>1. n \in Nat /\ n \in 1 .. Len(u)
      BY <2>2, <2>3, <2>4
    <3>2. front \in Seq(Ids) /\ Len(front) = n - 1 /\ u[n] \in Ids /\ u = Append(front, u[n])
      BY <2>3, <3>1
    <3> DEFINE e == u[n]
    <3> HIDE DEF front, e
    <3>3. e \in Ids
      BY <3>2 DEF e
    <3>4. s \o front \in Seq(Ids)
      BY <3>2
    <3>5. s \o Append(front, e) = Append(s \o front, e)
      BY <3>2, <3>3, OneMore
    <3> QED
      BY <3>1, <3>2, <3>3, <3>4, <3>5 DEF e
  <2>6. Adds(front)
    <3>1. n - 1 \in Nat /\ ~ (n <= n - 1)
      BY <2>4, <2>5
    <3>2. n - 1 \notin T
      BY <2>2, <3>1
    <3> HIDE DEF Adds, front
    <3> QED
      BY <2>5, <3>1, <3>2
  <2> HIDE DEF front
  <2>7. /\ BytesIn(s \o u) = BytesIn(s \o front) + Size(u[n])
        /\ BytesIn(u) = BytesIn(front) + Size(u[n])
        /\ BytesIn(s) \in Nat /\ BytesIn(front) \in Nat /\ Size(u[n]) \in Nat
    <3>1. /\ BytesIn(Append(s \o front, u[n])) = BytesIn(s \o front) + Size(u[n])
          /\ BytesIn(Append(front, u[n])) = BytesIn(front) + Size(u[n])
      BY <2>5, BytesAppend
    <3>2. BytesIn(s) \in Nat /\ BytesIn(front) \in Nat /\ Size(u[n]) \in Nat
      BY <2>5, BytesAreCells, SizeFacts
    <3> QED
      BY <2>5, <3>1, <3>2
  <2> QED
    BY <2>3, <2>6, <2>7
<1>2. Len(t) \in Nat
  OBVIOUS
<1>3. Adds(t)
  <2> HIDE DEF Adds
  <2> QED
    BY <1>1, <1>2
<1> QED
  BY <1>3

\* So a list's bytes are those up to a fragment and those behind it.
LEMMA BytesSplit ==
    ASSUME stream \in Seq(Fragments), NEW fs \in Seq(Ids), NEW k \in 1 .. Len(fs)
    PROVE  /\ BytesIn(fs) = BytesIn(SubSeq(fs, 1, k - 1)) + Size(fs[k]) + BytesIn(SubSeq(fs, k + 1, Len(fs)))
           /\ BytesIn(SubSeq(fs, 1, k - 1)) \in Nat /\ BytesIn(SubSeq(fs, k + 1, Len(fs))) \in Nat
           /\ BytesIn(fs) \in Nat /\ Size(fs[k]) \in Nat
<1> DEFINE s == SubSeq(fs, 1, k)
           t == SubSeq(fs, k + 1, Len(fs))
<1>1. fs = s \o t /\ s \in Seq(Ids) /\ t \in Seq(Ids) /\ fs[k] \in Ids
      /\ SubSeq(fs, 1, k - 1) \in Seq(Ids)
  OBVIOUS
<1>2. BytesIn(s) = BytesIn(SubSeq(fs, 1, k - 1)) + Size(fs[k])
  BY BytesUpTo
<1> HIDE DEF s, t
<1>3. BytesIn(s \o t) = BytesIn(s) + BytesIn(t)
  BY <1>1, BytesConcat
<1>4. /\ BytesIn(SubSeq(fs, 1, k - 1)) \in Nat /\ BytesIn(t) \in Nat
      /\ BytesIn(fs) \in Nat /\ Size(fs[k]) \in Nat
  BY <1>1, BytesAreCells, SizeFacts
<1>5. BytesIn(fs) = BytesIn(SubSeq(fs, 1, k - 1)) + Size(fs[k]) + BytesIn(t)
  BY <1>1, <1>2, <1>3
<1> QED
  BY <1>4, <1>5 DEF t

\* The nth byte of a list is in one of its fragments.
LEMMA HolderExists ==
    ASSUME stream \in Seq(Fragments), NEW fs \in Seq(Ids), NEW n \in Nat, 0 < n, n <= BytesIn(fs)
    PROVE  \E k \in DOMAIN fs : /\ BytesIn(SubSeq(fs, 1, k)) >= n
                                /\ BytesIn(SubSeq(fs, 1, k - 1)) < n
<1> DEFINE upTo(i) == BytesIn(SubSeq(fs, 1, i))
           T == {i \in 0 .. Len(fs) : upTo(i) >= n}
<1>0. /\ BytesIn(SubSeq(fs, 1, 0)) = 0 /\ SubSeq(fs, 1, Len(fs)) = fs
      /\ \A i \in 0 .. Len(fs) : BytesIn(SubSeq(fs, 1, i)) \in Nat
  BY BytesUpTo
<1>1. /\ upTo(0) = 0 /\ upTo(Len(fs)) = BytesIn(fs)
      /\ \A i \in 0 .. Len(fs) : upTo(i) \in Nat
      /\ Len(fs) \in Nat /\ DOMAIN fs = 1 .. Len(fs)
  <2>1. Len(fs) \in Nat /\ DOMAIN fs = 1 .. Len(fs)
    OBVIOUS
  <2>2. \A i \in 0 .. Len(fs) : upTo(i) \in Nat
    BY <1>0
  <2>3. upTo(0) = 0 /\ upTo(Len(fs)) = BytesIn(fs)
    BY <1>0
  <2> QED
    BY <2>1, <2>2, <2>3
<1>2. PICK k \in T : \A m \in T : k <= m
  <2>1. Len(fs) \in T /\ T \subseteq Nat
    BY <1>1
  <2> HIDE DEF T
  <2> QED
    BY <2>1, LeastNumber
<1> HIDE DEF upTo
<1>3. k \in 1 .. Len(fs) /\ upTo(k) >= n
  BY <1>1, <1>2
<1>4. upTo(k - 1) < n
  <2>1. k - 1 \in 0 .. Len(fs) /\ ~ (k <= k - 1)
    BY <1>1, <1>3
  <2>2. k - 1 \notin T
    BY <1>2, <2>1
  <2> QED
    BY <1>1, <2>1, <2>2
<1> QED
  BY <1>1, <1>3, <1>4 DEF upTo

-----------------------------------------------------------------------------
(* Fragments in a list                                                     *)

\* No fragment is in a list twice.
Distinct(fs) == \A i, j \in DOMAIN fs : fs[i] = fs[j] => i = j

\* A list without doubles names a fragment once, or not at all.
LEMMA NamedOnce ==
    ASSUME NEW S, NEW fs \in Seq(S), Distinct(fs), NEW f
    PROVE  Cardinality({i \in DOMAIN fs : fs[i] = f}) = IF f \in ToSet(fs) THEN 1 ELSE 0
<1> DEFINE places == {i \in DOMAIN fs : fs[i] = f}
<1>1. CASE f \in ToSet(fs)
  <2>1. PICK i \in DOMAIN fs : fs[i] = f
    BY <1>1 DEF ToSet
  <2>2. places = {i}
    BY <2>1 DEF Distinct
  <2> QED
    BY <1>1, <2>2, FS_Singleton
<1>2. CASE f \notin ToSet(fs)
  <2>1. places = {}
    BY <1>2 DEF ToSet
  <2> QED
    BY <1>2, <2>1, FS_EmptySet
<1> QED
  BY <1>1, <1>2

\* The fragments of a list behind one of them.
Behind(fs, f) ==
    LET here == {i \in DOMAIN fs : fs[i] = f}
    IN  IF here = {} THEN <<>> ELSE SubSeq(fs, 1 + CHOOSE i \in here : TRUE, Len(fs))

\* Later is Behind in the list of the work item.
LEMMA LaterIsBehind ==
    ASSUME NEW f
    PROVE  /\ Later(f) = Behind(list, f)
           /\ Later(f)' = Behind(list', f)
BY DEF Later, Behind

\* Behind a fragment that is named once are those after its place.
LEMMA BehindOf ==
    ASSUME NEW S, NEW fs \in Seq(S), Distinct(fs), NEW p \in DOMAIN fs
    PROVE  Behind(fs, fs[p]) = SubSeq(fs, p + 1, Len(fs))
<1> DEFINE here == {i \in DOMAIN fs : fs[i] = fs[p]}
           q == CHOOSE i \in here : TRUE
<1>1. here = {p}
  BY DEF Distinct
<1>2. q = p
  BY <1>1
<1>3. here # {}
  BY <1>1
<1>4. Behind(fs, fs[p]) = SubSeq(fs, 1 + q, Len(fs))
  BY <1>3 DEF Behind
<1>5. p \in Nat
  OBVIOUS
<1> HIDE DEF q
<1> QED
  BY <1>2, <1>4, <1>5

\* A fragment that joins a list is behind all others.
LEMMA BehindAppend ==
    ASSUME NEW S, NEW fs \in Seq(S), NEW e \in S, Distinct(Append(fs, e))
    PROVE  /\ Behind(Append(fs, e), e) = <<>>
           /\ Distinct(fs) => \A p \in DOMAIN fs :
                 Behind(Append(fs, e), fs[p]) = Append(Behind(fs, fs[p]), e)
<1> DEFINE n == Len(fs)
           gs == Append(fs, e)
<1>1. /\ n \in Nat /\ DOMAIN fs = 1 .. n /\ \A i \in 1 .. n : fs[i] \in S /\ gs[i] = fs[i]
      /\ gs \in Seq(S) /\ DOMAIN gs = 1 .. n + 1 /\ Len(gs) = n + 1 /\ gs[n + 1] = e
  OBVIOUS
<1> HIDE DEF gs, n
<1>2. \A p \in 1 .. n + 1 : Behind(gs, gs[p]) = SubSeq(gs, p + 1, n + 1)
  BY <1>1, BehindOf DEF gs
<1>3. Behind(gs, e) = <<>>
  <2>1. Behind(gs, gs[n + 1]) = SubSeq(gs, (n + 1) + 1, n + 1)
    BY <1>1, <1>2
  <2>2. SubSeq(gs, (n + 1) + 1, n + 1) = <<>>
    BY <1>1
  <2> QED
    BY <1>1, <2>1, <2>2
<1>4. ASSUME Distinct(fs), NEW p \in DOMAIN fs
      PROVE  Behind(gs, fs[p]) = Append(Behind(fs, fs[p]), e)
  <2>1. p \in 1 .. n /\ p \in Nat /\ gs[p] = fs[p]
    BY <1>1
  <2> DEFINE a == SubSeq(gs, p + 1, n + 1)
             b == SubSeq(fs, p + 1, n)
  <2>2. Behind(gs, fs[p]) = a
    <3>1. p \in 1 .. n + 1
      BY <1>1, <2>1
    <3>2. Behind(gs, gs[p]) = a
      BY <1>2, <3>1
    <3> QED
      BY <2>1, <3>2
  <2>3. Behind(fs, fs[p]) = b
    BY <1>4, BehindOf DEF n
  <2>4. /\ a \in Seq(S) /\ Len(a) = n + 1 - p
        /\ \A i \in 1 .. n + 1 - p : a[i] = gs[p + i]
    <3>1. \A i \in 1 .. n + 1 : gs[i] \in S
      BY <1>1
    <3> QED
      BY <1>1, <2>1, <3>1
  <2>5. /\ b \in Seq(S) /\ Len(b) = n - p
        /\ \A i \in 1 .. n - p : b[i] = fs[p + i]
    BY <1>1, <2>1 DEF n
  <2> HIDE DEF a, b
  <2>6. /\ Append(b, e) \in Seq(S) /\ Len(Append(b, e)) = n - p + 1
        /\ \A i \in 1 .. n - p : Append(b, e)[i] = b[i]
        /\ Append(b, e)[n - p + 1] = e
    BY <2>5
  <2>7. \A i \in 1 .. Len(a) : a[i] = Append(b, e)[i]
    <3>1. TAKE i \in 1 .. Len(a)
    <3>2. CASE i \in 1 .. n - p
      <4>1. p + i \in 1 .. n
        BY <1>1, <2>1, <3>2
      <4> QED
        BY <1>1, <2>1, <2>4, <2>5, <2>6, <3>2, <4>1
    <3>3. CASE i = n - p + 1
      <4>1. p + i = n + 1
        BY <1>1, <2>1, <3>3
      <4> QED
        BY <1>1, <2>4, <2>6, <3>3, <4>1
    <3>4. i \in 1 .. n + 1 - p /\ n \in Nat
      BY <1>1, <2>4
    <3>5. i \in 1 .. n - p \/ i = n - p + 1
      BY <2>1, <3>4
    <3> QED
      BY <3>2, <3>3, <3>5
  <2>8. Len(a) = Len(Append(b, e))
    BY <1>1, <2>1, <2>4, <2>6
  <2>9. a = Append(b, e)
    BY <2>4, <2>6, <2>7, <2>8, SeqEqual
  <2> QED
    BY <2>2, <2>3, <2>9
<1> QED
  BY <1>3, <1>4 DEF gs

\* Those behind the one at a place of the work item's list.
LEMMA LaterOf ==
    ASSUME list \in Seq(Ids), Distinct(list), NEW p \in DOMAIN list
    PROVE  Later(list[p]) = SubSeq(list, p + 1, Len(list))
BY BehindOf, LaterIsBehind

\* They are fragments of the list.
LEMMA LaterTypes ==
    ASSUME list \in Seq(Ids), Distinct(list), NEW f
    PROVE  /\ Later(f) \in Seq(Ids)
           /\ \A i \in DOMAIN Later(f) : Later(f)[i] \in ToSet(list) \cap Ids
           /\ Later(f) # <<>> => Head(Later(f)) \in ToSet(list) \cap Ids
<1>1. CASE f \in ToSet(list)
  <2>1. PICK p \in DOMAIN list : list[p] = f
    BY <1>1 DEF ToSet
  <2>2. Later(f) = SubSeq(list, p + 1, Len(list))
    BY <2>1, LaterOf
  <2>3. /\ Len(list) \in Nat /\ p \in 1 .. Len(list) /\ DOMAIN list = 1 .. Len(list)
        /\ \A i \in DOMAIN list : list[i] \in Ids
    OBVIOUS
  <2>4. /\ Later(f) \in Seq(Ids)
        /\ Len(Later(f)) = Len(list) - p
        /\ \A i \in 1 .. Len(list) - p : Later(f)[i] = list[p + i]
    BY <2>2, <2>3
  <2>5. \A i \in DOMAIN Later(f) : Later(f)[i] \in ToSet(list) \cap Ids
    BY <2>3, <2>4 DEF ToSet
  <2>6. Later(f) # <<>> => Head(Later(f)) = Later(f)[1] /\ 1 \in DOMAIN Later(f)
    BY <2>4
  <2> QED
    BY <2>4, <2>5, <2>6
<1>2. CASE f \notin ToSet(list)
  <2>1. Later(f) = <<>>
    BY <1>2 DEF Later, ToSet
  <2> QED
    BY <2>1
<1> QED
  BY <1>1, <1>2

\* Those behind one of them.
LEMMA LaterBehind ==
    ASSUME list \in Seq(Ids), Distinct(list), NEW f \in ToSet(list), NEW k \in DOMAIN Later(f)
    PROVE  Later(Later(f)[k]) = SubSeq(Later(f), k + 1, Len(Later(f)))
<1>1. PICK p \in DOMAIN list : list[p] = f
  BY DEF ToSet
<1>2. Later(f) = SubSeq(list, p + 1, Len(list))
  BY <1>1, LaterOf
<1>3. /\ Len(list) \in Nat /\ p \in 1 .. Len(list) /\ DOMAIN list = 1 .. Len(list)
      /\ Len(Later(f)) = Len(list) - p /\ DOMAIN Later(f) = 1 .. Len(list) - p
  BY <1>2
<1>4. k \in 1 .. Len(list) - p /\ k \in Nat /\ p + k \in DOMAIN list /\ Later(f)[k] = list[p + k]
  BY <1>2, <1>3
<1>5. Later(Later(f)[k]) = SubSeq(list, (p + k) + 1, Len(list))
  BY <1>4, LaterOf
<1> DEFINE a == SubSeq(list, (p + k) + 1, Len(list))
           b == SubSeq(Later(f), k + 1, Len(Later(f)))
<1>6. /\ a \in Seq(Ids) /\ Len(a) = Len(list) - (p + k)
      /\ \A i \in 1 .. Len(list) - (p + k) : a[i] = list[p + k + i]
  <2>1. PICK m \in Nat : m = p + k /\ m \in 1 .. Len(list)
    BY <1>3, <1>4
  <2>2. /\ SubSeq(list, m + 1, Len(list)) \in Seq(Ids)
        /\ Len(SubSeq(list, m + 1, Len(list))) = Len(list) - m
        /\ \A i \in 1 .. Len(list) - m : SubSeq(list, m + 1, Len(list))[i] = list[m + i]
    <3>1. DOMAIN list = 1 .. Len(list) /\ Len(list) \in Nat /\ \A i \in DOMAIN list : list[i] \in Ids
      OBVIOUS
    <3> QED
      BY <2>1, <3>1
  <2> QED
    BY <2>1, <2>2
<1>7. Later(f) \in Seq(Ids) /\ \A i \in 1 .. Len(list) - p : Later(f)[i] = list[p + i]
  BY <1>2, <1>3
<1>8. /\ b \in Seq(Ids) /\ Len(b) = Len(list) - (p + k)
      /\ \A i \in 1 .. Len(list) - (p + k) : b[i] = Later(f)[k + i]
  BY <1>3, <1>4, <1>7
<1>9. \A i \in 1 .. Len(list) - (p + k) : k + i \in 1 .. Len(list) - p /\ p + (k + i) = p + k + i
  <2>1. ASSUME NEW m \in Nat, NEW i \in 1 .. m - (p + k)
        PROVE  k + i \in 1 .. m - p /\ p + (k + i) = p + k + i
    BY <1>3, <1>4
  <2> QED
    BY <1>3, <2>1
<1> HIDE DEF a, b
<1>10. \A i \in 1 .. Len(a) : a[i] = b[i]
  BY <1>6, <1>7, <1>8, <1>9
<1>11. a = b
  BY <1>6, <1>8, <1>10, SeqEqual
<1> QED
  BY <1>5, <1>11 DEF a, b

-----------------------------------------------------------------------------
(* The cursor                                                              *)

\* The unread bytes are those from the cursor on.
AheadOf(place) ==
    Remaining(place) >= 0 /\ unread = Remaining(place) + BytesIn(Later(place.frag))

Ahead == InFragment /\ unread > 0 => AheadOf(cursor)

\* A normalized cursor has a byte to read in its fragment, which is one of the
\* work item's.
LEMMA NormalizedFacts ==
    ASSUME TypeOK, Distinct(list), frag \in ToSet(list), Ahead, CanNormalize, unread # 0
    PROVE  /\ InFragment
           /\ Normalized \in Places
           /\ Normalized.frag \in ToSet(list)
           /\ Normalized.frag \in Ids
           /\ Remaining(Normalized) > 0
           /\ AheadOf(Normalized)
           /\ ByteAt(Normalized) \in Byte
<1>1. InFragment /\ (Remaining(cursor) > 0 \/ Later(frag) # <<>>)
  BY DEF CanNormalize
<1>2. /\ cursor \in Places /\ cursor.frag = frag /\ frag \in Ids
      /\ stream \in Seq(Fragments) /\ list \in Seq(Ids) /\ unread \in Nat
  BY <1>1 DEF InFragment, TypeOK, Places
<1>3. Size(frag) \in 1 .. MaxFragment /\ MaxFragment \in Nat /\ cursor.at \in 0 .. MaxFragment
  BY <1>2, SizeFacts DEF Places
<1>4. AheadOf(cursor)
  BY <1>1, <1>2 DEF Ahead
<1>5. /\ Normalized \in Places
      /\ Normalized.frag \in ToSet(list) \cap Ids
      /\ Remaining(Normalized) > 0
      /\ AheadOf(Normalized)
  <2>1. CASE Remaining(cursor) > 0
    BY <1>2, <1>4, <2>1 DEF Normalized
  <2>2. CASE ~ (Remaining(cursor) > 0)
    <3> DEFINE later == Later(frag)
    <3>1. later # <<>>
      BY <1>1, <2>2
    <3>2. later \in Seq(Ids) /\ Head(later) \in ToSet(list) \cap Ids
      BY <1>2, <3>1, LaterTypes
    <3>3. Normalized = [frag |-> Head(later), at |-> 0]
      BY <2>2 DEF Normalized
    <3>4. Size(Head(later)) \in 1 .. MaxFragment
      BY <1>2, <3>2, SizeFacts
    <3>5. Remaining(Normalized) = Size(Head(later))
      BY <1>3, <3>3, <3>4 DEF Remaining
    <3>6. Later(Head(later)) = SubSeq(later, 2, Len(later)) /\ Head(later) = later[1]
      <4>1. 1 \in DOMAIN later /\ Head(later) = later[1]
        BY <3>1, <3>2
      <4>2. Later(later[1]) = SubSeq(later, 1 + 1, Len(later))
        BY <1>2, <4>1, LaterBehind
      <4> QED
        BY <4>1, <4>2
    <3> HIDE DEF later
    <3>7. BytesIn(later) = Size(later[1]) + BytesIn(SubSeq(later, 2, Len(later)))
      <4>1. 1 \in 1 .. Len(later)
        BY <3>1, <3>2
      <4>2. /\ BytesIn(later) = BytesIn(SubSeq(later, 1, 1 - 1)) + Size(later[1])
                                  + BytesIn(SubSeq(later, 1 + 1, Len(later)))
            /\ BytesIn(SubSeq(later, 1 + 1, Len(later))) \in Nat /\ Size(later[1]) \in Nat
        BY <1>2, <3>2, <4>1, BytesSplit
      <4>3. BytesIn(SubSeq(later, 1, 0)) = 0
        BY <1>2, <3>2, BytesUpTo
      <4> QED
        BY <4>2, <4>3
    <3>8. Remaining(cursor) = 0 /\ unread = BytesIn(later)
      <4>1. Remaining(cursor) \in Int
        BY <1>2, <1>3 DEF Remaining
      <4>2. BytesIn(later) \in Nat
        BY <1>2, <3>2, BytesAreCells
      <4> QED
        BY <1>2, <1>4, <2>2, <4>1, <4>2 DEF AheadOf, later
    <3> QED
      <4>1. Normalized.frag = Head(later) /\ Normalized \in Places
        BY <1>3, <3>2, <3>3 DEF Places
      <4>2. unread = Remaining(Normalized) + BytesIn(Later(Normalized.frag))
        BY <3>5, <3>6, <3>7, <3>8, <4>1
      <4>3. Remaining(Normalized) > 0 /\ Remaining(Normalized) >= 0
        BY <1>3, <3>4, <3>5
      <4> QED
        BY <3>2, <4>1, <4>2, <4>3 DEF AheadOf
  <2> QED
    BY <2>1, <2>2
<1>6. ByteAt(Normalized) \in Byte
  <2>1. /\ stream[Normalized.frag] \in Seq(Byte)
        /\ Size(Normalized.frag) \in Nat /\ Size(Normalized.frag) = Len(stream[Normalized.frag])
    BY <1>2, <1>5, SizeFacts DEF Size
  <2>2. Normalized.at + 1 \in 1 .. Len(stream[Normalized.frag])
    BY <1>3, <1>5, <2>1 DEF Remaining, Places
  <2> QED
    BY <2>1, <2>2 DEF ByteAt
<1> QED
  BY <1>1, <1>5, <1>6

\* A place that a cursor may be at after n bytes: in the work item, and with
\* the rest of what was unread ahead.
LandsOn(place, n) ==
    /\ place \in Places
    /\ place.frag \in ToSet(list) \cap Ids
    /\ Remaining(place) >= 0
    /\ unread - n = Remaining(place) + BytesIn(Later(place.frag))

\* A cursor that advances stays in the fragments of the work item.
LEMMA AdvancedFacts ==
    ASSUME TypeOK, Distinct(list), NEW place \in Places, place.frag \in ToSet(list),
           Remaining(place) > 0, AheadOf(place), NEW n \in Nat, n <= unread
    PROVE  CanAdvance(place, n) /\ LandsOn(Advanced(place, n), n)
<1> DEFINE later == Later(place.frag)
           rest == n - Remaining(place)
<1>1. /\ stream \in Seq(Fragments) /\ list \in Seq(Ids) /\ unread \in Nat
      /\ place.frag \in Ids /\ place.at \in 0 .. MaxFragment
  BY DEF TypeOK, Places
<1>2. Size(place.frag) \in 1 .. MaxFragment /\ MaxFragment \in Nat /\ Remaining(place) \in Nat
  BY <1>1, SizeFacts DEF Remaining
<1>3. /\ later \in Seq(Ids)
      /\ \A i \in DOMAIN later : later[i] \in ToSet(list) \cap Ids
      /\ later # <<>> => Head(later) \in ToSet(list) \cap Ids
  BY <1>1, LaterTypes
<1>4. unread = Remaining(place) + BytesIn(later) /\ BytesIn(later) \in Nat
  BY <1>1, <1>3, BytesAreCells DEF AheadOf
<1>5. later = <<>> => BytesIn(later) = 0
  BY NoBytes
<1>6. CanAdvance(place, n)
  <2> HIDE DEF later
  <2>1. n > Remaining(place) => BytesIn(later) >= n - Remaining(place)
    BY <1>2, <1>4
  <2>2. n = Remaining(place) /\ unread > n => later # <<>>
    BY <1>2, <1>4, <1>5
  <2> QED
    BY <1>1, <2>1, <2>2 DEF CanAdvance, later
<1>7. \A k \in DOMAIN later :
        /\ Later(later[k]) = SubSeq(later, k + 1, Len(later))
        /\ BytesIn(later) = BytesIn(SubSeq(later, 1, k - 1)) + Size(later[k]) + BytesIn(Later(later[k]))
        /\ BytesIn(SubSeq(later, 1, k - 1)) \in Nat /\ BytesIn(Later(later[k])) \in Nat
        /\ BytesIn(SubSeq(later, 1, k)) = BytesIn(SubSeq(later, 1, k - 1)) + Size(later[k])
        /\ later[k] \in ToSet(list) \cap Ids /\ Size(later[k]) \in 1 .. MaxFragment
  <2>1. TAKE k \in DOMAIN later
  <2>2. Later(later[k]) = SubSeq(later, k + 1, Len(later))
    BY <1>1, LaterBehind
  <2> HIDE DEF later
  <2>3. k \in 1 .. Len(later) /\ later[k] \in ToSet(list) \cap Ids
    BY <1>3
  <2>4. Size(later[k]) \in 1 .. MaxFragment
    BY <1>1, <2>3, SizeFacts
  <2>5. BytesIn(SubSeq(later, 1, k)) = BytesIn(SubSeq(later, 1, k - 1)) + Size(later[k])
    BY <1>1, <1>3, <2>3, BytesUpTo
  <2>6. /\ BytesIn(later) = BytesIn(SubSeq(later, 1, k - 1)) + Size(later[k])
                              + BytesIn(SubSeq(later, k + 1, Len(later)))
        /\ BytesIn(SubSeq(later, 1, k - 1)) \in Nat /\ BytesIn(SubSeq(later, k + 1, Len(later))) \in Nat
    BY <1>1, <1>3, <2>3, BytesSplit
  <2> QED
    BY <2>2, <2>3, <2>4, <2>5, <2>6
<1>8. CASE n < Remaining(place) \/ n = 0 \/ (n = Remaining(place) /\ unread = n)
  <2>1. Advanced(place, n) = [place EXCEPT !.at = @ + n]
    BY <1>2, <1>8 DEF Advanced
  <2>2. place.at + n \in 0 .. MaxFragment
    BY <1>1, <1>2, <1>8 DEF Remaining
  <2>3. Advanced(place, n) \in Places /\ Advanced(place, n).frag = place.frag
        /\ Advanced(place, n).at = place.at + n
    BY <1>1, <2>1, <2>2 DEF Places
  <2>4. Remaining(Advanced(place, n)) = Remaining(place) - n
    BY <1>1, <1>2, <2>3 DEF Remaining
  <2> HIDE DEF later
  <2> QED
    <3>1. Remaining(place) - n >= 0 /\ unread - n = (Remaining(place) - n) + BytesIn(later)
      BY <1>1, <1>2, <1>4, <1>8
    <3>2. Advanced(place, n).frag \in ToSet(list) \cap Ids
      BY <1>1, <2>3
    <3> QED
      BY <1>6, <2>3, <2>4, <3>1, <3>2 DEF LandsOn, later
<1>9. CASE n = Remaining(place) /\ unread > n
  <2>1. Advanced(place, n) = [frag |-> Head(later), at |-> 0]
    BY <1>2, <1>9 DEF Advanced
  <2> HIDE DEF later
  <2>2. later # <<>>
    BY <1>2, <1>4, <1>5, <1>9
  <2>3. 1 \in DOMAIN later /\ Head(later) = later[1]
    BY <1>3, <2>2
  <2>4. BytesIn(SubSeq(later, 1, 1 - 1)) = 0
    BY <1>1, <1>3, BytesUpTo
  <2>5. BytesIn(later) = Size(later[1]) + BytesIn(Later(later[1]))
        /\ Size(later[1]) \in Nat /\ later[1] \in ToSet(list) \cap Ids
        /\ BytesIn(Later(later[1])) \in Nat
    BY <1>2, <1>7, <2>3, <2>4
  <2>6. Advanced(place, n) = [frag |-> later[1], at |-> 0]
    BY <2>1, <2>3
  <2>7. Remaining(Advanced(place, n)) = Size(later[1]) /\ Advanced(place, n) \in Places
    BY <1>2, <2>5, <2>6 DEF Remaining, Places
  <2> QED
    <3>1. Size(later[1]) >= 0 /\ unread - n = Size(later[1]) + BytesIn(Later(later[1]))
      BY <1>1, <1>2, <1>4, <1>9, <2>5
    <3>2. Advanced(place, n).frag = later[1]
      BY <2>6
    <3> QED
      BY <1>6, <2>5, <2>7, <3>1, <3>2 DEF LandsOn
<1>10. CASE n > Remaining(place)
  <2>1. BytesIn(later) >= rest /\ rest \in Nat /\ 0 < rest
    BY <1>2, <1>4, <1>10
  <2> DEFINE stops(k) == BytesIn(SubSeq(later, 1, k)) >= rest /\ BytesIn(SubSeq(later, 1, k - 1)) < rest
  <2> HIDE DEF later, rest
  <2>2. \E i \in DOMAIN later : stops(i)
    BY <1>1, <1>3, <2>1, HolderExists
  <2>3. PICK k : k = (CHOOSE i \in DOMAIN later : stops(i)) /\ k \in DOMAIN later /\ stops(k)
    <3> HIDE DEF stops
    <3> QED
      BY <2>2
  <2>4. Advanced(place, n) = [frag |-> later[k], at |-> rest - BytesIn(SubSeq(later, 1, k - 1))]
    <3>1. ~ (n < Remaining(place) \/ n = 0 \/ (n = Remaining(place) /\ unread = n))
          /\ ~ (n = Remaining(place) /\ unread > n)
      BY <1>2, <1>10
    <3> QED
      BY <2>3, <3>1 DEF Advanced, later, rest
  <2>5. /\ BytesIn(later) = BytesIn(SubSeq(later, 1, k - 1)) + Size(later[k]) + BytesIn(Later(later[k]))
        /\ BytesIn(SubSeq(later, 1, k - 1)) \in Nat /\ BytesIn(Later(later[k])) \in Nat
        /\ BytesIn(SubSeq(later, 1, k)) = BytesIn(SubSeq(later, 1, k - 1)) + Size(later[k])
        /\ later[k] \in ToSet(list) \cap Ids /\ Size(later[k]) \in 1 .. MaxFragment
    <3> HIDE DEF stops
    <3> QED
      BY <1>7, <2>3
  <2>6. PICK at \in 0 .. MaxFragment :
           at = rest - BytesIn(SubSeq(later, 1, k - 1)) /\ at <= Size(later[k])
    <3>1. BytesIn(SubSeq(later, 1, k)) >= rest /\ BytesIn(SubSeq(later, 1, k - 1)) < rest
      BY <2>3
    <3> HIDE DEF stops
    <3>2. rest - BytesIn(SubSeq(later, 1, k - 1)) \in 0 .. MaxFragment
          /\ rest - BytesIn(SubSeq(later, 1, k - 1)) <= Size(later[k])
      BY <1>2, <2>1, <2>5, <3>1
    <3> QED
      BY <3>2
  <2>7. Advanced(place, n) = [frag |-> later[k], at |-> at] /\ Advanced(place, n) \in Places
    BY <2>4, <2>5, <2>6 DEF Places
  <2>8. Remaining(Advanced(place, n)) = Size(later[k]) - at
    BY <2>7 DEF Remaining
  <2>9. unread - n = BytesIn(later) - rest
    BY <1>1, <1>2, <1>4 DEF rest
  <2> HIDE DEF stops
  <2> QED
    <3>1. Size(later[k]) - at >= 0 /\ unread - n = (Size(later[k]) - at) + BytesIn(Later(later[k]))
      BY <1>2, <2>1, <2>5, <2>6, <2>9
    <3>2. Advanced(place, n).frag = later[k]
      BY <2>7
    <3> QED
      BY <1>6, <2>5, <2>7, <2>8, <3>1, <3>2 DEF LandsOn
<1>11. \/ n < Remaining(place) \/ n = 0 \/ (n = Remaining(place) /\ unread = n)
       \/ n = Remaining(place) /\ unread > n
       \/ n > Remaining(place)
  BY <1>1, <1>2
<1> QED
  BY <1>6, <1>8, <1>9, <1>10, <1>11

-----------------------------------------------------------------------------
(* Counting holders                                                        *)

\* The work items of a queue that hold a fragment.
HeldBy(q, f) == {i \in DOMAIN q : f \in ToSet(q[i].list)}

\* Finitely many work items hold a fragment.
LEMMA HeldByFinite ==
    ASSUME NEW S, NEW q \in Seq(S), NEW f
    PROVE  IsFiniteSet(HeldBy(q, f)) /\ Cardinality(HeldBy(q, f)) \in Nat
<1>1. Len(q) \in Nat /\ DOMAIN q = 1 .. Len(q)
  OBVIOUS
<1>2. IsFiniteSet(1 .. Len(q))
  BY <1>1, FS_Interval
<1>3. HeldBy(q, f) \subseteq 1 .. Len(q)
  BY <1>1 DEF HeldBy
<1> QED
  BY <1>2, <1>3, FS_Subset, FS_CardinalityType

\* A work item that joins the queue holds its fragments.
LEMMA HeldByAppend ==
    ASSUME NEW S, NEW q \in Seq(S), NEW e \in S, NEW f
    PROVE  Cardinality(HeldBy(Append(q, e), f))
             = Cardinality(HeldBy(q, f)) + IF f \in ToSet(e.list) THEN 1 ELSE 0
<1>1. /\ DOMAIN Append(q, e) = DOMAIN q \cup {Len(q) + 1}
      /\ Append(q, e)[Len(q) + 1] = e
      /\ \A i \in DOMAIN q : Append(q, e)[i] = q[i] /\ i # Len(q) + 1
  OBVIOUS
<1>2. IsFiniteSet(HeldBy(q, f)) /\ Len(q) + 1 \notin HeldBy(q, f) /\ Cardinality(HeldBy(q, f)) \in Nat
  BY <1>1, HeldByFinite DEF HeldBy
<1>3. CASE f \in ToSet(e.list)
  <2>1. HeldBy(Append(q, e), f) = HeldBy(q, f) \cup {Len(q) + 1}
    BY <1>1, <1>3 DEF HeldBy
  <2> QED
    BY <1>2, <1>3, <2>1, FS_AddElement
<1>4. CASE f \notin ToSet(e.list)
  <2>1. HeldBy(Append(q, e), f) = HeldBy(q, f)
    BY <1>1, <1>4 DEF HeldBy
  <2> QED
    BY <1>2, <1>4, <2>1
<1> QED
  BY <1>3, <1>4

\* The one that leaves the queue no longer does.
LEMMA HeldByTail ==
    ASSUME NEW S, NEW q \in Seq(S), q # <<>>, NEW f
    PROVE  Cardinality(HeldBy(Tail(q), f))
             = Cardinality(HeldBy(q, f)) - IF f \in ToSet(Head(q).list) THEN 1 ELSE 0
<1> DEFINE T == HeldBy(q, f) \ {1}
           shift == [i \in T |-> i - 1]
<1>1. /\ Len(q) \in Nat /\ DOMAIN q = 1 .. Len(q) /\ Head(q) = q[1] /\ 1 \in DOMAIN q
      /\ DOMAIN Tail(q) = 1 .. Len(q) - 1
      /\ \A i \in 1 .. Len(q) - 1 : Tail(q)[i] = q[i + 1]
  OBVIOUS
<1>2. \A i : i \in T <=> i \in 2 .. Len(q) /\ f \in ToSet(q[i].list)
  BY <1>1 DEF HeldBy
<1>3. \A i : i \in HeldBy(Tail(q), f) <=> i \in 1 .. Len(q) - 1 /\ f \in ToSet(q[i + 1].list)
  BY <1>1 DEF HeldBy
<1>4. shift \in Bijection(T, HeldBy(Tail(q), f))
  <2> HIDE DEF T
  <2>1. \A i \in T : shift[i] = i - 1 /\ i - 1 \in HeldBy(Tail(q), f) /\ i \in Int
    BY <1>1, <1>2, <1>3
  <2>2. \A j \in HeldBy(Tail(q), f) : j + 1 \in T /\ (j + 1) - 1 = j
    BY <1>1, <1>2, <1>3
  <2>3. shift \in [T -> HeldBy(Tail(q), f)]
    BY <2>1
  <2>4. \A i, j \in T : shift[i] = shift[j] => i = j
    BY <2>1
  <2>5. \A j \in HeldBy(Tail(q), f) : \E i \in T : shift[i] = j
    BY <2>1, <2>2
  <2> HIDE DEF shift
  <2> QED
    BY <2>3, <2>4, <2>5 DEF Bijection, Injection, Surjection, IsInjective
<1>5. IsFiniteSet(HeldBy(q, f)) /\ Cardinality(HeldBy(q, f)) \in Nat
  BY HeldByFinite
<1>6. IsFiniteSet(T) /\ Cardinality(T) = Cardinality(HeldBy(q, f)) - IF 1 \in HeldBy(q, f) THEN 1 ELSE 0
  BY <1>5, FS_RemoveElement
<1>7. 1 \in HeldBy(q, f) <=> f \in ToSet(Head(q).list)
  BY <1>1 DEF HeldBy
<1>8. ExistsBijection(T, HeldBy(Tail(q), f))
  BY <1>4 DEF ExistsBijection
<1>9. Cardinality(HeldBy(Tail(q), f)) = Cardinality(T)
  <2> HIDE DEF T
  <2> QED
    BY <1>6, <1>8, FS_Bijection
<1> QED
  BY <1>6, <1>7, <1>9

\* What a list's fragments, and a moved reference, do to the counts.
LEMMA ReleaseAllValue ==
    ASSUME NEW r \in [Ids -> Int], NEW fs \in Seq(Ids), Distinct(fs)
    PROVE  /\ ReleaseAll(r, fs) \in [Ids -> Int]
           /\ \A f \in Ids : ReleaseAll(r, fs)[f] = r[f] - IF f \in ToSet(fs) THEN 1 ELSE 0
<1>1. \A f \in Ids : Cardinality({i \in DOMAIN fs : fs[i] = f}) = IF f \in ToSet(fs) THEN 1 ELSE 0
  BY NamedOnce
<1> QED
  BY <1>1 DEF ReleaseAll

\* What a moved reference leaves of the counts.
LEMMA MoveRefValue ==
    ASSUME NEW r \in [Ids -> Int], NEW g \in Ids, frag \in Ids
    PROVE  /\ MoveRef(r, g) \in [Ids -> Int]
           /\ \A f \in Ids : MoveRef(r, g)[f]
                = r[f] - (IF frag = f THEN 1 ELSE 0) + (IF g = f THEN 1 ELSE 0)
BY DEF MoveRef, Retain, Release

-----------------------------------------------------------------------------
(* Every fragment is counted                                               *)

\* How the parser's variables fit together.  The reference of the cursor is to
\* a fragment of the work item, which is there exactly as long as the work item
\* has fragments; each step of Parse starts with what the step before it found.
Shaped ==
    /\ Distinct(list)
    /\ \A i \in DOMAIN queue : Distinct(queue[i].list)
    /\ frag = None <=> list = <<>>
    /\ frag # None => frag \in ToSet(list)
    /\ unread > 0 /\ link # "gone" => frag # None
    /\ pc # "idle" => link # "gone"
    /\ input = None <=> pc = "idle"
    /\ pc = "parse" => input \notin ToSet(list)
    /\ pc = "drain" => body = 0
    /\ pc = "body" => frag # None
    /\ pc = "second" => unread >= 1 /\ size \in OneByteLimit .. ByteBase - 1
    /\ pc = "endPrefix" => unread >= 1 /\ InFragment /\ Remaining(cursor) > 0

\* What is unread, and what Parse is about to take, was received.
Received == [i \in Ids |-> i]
Arriving == IF pc = "parse" THEN Size(input) ELSE 0
Bounded == unread + Arriving <= BytesIn(Received) /\ BytesIn(Received) <= MaxBytes

Holding == TypeOK /\ Shaped /\ Ahead /\ Bounded /\ RefsMatchHolders

\* With the stream, the types that depend on it stay.
LEMMA SameStream ==
    ASSUME stream' = stream
    PROVE  /\ Ids' = Ids
           /\ Places' = Places
           /\ WorkItems' = WorkItems
           /\ BytesIn(Received)' = BytesIn(Received)
           /\ \A f : Size(f)' = Size(f)
BY DEF Ids, Places, WorkItems, BytesIn, Received, Size

\* Counts of holders are natural numbers.
LEMMA CountsAreNatural ==
    ASSUME RefsMatchHolders', refs' \in [Ids' -> Int], queue' \in Seq(WorkItems')
    PROVE  refs' \in [Ids' -> Nat]
<1>1. ASSUME NEW f \in Ids'
      PROVE  refs'[f] \in Nat
  <2>1. InItems(f)' = Cardinality(HeldBy(queue', f))
    BY DEF InItems, HeldBy
  <2>2. InItems(f)' \in Nat
    BY <2>1, HeldByFinite
  <2>3. InList(f)' \in Nat /\ AtCursor(f)' \in Nat /\ InCalls(f)' \in Nat
    BY DEF InList, AtCursor, InCalls
  <2>4. refs'[f] = InList(f)' + AtCursor(f)' + InItems(f)' + InCalls(f)'
    BY DEF RefsMatchHolders
  <2> QED
    BY <2>2, <2>3, <2>4
<1> QED
  BY <1>1

\* The bytes of a list stay the same while its fragments do.
LEMMA BytesStay ==
    ASSUME stream \in Seq(Fragments), \A f \in Ids : stream'[f] = stream[f], NEW fs \in Seq(Ids)
    PROVE  BytesIn(fs)' = BytesIn(fs)
<1>1. \A i \in DOMAIN fs : fs[i] \in Ids
  OBVIOUS
<1>2. \A i \in DOMAIN fs : {i} \X (1 .. Len(stream'[fs[i]])) = {i} \X (1 .. Len(stream[fs[i]]))
  BY <1>1
<1>3. UNION {{i} \X (1 .. Len(stream'[fs[i]])) : i \in DOMAIN fs}
        = UNION {{i} \X (1 .. Len(stream[fs[i]])) : i \in DOMAIN fs}
  BY <1>2
<1> QED
  BY <1>3 DEF BytesIn, Size

\* With cursor, list and unread bytes, what is ahead stays.
LEMMA SameAhead ==
    ASSUME Ahead, UNCHANGED <<stream, frag, cursor, unread, list>>
    PROVE  Ahead'
<1>1. Later(cursor.frag)' = Later(cursor.frag)
  BY DEF Later
<1>2. BytesIn(Later(cursor.frag))' = BytesIn(Later(cursor.frag))
  BY <1>1 DEF BytesIn, Size
<1>3. Remaining(cursor)' = Remaining(cursor)
  BY DEF Remaining, Size
<1> QED
  BY <1>2, <1>3 DEF Ahead, AheadOf, InFragment

\* A cursor moved, or the list changed: what has to be shown.
LEMMA AheadAfter ==
    ASSUME stream' = stream, NEW c, cursor' = c,
           InFragment' => Remaining(c) >= 0 /\ unread' = Remaining(c) + BytesIn(Behind(list', c.frag))
    PROVE  Ahead'
<1> SUFFICES ASSUME InFragment' PROVE AheadOf(cursor)'
  BY DEF Ahead
<1>1. Remaining(cursor)' = Remaining(c)
  BY DEF Remaining, Size
<1>2. Later(cursor.frag)' = Behind(list', c.frag)
  BY DEF Later, Behind
<1>3. BytesIn(Later(cursor.frag))' = BytesIn(Behind(list', c.frag))
  BY <1>2 DEF BytesIn, Size
<1> QED
  BY <1>1, <1>3 DEF AheadOf

\* Nothing is held at first.
LEMMA InitialHolding == Init => Holding
<1> SUFFICES ASSUME Init PROVE Holding
  OBVIOUS
<1>1. Ids = {} /\ MaxBytes \in Nat /\ MaxBody \in Nat /\ ByteBase \in Nat /\ None \notin Nat
  BY ParserAssumption DEF Init, Ids
<1>2. TypeOK
  <2>1. \A S : <<>> \in Seq(S)
    OBVIOUS
  <2>2. refs \in [Ids -> Nat]
    BY <1>1 DEF Init
  <2>3. 0 \in 0 .. ByteBase * ByteBase
    BY <1>1
  <2> QED
    <3>1. /\ stream \in Seq(Fragments) /\ list \in Seq(Ids)
          /\ queue \in Seq(WorkItems) /\ delivered \in Seq(Seq(Byte))
      BY <2>1 DEF Init
    <3>2. /\ link \in {"up", "halfClosed", "down", "gone"} /\ pc \in Steps /\ verdict \in Verdicts
          /\ corrupt \in BOOLEAN /\ frag \in Ids \cup {None} /\ cursor \in Places \cup {None}
          /\ input \in Ids \cup {None}
      BY DEF Init, Steps, Verdicts
    <3>3. unread \in 0 .. MaxBytes /\ body \in 0 .. MaxBody /\ size \in 0 .. ByteBase * ByteBase
      BY <1>1, <2>3 DEF Init
    <3> QED
      BY <2>2, <3>1, <3>2, <3>3 DEF TypeOK
<1>3. Shaped
  BY DEF Init, Shaped, Distinct
<1>6. Ahead
  BY DEF Init, Ahead, InFragment
<1>4. Bounded
  <2>1. Received = <<>>
    BY <1>1 DEF Received
  <2>2. stream \in Seq(Fragments) /\ <<>> \in Seq(Ids)
    BY DEF Init
  <2>3. BytesIn(<<>>) = 0
    BY NoBytes
  <2> QED
    BY <1>1, <2>1, <2>3 DEF Init, Bounded, Arriving
<1>5. RefsMatchHolders
  BY <1>1 DEF RefsMatchHolders
<1> QED
  BY <1>2, <1>3, <1>4, <1>5, <1>6 DEF Holding

\* A fragment more: those before it stay what they are.
LEMMA ReceiveHolds == ASSUME Holding, Receive PROVE Holding'
<1>0. PICK m \in Nat : m = Len(stream) + 1
  BY DEF Holding, TypeOK
<1>1. PICK n \in 1 .. MaxFragment :
         /\ BytesIn(Received) + n <= MaxBytes
         /\ \E bytes \in [1 .. n -> Byte] : stream' = Append(stream, bytes)
  BY DEF Receive, Received
<1>2. PICK bytes \in [1 .. n -> Byte] : stream' = Append(stream, bytes)
  BY <1>1
<1>3. /\ stream \in Seq(Fragments) /\ Len(stream) \in Nat /\ m \in Nat /\ m \notin Ids /\ n \in Nat
      /\ MaxFragment \in Nat /\ m = Len(stream) + 1
  BY <1>0, ParserAssumption DEF Holding, TypeOK, Ids
<1>4. bytes \in Fragments /\ Len(bytes) = n
  BY <1>1, <1>2, <1>3 DEF Fragments
<1>5. /\ stream' \in Seq(Fragments) /\ Len(stream') = m
      /\ stream'[m] = bytes
      /\ \A f \in Ids : stream'[f] = stream[f]
  BY <1>2, <1>3, <1>4 DEF Ids
<1>6. Ids' = Ids \cup {m} /\ m \in Ids'
  BY <1>3, <1>5 DEF Ids
<1>7. /\ link \in {"up", "halfClosed"} /\ pc = "idle" /\ pc' = "parse"
      /\ refs' = Append(refs, 3) /\ input' = m
      /\ UNCHANGED <<link, frag, cursor, unread, list, body, size, verdict, corrupt, queue, delivered>>
  BY <1>0 DEF Receive, parserVars
<1>8. Places \subseteq Places' /\ Seq(Ids) \subseteq Seq(Ids')
  BY <1>6 DEF Places
<1>9. queue' \in Seq(WorkItems')
  <2>1. WorkItems \subseteq WorkItems'
    <3>1. /\ WorkItems = [list : Seq(Ids), start : Places \cup {None}, body : 0 .. MaxBody]
          /\ WorkItems' = [list : Seq(Ids'), start : Places' \cup {None}, body : 0 .. MaxBody]
      BY DEF WorkItems
    <3> QED
      BY <1>8, <3>1
  <2>2. queue \in Seq(WorkItems)
    BY DEF Holding, TypeOK
  <2>3. \A S, T : S \subseteq T => Seq(S) \subseteq Seq(T)
    OBVIOUS
  <2> QED
    BY <1>7, <2>1, <2>2, <2>3
<1>10. refs' \in [Ids' -> Nat] /\ refs'[m] = 3 /\ \A f \in Ids : refs'[f] = refs[f]
  <2>1. refs \in [1 .. Len(stream) -> Nat]
    BY DEF Holding, TypeOK, Ids
  <2>2. refs \in Seq(Nat) /\ Len(refs) = Len(stream)
    BY <1>3, <2>1
  <2>3. /\ DOMAIN Append(refs, 3) = 1 .. m
        /\ Append(refs, 3) \in Seq(Nat)
        /\ Append(refs, 3)[m] = 3
        /\ \A f \in 1 .. Len(stream) : Append(refs, 3)[f] = refs[f]
    BY <1>3, <2>2
  <2>4. \A f \in 1 .. m : Append(refs, 3)[f] \in Nat
    BY <2>3
  <2>5. Ids' = 1 .. m /\ Ids = 1 .. Len(stream) /\ m \in 1 .. m
    BY <1>3, <1>5 DEF Ids
  <2>6. Append(refs, 3) \in [1 .. m -> Nat]
    <3>1. \A s \in Seq(Nat) : s \in [DOMAIN s -> Nat]
      OBVIOUS
    <3> QED
      BY <2>3, <3>1
  <2> QED
    BY <1>7, <2>3, <2>5, <2>6
<1>11. TypeOK'
  <2>1. /\ link' \in {"up", "halfClosed", "down", "gone"}
        /\ frag' \in Ids' \cup {None}
        /\ cursor' \in Places' \cup {None}
        /\ unread' \in 0 .. MaxBytes
        /\ list' \in Seq(Ids')
        /\ body' \in 0 .. MaxBody
        /\ pc' \in Steps
        /\ size' \in 0 .. ByteBase * ByteBase
        /\ input' \in Ids' \cup {None}
        /\ verdict' \in Verdicts
        /\ corrupt' \in BOOLEAN
        /\ delivered' \in Seq(Seq(Byte))
    BY <1>6, <1>7, <1>8 DEF Holding, TypeOK, Steps
  <2> QED
    BY <1>5, <1>9, <1>10, <2>1 DEF TypeOK
<1>12. m \notin ToSet(list) /\ m # None /\ frag # m
      /\ \A i \in DOMAIN queue : m \notin ToSet(queue[i].list)
  <2>1. list \in Seq(Ids) /\ frag \in Ids \cup {None} /\ queue \in Seq(WorkItems)
    BY DEF Holding, TypeOK
  <2>2. m # None
    BY <1>3, ParserAssumption
  <2>3. \A fs \in Seq(Ids) : m \notin ToSet(fs)
    BY <1>3 DEF ToSet
  <2>4. \A i \in DOMAIN queue : queue[i].list \in Seq(Ids)
    <3>1. \A i \in DOMAIN queue : queue[i] \in WorkItems
      BY <2>1
    <3>2. \A w \in WorkItems : w.list \in Seq(Ids)
      BY DEF WorkItems
    <3> QED
      BY <3>1, <3>2
  <2> QED
    BY <1>3, <2>1, <2>2, <2>3, <2>4
<1>13. Shaped'
  BY <1>7, <1>12 DEF Holding, Shaped
<1>14. Bounded'
  <2>1. /\ Received \in Seq(Ids) /\ Len(Received) = Len(stream)
        /\ BytesIn(Received) \in Nat /\ BytesIn(Received) = Cardinality(Cells(Sizes(Received)))
        /\ Sizes(Received) \in Seq(0 .. MaxFragment)
    <3>1. Received \in Seq(Ids) /\ Len(Received) = Len(stream)
      BY <1>3 DEF Received, Ids
    <3> QED
      BY <1>3, <3>1, BytesAreCells
  <2>2. DOMAIN Sizes(Received) = Ids /\ \A f \in Ids : Sizes(Received)[f] = Len(stream[f])
    BY DEF Sizes, Received, Size
  <2> DEFINE sizes == Sizes(Received)
             more == [f \in 1 .. m |-> Len(stream'[f])]
  <2>3. more = Append(sizes, n)
    <3> HIDE DEF sizes
    <3>1. \A f \in 1 .. Len(stream) : f \in Ids /\ more[f] = sizes[f]
      BY <1>3, <1>5, <2>2 DEF sizes, Ids
    <3>2. more[m] = n /\ n \in 0 .. MaxFragment
      BY <1>3, <1>4, <1>5
    <3>3. sizes \in Seq(0 .. MaxFragment) /\ Len(sizes) = Len(stream)
      BY <1>3, <2>1, <2>2 DEF sizes, Ids
    <3> HIDE DEF more
    <3>4. \A f \in 1 .. m : more[f] \in 0 .. MaxFragment
      BY <1>3, <3>1, <3>2, <3>3
    <3>5. more \in Seq(0 .. MaxFragment) /\ Len(more) = m
      BY <1>3, <3>4 DEF more
    <3>6. /\ Append(sizes, n) \in Seq(0 .. MaxFragment) /\ Len(Append(sizes, n)) = m
          /\ Append(sizes, n)[m] = n
          /\ \A f \in 1 .. Len(stream) : Append(sizes, n)[f] = sizes[f]
      BY <1>3, <3>2, <3>3
    <3>7. \A f \in 1 .. m : more[f] = Append(sizes, n)[f]
      BY <1>3, <3>1, <3>2, <3>6
    <3> QED
      BY <3>5, <3>6, <3>7, SeqEqual
  <2>4. BytesIn(Received)' = Cardinality(Cells(more))
    <3>1. Ids' = 1 .. m
      BY <1>5 DEF Ids
    <3>2. UNION {{i} \X (1 .. Len(stream'[i])) : i \in 1 .. m} = Cells(more)
      BY DEF Cells
    <3>3. BytesIn(Received)' = Cardinality(UNION {{i} \X (1 .. Len(stream'[i])) : i \in 1 .. m})
      BY <3>1 DEF BytesIn, Received, Size
    <3> QED
      BY <3>2, <3>3
  <2>5. BytesIn(Received)' = BytesIn(Received) + n
    <3> HIDE DEF more
    <3>1. n \in 0 .. MaxFragment
      BY <1>3
    <3> QED
      BY <1>3, <2>1, <2>3, <2>4, <3>1, CellsAppend
  <2>6. Arriving' = n /\ Arriving = 0 /\ unread' = unread /\ unread \in Nat
    BY <1>4, <1>5, <1>7 DEF Arriving, Size, Holding, TypeOK
  <2> QED
    BY <1>1, <1>3, <2>1, <2>5, <2>6 DEF Holding, Bounded
<1>15. RefsMatchHolders'
  <2>1. ASSUME NEW f \in Ids
        PROVE  refs'[f] = (InList(f) + AtCursor(f) + InItems(f) + InCalls(f))'
    <3>1. InCalls(f) = 0 /\ InCalls(f)' = 0
      BY <1>3, <1>7, ParserAssumption DEF InCalls, Holding, Shaped, Ids
    <3> QED
      BY <1>7, <1>10, <3>1 DEF Holding, RefsMatchHolders, InList, AtCursor, InItems
  <2>2. refs'[m] = (InList(m) + AtCursor(m) + InItems(m) + InCalls(m))'
    <3>1. HeldBy(queue, m) = {}
      BY <1>12 DEF HeldBy
    <3>2. InItems(m)' = 0
      BY <1>7, <3>1, FS_EmptySet DEF InItems, HeldBy
    <3>3. InList(m)' = 0 /\ AtCursor(m)' = 0
      BY <1>7, <1>12 DEF InList, AtCursor
    <3>4. InCalls(m)' = 3
      BY <1>7 DEF InCalls
    <3> QED
      BY <1>10, <3>2, <3>3, <3>4
  <2> QED
    BY <1>6, <2>1, <2>2 DEF RefsMatchHolders
<1>16. Ahead'
  <2>1. CASE frag = None \/ cursor = None
    BY <1>7, <2>1 DEF Ahead, InFragment
  <2>2. CASE frag # None /\ cursor # None
    <3>1. frag \in Ids /\ cursor \in Places /\ cursor.frag \in Ids /\ list \in Seq(Ids) /\ Distinct(list)
      BY <2>2 DEF Holding, TypeOK, Shaped, Places
    <3>2. PICK c, fs : c = cursor /\ fs = Later(c.frag)
      OBVIOUS
    <3>3. fs \in Seq(Ids)
      BY <3>1, <3>2, LaterTypes
    <3>4. BytesIn(fs)' = BytesIn(fs)
      BY <1>3, <1>5, <3>3, BytesStay
    <3>5. Later(c.frag)' = fs /\ Remaining(c)' = Remaining(c)
      BY <1>5, <1>7, <3>1, <3>2 DEF Later, Remaining, Size
    <3>6. AheadOf(c)' = AheadOf(c)
      <4>1. BytesIn(Later(c.frag))' = BytesIn(fs)'
        BY <3>5 DEF BytesIn
      <4> QED
        BY <1>7, <3>2, <3>4, <3>5, <4>1 DEF AheadOf
    <3>7. (InFragment /\ unread > 0)' => InFragment /\ unread > 0
      BY <1>7 DEF InFragment
    <3>8. AheadOf(cursor)' = AheadOf(c)'
      BY <1>7, <3>2 DEF AheadOf, Remaining, BytesIn, Later, Size
    <3> QED
      BY <3>2, <3>6, <3>7, <3>8 DEF Holding, Ahead
  <2> QED
    BY <2>1, <2>2
<1> QED
  BY <1>11, <1>13, <1>14, <1>15, <1>16 DEF Holding

\* What the invariant says of a fragment's count.
LEMMA CountOf ==
    ASSUME Holding, NEW f \in Ids
    PROVE  /\ refs[f] = InList(f) + AtCursor(f) + InItems(f) + InCalls(f)
           /\ InItems(f) = Cardinality(HeldBy(queue, f))
           /\ InList(f) \in Nat /\ AtCursor(f) \in Nat /\ InItems(f) \in Nat /\ InCalls(f) \in Nat
<1>1. queue \in Seq(WorkItems)
  BY DEF Holding, TypeOK
<1>2. InItems(f) = Cardinality(HeldBy(queue, f))
  BY DEF InItems, HeldBy
<1> QED
  BY <1>1, <1>2, HeldByFinite DEF Holding, RefsMatchHolders, InList, AtCursor, InCalls

\* The fragment joins the work item, and may become the cursor's.
LEMMA TakeFragmentHolds == ASSUME Holding, TakeFragment PROVE Holding'
<1>1. /\ pc = "parse" /\ pc' = NextStep
      /\ list' = Append(list, input)
      /\ frag' = IF frag = None THEN input ELSE frag
      /\ refs' = IF frag = None THEN Retain(refs, input) ELSE refs
      /\ cursor' = IF unread = 0 THEN [frag |-> input, at |-> 0] ELSE cursor
      /\ unread' = unread + Size(input)
      /\ stream' = stream
      /\ UNCHANGED <<link, input, verdict, corrupt, queue, delivered, body, size>>
  BY DEF TakeFragment, Continue
<1>2. /\ input \in Ids /\ input \notin ToSet(list) /\ input # None
      /\ list \in Seq(Ids) /\ stream \in Seq(Fragments) /\ queue \in Seq(WorkItems)
      /\ unread \in Nat /\ MaxFragment \in Nat /\ MaxBytes \in Nat
  BY <1>1, ParserAssumption DEF Holding, TypeOK, Shaped
<1>3. Size(input) \in 1 .. MaxFragment
  BY <1>2, SizeFacts
<1>4. Ids' = Ids /\ Places' = Places /\ WorkItems' = WorkItems /\ BytesIn(Received)' = BytesIn(Received)
  BY <1>1, SameStream
<1>5. /\ list' \in Seq(Ids) /\ list' # <<>>
      /\ \A f : f \in ToSet(list') <=> f \in ToSet(list) \/ f = input
      /\ Distinct(list')
  <2>1. /\ DOMAIN Append(list, input) = DOMAIN list \cup {Len(list) + 1}
        /\ Append(list, input)[Len(list) + 1] = input
        /\ \A i \in DOMAIN list : Append(list, input)[i] = list[i] /\ i # Len(list) + 1
        /\ Append(list, input) \in Seq(Ids) /\ Append(list, input) # <<>>
    BY <1>2
  <2>2. \A f : f \in ToSet(list') <=> f \in ToSet(list) \/ f = input
    BY <1>1, <2>1 DEF ToSet
  <2>3. \A i \in DOMAIN list : list[i] # input
    BY <1>2 DEF ToSet
  <2>4. Distinct(list)
    BY DEF Holding, Shaped
  <2>5. Distinct(list')
    BY <1>1, <2>1, <2>3, <2>4 DEF Distinct
  <2> QED
    BY <1>1, <2>1, <2>2, <2>5
<1>6. pc' \in {"prefix", "body"}
  BY <1>1 DEF NextStep
<1>7. Bounded'
  <2>1. unread + Size(input) <= BytesIn(Received) /\ BytesIn(Received) <= MaxBytes
    BY <1>1 DEF Holding, Bounded, Arriving
  <2>2. Arriving' = 0
    BY <1>6 DEF Arriving
  <2>3. unread' + 0 = unread + Size(input)
    BY <1>1, <1>2, <1>3
  <2> QED
    BY <1>4, <2>1, <2>2, <2>3 DEF Bounded
<1>8. frag' \in Ids /\ frag' \in ToSet(list') /\ frag' # None
  BY <1>1, <1>2, <1>5, ParserAssumption DEF Holding, TypeOK, Shaped, Ids
<1>9. Shaped'
  BY <1>1, <1>2, <1>5, <1>6, <1>8 DEF Holding, Shaped
<1>10. refs' \in [Ids -> Int] /\ RefsMatchHolders'
  <2>1. refs \in [Ids -> Int]
    BY DEF Holding, TypeOK
  <2>2. refs' \in [Ids -> Int]
    BY <1>1, <1>2, <2>1 DEF Retain
  <2>3. ASSUME NEW f \in Ids
        PROVE  refs'[f] = InList(f)' + AtCursor(f)' + InItems(f)' + InCalls(f)'
    <3>1. InItems(f)' = InItems(f)
      BY <1>1 DEF InItems
    <3>2. InCalls(f)' = InCalls(f) - IF f = input THEN 1 ELSE 0
      BY <1>1, <1>6 DEF InCalls
    <3>3. InList(f)' = InList(f) + IF f = input THEN 1 ELSE 0
      BY <1>2, <1>5 DEF InList
    <3>4. AtCursor(f)' = AtCursor(f) + IF frag = None /\ f = input THEN 1 ELSE 0
      <4>1. f # None
        BY ParserAssumption DEF Ids
      <4> QED
        BY <1>1, <1>2, <4>1 DEF AtCursor
    <3>5. refs'[f] = refs[f] + IF frag = None /\ f = input THEN 1 ELSE 0
      BY <1>1, <2>1 DEF Retain
    <3> QED
      BY <3>1, <3>2, <3>3, <3>4, <3>5, CountOf
  <2> QED
    BY <1>4, <2>2, <2>3 DEF RefsMatchHolders
<1>11. refs' \in [Ids' -> Nat]
  BY <1>1, <1>2, <1>4, <1>10, CountsAreNatural
<1>12. cursor' \in Places \cup {None}
  BY <1>1, <1>2 DEF Holding, TypeOK, Places
<1>13. unread' \in 0 .. MaxBytes
  <2>1. unread + Size(input) <= BytesIn(Received) /\ BytesIn(Received) <= MaxBytes
    BY <1>1 DEF Holding, Bounded, Arriving
  <2>2. BytesIn(Received) \in Nat
    <3>1. Received \in Seq(Ids)
      BY <1>2 DEF Received, Ids
    <3> QED
      BY <1>2, <3>1, BytesAreCells
  <2> QED
    BY <1>1, <1>2, <1>3, <2>1, <2>2
<1>14. TypeOK'
  <2>1. /\ link' \in {"up", "halfClosed", "down", "gone"} /\ pc' \in Steps
        /\ body' \in 0 .. MaxBody /\ size' \in 0 .. ByteBase * ByteBase
        /\ input' \in Ids' \cup {None} /\ verdict' \in Verdicts /\ corrupt' \in BOOLEAN
        /\ delivered' \in Seq(Seq(Byte)) /\ stream' \in Seq(Fragments) /\ queue' \in Seq(WorkItems')
    BY <1>1, <1>4, <1>6 DEF Holding, TypeOK, Steps
  <2> QED
    BY <1>4, <1>5, <1>8, <1>11, <1>12, <1>13, <2>1 DEF TypeOK
<1>15. Ahead'
  <2>1. Distinct(Append(list, input)) /\ Distinct(list)
    BY <1>1, <1>5 DEF Holding, Shaped
  <2>2. CASE unread = 0
    <3>1. PICK c : cursor' = c /\ c = [frag |-> input, at |-> 0]
      BY <1>1, <2>2
    <3>2. Remaining(c) = Size(input) /\ unread' = Size(input) /\ c.frag = input
      BY <1>1, <1>3, <2>2, <3>1 DEF Remaining
    <3>3. Behind(list', c.frag) = <<>>
      BY <1>1, <1>2, <2>1, <3>2, BehindAppend
    <3>4. unread' = Remaining(c) + BytesIn(Behind(list', c.frag)) /\ Remaining(c) >= 0
      BY <1>3, <3>2, <3>3, NoBytes
    <3> QED
      BY <1>1, <3>1, <3>4, AheadAfter
  <2>3. CASE unread # 0
    <3>1. cursor' = cursor /\ unread > 0 /\ frag # None /\ frag' = frag
      BY <1>1, <1>2, <2>3 DEF Holding, Shaped
    <3>2. SUFFICES ASSUME InFragment'
                   PROVE  /\ Remaining(cursor) >= 0
                          /\ unread' = Remaining(cursor) + BytesIn(Behind(list', cursor.frag))
      BY <1>1, <3>1, AheadAfter
    <3>3. InFragment /\ cursor.frag = frag /\ cursor.at \in Nat /\ AheadOf(cursor)
      BY <1>2, <3>1, <3>2 DEF InFragment, Holding, TypeOK, Places, Ahead
    <3>4. PICK p \in DOMAIN list : list[p] = frag
      BY <3>1 DEF Holding, Shaped, ToSet
    <3>5. Behind(list', frag) = Append(Later(frag), input)
      BY <1>1, <1>2, <2>1, <3>4, BehindAppend, LaterIsBehind
    <3>6. Later(frag) \in Seq(Ids)
      BY <1>2, <2>1, LaterTypes
    <3> DEFINE later == Later(frag)
    <3> HIDE DEF later
    <3>7. BytesIn(Append(later, input)) = BytesIn(later) + Size(input) /\ BytesIn(later) \in Nat
      BY <1>2, <3>6, BytesAppend DEF later
    <3>8. Remaining(cursor) >= 0 /\ unread = Remaining(cursor) + BytesIn(later) /\ Remaining(cursor) \in Int
      <4>1. Size(frag) \in Nat
        BY <1>2, <3>1, SizeFacts DEF Holding, TypeOK
      <4> QED
        BY <3>3, <4>1 DEF AheadOf, later, Remaining
    <3>9. Behind(list', cursor.frag) = Append(later, input)
      BY <3>3, <3>5 DEF later
    <3> QED
      BY <1>1, <1>3, <3>7, <3>8, <3>9
  <2> QED
    BY <2>2, <2>3
<1> QED
  BY <1>7, <1>9, <1>10, <1>14, <1>15 DEF Holding

\* What a step leaves alone that changes no fragment, list or count.
LEMMA SameHolders ==
    ASSUME Holding, stream' = stream,
           UNCHANGED <<refs, frag, cursor, unread, list, body, input, queue>>,
           link' = link, verdict' \in Verdicts, corrupt' \in BOOLEAN,
           delivered' = delivered, size' \in {size, 0},
           pc \notin {"idle", "parse"}, pc' \in {"prefix", "body", "drain", "end"},
           pc' = "body" => frag # None,
           pc' = "drain" => body = 0
    PROVE  Holding'
<1>1. Ids' = Ids /\ Places' = Places /\ WorkItems' = WorkItems /\ BytesIn(Received)' = BytesIn(Received)
  BY SameStream
<1>2. TypeOK'
  <2>1. 0 \in 0 .. ByteBase * ByteBase
    BY ParserAssumption
  <2> QED
    BY <1>1, <2>1 DEF Holding, TypeOK, Steps
<1>3. Shaped'
  BY DEF Holding, Shaped
<1>4. Bounded'
  BY <1>1 DEF Holding, Bounded, Arriving
<1>5. RefsMatchHolders'
  BY <1>1 DEF Holding, RefsMatchHolders, InList, AtCursor, InItems, InCalls
<1>6. Ahead'
  BY SameAhead DEF Holding
<1> QED
  BY <1>2, <1>3, <1>4, <1>5, <1>6 DEF Holding

\* Parse(nullptr) begins with what the call before it left.
LEMMA DrainHolds == ASSUME Holding, Drain PROVE Holding'
<1>1. /\ pc = "drain" /\ stream' = stream
      /\ UNCHANGED <<link, refs, frag, cursor, unread, list, body, input, queue, delivered>>
      /\ pc' \in {"end", NextStep} /\ size' \in {size, 0}
      /\ verdict' \in {verdict, "more"} /\ corrupt' = corrupt
  <2>1. corrupt \in BOOLEAN
    BY DEF Holding, TypeOK
  <2> QED
    BY <2>1 DEF Drain, Return, Continue, parserVars
<1>2. body = 0
  BY <1>1 DEF Holding, Shaped
<1>3. pc' \in {"end", "prefix"}
  BY <1>1, <1>2 DEF NextStep
<1>4. verdict' \in Verdicts /\ corrupt' \in BOOLEAN
  BY <1>1 DEF Holding, TypeOK, Verdicts
<1> QED
  BY <1>1, <1>3, <1>4, SameHolders

\* The worker and OnReceive let go of the fragment.
LEMMA EndReceiveHolds == ASSUME Holding, EndReceive PROVE Holding'
<1>1. /\ pc = "end" /\ pc' = "idle" /\ input' = None /\ stream' = stream
      /\ refs' = Release(Release(refs, input), input)
      /\ link' \in {link, "down"}
      /\ UNCHANGED <<frag, cursor, unread, list, body, size, verdict, corrupt, queue, delivered>>
  BY DEF EndReceive, parserVars
<1>2. Ids' = Ids /\ Places' = Places /\ WorkItems' = WorkItems /\ BytesIn(Received)' = BytesIn(Received)
  BY <1>1, SameStream
<1>3. input \in Ids /\ queue \in Seq(WorkItems) /\ refs \in [Ids -> Int]
  BY <1>1 DEF Holding, TypeOK, Shaped
<1>4. Shaped'
  BY <1>1 DEF Holding, Shaped
<1>5. Bounded'
  BY <1>1, <1>2 DEF Holding, Bounded, Arriving
<1>6. refs' \in [Ids -> Int]
  BY <1>1, <1>3 DEF Release
<1>7. RefsMatchHolders'
  <2>1. ASSUME NEW f \in Ids
        PROVE  refs'[f] = InList(f)' + AtCursor(f)' + InItems(f)' + InCalls(f)'
    <3>1. InItems(f)' = InItems(f) /\ InList(f)' = InList(f) /\ AtCursor(f)' = AtCursor(f)
      BY <1>1 DEF InItems, InList, AtCursor
    <3>2. InCalls(f)' = 0 /\ InCalls(f) = IF f = input THEN 2 ELSE 0
      BY <1>1, ParserAssumption DEF InCalls, Ids
    <3>3. refs'[f] = refs[f] - IF f = input THEN 2 ELSE 0
      BY <1>1, <1>3 DEF Release
    <3> QED
      BY <3>1, <3>2, <3>3, CountOf
  <2> QED
    BY <1>2, <2>1 DEF RefsMatchHolders
<1>8. refs' \in [Ids' -> Nat]
  BY <1>1, <1>2, <1>3, <1>6, <1>7, CountsAreNatural
<1>9. TypeOK'
  BY <1>1, <1>2, <1>8 DEF Holding, TypeOK, Steps
<1>10. Ahead'
  BY <1>1, SameAhead DEF Holding
<1> QED
  BY <1>4, <1>5, <1>7, <1>9, <1>10 DEF Holding

\* Closing holds and lets go of nothing.
LEMMA ClosingHolds == ASSUME Holding, HalfClose \/ PeerCloses PROVE Holding'
<1>1. /\ stream' = stream /\ link \in {"up", "halfClosed"} /\ link' \in {"halfClosed", "down"}
      /\ UNCHANGED <<refs, frag, cursor, unread, list, body, pc, size, input, verdict, corrupt, queue, delivered>>
  BY DEF HalfClose, PeerCloses, parserVars
<1>2. Ids' = Ids /\ Places' = Places /\ WorkItems' = WorkItems /\ BytesIn(Received)' = BytesIn(Received)
  BY <1>1, SameStream
<1>3. TypeOK'
  BY <1>1, <1>2 DEF Holding, TypeOK
<1>4. Shaped'
  BY <1>1 DEF Holding, Shaped, InFragment, Remaining, Size
<1>5. Bounded'
  BY <1>1, <1>2 DEF Holding, Bounded, Arriving, Size
<1>6. RefsMatchHolders'
  BY <1>1, <1>2 DEF Holding, RefsMatchHolders, InList, AtCursor, InItems, InCalls
<1>7. Ahead'
  BY <1>1, SameAhead DEF Holding
<1> QED
  BY <1>3, <1>4, <1>5, <1>6, <1>7 DEF Holding

\* The parser lets go of its cursor's fragment and of its list.
LEMMA DeleteParserHolds == ASSUME Holding, DeleteParser PROVE Holding'
<1>1. /\ pc = "idle" /\ queue = <<>> /\ stream' = stream /\ link' = "gone"
      /\ refs' = ReleaseAll(IF frag = None THEN refs ELSE Release(refs, frag), list)
      /\ list' = <<>> /\ frag' = None
      /\ UNCHANGED <<cursor, unread, body, pc, size, input, verdict, corrupt, queue, delivered>>
  BY DEF DeleteParser
<1>2. Ids' = Ids /\ Places' = Places /\ WorkItems' = WorkItems /\ BytesIn(Received)' = BytesIn(Received)
  BY <1>1, SameStream
<1>3. /\ queue \in Seq(WorkItems) /\ refs \in [Ids -> Int] /\ list \in Seq(Ids) /\ frag \in Ids \cup {None}
      /\ Distinct(list)
  BY DEF Holding, TypeOK, Shaped
<1>4. Shaped'
  BY <1>1 DEF Holding, Shaped, Distinct
<1>5. Bounded'
  BY <1>1, <1>2 DEF Holding, Bounded, Arriving
<1> DEFINE r == IF frag = None THEN refs ELSE Release(refs, frag)
<1>6. /\ r \in [Ids -> Int]
      /\ \A f \in Ids : r[f] = refs[f] - AtCursor(f)
  <2>1. \A f \in Ids : f # None
    BY ParserAssumption DEF Ids
  <2>2. CASE frag = None
    BY <1>3, <2>1, <2>2 DEF AtCursor
  <2>3. CASE frag \in Ids
    <3>1. r = [refs EXCEPT ![frag] = @ - 1]
      BY <2>1, <2>3 DEF Release
    <3> HIDE DEF r
    <3>2. \A f \in Ids : r[f] = refs[f] - IF frag = f THEN 1 ELSE 0
      BY <1>3, <2>3, <3>1
    <3>3. r \in [Ids -> Int]
      BY <1>3, <2>3, <3>1
    <3> QED
      BY <3>2, <3>3 DEF AtCursor
  <2> QED
    BY <1>3, <2>2, <2>3
<1>7. /\ refs' \in [Ids -> Int]
      /\ \A f \in Ids : refs'[f] = r[f] - IF f \in ToSet(list) THEN 1 ELSE 0
  <2> HIDE DEF r
  <2>1. refs' = ReleaseAll(r, list)
    BY <1>1 DEF r
  <2> QED
    BY <1>3, <1>6, <2>1, ReleaseAllValue
<1>8. RefsMatchHolders'
  <2>1. ASSUME NEW f \in Ids
        PROVE  refs'[f] = InList(f)' + AtCursor(f)' + InItems(f)' + InCalls(f)'
    <3>1. InItems(f)' = InItems(f) /\ InCalls(f)' = InCalls(f)
      BY <1>1 DEF InItems, InCalls
    <3>2. InList(f)' = 0 /\ AtCursor(f)' = 0
      BY <1>1, ParserAssumption DEF InList, AtCursor, ToSet, Ids
    <3>3. refs'[f] = refs[f] - AtCursor(f) - InList(f)
      BY <1>6, <1>7 DEF InList
    <3> QED
      BY <3>1, <3>2, <3>3, CountOf
  <2> QED
    BY <1>2, <2>1 DEF RefsMatchHolders
<1>9. refs' \in [Ids' -> Nat]
  BY <1>1, <1>2, <1>3, <1>7, <1>8, CountsAreNatural
<1>10. TypeOK'
  BY <1>1, <1>2, <1>9 DEF Holding, TypeOK
<1>11. Ahead'
  BY <1>1 DEF Ahead, InFragment
<1> QED
  BY <1>4, <1>5, <1>8, <1>10, <1>11 DEF Holding

\* What the client thread copies are bytes: each is in one of the item's fragments.
LEMMA CopiedTypes ==
    ASSUME stream \in Seq(Fragments), NEW item \in WorkItems, Copies(item), item.body # 0
    PROVE  Copied(item) \in Seq(Byte)
<1>1. /\ item.list \in Seq(Ids) /\ item.start \in Places /\ item.body \in Nat
      /\ item.start.at \in Nat /\ item.start.at + item.body <= BytesIn(item.list)
  BY ParserAssumption DEF WorkItems, Copies, Places
<1>2. ASSUME NEW n \in 1 .. item.body
      PROVE  ByteOf(item.list, item.start.at + n) \in Byte
  <2>1. PICK m \in Nat : m = item.start.at + n /\ 0 < m /\ m <= BytesIn(item.list)
    <3>1. item.start.at + n \in Nat /\ 0 < item.start.at + n /\ item.start.at + n <= BytesIn(item.list)
      BY <1>1, BytesAreCells
    <3> QED
      BY <3>1
  <2> DEFINE fs == item.list
             holds(k) == BytesIn(SubSeq(fs, 1, k - 1)) < m /\ m <= BytesIn(SubSeq(fs, 1, k))
  <2>2. fs \in Seq(Ids) /\ m <= BytesIn(fs)
    BY <1>1, <2>1
  <2> HIDE DEF fs
  <2>3. \A k \in 0 .. Len(fs) : BytesIn(SubSeq(fs, 1, k)) \in Nat
    BY <2>2, BytesUpTo
  <2>4. \E k \in DOMAIN fs : holds(k)
    <3>1. PICK k \in DOMAIN fs : /\ BytesIn(SubSeq(fs, 1, k)) >= m
                                 /\ BytesIn(SubSeq(fs, 1, k - 1)) < m
      BY <2>1, <2>2, HolderExists
    <3>2. k \in 0 .. Len(fs)
      BY <2>2
    <3> QED
      BY <2>1, <2>3, <3>1, <3>2
  <2>5. PICK k : k = Holder(fs, m) /\ k \in DOMAIN fs /\ holds(k)
    <3>1. Holder(fs, m) = CHOOSE k \in DOMAIN fs : holds(k)
      BY DEF Holder
    <3> HIDE DEF holds
    <3> QED
      BY <2>4, <3>1
  <2>6. k \in 1 .. Len(fs) /\ k - 1 \in 0 .. Len(fs) /\ fs[k] \in Ids
    BY <2>2, <2>5
  <2>7. /\ BytesIn(SubSeq(fs, 1, k)) = BytesIn(SubSeq(fs, 1, k - 1)) + Size(fs[k])
        /\ BytesIn(SubSeq(fs, 1, k - 1)) \in Nat
    BY <2>2, <2>6, BytesUpTo
  <2>8. stream[fs[k]] \in Seq(Byte) /\ Size(fs[k]) = Len(stream[fs[k]])
    BY <2>6, SizeFacts DEF Size
  <2>9. m - BytesIn(SubSeq(fs, 1, k - 1)) \in 1 .. Len(stream[fs[k]])
    BY <2>1, <2>5, <2>7, <2>8
  <2>10. ByteOf(fs, m) = stream[fs[k]][m - BytesIn(SubSeq(fs, 1, k - 1))]
    BY <2>5 DEF ByteOf
  <2>11. ByteOf(fs, m) \in Byte
    BY <2>8, <2>9, <2>10
  <2> QED
    BY <2>1, <2>11 DEF fs
<1> QED
  BY <1>1, <1>2 DEF Copied

\* The client thread releases the work item it has copied.
LEMMA ConsumeHolds == ASSUME Holding, Consume PROVE Holding'
<1> DEFINE item == Head(queue)
<1>1. /\ queue # <<>> /\ stream' = stream
      /\ delivered' = IF Copies(item)
                      THEN Append(delivered, IF item.body = 0 THEN <<>> ELSE Copied(item))
                      ELSE delivered
      /\ refs' = ReleaseAll(refs, item.list)
      /\ queue' = Tail(queue)
      /\ UNCHANGED <<link, frag, cursor, unread, list, body, pc, size, input, verdict, corrupt>>
  BY DEF Consume, parserVars
<1>2. Ids' = Ids /\ Places' = Places /\ WorkItems' = WorkItems /\ BytesIn(Received)' = BytesIn(Received)
  BY <1>1, SameStream
<1>3. /\ queue \in Seq(WorkItems) /\ refs \in [Ids -> Int] /\ stream \in Seq(Fragments)
      /\ delivered \in Seq(Seq(Byte))
      /\ \A i \in DOMAIN queue : Distinct(queue[i].list)
  BY DEF Holding, TypeOK, Shaped
<1>4. /\ queue' \in Seq(WorkItems) /\ item \in WorkItems /\ item = queue[1] /\ 1 \in DOMAIN queue
      /\ \A i \in DOMAIN queue' : i + 1 \in DOMAIN queue /\ queue'[i] = queue[i + 1]
  BY <1>1, <1>3
<1>5. item.list \in Seq(Ids) /\ Distinct(item.list)
  BY <1>3, <1>4 DEF WorkItems
<1>6. delivered' \in Seq(Seq(Byte))
  <2>1. CASE Copies(item)
    <3>1. (IF item.body = 0 THEN <<>> ELSE Copied(item)) \in Seq(Byte)
      <4>1. <<>> \in Seq(Byte)
        OBVIOUS
      <4> HIDE DEF item
      <4> QED
        BY <1>3, <1>4, <2>1, <4>1, CopiedTypes
    <3> DEFINE packet == IF item.body = 0 THEN <<>> ELSE Copied(item)
    <3>2. delivered' = Append(delivered, packet) /\ packet \in Seq(Byte)
      BY <1>1, <2>1, <3>1
    <3> HIDE DEF packet
    <3> QED
      BY <1>3, <3>2
  <2>2. CASE ~Copies(item)
    BY <1>1, <1>3, <2>2
  <2> QED
    BY <2>1, <2>2
<1>7. Shaped'
  <2>1. \A i \in DOMAIN queue' : Distinct(queue'[i].list)
    BY <1>3, <1>4
  <2> QED
    BY <1>1, <2>1 DEF Holding, Shaped, InFragment, Remaining, Size
<1>8. Bounded'
  BY <1>1, <1>2 DEF Holding, Bounded, Arriving, Size
<1>9. /\ refs' \in [Ids -> Int]
      /\ \A f \in Ids : refs'[f] = refs[f] - IF f \in ToSet(item.list) THEN 1 ELSE 0
  <2> HIDE DEF item
  <2> QED
    BY <1>1, <1>3, <1>5, ReleaseAllValue
<1>10. RefsMatchHolders'
  <2>1. ASSUME NEW f \in Ids
        PROVE  refs'[f] = InList(f)' + AtCursor(f)' + InItems(f)' + InCalls(f)'
    <3>1. InList(f)' = InList(f) /\ AtCursor(f)' = AtCursor(f) /\ InCalls(f)' = InCalls(f)
      BY <1>1 DEF InList, AtCursor, InCalls
    <3>2. InItems(f)' = Cardinality(HeldBy(Tail(queue), f))
      BY <1>1 DEF InItems, HeldBy
    <3>3. InItems(f)' = InItems(f) - IF f \in ToSet(item.list) THEN 1 ELSE 0
      BY <1>1, <1>3, <3>2, HeldByTail, CountOf
    <3> HIDE DEF item
    <3> QED
      BY <1>9, <3>1, <3>3, CountOf
  <2> QED
    BY <1>2, <2>1 DEF RefsMatchHolders
<1>11. refs' \in [Ids' -> Nat]
  BY <1>2, <1>4, <1>9, <1>10, CountsAreNatural
<1>12. TypeOK'
  <2> HIDE DEF item
  <2> QED
    BY <1>1, <1>2, <1>4, <1>6, <1>11 DEF Holding, TypeOK
<1>13. Ahead'
  BY <1>1, SameAhead DEF Holding
<1> QED
  BY <1>7, <1>8, <1>10, <1>12, <1>13 DEF Holding

\* A step that moves the cursor to c in the work item, with so many bytes ahead,
\* and the parser's reference with it.
MovesTo(c, ahead) ==
    /\ c \in Places
    /\ c.frag \in ToSet(list) \cap Ids
    /\ Remaining(c) >= 0
    /\ ahead \in 0 .. unread
    /\ ahead = Remaining(c) + BytesIn(Later(c.frag))
    /\ unread' = ahead
    /\ frag' = c.frag
    /\ refs' = MoveRef(refs, c.frag)
    /\ cursor' = c \/ (cursor' = None /\ pc' = "end")
    /\ UNCHANGED <<link, stream, list, body, input, queue, delivered>>

\* A cursor that moves to a place of the work item takes its reference along.
LEMMA CursorMoves ==
    ASSUME Holding, frag \in Ids, pc \notin {"idle", "parse"}, NEW c, NEW ahead, MovesTo(c, ahead),
           pc' \in {"second", "endPrefix", "end"},
           pc' = "second" => ahead >= 1 /\ size' \in OneByteLimit .. ByteBase - 1,
           pc' = "endPrefix" => ahead >= 1 /\ Remaining(c) > 0,
           size' \in 0 .. ByteBase * ByteBase, verdict' \in Verdicts, corrupt' \in BOOLEAN
    PROVE  Holding'
<1>1. Ids' = Ids /\ Places' = Places /\ WorkItems' = WorkItems /\ BytesIn(Received)' = BytesIn(Received)
  BY SameStream DEF MovesTo
<1>2. /\ queue \in Seq(WorkItems) /\ refs \in [Ids -> Int] /\ unread \in 0 .. MaxBytes /\ MaxBytes \in Nat
      /\ c.frag # None /\ link # "gone"
  BY ParserAssumption DEF Holding, TypeOK, Shaped, MovesTo, Ids
<1>3. /\ refs' \in [Ids -> Int]
      /\ \A f \in Ids : refs'[f] = refs[f] - (IF frag = f THEN 1 ELSE 0) + (IF c.frag = f THEN 1 ELSE 0)
  BY <1>2, MoveRefValue DEF MovesTo
<1>4. RefsMatchHolders'
  <2>1. ASSUME NEW f \in Ids
        PROVE  refs'[f] = InList(f)' + AtCursor(f)' + InItems(f)' + InCalls(f)'
    <3>1. InList(f)' = InList(f) /\ InItems(f)' = InItems(f) /\ InCalls(f)' = InCalls(f)
      BY DEF InList, InItems, InCalls, MovesTo
    <3>2. AtCursor(f)' = IF c.frag = f THEN 1 ELSE 0
      BY DEF AtCursor, MovesTo
    <3>3. AtCursor(f) = IF frag = f THEN 1 ELSE 0
      BY DEF AtCursor
    <3> QED
      BY <1>3, <3>1, <3>2, <3>3, CountOf
  <2> QED
    BY <1>1, <2>1 DEF RefsMatchHolders
<1>5. refs' \in [Ids' -> Nat]
  BY <1>1, <1>2, <1>3, <1>4, CountsAreNatural DEF MovesTo
<1>6. unread' \in 0 .. MaxBytes /\ frag' \in Ids /\ cursor' \in Places \cup {None}
  BY <1>2 DEF MovesTo
<1>7. TypeOK'
  <2>1. /\ link' \in {"up", "halfClosed", "down", "gone"} /\ pc' \in Steps
        /\ body' \in 0 .. MaxBody /\ input' \in Ids' \cup {None} /\ list' \in Seq(Ids')
        /\ delivered' \in Seq(Seq(Byte)) /\ stream' \in Seq(Fragments) /\ queue' \in Seq(WorkItems')
    BY <1>1 DEF Holding, TypeOK, Steps, MovesTo
  <2> QED
    BY <1>1, <1>5, <1>6, <2>1 DEF TypeOK
<1>8. Shaped'
  <2>1. pc' = "endPrefix" => unread' >= 1 /\ InFragment' /\ Remaining(cursor)' > 0
    <3>1. Remaining(c)' = Remaining(c)
      BY DEF Remaining, Size, MovesTo
    <3>2. c # None
      <4>1. Places \subseteq [frag : Nat, at : Nat]
        BY ParserAssumption DEF Places, Ids
      <4> QED
        BY <4>1, ParserAssumption DEF MovesTo
    <3> QED
      BY <1>2, <3>1, <3>2 DEF MovesTo, InFragment, Remaining, Size
  <2> QED
    <3>1. frag # None /\ pc \notin {"idle", "parse"} /\ pc' \notin {"idle", "parse", "drain", "body"}
      BY ParserAssumption DEF Ids
    <3> QED
      BY <1>2, <2>1, <3>1 DEF Holding, Shaped, MovesTo
<1>9. Ahead'
  <2>1. CASE cursor' = None
    BY <2>1 DEF Ahead, InFragment
  <2>2. CASE cursor' = c
    <3>1. Behind(list', c.frag) = Later(c.frag)
      BY LaterIsBehind DEF MovesTo
    <3> QED
      BY <2>2, <3>1, AheadAfter DEF MovesTo
  <2> QED
    BY <2>1, <2>2 DEF MovesTo
<1>10. Bounded'
  <2>1. Arriving = 0 /\ Arriving' = 0
    BY DEF Arriving
  <2>2. BytesIn(Received) \in Nat
    <3>1. Received \in Seq(Ids) /\ stream \in Seq(Fragments)
      BY DEF Received, Ids, Holding, TypeOK
    <3> QED
      BY <3>1, BytesAreCells
  <2> QED
    BY <1>1, <1>2, <2>1, <2>2 DEF Holding, Bounded, MovesTo
<1> QED
  BY <1>4, <1>7, <1>8, <1>9, <1>10 DEF Holding

\* The first byte of a prefix moves the cursor at most.
LEMMA PrefixHolds == ASSUME Holding, Prefix PROVE Holding'
<1>1. pc = "prefix"
  BY DEF Prefix
<1>2. CASE ~PrefixStarts \/ ~CanNormalize
  <2>1. Return("more") /\ UNCHANGED <<refs, parserVars, queue>>
    BY <1>2 DEF Prefix
  <2>2. corrupt' = corrupt /\ corrupt \in BOOLEAN
    BY <2>1 DEF Return, Holding, TypeOK
  <2> QED
    BY <1>1, <2>1, <2>2, SameHolders DEF Return, parserVars, Verdicts
<1>3. CASE PrefixStarts /\ CanNormalize
  <2>1. /\ TypeOK /\ Distinct(list) /\ Ahead /\ unread \in Nat /\ unread >= 2 /\ unread # 0
        /\ corrupt \in BOOLEAN /\ verdict \in Verdicts
        /\ ByteBase \in Nat /\ OneByteLimit \in 1 .. ByteBase - 1
    BY <1>3, ParserAssumption DEF Holding, Shaped, TypeOK, PrefixStarts
  <2>2. frag \in ToSet(list) /\ frag \in Ids
    BY <1>3, <2>1 DEF CanNormalize, InFragment, Holding, Shaped, TypeOK
  <2>3. PICK c : c = Normalized
    OBVIOUS
  <2>4. /\ c \in Places /\ c.frag \in ToSet(list) /\ c.frag \in Ids /\ Remaining(c) > 0
        /\ AheadOf(c) /\ ByteAt(c) \in Byte
    BY <1>3, <2>1, <2>2, <2>3, NormalizedFacts
  <2>5. /\ size' = ByteAt(c) /\ size' \in 0 .. ByteBase - 1 /\ size' \in 0 .. ByteBase * ByteBase
    <3>1. size' = ByteAt(c) /\ size' \in 0 .. ByteBase - 1
      BY <1>3, <2>3, <2>4 DEF Prefix, Byte
    <3>2. ByteBase - 1 <= ByteBase * ByteBase /\ ByteBase * ByteBase \in Nat
      BY <2>1
    <3> QED
      BY <2>1, <3>1, <3>2
  <2>6. CASE ByteAt(c) < OneByteLimit
    <3>1. /\ cursor' = c /\ unread' = unread /\ frag' = c.frag /\ refs' = MoveRef(refs, c.frag)
          /\ pc' = "endPrefix"
          /\ UNCHANGED <<link, stream, list, body, input, verdict, corrupt, queue, delivered>>
      BY <1>3, <2>3, <2>6 DEF Prefix, Continue
    <3>2. MovesTo(c, unread)
      BY <2>1, <2>4, <3>1 DEF MovesTo, AheadOf
    <3> QED
      BY <1>1, <2>1, <2>2, <2>4, <2>5, <3>1, <3>2, CursorMoves
  <2>7. CASE ~ (ByteAt(c) < OneByteLimit)
    <3>1. PICK d : d = Advanced(c, 1)
      OBVIOUS
    <3>2. /\ cursor' = d /\ unread' = unread - 1 /\ frag' = d.frag /\ refs' = MoveRef(refs, d.frag)
          /\ pc' = "second"
          /\ UNCHANGED <<link, stream, list, body, input, verdict, corrupt, queue, delivered>>
      BY <1>3, <2>3, <2>7, <3>1 DEF Prefix, Continue
    <3>3. LandsOn(d, 1)
      BY <2>1, <2>4, <3>1, AdvancedFacts
    <3>4. MovesTo(d, unread - 1) /\ unread - 1 >= 1
      BY <2>1, <3>2, <3>3 DEF MovesTo, LandsOn
    <3>5. size' \in OneByteLimit .. ByteBase - 1
      BY <2>1, <2>5, <2>7
    <3> QED
      BY <1>1, <2>1, <2>2, <2>5, <3>2, <3>4, <3>5, CursorMoves
  <2> QED
    BY <2>6, <2>7
<1> QED
  BY <1>2, <1>3

\* The second byte of a prefix moves the cursor at most.
LEMMA SecondHolds == ASSUME Holding, Second PROVE Holding'
<1>1. pc = "second" /\ unread >= 1 /\ size \in OneByteLimit .. ByteBase - 1
  BY DEF Second, Holding, Shaped
<1>2. CASE ~CanNormalize
  <2>1. Return("more") /\ UNCHANGED <<refs, parserVars, queue>>
    BY <1>2 DEF Second
  <2>2. corrupt' = corrupt /\ corrupt \in BOOLEAN
    BY <2>1 DEF Return, Holding, TypeOK
  <2> QED
    BY <1>1, <2>1, <2>2, SameHolders DEF Return, parserVars, Verdicts
<1>3. CASE CanNormalize
  <2>1. /\ TypeOK /\ Distinct(list) /\ Ahead /\ unread \in Nat /\ unread >= 1 /\ unread # 0
        /\ corrupt \in BOOLEAN /\ verdict \in Verdicts
        /\ ByteBase \in Nat /\ OneByteLimit \in 1 .. ByteBase - 1
    BY <1>1, ParserAssumption DEF Holding, Shaped, TypeOK
  <2>2. frag \in ToSet(list) /\ frag \in Ids
    BY <1>3, <2>1 DEF CanNormalize, InFragment, Holding, Shaped, TypeOK
  <2>3. PICK c : c = Normalized
    OBVIOUS
  <2>4. /\ c \in Places /\ c.frag \in ToSet(list) /\ c.frag \in Ids /\ Remaining(c) > 0
        /\ AheadOf(c) /\ ByteAt(c) \in Byte
    BY <1>3, <2>1, <2>2, <2>3, NormalizedFacts
  <2>5. PICK n : n = (size - OneByteLimit) * ByteBase + ByteAt(c)
    OBVIOUS
  <2>6. /\ cursor' = c /\ unread' = unread /\ frag' = c.frag /\ refs' = MoveRef(refs, c.frag)
        /\ pc' \in {"end", "endPrefix"} /\ size' \in {0, n}
        /\ verdict' \in {verdict, "corrupt"} /\ corrupt' \in {corrupt, TRUE}
        /\ UNCHANGED <<link, stream, list, body, input, queue, delivered>>
    BY <1>3, <2>1, <2>3, <2>5 DEF Second, Return, Continue
  <2>7. size' \in 0 .. ByteBase * ByteBase
    <3>1. PICK high \in Nat, low \in Nat :
             /\ high = size - OneByteLimit /\ low = ByteAt(c)
             /\ high <= ByteBase - 1 /\ low <= ByteBase - 1
      <4>1. size - OneByteLimit \in Nat /\ size - OneByteLimit <= ByteBase - 1
        BY <1>1, <2>1
      <4>2. ByteAt(c) \in Nat /\ ByteAt(c) <= ByteBase - 1
        BY <2>1, <2>4 DEF Byte
      <4> QED
        BY <4>1, <4>2
    <3>2. high * ByteBase <= (ByteBase - 1) * ByteBase
      BY <2>1, <3>1
    <3>3. (ByteBase - 1) * ByteBase = ByteBase * ByteBase - ByteBase /\ ByteBase * ByteBase \in Nat
      BY <2>1
    <3>4. n = high * ByteBase + low /\ high * ByteBase \in Nat
      BY <2>1, <2>5, <3>1
    <3>5. n \in 0 .. ByteBase * ByteBase
      BY <2>1, <3>1, <3>2, <3>3, <3>4
    <3> QED
      BY <2>6, <3>3, <3>5
  <2>8. MovesTo(c, unread)
    BY <2>1, <2>4, <2>6 DEF MovesTo, AheadOf
  <2> QED
    BY <1>1, <2>1, <2>2, <2>4, <2>6, <2>7, <2>8, CursorMoves DEF Verdicts
<1> QED
  BY <1>2, <1>3

\* RebaseFirstFragmentTo: the work item splits into what is dropped and what is
\* kept, at a fragment of it.
LEMMA KeptFacts ==
    ASSUME list \in Seq(Ids), Distinct(list), NEW g \in ToSet(list)
    PROVE  LET kept == Kept(g)
               dropped == SubSeq(list, 1, Len(list) - Len(kept))
           IN  /\ kept \in Seq(Ids) /\ dropped \in Seq(Ids)
               /\ Distinct(kept) /\ Distinct(dropped)
               /\ kept # <<>> /\ g \in ToSet(kept) /\ Head(kept) = g
               /\ \A f : f \in ToSet(list) <=> f \in ToSet(kept) \/ f \in ToSet(dropped)
               /\ \A f : ~ (f \in ToSet(kept) /\ f \in ToSet(dropped))
               /\ Behind(kept, g) = Later(g)
<1>1. PICK p \in DOMAIN list : list[p] = g
  BY DEF ToSet
<1> DEFINE n == Len(list)
           kept == Kept(g)
           dropped == SubSeq(list, 1, Len(list) - Len(kept))
<1>2. /\ n \in Nat /\ DOMAIN list = 1 .. n /\ p \in 1 .. n /\ p \in Nat
      /\ \A i \in 1 .. n : list[i] \in Ids
  OBVIOUS
<1>3. /\ Later(g) = SubSeq(list, p + 1, n)
      /\ Later(g) \in Seq(Ids) /\ Len(Later(g)) = n - p
      /\ \A i \in 1 .. n - p : Later(g)[i] = list[p + i]
  <2>1. Later(g) = SubSeq(list, p + 1, n)
    BY <1>1, LaterOf
  <2> QED
    BY <1>2, <2>1
<1>4. /\ kept \in Seq(Ids) /\ Len(kept) = n - p + 1 /\ DOMAIN kept = 1 .. n - p + 1
      /\ kept[1] = g /\ Head(kept) = g /\ kept # <<>>
      /\ \A i \in 1 .. n - p + 1 : kept[i] = list[p + i - 1]
  <2> DEFINE later == Later(g)
  <2>1. kept = <<g>> \o later /\ g \in Ids
    BY <1>1, <1>2 DEF Kept
  <2> HIDE DEF kept, later
  <2>2. /\ later \in Seq(Ids) /\ Len(later) = n - p
        /\ \A i \in 1 .. n - p : later[i] = list[p + i]
    BY <1>3 DEF later
  <2>3. /\ <<g>> \o later \in Seq(Ids) /\ Len(<<g>> \o later) = 1 + (n - p)
        /\ (<<g>> \o later)[1] = g
        /\ \A i \in 1 .. n - p : (<<g>> \o later)[i + 1] = later[i]
    BY <1>2, <2>1, <2>2
  <2>4. ASSUME NEW i \in 1 .. n - p + 1
        PROVE  kept[i] = list[p + i - 1]
    <3>1. CASE i = 1
      BY <1>1, <1>2, <2>1, <2>3, <3>1
    <3>2. CASE i # 1
      <4>1. PICK j \in 1 .. n - p : i = j + 1
        <5>1. i - 1 \in 1 .. n - p /\ i = (i - 1) + 1
          BY <1>2, <3>2
        <5> QED
          BY <5>1
      <4>2. kept[j + 1] = list[p + j] /\ p + (j + 1) - 1 = p + j
        BY <1>2, <2>1, <2>2, <2>3
      <4> QED
        BY <4>1, <4>2
    <3> QED
      BY <3>1, <3>2
  <2> QED
    BY <1>2, <2>1, <2>3, <2>4
<1>5. /\ dropped \in Seq(Ids) /\ DOMAIN dropped = 1 .. p - 1
      /\ \A i \in 1 .. p - 1 : dropped[i] = list[i]
  <2>1. n - Len(kept) = p - 1
    BY <1>2, <1>4
  <2>2. dropped = SubSeq(list, 1, p - 1)
    BY <2>1
  <2> QED
    BY <1>2, <2>2
<1> HIDE DEF kept, dropped, n
<1>6. Distinct(kept)
  <2>1. SUFFICES ASSUME NEW i \in 1 .. n - p + 1, NEW j \in 1 .. n - p + 1, kept[i] = kept[j]
                 PROVE  i = j
    BY <1>4 DEF Distinct
  <2>2. p + i - 1 \in DOMAIN list /\ p + j - 1 \in DOMAIN list
    BY <1>2
  <2>3. p + i - 1 = p + j - 1
    BY <1>4, <2>1, <2>2 DEF Distinct
  <2> QED
    BY <1>2, <2>3
<1>7. Distinct(dropped)
  <2>1. \A i \in DOMAIN dropped : i \in DOMAIN list
    BY <1>2, <1>5
  <2> QED
    BY <1>5, <2>1 DEF Distinct
<1>8. ASSUME NEW f
      PROVE  f \in ToSet(list) <=> f \in ToSet(kept) \/ f \in ToSet(dropped)
  <2>1. ASSUME f \in ToSet(list)
        PROVE  f \in ToSet(kept) \/ f \in ToSet(dropped)
    <3>1. PICK i \in 1 .. n : list[i] = f
      BY <1>2, <2>1 DEF ToSet
    <3>2. CASE i < p
      <4>1. i \in 1 .. p - 1
        BY <1>2, <3>2
      <4> QED
        BY <1>5, <3>1, <4>1 DEF ToSet
    <3>3. CASE ~ (i < p)
      <4>1. PICK j \in 1 .. n - p + 1 : i = p + j - 1
        <5>1. i - p + 1 \in 1 .. n - p + 1 /\ i = p + (i - p + 1) - 1
          BY <1>2, <3>3
        <5> QED
          BY <5>1
      <4>2. kept[j] = f /\ j \in DOMAIN kept
        BY <1>4, <3>1, <4>1
      <4> QED
        BY <4>2 DEF ToSet
    <3> QED
      BY <3>2, <3>3
  <2>2. ASSUME f \in ToSet(kept)
        PROVE  f \in ToSet(list)
    <3>1. PICK i \in 1 .. n - p + 1 : kept[i] = f
      BY <1>4, <2>2 DEF ToSet
    <3>2. p + i - 1 \in DOMAIN list /\ list[p + i - 1] = f
      BY <1>2, <1>4, <3>1
    <3> QED
      BY <3>2 DEF ToSet
  <2>3. ASSUME f \in ToSet(dropped)
        PROVE  f \in ToSet(list)
    <3>1. PICK i \in 1 .. p - 1 : dropped[i] = f
      BY <1>5, <2>3 DEF ToSet
    <3>2. i \in DOMAIN list /\ list[i] = f
      BY <1>2, <1>5, <3>1
    <3> QED
      BY <3>2 DEF ToSet
  <2> QED
    BY <2>1, <2>2, <2>3
<1>9. ASSUME NEW f, f \in ToSet(kept), f \in ToSet(dropped)
      PROVE  FALSE
  <2>1. PICK i \in 1 .. n - p + 1 : kept[i] = f
    BY <1>4, <1>9 DEF ToSet
  <2>2. PICK j \in 1 .. p - 1 : dropped[j] = f
    BY <1>5, <1>9 DEF ToSet
  <2>3. p + i - 1 \in DOMAIN list /\ j \in DOMAIN list /\ list[p + i - 1] = list[j]
    BY <1>2, <1>4, <1>5, <2>1, <2>2
  <2>4. p + i - 1 = j
    BY <2>3 DEF Distinct
  <2> QED
    BY <1>2, <2>4
<1>10. Behind(kept, g) = Later(g)
  <2>1. 1 \in DOMAIN kept /\ n - p + 1 \in Nat
    BY <1>2, <1>4
  <2>2. Behind(kept, kept[1]) = SubSeq(kept, 2, n - p + 1)
    <3>1. Behind(kept, kept[1]) = SubSeq(kept, 1 + 1, Len(kept))
      BY <1>4, <1>6, <2>1, BehindOf
    <3> QED
      BY <1>4, <3>1
  <2> DEFINE a == SubSeq(kept, 2, n - p + 1)
             later == Later(g)
  <2>3. /\ a \in Seq(Ids) /\ Len(a) = n - p
        /\ \A i \in 1 .. n - p : a[i] = kept[i + 1]
    BY <1>2, <1>4, <2>1
  <2> HIDE DEF a, later
  <2>4. ASSUME NEW i \in 1 .. n - p
        PROVE  a[i] = later[i]
    <3>1. i + 1 \in 1 .. n - p + 1 /\ p + (i + 1) - 1 = p + i
      BY <1>2
    <3> QED
      BY <1>3, <1>4, <2>3, <3>1 DEF later
  <2>5. a = later
    BY <1>3, <2>3, <2>4, SeqEqual DEF later
  <2> QED
    BY <1>4, <2>2, <2>5 DEF a, later
<1>11. g \in ToSet(kept)
  BY <1>2, <1>4 DEF ToSet
<1> QED
  BY <1>4, <1>5, <1>6, <1>7, <1>8, <1>9, <1>10, <1>11 DEF kept, dropped

\* The prefix ends: its last byte is consumed, and the fragments in front of the
\* body leave the work item.
LEMMA EndPrefixHolds == ASSUME Holding, EndPrefix PROVE Holding'
<1> DEFINE c == Advanced(cursor, 1)
<1>1. /\ pc = "endPrefix" /\ unread >= 1 /\ InFragment /\ Remaining(cursor) > 0
      /\ TypeOK /\ Distinct(list) /\ Ahead /\ unread \in 0 .. MaxBytes /\ MaxBytes \in Nat
      /\ ByteBase \in Nat /\ MaxBody \in Nat /\ link # "gone" /\ input # None
  BY ParserAssumption DEF EndPrefix, Holding, Shaped, TypeOK
<1>2. frag \in ToSet(list) /\ frag \in Ids /\ cursor \in Places /\ cursor.frag = frag
  BY <1>1 DEF InFragment, Holding, Shaped, TypeOK
<1>3. CanAdvance(cursor, 1) /\ LandsOn(c, 1)
  <2>1. AheadOf(cursor) /\ 1 <= unread /\ 1 \in Nat
    BY <1>1 DEF Ahead
  <2> HIDE DEF c
  <2>2. CanAdvance(cursor, 1) /\ LandsOn(Advanced(cursor, 1), 1)
    BY <1>1, <1>2, <2>1, AdvancedFacts
  <2> QED
    BY <2>2 DEF c
<1>4. PICK g : g = c
  OBVIOUS
<1> HIDE DEF c
<1>5. g \in Places /\ g.frag \in ToSet(list) /\ g.frag \in Ids /\ g.frag # None
      /\ Remaining(g) >= 0 /\ unread - 1 = Remaining(g) + BytesIn(Later(g.frag))
  BY <1>3, <1>4, ParserAssumption DEF LandsOn, Ids
<1>6. /\ frag' = g.frag /\ unread' = unread - 1 /\ cursor' \in {None, g}
      /\ stream' = stream
      /\ UNCHANGED <<link, input, delivered, queue>>
  BY <1>3, <1>4 DEF EndPrefix, Return, Continue, c
<1>7. Ids' = Ids /\ Places' = Places /\ WorkItems' = WorkItems /\ BytesIn(Received)' = BytesIn(Received)
  BY <1>6, SameStream
<1>8. CASE TooLong(size)
  <2>1. /\ refs' = MoveRef(refs, g.frag) /\ Return("corrupt") /\ UNCHANGED <<list, body, queue>>
    BY <1>3, <1>6, <1>8 DEF EndPrefix
  <2>2. MovesTo(g, unread - 1)
    BY <1>1, <1>5, <1>6, <2>1 DEF MovesTo, Return
  <2>3. corrupt' = TRUE /\ size' = 0 /\ 0 \in 0 .. ByteBase * ByteBase
    <3>1. corrupt' = (corrupt \/ "corrupt" = "corrupt") /\ size' = 0
      BY <2>1 DEF Return
    <3>2. 0 \in 0 .. ByteBase * ByteBase
      BY <1>1
    <3> QED
      BY <3>1, <3>2
  <2> QED
    BY <1>1, <1>2, <2>1, <2>2, <2>3, CursorMoves DEF Return, Verdicts
<1>9. CASE ~TooLong(size)
  <2> DEFINE kept == Kept(g.frag)
             dropped == SubSeq(list, 1, Len(list) - Len(kept))
  <2>1. /\ body' = size /\ list' = kept /\ size' = 0 /\ pc' = "body"
        /\ refs' = MoveRef(ReleaseAll(refs, dropped), g.frag)
        /\ UNCHANGED <<verdict, corrupt>>
    BY <1>3, <1>6, <1>9 DEF EndPrefix, Continue
  <2>2. /\ list \in Seq(Ids) /\ queue \in Seq(WorkItems) /\ refs \in [Ids -> Int]
        /\ stream \in Seq(Fragments) /\ size \in Nat /\ size <= MaxBody
    <3>1. ByteBase * ByteBase \in Nat
      BY <1>1
    <3> QED
      BY <1>1, <1>9, <3>1 DEF TypeOK, TooLong
  <2>3. /\ kept \in Seq(Ids) /\ dropped \in Seq(Ids) /\ Distinct(kept) /\ Distinct(dropped)
        /\ kept # <<>> /\ g.frag \in ToSet(kept)
        /\ \A f : f \in ToSet(list) <=> f \in ToSet(kept) \/ f \in ToSet(dropped)
        /\ \A f : ~ (f \in ToSet(kept) /\ f \in ToSet(dropped))
        /\ Behind(kept, g.frag) = Later(g.frag)
    BY <1>1, <1>5, <2>2, KeptFacts
  <2> HIDE DEF kept, dropped
  <2>4. PICK r \in [Ids -> Int] :
           /\ r = ReleaseAll(refs, dropped)
           /\ \A f \in Ids : r[f] = refs[f] - IF f \in ToSet(dropped) THEN 1 ELSE 0
    <3>1. /\ ReleaseAll(refs, dropped) \in [Ids -> Int]
          /\ \A f \in Ids : ReleaseAll(refs, dropped)[f]
                              = refs[f] - IF f \in ToSet(dropped) THEN 1 ELSE 0
      BY <2>2, <2>3, ReleaseAllValue
    <3> QED
      BY <3>1
  <2>5. /\ refs' \in [Ids -> Int]
        /\ \A f \in Ids : refs'[f] = r[f] - (IF frag = f THEN 1 ELSE 0) + (IF g.frag = f THEN 1 ELSE 0)
    <3>1. g.frag \in Ids
      BY <1>5
    <3> DEFINE h == g.frag
    <3> HIDE DEF h
    <3>2. h \in Ids /\ refs' = MoveRef(r, h)
      BY <2>1, <2>4, <3>1 DEF h
    <3>3. /\ refs' \in [Ids -> Int]
          /\ \A f \in Ids : refs'[f] = r[f] - (IF frag = f THEN 1 ELSE 0) + (IF h = f THEN 1 ELSE 0)
      BY <1>2, <3>2, MoveRefValue
    <3> QED
      BY <3>3 DEF h
  <2>6. RefsMatchHolders'
    <3>1. ASSUME NEW f \in Ids
          PROVE  refs'[f] = InList(f)' + AtCursor(f)' + InItems(f)' + InCalls(f)'
      <4>1. InItems(f)' = InItems(f) /\ InCalls(f)' = InCalls(f)
        BY <1>1, <1>6, <2>1 DEF InItems, InCalls
      <4>2. InList(f)' = InList(f) - IF f \in ToSet(dropped) THEN 1 ELSE 0
        BY <2>1, <2>3 DEF InList
      <4>3. AtCursor(f)' = (IF g.frag = f THEN 1 ELSE 0) /\ AtCursor(f) = (IF frag = f THEN 1 ELSE 0)
        BY <1>6 DEF AtCursor
      <4> QED
        BY <2>4, <2>5, <4>1, <4>2, <4>3, CountOf
    <3> QED
      BY <1>7, <3>1 DEF RefsMatchHolders
  <2>7. refs' \in [Ids' -> Nat]
    BY <1>6, <1>7, <2>2, <2>5, <2>6, CountsAreNatural
  <2>8. TypeOK'
    <3>1. unread' \in 0 .. MaxBytes /\ body' \in 0 .. MaxBody /\ 0 \in 0 .. ByteBase * ByteBase
      BY <1>1, <1>6, <2>1, <2>2
    <3>2. /\ link' \in {"up", "halfClosed", "down", "gone"} /\ stream' \in Seq(Fragments)
          /\ frag' \in Ids' \cup {None} /\ cursor' \in Places' \cup {None} /\ list' \in Seq(Ids')
          /\ pc' \in Steps /\ size' \in 0 .. ByteBase * ByteBase /\ input' \in Ids' \cup {None}
          /\ verdict' \in Verdicts /\ corrupt' \in BOOLEAN /\ queue' \in Seq(WorkItems')
          /\ delivered' \in Seq(Seq(Byte))
      BY <1>1, <1>5, <1>6, <1>7, <2>1, <2>3, <3>1 DEF TypeOK, Steps
    <3> QED
      BY <2>7, <3>1, <3>2 DEF TypeOK
  <2>9. Shaped'
    BY <1>1, <1>5, <1>6, <2>1, <2>3 DEF Holding, Shaped
  <2>10. Ahead'
    <3>1. CASE cursor' = None
      BY <3>1 DEF Ahead, InFragment
    <3>2. CASE cursor' = g
      <4>1. unread' = Remaining(g) + BytesIn(Behind(list', g.frag))
        BY <1>5, <1>6, <2>1, <2>3
      <4> QED
        BY <1>5, <1>6, <3>2, <4>1, AheadAfter
    <3> QED
      BY <1>6, <3>1, <3>2
  <2>11. Bounded'
    <3>1. Arriving = 0 /\ Arriving' = 0
      BY <1>1, <2>1 DEF Arriving
    <3>2. BytesIn(Received) \in Nat
      <4>1. Received \in Seq(Ids)
        BY <2>2 DEF Received, Ids
      <4> QED
        BY <2>2, <4>1, BytesAreCells
    <3> QED
      BY <1>1, <1>6, <1>7, <3>1, <3>2 DEF Holding, Bounded
  <2> QED
    BY <2>6, <2>8, <2>9, <2>10, <2>11 DEF Holding
<1> QED
  BY <1>8, <1>9

\* A packet is complete: its work item keeps the fragments it has; what follows
\* begins in the last of them.
LEMMA BodyHolds == ASSUME Holding, Body PROVE Holding'
<1>1. /\ pc = "body" /\ frag # None /\ frag \in ToSet(list) /\ frag \in Ids /\ list # <<>>
      /\ TypeOK /\ Distinct(list) /\ Ahead /\ unread \in 0 .. MaxBytes /\ MaxBytes \in Nat
      /\ body \in 0 .. MaxBody /\ MaxBody \in Nat /\ ByteBase \in Nat
      /\ link # "gone" /\ input # None /\ corrupt \in BOOLEAN
      /\ list \in Seq(Ids) /\ queue \in Seq(WorkItems) /\ refs \in [Ids -> Int] /\ stream \in Seq(Fragments)
  BY ParserAssumption DEF Body, Holding, Shaped, TypeOK
<1>2. CASE ~Complete \/ ~CanNormalize \/ ~CanAdvance(Normalized, body)
  <2>1. Return("more") /\ UNCHANGED <<refs, parserVars, queue>>
    BY <1>2 DEF Body
  <2>2. corrupt' = corrupt
    BY <1>1, <2>1 DEF Return
  <2> QED
    BY <1>1, <2>1, <2>2, SameHolders DEF Return, parserVars, Verdicts
<1>3. CASE Complete /\ CanNormalize /\ CanAdvance(Normalized, body)
  <2>1. PICK c, item, tail : c = Normalized /\ item = Finished(c) /\ tail = Last(list)
    OBVIOUS
  <2>2. body <= unread
    BY <1>3 DEF Complete
  <2>3. c \in Places \cup {None}
    <3>1. CASE unread = 0
      BY <1>1, <2>1, <3>1 DEF Normalized, TypeOK
    <3>2. CASE unread # 0
      BY <1>1, <1>3, <2>1, <3>2, NormalizedFacts
    <3> QED
      BY <3>1, <3>2
  <2>4. item \in WorkItems /\ item.list = list
    BY <1>1, <2>1, <2>3 DEF Finished, WorkItems
  <2>5. /\ queue' = Append(queue, item) /\ body' = 0 /\ unread' = unread - body
        /\ verdict' = "packet" /\ corrupt' = corrupt /\ pc' = "drain" /\ size' = 0
        /\ UNCHANGED <<link, stream, input, delivered>>
    BY <1>1, <1>3, <2>1 DEF Body, Return
  <2>6. Ids' = Ids /\ Places' = Places /\ WorkItems' = WorkItems /\ BytesIn(Received)' = BytesIn(Received)
    BY <2>5, SameStream
  <2>7. queue' \in Seq(WorkItems) /\ \A i \in DOMAIN queue' : Distinct(queue'[i].list)
    <3>1. /\ Append(queue, item) \in Seq(WorkItems)
          /\ DOMAIN Append(queue, item) = DOMAIN queue \cup {Len(queue) + 1}
          /\ Append(queue, item)[Len(queue) + 1] = item
          /\ \A i \in DOMAIN queue : Append(queue, item)[i] = queue[i]
      BY <1>1, <2>4
    <3>2. \A i \in DOMAIN queue : Distinct(queue[i].list)
      BY DEF Holding, Shaped
    <3> QED
      BY <1>1, <2>4, <2>5, <3>1, <3>2
  <2>8. \A f \in Ids : InItems(f)' = InItems(f) + InList(f)
    <3>1. TAKE f \in Ids
    <3>2. InItems(f)' = Cardinality(HeldBy(Append(queue, item), f))
      BY <2>5 DEF InItems, HeldBy
    <3>3. Cardinality(HeldBy(Append(queue, item), f))
            = Cardinality(HeldBy(queue, f)) + IF f \in ToSet(item.list) THEN 1 ELSE 0
      BY <1>1, <2>4, HeldByAppend
    <3>4. InItems(f) = Cardinality(HeldBy(queue, f))
      BY CountOf
    <3> QED
      BY <2>4, <3>2, <3>3, <3>4 DEF InList
  <2>9. \A f \in Ids : InCalls(f)' = InCalls(f) /\ AtCursor(f) = IF frag = f THEN 1 ELSE 0
    BY <1>1, <2>5 DEF InCalls, AtCursor
  <2>10. tail \in Ids /\ Later(tail) = <<>>
    <3>1. Len(list) \in DOMAIN list /\ tail = list[Len(list)] /\ Len(list) \in Nat
      BY <1>1, <2>1 DEF Last
    <3>2. Later(tail) = SubSeq(list, Len(list) + 1, Len(list))
      BY <1>1, <3>1, LaterOf
    <3> QED
      BY <1>1, <3>1, <3>2
  <2>11. unread' \in 0 .. MaxBytes /\ 0 \in 0 .. ByteBase * ByteBase /\ 0 \in 0 .. MaxBody
    BY <1>1, <2>2, <2>5
  <2>12. Bounded'
    <3>1. Arriving = 0 /\ Arriving' = 0
      BY <1>1, <2>5 DEF Arriving
    <3>2. BytesIn(Received) \in Nat
      <4>1. Received \in Seq(Ids)
        BY <1>1 DEF Received, Ids
      <4> QED
        BY <1>1, <4>1, BytesAreCells
    <3> QED
      BY <1>1, <2>2, <2>5, <2>6, <3>1, <3>2 DEF Holding, Bounded
  <2>13. CASE unread = body
    <3>1. cursor' = None /\ frag' = None /\ list' = <<>> /\ refs' = Release(refs, frag) /\ unread' = 0
      BY <1>1, <1>3, <2>1, <2>5, <2>13 DEF Body
    <3>2. refs' \in [Ids -> Int] /\ \A f \in Ids : refs'[f] = refs[f] - IF frag = f THEN 1 ELSE 0
      BY <1>1, <3>1 DEF Release
    <3>3. RefsMatchHolders'
      <4>1. ASSUME NEW f \in Ids
            PROVE  refs'[f] = InList(f)' + AtCursor(f)' + InItems(f)' + InCalls(f)'
        <5>1. InList(f)' = 0 /\ AtCursor(f)' = 0
          BY <3>1, ParserAssumption DEF InList, AtCursor, ToSet, Ids
        <5> QED
          BY <2>8, <2>9, <3>2, <5>1, CountOf
      <4> QED
        BY <2>6, <4>1 DEF RefsMatchHolders
    <3>4. refs' \in [Ids' -> Nat]
      BY <2>6, <2>7, <3>2, <3>3, CountsAreNatural
    <3>5. TypeOK'
      BY <1>1, <2>5, <2>6, <2>7, <2>11, <3>1, <3>4 DEF TypeOK, Steps, Verdicts
    <3>6. Shaped'
      BY <1>1, <2>5, <2>7, <3>1 DEF Shaped, Distinct
    <3>7. Ahead'
      BY <3>1 DEF Ahead, InFragment
    <3> QED
      BY <2>12, <3>3, <3>5, <3>6, <3>7 DEF Holding
  <2>14. CASE unread # body
    <3>1. unread # 0 /\ InFragment /\ c \in Places /\ LandsOn(Advanced(c, body), body)
      <4>1. unread # 0 /\ body \in Nat
        BY <1>1, <2>2, <2>14
      <4>2. /\ InFragment /\ c \in Places /\ c.frag \in ToSet(list) /\ Remaining(c) > 0 /\ AheadOf(c)
        BY <1>1, <1>3, <2>1, <4>1, NormalizedFacts
      <4> QED
        BY <1>1, <2>2, <4>1, <4>2, AdvancedFacts
    <3>2. PICK d : d = Advanced(c, body)
      OBVIOUS
    <3>3. cursor' = d /\ frag' = tail /\ list' = <<tail>> /\ refs' = Retain(MoveRef(refs, tail), tail)
      BY <1>1, <1>3, <2>1, <2>14, <3>2 DEF Body, CarriedRefs
    <3>4. PICK r \in [Ids -> Int] :
             /\ r = MoveRef(refs, tail)
             /\ \A f \in Ids : r[f] = refs[f] - (IF frag = f THEN 1 ELSE 0) + (IF tail = f THEN 1 ELSE 0)
      BY <1>1, <2>10, MoveRefValue
    <3>5. refs' \in [Ids -> Int] /\ \A f \in Ids : refs'[f] = r[f] + IF tail = f THEN 1 ELSE 0
      BY <2>10, <3>3, <3>4 DEF Retain
    <3>6. list' \in Seq(Ids) /\ list' # <<>> /\ ToSet(list') = {tail} /\ Distinct(list') /\ tail # None
      BY <2>10, <3>3, ParserAssumption DEF ToSet, Distinct, Ids
    <3>7. RefsMatchHolders'
      <4>1. ASSUME NEW f \in Ids
            PROVE  refs'[f] = InList(f)' + AtCursor(f)' + InItems(f)' + InCalls(f)'
        <5>1. InList(f)' = (IF tail = f THEN 1 ELSE 0) /\ AtCursor(f)' = (IF tail = f THEN 1 ELSE 0)
          BY <3>3, <3>6 DEF InList, AtCursor
        <5> QED
          BY <2>8, <2>9, <3>4, <3>5, <5>1, CountOf
      <4> QED
        BY <2>6, <4>1 DEF RefsMatchHolders
    <3>8. refs' \in [Ids' -> Nat]
      BY <2>6, <2>7, <3>5, <3>7, CountsAreNatural
    <3>9. TypeOK'
      <4>1. cursor' \in Places
        BY <3>1, <3>2, <3>3 DEF LandsOn
      <4> QED
        BY <1>1, <2>5, <2>6, <2>7, <2>10, <2>11, <3>3, <3>6, <3>8, <4>1 DEF TypeOK, Steps, Verdicts
    <3>10. Shaped'
      BY <1>1, <2>5, <2>7, <3>3, <3>6 DEF Shaped
    <3>11. Ahead'
      <4>1. InFragment' => d.frag = tail
        BY <3>3 DEF InFragment
      <4>2. Behind(list', tail) = <<>>
        <5>1. Behind(<<tail>>, <<tail>>[1]) = SubSeq(<<tail>>, 1 + 1, Len(<<tail>>))
          <6>1. 1 \in DOMAIN <<tail>> /\ <<tail>> \in Seq(Ids) /\ Distinct(<<tail>>)
            BY <3>3, <3>6
          <6> QED
            BY <6>1, BehindOf
        <5> QED
          BY <3>3, <5>1
      <4>3. /\ Remaining(d) >= 0
            /\ unread' = Remaining(d) + BytesIn(Later(d.frag))
        BY <2>5, <3>1, <3>2 DEF LandsOn
      <4> QED
        BY <2>5, <2>10, <3>3, <4>1, <4>2, <4>3, AheadAfter
    <3> QED
      BY <2>12, <3>7, <3>9, <3>10, <3>11 DEF Holding
  <2> QED
    BY <2>13, <2>14
<1> QED
  BY <1>2, <1>3

\* Every step keeps Holding.
LEMMA HoldingIsInductive == Holding /\ [Next]_vars => Holding'
<1> SUFFICES ASSUME Holding, [Next]_vars PROVE Holding'
  OBVIOUS
<1>1. CASE Receive
  BY <1>1, ReceiveHolds
<1>2. CASE TakeFragment
  BY <1>2, TakeFragmentHolds
<1>3. CASE Drain
  BY <1>3, DrainHolds
<1>4. CASE EndReceive
  BY <1>4, EndReceiveHolds
<1>5. CASE Prefix
  BY <1>5, PrefixHolds
<1>6. CASE Second
  BY <1>6, SecondHolds
<1>7. CASE EndPrefix
  BY <1>7, EndPrefixHolds
<1>8. CASE Body
  BY <1>8, BodyHolds
<1>9. CASE Consume
  BY <1>9, ConsumeHolds
<1>10. CASE HalfClose \/ PeerCloses
  BY <1>10, ClosingHolds
<1>11. CASE DeleteParser
  BY <1>11, DeleteParserHolds
<1>12. CASE UNCHANGED vars
  <2>1. /\ stream' = stream
        /\ UNCHANGED <<link, refs, frag, cursor, unread, list, body, pc, size, input, verdict, corrupt, queue, delivered>>
    BY <1>12 DEF vars, parserVars
  <2>2. Ids' = Ids /\ Places' = Places /\ WorkItems' = WorkItems /\ BytesIn(Received)' = BytesIn(Received)
    BY <2>1, SameStream
  <2>3. TypeOK'
    BY <2>1, <2>2 DEF Holding, TypeOK
  <2>4. Shaped'
    BY <2>1 DEF Holding, Shaped, InFragment, Remaining, Size
  <2>5. Bounded'
    BY <2>1, <2>2 DEF Holding, Bounded, Arriving, Size
  <2>6. RefsMatchHolders'
    BY <2>1, <2>2 DEF Holding, RefsMatchHolders, InList, AtCursor, InItems, InCalls
  <2>7. Ahead'
    BY <2>1, SameAhead DEF Holding
  <2> QED
    BY <2>3, <2>4, <2>5, <2>6, <2>7 DEF Holding
<1> QED
  BY <1>1, <1>2, <1>3, <1>4, <1>5, <1>6, <1>7, <1>8, <1>9, <1>10, <1>11, <1>12 DEF Next

\* The invariant holds throughout.
LEMMA HoldingAlways == Spec => []Holding
BY InitialHolding, HoldingIsInductive, PTL DEF Spec

\* The parser's variables have their types: no count of references and no count
\* of unread bytes drops below zero, and its cursor, which the code advances from
\* fragment to fragment without looking, never leaves the fragments it was given.
THEOREM ParserTypes == Spec => []TypeOK
<1>1. Holding => TypeOK
  BY DEF Holding
<1> QED
  BY <1>1, HoldingAlways, PTL

\* The reference count of each fragment is the number of its holders, whatever
\* packets it takes part in and whichever thread lets go of them first: it is
\* freed by its last holder, and neither before nor never.
THEOREM FragmentsAreCounted == Spec => []RefsMatchHolders
<1>1. Holding => RefsMatchHolders
  BY DEF Holding
<1> QED
  BY <1>1, HoldingAlways, PTL
-----------------------------------------------------------------------------
(* Work items fit their bodies                                             *)

\* Parse has no prefix in hand that could be complete, and waits for a fragment.
Waiting == pc \in {"idle", "end", "parse"}

\* A cursor in the last fragment; and one on the last byte of the fragment
\* before it.
InLast == Later(frag) = <<>>
BeforeLast == Len(Later(frag)) = 1 /\ Remaining(cursor) = 1

\* What Parse knows between two packets, unless the stream was found corrupt:
\* a single byte may be left over, and then the next fragment's are behind it.
PrefixFits ==
    ~corrupt /\ body = 0 /\ InFragment /\ unread > 0 =>
        /\ Waiting => InLast /\ unread = 1
        /\ pc = "drain" => InLast
        /\ pc \in {"prefix", "second", "endPrefix"} => InLast \/ BeforeLast

\* And inside a packet: the work item begins where the body does; without its
\* last fragment, and between two fragments with it, it does not hold the body.
BodyFits ==
    body > 0 /\ InFragment /\ unread > 0 =>
        /\ frag = Head(list) /\ Remaining(cursor) > 0
        /\ ~corrupt /\ pc = "body" => BytesIn(Front(list)) < cursor.at + body
        /\ ~corrupt /\ Waiting => BytesIn(list) < cursor.at + body

\* A finished work item holds its body, and no more fragments than it needs.
ItemFits(item) ==
    /\ Copies(item)
    /\ ~corrupt /\ item.body > 0 => BytesIn(Front(item.list)) < item.start.at + item.body

ItemsFit == \A i \in DOMAIN queue : ItemFits(queue[i])

Fitting ==
    /\ pc \in {"prefix", "second", "endPrefix"} => body = 0
    /\ body > 0 /\ link # "gone" => frag # None
    /\ PrefixFits
    /\ BodyFits
    /\ ItemsFit

\* A list without its last fragment.
LEMMA FrontFacts ==
    ASSUME NEW S, NEW fs \in Seq(S)
    PROVE  /\ Front(fs) \in Seq(S)
           /\ \A e \in S : Front(Append(fs, e)) = fs
<1>1. CASE fs = <<>>
  BY <1>1 DEF Front
<1>2. CASE fs # <<>>
  BY <1>2 DEF Front
<1>3. ASSUME NEW e \in S
      PROVE  Front(Append(fs, e)) = fs
  <2> DEFINE a == Front(Append(fs, e))
  <2>1. Len(fs) \in Nat /\ \A i \in 1 .. Len(fs) : fs[i] \in S /\ Append(fs, e)[i] = fs[i]
    OBVIOUS
  <2>2. a = SubSeq(Append(fs, e), 1, Len(fs)) /\ Append(fs, e) \in Seq(S) /\ Len(Append(fs, e)) = Len(fs) + 1
    BY DEF Front
  <2>3. a \in Seq(S) /\ Len(a) = Len(fs) /\ \A i \in 1 .. Len(fs) : a[i] = fs[i]
    BY <2>1, <2>2
  <2> HIDE DEF a
  <2>4. a = fs
    BY <2>3, SeqEqual
  <2> QED
    BY <2>4 DEF a
<1> QED
  BY <1>1, <1>2, <1>3

\* While its bytes stay, a finished work item keeps fitting.
LEMMA ItemKeepsFitting ==
    ASSUME stream \in Seq(Fragments), \A f \in Ids : stream'[f] = stream[f],
           corrupt => corrupt', NEW item \in WorkItems, ItemFits(item)
    PROVE  ItemFits(item)'
<1>1. item.list \in Seq(Ids)
  BY DEF WorkItems
<1>2. Front(item.list) \in Seq(Ids)
  BY <1>1, FrontFacts
<1>3. BytesIn(item.list)' = BytesIn(item.list) /\ BytesIn(Front(item.list))' = BytesIn(Front(item.list))
  BY <1>1, <1>2, BytesStay
<1> QED
  BY <1>3 DEF ItemFits, Copies

\* Steps that leave stream and queue alone keep the finished work items.
LEMMA ItemsKeepFitting ==
    ASSUME Holding, ItemsFit, \A f \in Ids : stream'[f] = stream[f],
           corrupt => corrupt', queue' = queue
    PROVE  ItemsFit'
<1>1. stream \in Seq(Fragments) /\ \A i \in DOMAIN queue : queue[i] \in WorkItems
  BY DEF Holding, TypeOK
<1>2. ASSUME NEW i \in DOMAIN queue'
      PROVE  ItemFits(queue[i])'
  <2>1. PICK item \in WorkItems : item = queue[i] /\ ItemFits(item)
    BY <1>1 DEF ItemsFit
  <2>2. ItemFits(item)'
    BY <1>1, <2>1, ItemKeepsFitting
  <2>3. item = queue'[i]
    BY <2>1
  <2> QED
    BY <2>2, <2>3 DEF ItemFits, Copies, BytesIn, Size
<1> QED
  BY <1>2 DEF ItemsFit

\* With a byte ahead and the cursor in its fragment, there is a byte to go to.
LEMMA CursorHasNext ==
    ASSUME Holding, InFragment, unread > 0
    PROVE  /\ CanNormalize
           /\ InLast => Remaining(cursor) = unread
           /\ BeforeLast => unread >= 2
           /\ Remaining(cursor) \in Nat /\ unread \in Nat
           /\ unread = Remaining(cursor) + BytesIn(Later(frag))
           /\ BytesIn(Later(frag)) \in Nat
           /\ cursor \in Places /\ cursor.frag = frag /\ frag \in Ids /\ frag \in ToSet(list)
           /\ cursor.at \in Nat /\ Size(frag) = cursor.at + Remaining(cursor)
<1>1. /\ cursor \in Places /\ cursor.frag = frag /\ frag \in Ids /\ frag \in ToSet(list)
      /\ list \in Seq(Ids) /\ Distinct(list) /\ stream \in Seq(Fragments) /\ unread \in Nat
      /\ cursor.at \in Nat
  BY DEF InFragment, Holding, TypeOK, Shaped, Places
<1>2. AheadOf(cursor)
  BY DEF Holding, Ahead
<1>3. PICK later \in Seq(Ids) : later = Later(frag) /\ BytesIn(later) \in Nat
  BY <1>1, LaterTypes, BytesAreCells
<1>4. Size(frag) \in Nat
  BY <1>1, SizeFacts
<1>5. Remaining(cursor) = Size(frag) - cursor.at /\ Remaining(cursor) >= 0
      /\ unread = Remaining(cursor) + BytesIn(later)
  BY <1>1, <1>2, <1>3 DEF AheadOf, Remaining
<1>6. Remaining(cursor) \in Nat
  BY <1>1, <1>4, <1>5
<1>7. later = <<>> => Remaining(cursor) = unread
  BY <1>5, <1>6, NoBytes
<1>8. BeforeLast => unread >= 2
  <2> SUFFICES ASSUME Len(later) = 1, Remaining(cursor) = 1 PROVE unread >= 2
    BY <1>3 DEF BeforeLast
  <2>1. PICK f \in Ids : later = Append(<<>>, f)
    <3>1. later[1] \in Ids /\ later = <<later[1]>>
      BY <1>3
    <3> QED
      BY <3>1
  <2>2. BytesIn(later) = BytesIn(<<>>) + Size(f) /\ <<>> \in Seq(Ids)
    <3>1. <<>> \in Seq(Ids)
      OBVIOUS
    <3> QED
      BY <1>1, <2>1, <3>1, BytesAppend
  <2>3. Size(f) \in Nat /\ Size(f) >= 1
    BY <1>1, SizeFacts
  <2> QED
    BY <1>5, <2>2, <2>3, NoBytes
<1>9. CanNormalize
  BY <1>1, <1>3, <1>6, <1>7 DEF CanNormalize
<1> QED
  BY <1>1, <1>3, <1>4, <1>5, <1>6, <1>7, <1>8, <1>9 DEF InLast

\* The bytes of the work item are those of its first fragment and those behind.
LEMMA ListBytes ==
    ASSUME Holding, frag # None, frag = Head(list)
    PROVE  BytesIn(list) = Size(frag) + BytesIn(Later(frag)) /\ BytesIn(list) \in Nat
<1>1. list \in Seq(Ids) /\ Distinct(list) /\ stream \in Seq(Fragments) /\ list # <<>>
  BY DEF Holding, TypeOK, Shaped
<1>2. 1 \in 1 .. Len(list) /\ 1 \in DOMAIN list /\ frag = list[1]
  BY <1>1
<1>3. Later(frag) = SubSeq(list, 1 + 1, Len(list))
  BY <1>1, <1>2, LaterOf
<1>4. BytesIn(SubSeq(list, 1, 0)) = 0
  BY <1>1, BytesUpTo
<1>5. /\ BytesIn(list) = BytesIn(SubSeq(list, 1, 1 - 1)) + Size(list[1]) + BytesIn(SubSeq(list, 1 + 1, Len(list)))
      /\ BytesIn(list) \in Nat /\ Size(list[1]) \in Nat /\ BytesIn(SubSeq(list, 1 + 1, Len(list))) \in Nat
  BY <1>1, <1>2, BytesSplit
<1>6. PICK n, m \in Nat : n = Size(list[1]) /\ m = BytesIn(Later(frag))
  BY <1>3, <1>5
<1>7. BytesIn(list) = 0 + n + m
  BY <1>3, <1>4, <1>5, <1>6
<1> QED
  BY <1>2, <1>6, <1>7

\* One byte on from a byte, with another behind it, is that one; from the last
\* fragment or from the end of the one before it the cursor is in the last.
LEMMA OneByteOn ==
    ASSUME Holding, InFragment, Remaining(cursor) > 0, unread >= 2,
           NEW g, g = Advanced(cursor, 1)
    PROVE  /\ Remaining(g) > 0 /\ g.at \in Nat
           /\ InLast \/ BeforeLast => Later(g.frag) = <<>>
<1>1. /\ unread \in Nat /\ Remaining(cursor) \in Nat /\ cursor \in Places /\ cursor.frag = frag
      /\ frag \in Ids /\ frag \in ToSet(list) /\ cursor.at \in Nat
      /\ unread = Remaining(cursor) + BytesIn(Later(frag)) /\ BytesIn(Later(frag)) \in Nat
      /\ Size(frag) = cursor.at + Remaining(cursor)
      /\ InLast => Remaining(cursor) = unread
  <2>1. unread > 0
    BY DEF Holding, TypeOK
  <2> QED
    BY <2>1, CursorHasNext
<1>2. list \in Seq(Ids) /\ Distinct(list) /\ stream \in Seq(Fragments) /\ MaxFragment \in Nat
  BY ParserAssumption DEF Holding, TypeOK, Shaped
<1>3. CASE Remaining(cursor) > 1
  <2>1. g = [cursor EXCEPT !.at = @ + 1]
    BY <1>1, <1>3 DEF Advanced
  <2>2. g.frag = frag /\ g.at = cursor.at + 1
    BY <1>1, <2>1 DEF Places
  <2>3. Remaining(g) = Remaining(cursor) - 1
    <3>1. Remaining(g) = Size(frag) - g.at
      BY <2>2 DEF Remaining
    <3> QED
      BY <1>1, <2>2, <3>1
  <2> QED
    BY <1>1, <1>3, <2>2, <2>3 DEF InLast, BeforeLast
<1>4. CASE Remaining(cursor) = 1
  <2>1. PICK later \in Seq(Ids) : later = Later(frag)
    BY <1>2, LaterTypes
  <2>2. later # <<>>
    BY <1>1, <1>4, <2>1, NoBytes
  <2>3. g = [frag |-> Head(later), at |-> 0]
    BY <1>1, <1>4, <2>1 DEF Advanced
  <2>4. Head(later) = later[1] /\ later[1] \in Ids /\ 1 \in DOMAIN later
    BY <2>1, <2>2
  <2>5. Size(later[1]) \in 1 .. MaxFragment
    BY <1>2, <2>4, SizeFacts
  <2>6. Remaining(g) > 0 /\ g.at \in Nat
    BY <1>2, <2>3, <2>4, <2>5 DEF Remaining
  <2>7. Later(g.frag) = SubSeq(later, 1 + 1, Len(later))
    <3>1. Later(Later(frag)[1]) = SubSeq(Later(frag), 1 + 1, Len(Later(frag)))
      BY <1>1, <1>2, <2>1, <2>4, LaterBehind
    <3>2. g.frag = Later(frag)[1]
      BY <2>1, <2>3, <2>4
    <3> QED
      BY <2>1, <3>1, <3>2
  <2>8. ~InLast
    BY <2>1, <2>2 DEF InLast
  <2>9. BeforeLast => Later(g.frag) = <<>>
    BY <2>1, <2>7 DEF BeforeLast
  <2> QED
    BY <2>6, <2>8, <2>9
<1> QED
  BY <1>1, <1>3, <1>4

\* What a step leaves alone that moves neither the cursor nor a fragment.
LEMMA SamePlace ==
    ASSUME UNCHANGED <<stream, frag, cursor, list>>
    PROVE  /\ InFragment' <=> InFragment
           /\ InLast' <=> InLast
           /\ BeforeLast' <=> BeforeLast
           /\ Remaining(cursor)' = Remaining(cursor)
           /\ BytesIn(list)' = BytesIn(list)
           /\ BytesIn(Front(list))' = BytesIn(Front(list))
<1>1. Later(frag)' = Later(frag) /\ Remaining(cursor)' = Remaining(cursor)
  BY DEF Later, Remaining, Size
<1>2. BytesIn(list)' = BytesIn(list) /\ BytesIn(Front(list))' = BytesIn(Front(list))
  BY DEF BytesIn, Size
<1> QED
  BY <1>1, <1>2 DEF InFragment, InLast, BeforeLast

\* Nothing is decoded at first.
LEMMA InitialFitting == Init => Fitting
BY DEF Init, Fitting, PrefixFits, BodyFits, ItemsFit, InFragment

\* A fragment arrives behind all others: what is there keeps its bytes.
LEMMA ReceiveFits == ASSUME Holding, Fitting, Receive PROVE Fitting'
<1>1. /\ pc = "idle" /\ pc' = "parse"
      /\ UNCHANGED <<link, frag, cursor, unread, list, body, corrupt, queue>>
  BY DEF Receive, parserVars
<1>2. /\ stream \in Seq(Fragments) /\ list \in Seq(Ids) /\ Distinct(list)
      /\ frag \in Ids \cup {None} /\ cursor \in Places \cup {None}
  BY DEF Holding, TypeOK, Shaped
<1>3. \A f \in Ids : stream'[f] = stream[f]
  <2>1. PICK bytes : stream' = Append(stream, bytes)
    BY DEF Receive
  <2> QED
    BY <1>2, <2>1 DEF Ids
<1>4. BytesIn(list)' = BytesIn(list) /\ BytesIn(Front(list))' = BytesIn(Front(list))
  <2>1. PICK fs, gs \in Seq(Ids) : fs = list /\ gs = Front(list)
    BY <1>2, FrontFacts
  <2>2. BytesIn(fs)' = BytesIn(fs) /\ BytesIn(gs)' = BytesIn(gs)
    BY <1>2, <1>3, <2>1, BytesStay
  <2>3. list' = fs /\ Front(list)' = gs
    BY <1>1, <2>1 DEF Front
  <2>4. BytesIn(list)' = BytesIn(fs)' /\ BytesIn(Front(list))' = BytesIn(gs)'
    BY <2>3 DEF BytesIn
  <2> QED
    BY <2>1, <2>2, <2>4
<1>5. (InLast' <=> InLast) /\ (InFragment' <=> InFragment)
  BY <1>1 DEF InLast, Later, InFragment
<1>6. InFragment => Remaining(cursor)' = Remaining(cursor)
  <2> SUFFICES ASSUME InFragment PROVE Remaining(cursor)' = Remaining(cursor)
    OBVIOUS
  <2>1. cursor.frag \in Ids
    BY <1>2 DEF InFragment, Places
  <2> QED
    BY <1>1, <1>3, <2>1 DEF Remaining, Size
<1>7. PrefixFits'
  BY <1>1, <1>5 DEF Fitting, PrefixFits, Waiting
<1>8. BodyFits'
  BY <1>1, <1>4, <1>5, <1>6 DEF Fitting, BodyFits, Waiting
<1>9. ItemsFit'
  BY <1>1, <1>3, ItemsKeepFitting DEF Fitting
<1> QED
  BY <1>1, <1>7, <1>8, <1>9 DEF Fitting

\* The fragment joins the work item: a byte left over in front of it is a prefix,
\* a body that waits for it is not held by what was there.
LEMMA TakeFragmentFits == ASSUME Holding, Fitting, TakeFragment PROVE Fitting'
<1>1. /\ pc = "parse" /\ pc' = NextStep
      /\ list' = Append(list, input)
      /\ frag' = IF frag = None THEN input ELSE frag
      /\ cursor' = IF unread = 0 THEN [frag |-> input, at |-> 0] ELSE cursor
      /\ unread' = unread + Size(input)
      /\ UNCHANGED <<stream, link, body, corrupt, queue>>
  BY DEF TakeFragment, Continue
<1>2. /\ stream \in Seq(Fragments) /\ list \in Seq(Ids) /\ Distinct(list) /\ input \in Ids
      /\ frag \in Ids \cup {None} /\ cursor \in Places \cup {None} /\ unread \in Nat /\ body \in Nat
      /\ input \notin ToSet(list) /\ link # "gone" /\ None \notin Ids
      /\ (frag = None <=> list = <<>>) /\ (frag # None => frag \in ToSet(list))
  BY <1>1, ParserAssumption DEF Holding, TypeOK, Shaped, Ids
<1>3. Distinct(Append(list, input))
  BY <1>1, TakeFragmentHolds DEF Holding, Shaped
<1>4. ItemsFit'
  BY <1>1, ItemsKeepFitting DEF Fitting
<1>5. pc' = IF body = 0 THEN "prefix" ELSE "body"
  BY <1>1 DEF NextStep
<1>6. body > 0 => frag # None
  BY <1>2 DEF Fitting
<1>7. PrefixFits'
  <2> SUFFICES ASSUME ~corrupt, body = 0, InFragment' PROVE InLast' \/ BeforeLast'
    BY <1>1, <1>5 DEF PrefixFits, Waiting
  <2>1. CASE frag = None
    <3>1. frag' = input /\ list = <<>>
      BY <1>1, <1>2, <2>1
    <3>2. Behind(Append(list, input), input) = <<>>
      BY <1>2, <1>3, BehindAppend
    <3>3. Later(frag)' = Behind(list', input)
      BY <3>1 DEF Later, Behind
    <3> QED
      BY <1>1, <3>2, <3>3 DEF InLast
  <2>2. CASE frag # None
    <3>1. frag' = frag /\ frag # input
      BY <1>1, <1>2, <2>2
    <3>2. unread # 0 /\ cursor' = cursor /\ InFragment
      BY <1>1, <3>1 DEF InFragment
    <3>3. InLast /\ unread = 1
      BY <1>1, <1>2, <3>2 DEF Fitting, PrefixFits, Waiting
    <3>4. Remaining(cursor) = 1
      BY <1>2, <3>2, <3>3, CursorHasNext
    <3>5. PICK p \in DOMAIN list : list[p] = frag
      BY <1>2, <2>2 DEF ToSet
    <3>6. Behind(list', frag) = Append(Behind(list, frag), input)
      BY <1>1, <1>2, <1>3, <3>5, BehindAppend
    <3>7. Later(frag)' = Append(<<>>, input)
      <4>1. Later(frag)' = Behind(list', frag)
        BY <3>1 DEF Later, Behind
      <4>2. Behind(list, frag) = <<>>
        BY <3>3, LaterIsBehind DEF InLast
      <4> QED
        BY <3>6, <4>1, <4>2
    <3>8. Remaining(cursor)' = 1
      BY <1>1, <3>2, <3>4 DEF Remaining, Size
    <3> QED
      BY <3>7, <3>8 DEF BeforeLast
  <2> QED
    BY <2>1, <2>2
<1>8. BodyFits'
  <2> SUFFICES ASSUME body > 0, InFragment'
               PROVE  /\ frag' = Head(list') /\ Remaining(cursor)' > 0
                      /\ ~corrupt => BytesIn(Front(list))' < cursor'.at + body
    BY <1>1, <1>5 DEF BodyFits, Waiting
  <2>1. frag # None /\ frag' = frag /\ frag # input /\ list # <<>>
    BY <1>1, <1>2, <1>6
  <2>2. unread # 0 /\ unread > 0 /\ cursor' = cursor /\ InFragment
    BY <1>1, <1>2, <2>1 DEF InFragment
  <2>3. /\ frag = Head(list) /\ Remaining(cursor) > 0
        /\ ~corrupt => BytesIn(list) < cursor.at + body
    BY <1>1, <2>2 DEF Fitting, BodyFits, Waiting
  <2>4. Head(list') = Head(list) /\ Front(list') = list
    <3>1. Head(Append(list, input)) = Head(list)
      BY <1>2, <2>1
    <3>2. Front(Append(list, input)) = list
      BY <1>2, FrontFacts
    <3> QED
      BY <1>1, <3>1, <3>2
  <2>5. BytesIn(Front(list))' = BytesIn(list)
    BY <1>1, <2>4 DEF BytesIn, Size
  <2>6. Remaining(cursor)' = Remaining(cursor)
    BY <1>1, <2>2 DEF Remaining, Size
  <2> QED
    BY <2>1, <2>2, <2>3, <2>4, <2>5, <2>6
<1>9. frag' # None
  BY <1>1, <1>2
<1> QED
  BY <1>1, <1>4, <1>5, <1>7, <1>8, <1>9 DEF Fitting

\* Between two packets the cursor is in the last fragment.
LEMMA DrainFits == ASSUME Holding, Fitting, Drain PROVE Fitting'
<1>1. /\ pc = "drain"
      /\ UNCHANGED <<stream, link, frag, cursor, unread, list, body, corrupt, queue>>
      /\ unread = 0 \/ pc' = NextStep
      /\ pc' \in {"end", NextStep}
  <2>1. corrupt \in BOOLEAN
    BY DEF Holding, TypeOK
  <2> QED
    BY <2>1 DEF Drain, Return, Continue, parserVars
<1>2. body = 0
  BY <1>1 DEF Holding, Shaped
<1>3. PrefixFits' /\ BodyFits'
  BY <1>1, <1>2, SamePlace DEF Fitting, PrefixFits, BodyFits, Waiting, NextStep
<1>4. ItemsFit'
  BY <1>1, ItemsKeepFitting DEF Fitting
<1> QED
  BY <1>1, <1>2, <1>3, <1>4 DEF Fitting

\* Steps between two calls of Parse.
LEMMA WaitingFits ==
    ASSUME Holding, Fitting, Waiting, Waiting', body > 0 /\ link' # "gone" => link # "gone",
           UNCHANGED <<stream, frag, cursor, unread, list, body, corrupt, queue>>
    PROVE  Fitting'
<1>1. PrefixFits' /\ BodyFits'
  BY SamePlace DEF Fitting, PrefixFits, BodyFits, Waiting
<1>2. ItemsFit'
  BY ItemsKeepFitting DEF Fitting
<1> QED
  BY <1>1, <1>2 DEF Fitting, Waiting

\* A parser that is gone holds nothing.
LEMMA DeleteParserFits == ASSUME Holding, Fitting, DeleteParser PROVE Fitting'
<1>1. /\ pc = "idle" /\ pc' = "idle" /\ link' = "gone" /\ frag' = None
      /\ UNCHANGED <<stream, corrupt, queue>>
  BY DEF DeleteParser
<1>2. ItemsFit'
  BY <1>1, ItemsKeepFitting DEF Fitting
<1> QED
  BY <1>1, <1>2 DEF Fitting, PrefixFits, BodyFits, InFragment

\* The work items behind the first stay as they are.
LEMMA ConsumeFits == ASSUME Holding, Fitting, Consume PROVE Fitting'
<1>1. /\ queue # <<>> /\ queue' = Tail(queue)
      /\ UNCHANGED <<stream, link, frag, cursor, unread, list, body, pc, corrupt>>
  BY DEF Consume, parserVars
<1>2. PrefixFits' /\ BodyFits'
  BY <1>1, SamePlace DEF Fitting, PrefixFits, BodyFits, Waiting
<1>3. ItemsFit'
  <2>1. stream \in Seq(Fragments) /\ queue \in Seq(WorkItems)
    BY DEF Holding, TypeOK
  <2>2. \A i \in DOMAIN queue' : i + 1 \in DOMAIN queue /\ queue'[i] = queue[i + 1]
    BY <1>1, <2>1
  <2>3. ASSUME NEW i \in DOMAIN queue'
        PROVE  ItemFits(queue[i])'
    <3>1. PICK item \in WorkItems : item = queue'[i] /\ ItemFits(item)
      BY <2>1, <2>2 DEF Fitting, ItemsFit
    <3>2. ItemFits(item)'
      BY <1>1, <2>1, <3>1, ItemKeepsFitting
    <3> QED
      BY <3>1, <3>2 DEF ItemFits, Copies, BytesIn, Size
  <2> QED
    BY <2>3 DEF ItemsFit
<1> QED
  BY <1>1, <1>2, <1>3 DEF Fitting

\* A prefix begins with the byte left over, or in the last fragment: with a
\* second byte unread it goes on there.
LEMMA PrefixStepFits == ASSUME Holding, Fitting, Prefix PROVE Fitting'
<1>1. pc = "prefix" /\ body = 0 /\ unread \in Nat /\ corrupt \in BOOLEAN /\ link # "gone"
  BY DEF Prefix, Fitting, Holding, TypeOK, Shaped
<1>2. CASE ~PrefixStarts \/ ~CanNormalize
  <2>1. /\ pc' = "end" /\ UNCHANGED <<stream, link, frag, cursor, unread, list, body, corrupt, queue>>
    BY <1>1, <1>2 DEF Prefix, Return, parserVars
  <2>2. ~corrupt /\ InFragment /\ unread > 0 => InLast /\ unread = 1
    <3> SUFFICES ASSUME ~corrupt, InFragment, unread > 0 PROVE InLast /\ unread = 1
      OBVIOUS
    <3>1. CanNormalize /\ (BeforeLast => unread >= 2)
      BY CursorHasNext
    <3>2. unread = 1
      BY <1>1, <1>2, <3>1 DEF PrefixStarts
    <3>3. InLast \/ BeforeLast
      BY <1>1 DEF Fitting, PrefixFits
    <3> QED
      BY <3>1, <3>2, <3>3
  <2>3. PrefixFits' /\ BodyFits'
    BY <1>1, <2>1, <2>2, SamePlace DEF PrefixFits, BodyFits, Waiting
  <2>4. ItemsFit'
    BY <2>1, ItemsKeepFitting DEF Fitting
  <2> QED
    BY <1>1, <2>1, <2>3, <2>4 DEF Fitting
<1>3. CASE PrefixStarts /\ CanNormalize
  <2>1. unread >= 2 /\ InFragment
    BY <1>1, <1>3 DEF PrefixStarts, CanNormalize
  <2>2. pc' \in {"endPrefix", "second"} /\ UNCHANGED <<stream, link, list, body, corrupt, queue>>
    BY <1>3 DEF Prefix, Continue
  <2>3. ~corrupt => Remaining(cursor) > 0 /\ Normalized = cursor /\ (InLast \/ BeforeLast)
    <3>1. ~corrupt => InLast \/ BeforeLast
      BY <1>1, <2>1 DEF Fitting, PrefixFits
    <3>2. InLast => Remaining(cursor) > 0
      BY <1>1, <2>1, CursorHasNext
    <3> QED
      BY <3>1, <3>2 DEF Normalized, BeforeLast
  <2>4. ASSUME ~corrupt
        PROVE  InLast' \/ BeforeLast'
    <3>1. CASE ByteAt(Normalized) < OneByteLimit
      <4>1. cursor' = cursor /\ frag' = frag
        BY <1>3, <2>1, <2>3, <2>4, <3>1 DEF Prefix, InFragment
      <4> QED
        BY <2>2, <2>3, <2>4, <4>1, SamePlace
    <3>2. CASE ~ (ByteAt(Normalized) < OneByteLimit)
      <4>1. PICK g : g = Advanced(cursor, 1)
        OBVIOUS
      <4>2. frag' = g.frag
        BY <1>3, <2>3, <2>4, <3>2, <4>1 DEF Prefix
      <4>3. Later(g.frag) = <<>>
        BY <2>1, <2>3, <2>4, <4>1, OneByteOn
      <4>4. Later(frag)' = Later(g.frag)
        BY <2>2, <4>2 DEF Later
      <4> QED
        BY <4>3, <4>4 DEF InLast
    <3> QED
      BY <3>1, <3>2
  <2>5. PrefixFits' /\ BodyFits'
    BY <1>1, <2>2, <2>4 DEF PrefixFits, BodyFits, Waiting
  <2>6. ItemsFit'
    BY <2>2, ItemsKeepFitting DEF Fitting
  <2> QED
    BY <1>1, <2>2, <2>5, <2>6 DEF Fitting
<1> QED
  BY <1>2, <1>3

\* The second byte of a prefix is not consumed yet.
LEMMA SecondFits == ASSUME Holding, Fitting, Second PROVE Fitting'
<1>1. pc = "second" /\ body = 0 /\ unread \in Nat /\ unread > 0 /\ corrupt \in BOOLEAN
  BY DEF Second, Fitting, Holding, TypeOK, Shaped
<1>2. CASE ~CanNormalize
  <2>1. /\ pc' = "end" /\ UNCHANGED <<stream, link, frag, cursor, unread, list, body, corrupt, queue>>
    BY <1>1, <1>2 DEF Second, Return, parserVars
  <2>2. ~InFragment
    BY <1>1, <1>2, CursorHasNext
  <2>3. PrefixFits' /\ BodyFits'
    BY <2>1, <2>2, SamePlace DEF PrefixFits, BodyFits
  <2>4. ItemsFit'
    BY <2>1, ItemsKeepFitting DEF Fitting
  <2> QED
    BY <1>1, <2>1, <2>3, <2>4 DEF Fitting
<1>3. CASE CanNormalize
  <2>1. InFragment
    BY <1>1, <1>3 DEF CanNormalize
  <2>2. /\ cursor' = Normalized /\ frag' = cursor'.frag /\ UNCHANGED <<stream, link, list, body, unread, queue>>
        /\ (corrupt' = corrupt /\ pc' = "endPrefix") \/ (corrupt' = TRUE /\ pc' = "end")
    BY <1>1, <1>3 DEF Second, Return, Continue
  <2>3. ASSUME ~corrupt
        PROVE  InLast' \/ BeforeLast'
    <3>1. InLast \/ BeforeLast
      BY <1>1, <2>1, <2>3 DEF Fitting, PrefixFits
    <3>2. Remaining(cursor) > 0
      BY <1>1, <2>1, <3>1, CursorHasNext DEF BeforeLast
    <3>3. cursor' = cursor /\ frag' = frag
      BY <2>1, <2>2, <3>2 DEF Normalized, InFragment
    <3> QED
      BY <2>2, <3>1, <3>3, SamePlace
  <2>4. PrefixFits' /\ BodyFits'
    BY <1>1, <2>2, <2>3 DEF PrefixFits, BodyFits, Waiting
  <2>5. ItemsFit'
    BY <2>2, ItemsKeepFitting DEF Fitting
  <2> QED
    BY <1>1, <2>2, <2>4, <2>5 DEF Fitting
<1> QED
  BY <1>2, <1>3

\* The body begins in the last fragment, and the work item with it.
LEMMA EndPrefixFits == ASSUME Holding, Fitting, EndPrefix PROVE Fitting'
<1>1. /\ pc = "endPrefix" /\ body = 0 /\ unread \in Nat /\ unread >= 1 /\ corrupt \in BOOLEAN
      /\ InFragment /\ Remaining(cursor) > 0
      /\ TypeOK /\ Distinct(list) /\ list \in Seq(Ids) /\ None \notin Ids
      /\ stream \in Seq(Fragments)
  BY ParserAssumption DEF EndPrefix, Fitting, Holding, TypeOK, Shaped, Ids
<1>2. /\ cursor \in Places /\ cursor.frag \in ToSet(list) /\ AheadOf(cursor)
  BY <1>1, CursorHasNext DEF Holding, Ahead
<1>3. PICK g : g = Advanced(cursor, 1)
  OBVIOUS
<1>4. CanAdvance(cursor, 1) /\ LandsOn(g, 1)
  BY <1>1, <1>2, <1>3, AdvancedFacts
<1>5. /\ frag' = g.frag /\ unread' = unread - 1
      /\ cursor' = IF unread = 1 THEN None ELSE g
      /\ UNCHANGED <<stream, link, queue>>
  BY <1>1, <1>3, <1>4 DEF EndPrefix, Return, Continue
<1>6. corrupt => corrupt'
  BY <1>1, <1>4 DEF EndPrefix, Return, Continue
<1>7. ItemsFit'
  BY <1>5, <1>6, ItemsKeepFitting DEF Fitting
<1>8. g.frag \in Ids
  BY <1>4 DEF LandsOn
<1>9. CASE TooLong(size)
  <2>1. corrupt' /\ pc' = "end" /\ body' = 0
    BY <1>1, <1>4, <1>9 DEF EndPrefix, Return
  <2> QED
    BY <1>7, <2>1 DEF Fitting, PrefixFits, BodyFits
<1>10. CASE ~TooLong(size)
  <2>1. /\ body' = size /\ list' = Kept(g.frag) /\ pc' = "body" /\ corrupt' = corrupt
    BY <1>4, <1>5, <1>10 DEF EndPrefix, Continue
  <2>2. PrefixFits'
    BY <2>1 DEF PrefixFits, Waiting
  <2>3. ASSUME size > 0, InFragment', unread' > 0
        PROVE  /\ frag' = Head(list') /\ Remaining(cursor)' > 0
               /\ ~corrupt => BytesIn(Front(list))' < cursor'.at + size
    <3>1. unread >= 2 /\ cursor' = g
      BY <1>1, <1>5, <2>3
    <3>2. Remaining(g) > 0 /\ g.at \in Nat
      BY <1>1, <1>3, <3>1, OneByteOn
    <3>3. Later(g.frag) \in Seq(Ids)
      BY <1>1, LaterTypes
    <3>4. Head(list') = g.frag
      BY <1>8, <2>1, <3>3 DEF Kept
    <3>5. Remaining(cursor)' > 0
      BY <1>5, <3>1, <3>2 DEF Remaining, Size
    <3>6. ASSUME ~corrupt
          PROVE  BytesIn(Front(list))' < cursor'.at + size
      <4>1. InLast \/ BeforeLast
        BY <1>1, <3>6 DEF Fitting, PrefixFits
      <4>2. Later(g.frag) = <<>>
        BY <1>1, <1>3, <3>1, <4>1, OneByteOn
      <4>3. list' = Append(<<>>, g.frag)
        BY <2>1, <4>2 DEF Kept
      <4>4. Front(list') = <<>>
        <5>1. <<>> \in Seq(Ids)
          OBVIOUS
        <5>2. \A e \in Ids : Front(Append(<<>>, e)) = <<>>
          BY <5>1, FrontFacts
        <5> QED
          BY <1>8, <4>3, <5>2
      <4>5. BytesIn(Front(list))' = BytesIn(<<>>)
        BY <1>5, <4>4 DEF BytesIn, Size
      <4>6. size \in Nat
        <5>1. ByteBase * ByteBase \in Nat
          BY ParserAssumption
        <5> QED
          BY <1>1, <5>1 DEF TypeOK
      <4> QED
        BY <2>3, <3>1, <3>2, <4>5, <4>6, NoBytes
    <3> QED
      BY <1>5, <3>4, <3>5, <3>6
  <2>4. BodyFits'
    BY <2>1, <2>3 DEF BodyFits, Waiting
  <2>5. frag' # None
    BY <1>1, <1>5, <1>8
  <2> QED
    BY <1>7, <2>1, <2>2, <2>4, <2>5 DEF Fitting
<1> QED
  BY <1>9, <1>10

\* A body that is all there is in the work item, which needs its last fragment
\* for it; one that is not, is not held by the fragments there are.
LEMMA BodyStepFits == ASSUME Holding, Fitting, Body PROVE Fitting'
<1>1. /\ pc = "body" /\ body \in Nat /\ unread \in Nat /\ corrupt \in BOOLEAN /\ link # "gone"
      /\ frag \in ToSet(list) /\ frag # None /\ frag \in Ids
      /\ TypeOK /\ Distinct(list) /\ Ahead /\ list \in Seq(Ids) /\ list # <<>>
      /\ queue \in Seq(WorkItems) /\ stream \in Seq(Fragments) /\ None \notin Places
  <2>1. None \notin Places
    BY ParserAssumption DEF Places, Ids
  <2> QED
    BY <2>1 DEF Body, Holding, TypeOK, Shaped
<1>2. ASSUME body > 0, InFragment, unread > 0
      PROVE  /\ frag = Head(list) /\ Remaining(cursor) > 0 /\ Normalized = cursor
             /\ cursor \in Places /\ cursor.frag = frag /\ cursor.at \in Nat
             /\ ~corrupt => BytesIn(Front(list)) < cursor.at + body
             /\ BytesIn(list) = cursor.at + unread
             /\ Complete => CanAdvance(cursor, body)
  <2>1. /\ frag = Head(list) /\ Remaining(cursor) > 0
        /\ ~corrupt => BytesIn(Front(list)) < cursor.at + body
    BY <1>1, <1>2 DEF Fitting, BodyFits
  <2>2. Normalized = cursor
    BY <2>1 DEF Normalized
  <2>3. /\ cursor \in Places /\ cursor.frag = frag /\ cursor.at \in Nat
        /\ unread = Remaining(cursor) + BytesIn(Later(frag)) /\ BytesIn(Later(frag)) \in Nat
        /\ Remaining(cursor) \in Nat /\ Size(frag) = cursor.at + Remaining(cursor)
    BY <1>2, CursorHasNext
  <2>4. BytesIn(list) = Size(frag) + BytesIn(Later(frag))
    BY <1>1, <2>1, ListBytes
  <2>5. BytesIn(list) = cursor.at + unread
    BY <2>3, <2>4
  <2>6. AheadOf(cursor)
    BY <1>1, <1>2 DEF Ahead
  <2>7. Complete => CanAdvance(cursor, body)
    BY <1>1, <2>1, <2>3, <2>6, AdvancedFacts DEF Complete
  <2> QED
    BY <2>1, <2>2, <2>3, <2>5, <2>7
<1>3. CASE ~Complete \/ ~CanNormalize \/ ~CanAdvance(Normalized, body)
  <2>1. /\ pc' = "end" /\ UNCHANGED <<stream, link, frag, cursor, unread, list, body, corrupt, queue>>
    BY <1>1, <1>3 DEF Body, Return, parserVars
  <2>2. body = 0 => ~ (InFragment /\ unread > 0)
    <3>1. body = 0 => Complete /\ CanAdvance(Normalized, body)
      BY <1>1 DEF Complete, CanAdvance
    <3> QED
      BY <1>3, <3>1, CursorHasNext
  <2>3. body > 0 /\ InFragment /\ unread > 0 /\ ~corrupt => BytesIn(list) < cursor.at + body
    <3> SUFFICES ASSUME body > 0, InFragment, unread > 0
                 PROVE  BytesIn(list) < cursor.at + body
      OBVIOUS
    <3>1. ~Complete
      BY <1>2, <1>3, CursorHasNext
    <3>2. cursor.at \in Nat /\ BytesIn(list) = cursor.at + unread
      BY <1>2
    <3> QED
      BY <1>1, <3>1, <3>2 DEF Complete
  <2>4. PrefixFits'
    BY <1>1, <2>1, <2>2, SamePlace DEF PrefixFits
  <2>5. BodyFits'
    BY <1>2, <2>1, <2>3, SamePlace DEF BodyFits
  <2>6. ItemsFit'
    BY <2>1, ItemsKeepFitting DEF Fitting
  <2>7. frag' # None
    BY <1>1, <2>1
  <2> QED
    BY <2>1, <2>4, <2>5, <2>6, <2>7 DEF Fitting
<1>4. CASE Complete /\ CanNormalize /\ CanAdvance(Normalized, body)
  <2>1. PICK c, item, tail : c = Normalized /\ item = Finished(c) /\ tail = Last(list)
    OBVIOUS
  <2>2. /\ queue' = Append(queue, item) /\ body' = 0 /\ corrupt' = corrupt /\ pc' = "drain"
        /\ UNCHANGED <<stream, link>>
    BY <1>1, <1>4, <2>1 DEF Body, Return
  <2>3. body > 0 => InFragment /\ unread > 0 /\ body <= unread
    BY <1>1, <1>4 DEF Complete, CanNormalize
  <2>4. ItemFits(item)
    <3>1. item.body = body /\ item.list = list /\ item.start = c
      BY <2>1 DEF Finished
    <3>2. ASSUME body > 0
          PROVE  /\ c # None /\ c.frag = Head(list) /\ c.at + body <= BytesIn(list)
                 /\ ~corrupt => BytesIn(Front(list)) < c.at + body
      <4>1. /\ c = cursor /\ c \in Places /\ c.frag = Head(list) /\ c.at \in Nat
            /\ ~corrupt => BytesIn(Front(list)) < c.at + body
            /\ BytesIn(list) = c.at + unread
        BY <1>2, <2>1, <2>3, <3>2
      <4> QED
        BY <1>1, <2>3, <3>2, <4>1
    <3>3. body = 0 \/ body > 0
      BY <1>1
    <3> QED
      BY <3>1, <3>2, <3>3 DEF ItemFits, Copies
  <2>5. item \in WorkItems
    <3>1. c \in Places \cup {None}
      <4>1. CASE unread = 0
        BY <1>1, <2>1, <4>1 DEF Normalized, TypeOK
      <4>2. CASE unread # 0
        BY <1>1, <1>4, <2>1, <4>2, NormalizedFacts
      <4> QED
        BY <4>1, <4>2
    <3> QED
      BY <1>1, <2>1, <3>1 DEF Finished, WorkItems, TypeOK
  <2>6. ItemsFit'
    <3>1. ItemFits(item)'
      BY <1>1, <2>2, <2>4, <2>5, ItemKeepsFitting
    <3>2. ASSUME NEW i \in DOMAIN queue'
          PROVE  ItemFits(queue[i])'
      <4>1. CASE queue'[i] = item
        BY <3>1, <4>1 DEF ItemFits, Copies, BytesIn, Size
      <4>2. CASE i \in DOMAIN queue /\ queue'[i] = queue[i]
        <5>1. PICK old \in WorkItems : old = queue'[i] /\ ItemFits(old)
          BY <1>1, <4>2 DEF Fitting, ItemsFit
        <5>2. ItemFits(old)'
          BY <1>1, <2>2, <5>1, ItemKeepsFitting
        <5> QED
          BY <5>1, <5>2 DEF ItemFits, Copies, BytesIn, Size
      <4>3. queue'[i] = item \/ (i \in DOMAIN queue /\ queue'[i] = queue[i])
        BY <1>1, <2>2, <2>5
      <4> QED
        BY <4>1, <4>2, <4>3
    <3> QED
      BY <3>2 DEF ItemsFit
  <2>7. InFragment' => InLast'
    <3>1. CASE unread = body
      BY <1>1, <1>4, <3>1 DEF Body, InFragment
    <3>2. CASE unread # body
      <4>1. frag' = tail /\ list' = <<tail>>
        BY <1>1, <1>4, <2>1, <3>2 DEF Body
      <4>2. tail \in Ids
        <5>1. Len(list) \in DOMAIN list /\ tail = list[Len(list)]
          BY <1>1, <2>1 DEF Last
        <5> QED
          BY <1>1, <5>1
      <4>3. 1 \in DOMAIN <<tail>> /\ <<tail>> \in Seq(Ids) /\ Distinct(<<tail>>)
        BY <4>2 DEF Distinct
      <4>4. Behind(<<tail>>, <<tail>>[1]) = SubSeq(<<tail>>, 1 + 1, Len(<<tail>>))
        BY <4>3, BehindOf
      <4>5. Later(frag)' = Behind(<<tail>>, tail)
        BY <4>1 DEF Later, Behind
      <4>6. Behind(<<tail>>, tail) = <<>>
        BY <4>4
      <4> QED
        BY <4>5, <4>6 DEF InLast
    <3> QED
      BY <3>1, <3>2
  <2>8. PrefixFits' /\ BodyFits'
    BY <2>2, <2>7 DEF PrefixFits, BodyFits, Waiting
  <2> QED
    BY <2>2, <2>6, <2>8 DEF Fitting
<1> QED
  BY <1>3, <1>4

\* Every step keeps Fitting.
LEMMA FittingIsInductive == Holding /\ Fitting /\ [Next]_vars => Fitting'
<1> SUFFICES ASSUME Holding, Fitting, [Next]_vars PROVE Fitting'
  OBVIOUS
<1>1. CASE Receive
  BY <1>1, ReceiveFits
<1>2. CASE TakeFragment
  BY <1>2, TakeFragmentFits
<1>3. CASE Drain
  BY <1>3, DrainFits
<1>4. CASE EndReceive \/ PeerCloses
  <2>1. /\ UNCHANGED <<stream, frag, cursor, unread, list, body, corrupt, queue>>
        /\ (link' = link \/ link # "gone") /\ Waiting /\ Waiting'
    <3>1. CASE EndReceive
      <4>1. link # "gone"
        BY <3>1 DEF EndReceive, Holding, Shaped
      <4> QED
        BY <3>1, <4>1 DEF EndReceive, parserVars, Waiting
    <3>2. CASE PeerCloses
      BY <3>2 DEF PeerCloses, parserVars, Waiting
    <3> QED
      BY <1>4, <3>1, <3>2
  <2> QED
    BY <2>1, WaitingFits
<1>5. CASE Prefix
  BY <1>5, PrefixStepFits
<1>6. CASE Second
  BY <1>6, SecondFits
<1>7. CASE EndPrefix
  BY <1>7, EndPrefixFits
<1>8. CASE Body
  BY <1>8, BodyStepFits
<1>9. CASE Consume
  BY <1>9, ConsumeFits
<1>10. CASE DeleteParser
  BY <1>10, DeleteParserFits
<1>11. CASE HalfClose \/ UNCHANGED vars
  <2>1. /\ UNCHANGED <<stream, frag, cursor, unread, list, body, pc, corrupt, queue>>
        /\ link' = link \/ link = "up"
    BY <1>11 DEF HalfClose, vars, parserVars
  <2>2. PrefixFits' /\ BodyFits'
    BY <2>1, SamePlace DEF Fitting, PrefixFits, BodyFits, Waiting
  <2>3. ItemsFit'
    BY <2>1, ItemsKeepFitting DEF Fitting
  <2> QED
    BY <2>1, <2>2, <2>3 DEF Fitting
<1> QED
  BY <1>1, <1>2, <1>3, <1>4, <1>5, <1>6, <1>7, <1>8, <1>9, <1>10, <1>11 DEF Next

\* So it always holds.
LEMMA FittingAlways == Spec => []Fitting
BY InitialFitting, HoldingAlways, FittingIsInductive, PTL DEF Spec

\* A finished work item holds no fragment its body does not need, however the
\* stream was cut: what the client thread logs as unused buffers never comes from
\* a stream that was not found corrupt.
THEOREM BuffersAreUsed == Spec => []NoUnusedBuffers
<1>1. Fitting => NoUnusedBuffers
  BY DEF Fitting, ItemsFit, ItemFits, NoUnusedBuffers
<1> QED
  BY <1>1, FittingAlways, PTL

\* The client thread drops no finished work item without a word: each begins
\* where its body does and holds all of it.
THEOREM NoItemIsDropped == Spec => []ItemsAreWhole
<1>1. Fitting => ItemsAreWhole
  BY DEF Fitting, ItemsFit, ItemFits, ItemsAreWhole
<1> QED
  BY <1>1, FittingAlways, PTL

-----------------------------------------------------------------------------
(***************************************************************************)
(* Theorems about StreamParser: the packets that come out are those the    *)
(* peer framed, whatever fragments the stream comes in.                    *)
(*                                                                         *)
(* Three things carry the argument.  What a stream frames is fixed by its  *)
(* bytes: more of them add packets and change none (Reaches).  The         *)
(* fragments of a work item follow one another in the stream (Gapless), so *)
(* a place in one is a place in the stream, and the cursor's is behind the *)
(* bytes consumed.  And each step of Parse is at a known place in the      *)
(* packet that begins behind those that came out (Decoded).                *)
(***************************************************************************)

-----------------------------------------------------------------------------
(* What a sequence of bytes frames                                         *)

\* A packet has a place: behind its prefix, and not behind the last byte.
LEMMA PrefixTypes ==
    ASSUME NEW b \in Seq(Byte), NEW i \in 0 .. Len(b), HasPrefix(b, i)
    PROVE  /\ StartAt(b, i) \in i + 1 .. Len(b) /\ StartAt(b, i) \in Nat
           /\ LengthAt(b, i) \in Nat /\ EndAt(b, i) \in Nat /\ EndAt(b, i) > i
           /\ i + 1 \in 1 .. Len(b)
           /\ LongAt(b, i) => i + 2 \in 1 .. Len(b)
<1>1. /\ Len(b) \in Nat /\ i < Len(b) /\ ByteBase \in Nat /\ OneByteLimit \in Nat
      /\ \A j \in 1 .. Len(b) : b[j] \in Byte
  BY ParserAssumption DEF HasPrefix
<1>2. i + 1 \in 1 .. Len(b) /\ b[i + 1] \in Nat
  BY <1>1 DEF Byte
<1>3. /\ StartAt(b, i) \in i + 1 .. Len(b) /\ StartAt(b, i) \in Nat
      /\ LongAt(b, i) => i + 2 \in 1 .. Len(b)
  BY <1>1 DEF HasPrefix, StartAt
<1>4. LengthAt(b, i) \in Nat
  <2>1. CASE LongAt(b, i)
    <3>1. b[i + 1] - OneByteLimit \in Nat
      BY <1>1, <1>2, <2>1 DEF LongAt
    <3>2. b[i + 2] \in Nat
      BY <1>1, <1>3, <2>1 DEF Byte
    <3>3. (b[i + 1] - OneByteLimit) * ByteBase \in Nat
      BY <1>1, <3>1
    <3> QED
      BY <2>1, <3>2, <3>3 DEF LengthAt
  <2>2. CASE ~LongAt(b, i)
    BY <1>2, <2>2 DEF LengthAt
  <2> QED
    BY <2>1, <2>2
<1> QED
  BY <1>2, <1>3, <1>4 DEF EndAt

\* A complete packet ends behind its place and not behind the last byte.
LEMMA PacketTypes ==
    ASSUME NEW b \in Seq(Byte), NEW i \in 0 .. Len(b), HasPacket(b, i)
    PROVE  /\ EndAt(b, i) \in i + 1 .. Len(b) /\ EndAt(b, i) \in 0 .. Len(b)
           /\ PacketAt(b, i) \in Seq(Byte)
<1>1. HasPrefix(b, i) /\ EndAt(b, i) <= Len(b)
  BY DEF HasPacket
<1>2. /\ StartAt(b, i) \in i + 1 .. Len(b) /\ StartAt(b, i) \in Nat
      /\ LengthAt(b, i) \in Nat /\ EndAt(b, i) \in Nat /\ EndAt(b, i) > i
  BY <1>1, PrefixTypes
<1>3. EndAt(b, i) = StartAt(b, i) + LengthAt(b, i)
  BY DEF EndAt
<1>4. PacketAt(b, i) \in Seq(Byte)
  <2>1. PICK s, e \in Nat : s = StartAt(b, i) /\ e = EndAt(b, i) /\ e <= Len(b)
    BY <1>1, <1>2
  <2>2. \A j \in 1 .. Len(b) : b[j] \in Byte
    OBVIOUS
  <2>3. SubSeq(b, s + 1, e) \in Seq(Byte)
    BY <2>1, <2>2
  <2> QED
    BY <2>1, <2>3 DEF PacketAt
<1> QED
  BY <1>1, <1>2, <1>4

\* More bytes change nothing of what is framed already.
LEMMA MoreBytes ==
    ASSUME NEW b \in Seq(Byte), NEW more \in Seq(Byte), Len(b) <= Len(more),
           \A j \in 1 .. Len(b) : more[j] = b[j],
           NEW i \in 0 .. Len(b), HasPrefix(b, i)
    PROVE  /\ HasPrefix(more, i) /\ (LongAt(more, i) <=> LongAt(b, i))
           /\ StartAt(more, i) = StartAt(b, i)
           /\ LengthAt(more, i) = LengthAt(b, i)
           /\ CorruptAt(more, i) <=> CorruptAt(b, i)
           /\ HasPacket(b, i) => /\ HasPacket(more, i) /\ EndAt(more, i) = EndAt(b, i)
                                 /\ PacketAt(more, i) = PacketAt(b, i)
<1>1. /\ Len(b) \in Nat /\ Len(more) \in Nat /\ i < Len(b)
      /\ i + 1 \in 1 .. Len(b) /\ (LongAt(b, i) => i + 2 \in 1 .. Len(b))
      /\ StartAt(b, i) \in i + 1 .. Len(b) /\ StartAt(b, i) \in Nat /\ LengthAt(b, i) \in Nat
  BY PrefixTypes DEF HasPrefix
<1>2. more[i + 1] = b[i + 1] /\ (LongAt(b, i) => more[i + 2] = b[i + 2])
  BY <1>1
<1>3. LongAt(more, i) <=> LongAt(b, i)
  BY <1>2 DEF LongAt
<1>4. StartAt(more, i) = StartAt(b, i) /\ LengthAt(more, i) = LengthAt(b, i)
  BY <1>2, <1>3 DEF StartAt, LengthAt
<1>5. HasPrefix(more, i)
  BY <1>1, <1>4 DEF HasPrefix
<1>6. CorruptAt(more, i) <=> CorruptAt(b, i)
  BY <1>3, <1>4, <1>5 DEF CorruptAt
<1>7. EndAt(more, i) = EndAt(b, i)
  BY <1>4 DEF EndAt
<1>8. ASSUME HasPacket(b, i)
      PROVE  HasPacket(more, i) /\ PacketAt(more, i) = PacketAt(b, i)
  <2>1. EndAt(b, i) <= Len(b) /\ EndAt(b, i) \in Nat /\ ~CorruptAt(b, i)
    BY <1>8, PacketTypes DEF HasPacket
  <2>2. HasPacket(more, i)
    BY <1>1, <1>5, <1>6, <1>7, <2>1 DEF HasPacket
  <2>3. PICK s, e \in Nat : s = StartAt(b, i) /\ e = EndAt(b, i) /\ s <= e /\ e <= Len(b) /\ e <= Len(more)
    BY <1>1, <2>1 DEF EndAt
  <2> DEFINE t == SubSeq(b, s + 1, e)
             u == SubSeq(more, s + 1, e)
  <2>4. /\ \A j \in 1 .. Len(b) : b[j] \in Byte
        /\ \A j \in 1 .. Len(more) : more[j] \in Byte
    OBVIOUS
  <2>5. t \in Seq(Byte) /\ Len(t) = e - s /\ \A j \in 1 .. e - s : t[j] = b[s + j]
    BY <1>1, <2>3, <2>4
  <2>8. u \in Seq(Byte) /\ Len(u) = e - s /\ \A j \in 1 .. e - s : u[j] = more[s + j]
    BY <1>1, <2>3, <2>4
  <2>9. \A j \in 1 .. e - s : s + j \in 1 .. Len(b)
    BY <1>1, <2>3
  <2> HIDE DEF t, u
  <2>6. \A j \in 1 .. Len(t) : t[j] = u[j]
    BY <2>5, <2>8, <2>9
  <2>7. t = u
    BY <2>5, <2>6, <2>8, SeqEqual
  <2> QED
    BY <1>4, <1>7, <2>2, <2>3, <2>7 DEF PacketAt, t, u
<1> QED
  BY <1>3, <1>4, <1>5, <1>6, <1>7, <1>8

\* Packets and a verdict on what follows them.
Frames == [packets : Seq(Seq(Byte)), corrupt : BOOLEAN]

\* One unfolding of the recursion gives frames if what it refers to does.
LEMMA FramedAtTypes ==
    ASSUME NEW b \in Seq(Byte), NEW i \in 0 .. Len(b), NEW g,
           HasPacket(b, i) => g[EndAt(b, i)] \in Frames
    PROVE  FramedAt(b, g, i) \in Frames
<1>1. CorruptAt(b, i) \in BOOLEAN
  BY DEF CorruptAt
<1>2. CASE HasPacket(b, i)
  <2>1. PICK packet, rest : packet = PacketAt(b, i) /\ rest = g[EndAt(b, i)]
    OBVIOUS
  <2>2. packet \in Seq(Byte) /\ rest.packets \in Seq(Seq(Byte)) /\ rest.corrupt \in BOOLEAN
    BY <1>2, <2>1, PacketTypes DEF Frames
  <2>3. <<packet>> \o rest.packets \in Seq(Seq(Byte))
    BY <2>2
  <2>4. FramedAt(b, g, i) = [packets |-> <<packet>> \o rest.packets, corrupt |-> rest.corrupt]
    BY <1>2, <2>1 DEF FramedAt
  <2> QED
    BY <2>2, <2>3, <2>4 DEF Frames
<1>3. CASE ~HasPacket(b, i)
  BY <1>1, <1>3 DEF FramedAt, Frames
<1> QED
  BY <1>2, <1>3

\* The recursion of Framed is well-founded, since it looks at later places only:
\* there is such a function, and it gives frames everywhere.
LEMMA FramedIs ==
    ASSUME NEW b \in Seq(Byte)
    PROVE  \A i \in 0 .. Len(b) :
              Framed(b)[i] = FramedAt(b, Framed(b), i) /\ Framed(b)[i] \in Frames
<1> DEFINE N == Len(b)
           from == Framed(b)
           Beyond(k) == \E g \in [0 .. N -> Frames] : \A i \in 0 .. N : i >= k => g[i] = FramedAt(b, g, i)
           T == {k \in 0 .. N + 1 : Beyond(k)}
<1>1. N \in Nat
  OBVIOUS
<1>2. \A i \in 0 .. N : HasPacket(b, i) => EndAt(b, i) \in 0 .. N /\ EndAt(b, i) > i
  <2>1. TAKE i \in 0 .. N
  <2> HAVE HasPacket(b, i)
  <2>2. EndAt(b, i) \in i + 1 .. N /\ EndAt(b, i) \in 0 .. N
    BY PacketTypes
  <2> QED
    BY <1>1, <2>2
<1> HIDE DEF N
<1>3. Beyond(N + 1)
  <2> DEFINE none == [packets |-> <<>>, corrupt |-> FALSE]
             g == [i \in 0 .. N |-> none]
  <2>1. none \in Frames
    BY DEF Frames
  <2>2. g \in [0 .. N -> Frames] /\ \A i \in 0 .. N : ~ (i >= N + 1)
    BY <1>1, <2>1
  <2> HIDE DEF g
  <2> QED
    BY <2>2
<1>4. ASSUME NEW k \in 1 .. N + 1, Beyond(k)
      PROVE  Beyond(k - 1)
  <2>1. PICK g \in [0 .. N -> Frames] : \A i \in 0 .. N : i >= k => g[i] = FramedAt(b, g, i)
    BY <1>4
  <2>2. PICK new : new = FramedAt(b, g, k - 1)
    OBVIOUS
  <2> DEFINE h == [g EXCEPT ![k - 1] = new]
  <2>3. k - 1 \in 0 .. N
    BY <1>1
  <2>4. new \in Frames
    <3>1. HasPacket(b, k - 1) => g[EndAt(b, k - 1)] \in Frames
      BY <1>2, <2>3
    <3> QED
      BY <2>2, <2>3, <3>1, FramedAtTypes DEF N
  <2>5. h \in [0 .. N -> Frames] /\ h[k - 1] = new /\ \A i \in 0 .. N : i >= k => h[i] = g[i]
    BY <1>1, <2>3, <2>4
  <2> HIDE DEF h
  <2>6. ASSUME NEW i \in 0 .. N, i >= k - 1
        PROVE  h[i] = FramedAt(b, h, i)
    <3>1. HasPacket(b, i) => h[EndAt(b, i)] = g[EndAt(b, i)]
      <4>1. HasPacket(b, i) => EndAt(b, i) \in 0 .. N /\ EndAt(b, i) >= k
        BY <1>1, <1>2, <2>6
      <4> QED
        BY <2>5, <4>1
    <3>2. FramedAt(b, h, i) = FramedAt(b, g, i)
      BY <3>1 DEF FramedAt
    <3>3. CASE i = k - 1
      BY <2>2, <2>5, <3>2, <3>3
    <3>4. CASE i >= k
      BY <2>1, <2>5, <3>2, <3>4
    <3> QED
      BY <1>1, <2>6, <3>3, <3>4
  <2> QED
    BY <2>5, <2>6
<1>5. Beyond(0)
  <2>1. N + 1 \in T /\ T \subseteq Nat
    BY <1>1, <1>3
  <2>2. PICK k \in T : \A m \in T : k <= m
    <3> HIDE DEF T
    <3> QED
      BY <2>1, LeastNumber
  <2>3. k \in 0 .. N + 1 /\ Beyond(k)
    BY <2>2
  <2>4. CASE k = 0
    <3> HIDE DEF Beyond
    <3> QED
      BY <2>3, <2>4
  <2>5. CASE k # 0
    <3>1. k \in 1 .. N + 1 /\ k - 1 \in 0 .. N + 1 /\ ~ (k <= k - 1)
      BY <1>1, <2>3, <2>5
    <3> HIDE DEF Beyond
    <3>2. Beyond(k - 1)
      BY <1>4, <2>3, <3>1
    <3>3. k - 1 \in T
      BY <3>1, <3>2
    <3> QED
      BY <2>2, <3>1, <3>3
  <2> QED
    BY <2>4, <2>5
<1>6. from = [i \in 0 .. N |-> FramedAt(b, from, i)]
  <2>1. PICK g \in [0 .. N -> Frames] : \A i \in 0 .. N : g[i] = FramedAt(b, g, i)
    BY <1>1, <1>5
  <2>2. g = [i \in 0 .. N |-> FramedAt(b, g, i)]
    BY <2>1
  <2> DEFINE P(f) == f = [i \in 0 .. N |-> FramedAt(b, f, i)]
  <2>3. from = CHOOSE f : P(f)
    BY DEF Framed, N
  <2>4. P(g)
    BY <2>2
  <2> HIDE DEF P, from
  <2>5. P(from)
    BY <2>3, <2>4, Zenon
  <2> QED
    BY <2>5 DEF P
<1>7. \A i \in 0 .. N : from[i] = FramedAt(b, from, i)
  BY <1>6
<1> HIDE DEF from
<1>8. \A i \in 0 .. N : from[i] \in Frames
  <2> DEFINE Z == {m \in 0 .. N : ~ (from[N - m] \in Frames)}
  <2>1. SUFFICES ASSUME Z # {} PROVE FALSE
    <3>1. ASSUME NEW i \in 0 .. N, Z = {} PROVE from[i] \in Frames
      <4>1. PICK m \in 0 .. N : m = N - i
        BY <1>1
      <4>2. N - m = i
        BY <1>1, <4>1
      <4> QED
        BY <3>1, <4>2
    <3> QED
      BY <3>1
  <2>2. PICK m \in Z : \A z \in Z : m <= z
    <3>1. Z \subseteq Nat
      BY <1>1
    <3> HIDE DEF Z
    <3> QED
      BY <2>1, <3>1, LeastNumber
  <2>3. PICK i \in 0 .. N : i = N - m /\ m = N - i /\ m \in 0 .. N /\ ~ (from[i] \in Frames)
    BY <1>1, <2>2
  <2>4. HasPacket(b, i) => from[EndAt(b, i)] \in Frames
    <3> SUFFICES ASSUME HasPacket(b, i) PROVE from[EndAt(b, i)] \in Frames
      OBVIOUS
    <3>1. PICK e \in 0 .. N : e = EndAt(b, i) /\ e > i
      BY <1>2
    <3>2. N - e \in 0 .. N /\ ~ (m <= N - e) /\ N - (N - e) = e
      BY <1>1, <2>3, <3>1
    <3>3. N - e \notin Z
      BY <2>2, <3>2
    <3> QED
      BY <3>1, <3>2, <3>3
  <2>5. FramedAt(b, from, i) \in Frames
    BY <2>3, <2>4, FramedAtTypes DEF N
  <2> QED
    BY <1>7, <2>3, <2>5
<1> QED
  BY <1>7, <1>8 DEF N, from

\* What the elements of a concatenation are.
LEMMA ConcatAt ==
    ASSUME NEW S, NEW s \in Seq(S), NEW t \in Seq(S), NEW u, u = s \o t
    PROVE  /\ u \in Seq(S) /\ Len(u) = Len(s) + Len(t)
           /\ \A i \in 1 .. Len(s) : u[i] = s[i]
           /\ \A i \in 1 .. Len(t) : u[Len(s) + i] = t[i]
<1>1. PICK m, n \in Nat : m = Len(s) /\ n = Len(t)
  OBVIOUS
<1>2. s \o t \in Seq(S) /\ Len(s \o t) = m + n
  BY <1>1
<1>3. \A i \in 1 .. m : (s \o t)[i] = s[i]
  BY <1>1
<1>4. ASSUME NEW i \in 1 .. n
      PROVE  (s \o t)[m + i] = t[i]
  <2>1. m + i \in 1 .. m + n /\ ~ (m + i <= m) /\ (m + i) - m = i
    OBVIOUS
  <2>2. (s \o t)[m + i] = t[(m + i) - m]
    BY <1>1, <2>1
  <2> QED
    BY <2>1, <2>2
<1> QED
  BY <1>1, <1>2, <1>3, <1>4

\* Bytes that go on as others do.
Extends(more, bytes) == Len(bytes) <= Len(more) /\ \A j \in 1 .. Len(bytes) : more[j] = bytes[j]

\* However the bytes go on, these packets are the first of them, and the next one
\* begins behind the first p bytes.
Reaches(bytes, packets, p) ==
    /\ p \in 0 .. Len(bytes)
    /\ packets \in Seq(Seq(Byte))
    /\ \A more \in Seq(Byte) :
          Extends(more, bytes) =>
              /\ Framed(more)[0].packets = packets \o Framed(more)[p].packets
              /\ Framed(more)[0].corrupt = Framed(more)[p].corrupt

\* Before anything arrives no packet has.
LEMMA ReachesStart == Reaches(<<>>, <<>>, 0)
<1>1. <<>> \in Seq(Seq(Byte)) /\ 0 \in 0 .. Len(<<>>)
  OBVIOUS
<1>2. ASSUME NEW more \in Seq(Byte)
      PROVE  Framed(more)[0].packets = <<>> \o Framed(more)[0].packets
  <2>1. 0 \in 0 .. Len(more)
    OBVIOUS
  <2>2. Framed(more)[0].packets \in Seq(Seq(Byte))
    BY <2>1, FramedIs DEF Frames
  <2> QED
    BY <2>2, ConcatEmptySeq
<1> QED
  BY <1>1, <1>2 DEF Reaches

\* Bytes that arrive change nothing of it.
LEMMA ReachesOn ==
    ASSUME NEW b \in Seq(Byte), NEW more \in Seq(Byte), Extends(more, b),
           NEW packets, NEW p, Reaches(b, packets, p)
    PROVE  Reaches(more, packets, p)
<1>1. ASSUME NEW most \in Seq(Byte), Extends(most, more)
      PROVE  Extends(most, b)
  <2>1. Len(b) \in Nat /\ Len(more) \in Nat /\ Len(most) \in Nat
    OBVIOUS
  <2> QED
    BY <1>1, <2>1 DEF Extends
<1>2. p \in 0 .. Len(more)
  <2>1. Len(b) \in Nat /\ Len(more) \in Nat
    OBVIOUS
  <2> QED
    BY <2>1 DEF Extends, Reaches
<1> QED
  BY <1>1, <1>2 DEF Reaches

\* A packet that is complete is the next one.
LEMMA ReachesPacket ==
    ASSUME NEW b \in Seq(Byte), NEW packets, NEW p, Reaches(b, packets, p), HasPacket(b, p)
    PROVE  Reaches(b, Append(packets, PacketAt(b, p)), EndAt(b, p))
<1>1. p \in 0 .. Len(b) /\ packets \in Seq(Seq(Byte))
  BY DEF Reaches
<1>2. PICK packet, e : packet = PacketAt(b, p) /\ e = EndAt(b, p)
  OBVIOUS
<1>3. packet \in Seq(Byte) /\ e \in 0 .. Len(b)
  BY <1>1, <1>2, PacketTypes
<1>4. ASSUME NEW more \in Seq(Byte), Extends(more, b)
      PROVE  /\ Framed(more)[0].packets = Append(packets, packet) \o Framed(more)[e].packets
             /\ Framed(more)[0].corrupt = Framed(more)[e].corrupt
  <2>1. Framed(more)[0].packets = packets \o Framed(more)[p].packets
        /\ Framed(more)[0].corrupt = Framed(more)[p].corrupt
    BY <1>4 DEF Reaches
  <2>2. HasPrefix(b, p) /\ Len(b) <= Len(more) /\ \A j \in 1 .. Len(b) : more[j] = b[j]
    BY <1>4 DEF HasPacket, Extends
  <2>3. HasPacket(more, p) /\ EndAt(more, p) = e /\ PacketAt(more, p) = packet
    BY <1>1, <1>2, <2>2, MoreBytes
  <2>4. p \in 0 .. Len(more) /\ e \in 0 .. Len(more)
    <3>1. Len(b) \in Nat /\ Len(more) \in Nat
      OBVIOUS
    <3> QED
      BY <1>1, <1>3, <2>2, <3>1
  <2>5. Framed(more)[p] = FramedAt(more, Framed(more), p)
    BY <2>4, FramedIs
  <2>6. PICK rest : rest = Framed(more)[e]
    OBVIOUS
  <2>7. rest.packets \in Seq(Seq(Byte))
    BY <2>4, <2>6, FramedIs DEF Frames
  <2>8. Framed(more)[p] = [packets |-> <<packet>> \o rest.packets, corrupt |-> rest.corrupt]
    BY <2>3, <2>5, <2>6 DEF FramedAt
  <2>9. PICK tail \in Seq(Seq(Byte)) : tail = rest.packets
    BY <2>7
  <2>10. packets \o (<<packet>> \o tail) = Append(packets, packet) \o tail
    <3>1. PICK S : S = Seq(Byte)
      OBVIOUS
    <3>2. packets \in Seq(S) /\ packet \in S /\ tail \in Seq(S)
      BY <1>1, <1>3, <2>9, <3>1
    <3>3. PICK u, v : u = <<packet>> \o tail /\ v = Append(packets, packet)
      OBVIOUS
    <3>4. packets \o u = v \o tail
      BY <3>2, <3>3, OneMore
    <3> QED
      BY <3>3, <3>4
  <2>11. Framed(more)[p].packets = <<packet>> \o tail /\ Framed(more)[p].corrupt = Framed(more)[e].corrupt
    BY <2>6, <2>8, <2>9
  <2> QED
    BY <2>1, <2>6, <2>9, <2>10, <2>11
<1>5. Append(packets, packet) \in Seq(Seq(Byte))
  BY <1>1, <1>3
<1> QED
  BY <1>2, <1>3, <1>4, <1>5 DEF Reaches

\* What they are in the whole stream.
LEMMA ReachesFraming ==
    ASSUME NEW b \in Seq(Byte), NEW packets, NEW p, Reaches(b, packets, p)
    PROVE  /\ p \in 0 .. Len(b) /\ packets \in Seq(Seq(Byte))
           /\ Framed(b)[0].packets = packets \o Framed(b)[p].packets
           /\ Framed(b)[0].corrupt = Framed(b)[p].corrupt
           /\ Framed(b)[p].packets \in Seq(Seq(Byte))
           /\ Framed(b)[p] = FramedAt(b, Framed(b), p)
<1>1. Extends(b, b) /\ p \in 0 .. Len(b) /\ packets \in Seq(Seq(Byte))
  BY DEF Extends, Reaches
<1>2. /\ Framed(b)[0].packets = packets \o Framed(b)[p].packets
      /\ Framed(b)[0].corrupt = Framed(b)[p].corrupt
  BY <1>1 DEF Reaches
<1>3. Framed(b)[p].packets \in Seq(Seq(Byte)) /\ Framed(b)[p] = FramedAt(b, Framed(b), p)
  BY <1>1, FramedIs DEF Frames
<1> QED
  BY <1>1, <1>2, <1>3

-----------------------------------------------------------------------------
(* The bytes of the stream                                                 *)

\* f joins the first n of the sequences s one by one.
Joins(f, s, n) == \A i \in 1 .. n : f[i] = IF i = 1 THEN s[i] ELSE f[i - 1] \o s[i]

\* There is one way to join the same sequences.
LEMMA JoinsOnce ==
    ASSUME NEW s, NEW t, NEW n \in Nat, \A i \in 1 .. n : s[i] = t[i],
           NEW f, Joins(f, s, n), NEW g, Joins(g, t, n)
    PROVE  \A i \in 1 .. n : f[i] = g[i]
<1> DEFINE T == {i \in 1 .. n : f[i] # g[i]}
<1>1. SUFFICES ASSUME T # {} PROVE FALSE
  OBVIOUS
<1>2. PICK i \in T : \A j \in T : i <= j
  <2>1. T \subseteq Nat
    OBVIOUS
  <2> HIDE DEF T
  <2> QED
    BY <1>1, <2>1, LeastNumber
<1>3. i \in 1 .. n /\ f[i] # g[i] /\ s[i] = t[i]
  BY <1>2
<1>4. CASE i = 1
  BY <1>3, <1>4 DEF Joins
<1>5. CASE i # 1
  <2>1. i - 1 \in 1 .. n /\ ~ (i <= i - 1)
    BY <1>3, <1>5
  <2>2. f[i - 1] = g[i - 1]
    BY <1>2, <2>1
  <2> QED
    BY <1>3, <1>5, <2>2 DEF Joins
<1> QED
  BY <1>4, <1>5

\* FlattenSeq joins its sequences one by one.
LEMMA JoinsIs ==
    ASSUME NEW s, Len(s) \in Nat, Len(s) # 0
    PROVE  \E f : Joins(f, s, Len(s)) /\ FlattenSeq(s) = f[Len(s)]
<1> DEFINE T == {n \in 0 .. Len(s) : ~ \E f : Joins(f, s, n)}
<1>1. \E f : Joins(f, s, Len(s))
  <2>1. SUFFICES ASSUME T # {} PROVE FALSE
    <3>1. Len(s) \in 0 .. Len(s)
      OBVIOUS
    <3> QED
      BY <3>1
  <2>2. PICK n \in T : \A m \in T : n <= m
    <3>1. T \subseteq Nat
      OBVIOUS
    <3> HIDE DEF T
    <3> QED
      BY <2>1, <3>1, LeastNumber
  <2>3. n \in 0 .. Len(s) /\ ~ \E f : Joins(f, s, n)
    BY <2>2
  <2>4. n # 0
    BY <2>3 DEF Joins
  <2>5. n - 1 \in 0 .. Len(s) /\ ~ (n <= n - 1)
    BY <2>3, <2>4
  <2>6. PICK f : Joins(f, s, n - 1)
    BY <2>2, <2>5
  <2> DEFINE g == [i \in 1 .. n |-> IF i = n THEN IF n = 1 THEN s[n] ELSE f[n - 1] \o s[n] ELSE f[i]]
  <2>7. \A i \in 1 .. n : i # n => i \in 1 .. n - 1 /\ (i # 1 => i - 1 \in 1 .. n /\ i - 1 # n)
    BY <2>3
  <2>8. g[n] = (IF n = 1 THEN s[n] ELSE f[n - 1] \o s[n]) /\ \A i \in 1 .. n : i # n => g[i] = f[i]
    BY <2>3, <2>4
  <2>9. n # 1 => g[n - 1] = f[n - 1]
    BY <2>3, <2>4, <2>8
  <2> HIDE DEF g
  <2>10. Joins(g, s, n)
    BY <2>6, <2>7, <2>8, <2>9 DEF Joins
  <2> QED
    BY <2>3, <2>10
<1>2. PICK f : Joins(f, s, Len(s))
  BY <1>1
<1> DEFINE P(g) == g = [i \in 1 .. Len(s) |-> IF i = 1 THEN s[i] ELSE g[i - 1] \o s[i]]
           h == [i \in 1 .. Len(s) |-> f[i]]
           flat == CHOOSE g : P(g)
<1>3. P(h)
  <2>1. \A i \in 1 .. Len(s) : i # 1 => i - 1 \in 1 .. Len(s)
    OBVIOUS
  <2> QED
    BY <1>2, <2>1 DEF Joins
<1>4. FlattenSeq(s) = flat[Len(s)]
  BY DEF FlattenSeq
<1> HIDE DEF P, h
<1>5. P(flat)
  BY <1>3, Zenon
<1> HIDE DEF flat
<1>6. Joins(flat, s, Len(s))
  BY <1>5 DEF P, Joins
<1> QED
  BY <1>4, <1>6

\* One sequence more is joined behind the others.
LEMMA FlattenAppend ==
    ASSUME NEW S, NEW s \in Seq(Seq(S)), NEW x \in Seq(S)
    PROVE  /\ FlattenSeq(<<>>) = <<>>
           /\ FlattenSeq(Append(s, x)) = FlattenSeq(s) \o x
<1>1. FlattenSeq(<<>>) = <<>>
  BY DEF FlattenSeq
<1> DEFINE t == Append(s, x)
           n == Len(s)
<1>2. /\ n \in Nat /\ Len(t) = n + 1 /\ t[n + 1] = x
      /\ \A i \in 1 .. n : t[i] = s[i]
  OBVIOUS
<1> HIDE DEF t
<1>3. PICK g : Joins(g, t, Len(t)) /\ FlattenSeq(t) = g[Len(t)]
  BY <1>2, JoinsIs
<1>4. CASE n = 0
  <2>1. s = <<>>
    BY <1>4
  <2>2. g[1] = x
    BY <1>2, <1>3, <1>4 DEF Joins
  <2>3. <<>> \o x = x
    BY ConcatEmptySeq
  <2> QED
    BY <1>1, <1>2, <1>3, <1>4, <2>1, <2>2, <2>3 DEF t
<1>5. CASE n # 0
  <2>1. PICK f : Joins(f, s, n) /\ FlattenSeq(s) = f[n]
    BY <1>2, <1>5, JoinsIs
  <2>2. Joins(g, t, n)
    <3>1. \A i \in 1 .. n : i \in 1 .. Len(t)
      BY <1>2
    <3> QED
      BY <1>3, <3>1 DEF Joins
  <2>3. g[n] = f[n]
    <3> HIDE DEF n
    <3>1. \A i \in 1 .. n : g[i] = f[i]
      BY <1>2, <2>1, <2>2, JoinsOnce
    <3> QED
      BY <1>2, <1>5, <3>1
  <2>4. g[n + 1] = g[n] \o x
    <3> HIDE DEF n
    <3>1. n + 1 \in 1 .. Len(t) /\ n + 1 # 1 /\ (n + 1) - 1 = n
      BY <1>2, <1>5
    <3> QED
      BY <1>2, <1>3, <3>1 DEF Joins
  <2> QED
    BY <1>1, <1>2, <1>3, <2>1, <2>3, <2>4 DEF t
<1> QED
  BY <1>4, <1>5

\* The bytes of the stream, and how many are in its first n fragments.
Bytes == FlattenSeq(stream)
UpTo(n) == BytesIn([i \in 1 .. n |-> i])

\* The bytes of each fragment are in the stream behind those before it.
Laid ==
    /\ Bytes \in Seq(Byte)
    /\ Len(Bytes) = UpTo(Len(stream))
    /\ \A f \in Ids : \A j \in 1 .. Size(f) : Bytes[UpTo(f - 1) + j] = stream[f][j]

\* How they are counted.
Counted ==
    /\ UpTo(0) = 0
    /\ \A n \in 0 .. Len(stream) : UpTo(n) \in Nat
    /\ \A n \in Ids : UpTo(n) = UpTo(n - 1) + Size(n)

\* The bytes up to a fragment are those up to the one before it and its own.
LEMMA UpToFacts == stream \in Seq(Fragments) => Counted
<1> SUFFICES ASSUME stream \in Seq(Fragments) PROVE Counted
  OBVIOUS
<1> DEFINE first(n) == [i \in 1 .. n |-> i]
<1>1. Len(stream) \in Nat
  OBVIOUS
<1>2. ASSUME NEW n \in 0 .. Len(stream)
      PROVE  first(n) \in Seq(Ids)
  BY <1>1 DEF Ids
<1>3. UpTo(0) = 0
  <2>1. first(0) = <<>>
    OBVIOUS
  <2> QED
    BY <2>1, NoBytes DEF UpTo
<1>4. ASSUME NEW n \in 0 .. Len(stream)
      PROVE  UpTo(n) \in Nat
  <2> HIDE DEF first
  <2>1. BytesIn(first(n)) \in Nat
    BY <1>2, BytesAreCells
  <2> QED
    BY <2>1 DEF UpTo, first
<1>5. ASSUME NEW n \in Ids
      PROVE  UpTo(n) = UpTo(n - 1) + Size(n)
  <2>1. n - 1 \in 0 .. Len(stream) /\ n \in Nat /\ n >= 1
    BY <1>1 DEF Ids
  <2>2. first(n) = Append(first(n - 1), n)
    <3>1. first(n) \in Seq(Nat) /\ Append(first(n - 1), n) \in Seq(Nat)
      BY <2>1
    <3>2. Len(first(n)) = n /\ Len(Append(first(n - 1), n)) = n
      BY <2>1
    <3>3. \A i \in 1 .. n : first(n)[i] = Append(first(n - 1), n)[i]
      BY <2>1
    <3> DEFINE a == first(n)
               b == Append(first(n - 1), n)
    <3>4. a \in Seq(Nat) /\ b \in Seq(Nat) /\ Len(a) = n /\ Len(b) = n /\ \A i \in 1 .. n : a[i] = b[i]
      BY <3>1, <3>2, <3>3
    <3> HIDE DEF a, b
    <3>5. a = b
      BY <3>4, SeqEqual
    <3> QED
      BY <3>5 DEF a, b
  <2> HIDE DEF first
  <2>3. first(n - 1) \in Seq(Ids)
    BY <1>2, <2>1
  <2>4. BytesIn(first(n)) = BytesIn(first(n - 1)) + Size(n)
    BY <2>2, <2>3, BytesAppend
  <2> QED
    BY <2>4 DEF UpTo, first
<1> QED
  BY <1>3, <1>4, <1>5 DEF Counted

\* Later fragments have no fewer bytes in front of them.
LEMMA UpToGrows ==
    ASSUME stream \in Seq(Fragments), NEW m \in 0 .. Len(stream), NEW n \in m .. Len(stream)
    PROVE  UpTo(m) <= UpTo(n)
<1> DEFINE T == {k \in m .. Len(stream) : ~ (UpTo(m) <= UpTo(k))}
<1>1. SUFFICES ASSUME T # {} PROVE FALSE
  OBVIOUS
<1>2. Len(stream) \in Nat /\ m \in Nat /\ T \subseteq Nat
  OBVIOUS
<1>3. PICK k \in T : \A l \in T : k <= l
  <2> HIDE DEF T
  <2> QED
    BY <1>1, <1>2, LeastNumber
<1>4. k \in m .. Len(stream) /\ ~ (UpTo(m) <= UpTo(k))
  BY <1>3
<1>5. UpTo(m) \in Nat /\ UpTo(k) \in Nat
  BY <1>2, <1>4, UpToFacts DEF Counted
<1>6. k # m
  BY <1>4, <1>5
<1>7. k - 1 \in m .. Len(stream) /\ ~ (k <= k - 1) /\ k \in Ids
  BY <1>2, <1>4, <1>6 DEF Ids
<1>8. UpTo(m) <= UpTo(k - 1)
  BY <1>3, <1>7
<1>9. UpTo(k) = UpTo(k - 1) + Size(k) /\ Size(k) \in Nat /\ UpTo(k - 1) \in Nat
  <2>1. k - 1 \in 0 .. Len(stream)
    BY <1>2, <1>7
  <2> QED
    BY <1>7, <2>1, UpToFacts, SizeFacts DEF Counted
<1> QED
  BY <1>4, <1>5, <1>8, <1>9

\* The bytes that are there stay where they are.
LEMMA UpToStays ==
    ASSUME stream \in Seq(Fragments), \A f \in Ids : stream'[f] = stream[f], NEW n \in 0 .. Len(stream)
    PROVE  UpTo(n)' = UpTo(n)
<1>1. PICK fs : fs = [i \in 1 .. n |-> i]
  OBVIOUS
<1>2. fs \in Seq(Ids)
  BY <1>1 DEF Ids
<1>3. BytesIn(fs)' = BytesIn(fs)
  BY <1>2, BytesStay
<1> QED
  BY <1>1, <1>3 DEF UpTo, BytesIn

\* An empty stream has no bytes.
LEMMA LaidAtFirst == Init => Laid
<1> SUFFICES ASSUME Init PROVE Laid
  OBVIOUS
<1>1. stream = <<>> /\ Ids = {} /\ stream \in Seq(Fragments)
  BY DEF Init, Ids
<1>2. <<>> \in Seq(Seq(Byte)) /\ <<>> \in Seq(Byte)
  OBVIOUS
<1>3. Bytes = <<>>
  BY <1>1, <1>2, FlattenAppend DEF Bytes
<1>4. UpTo(Len(stream)) = 0
  BY <1>1, UpToFacts DEF Counted
<1> QED
  BY <1>1, <1>2, <1>3, <1>4 DEF Laid

\* A fragment that arrives lays its bytes behind those that are there.
LEMMA LaidGrows ==
    ASSUME Holding, Laid, Receive
    PROVE  Laid' /\ Extends(Bytes', Bytes) /\ \A f \in Ids : stream'[f] = stream[f]
<1>1. stream \in Seq(Fragments)
  BY DEF Holding, TypeOK
<1>2. PICK n \in 1 .. MaxFragment : \E bytes \in [1 .. n -> Byte] : stream' = Append(stream, bytes)
  BY DEF Receive
<1>3. PICK bytes \in [1 .. n -> Byte] : stream' = Append(stream, bytes)
  BY <1>2
<1>4. bytes \in Seq(Byte) /\ Len(bytes) = n /\ n \in Nat /\ bytes \in Fragments
  BY <1>2, <1>3, ParserAssumption DEF Fragments
<1>5. stream \in Seq(Seq(Byte))
  <2>1. ASSUME NEW i \in 1 .. Len(stream)
        PROVE  stream[i] \in Seq(Byte)
    BY <1>1, SizeFacts DEF Ids
  <2> QED
    BY <1>1, <2>1
<1>6. Bytes' = Bytes \o bytes
  <2>1. FlattenSeq(Append(stream, bytes)) = FlattenSeq(stream) \o bytes
    BY <1>4, <1>5, FlattenAppend
  <2> QED
    BY <1>3, <2>1 DEF Bytes
<1>7. PICK b, k : b = Bytes /\ k = Len(stream)
  OBVIOUS
<1>8. /\ b \in Seq(Byte) /\ Len(b) = UpTo(k) /\ k \in Nat /\ Len(b) \in Nat
      /\ \A f \in Ids : \A j \in 1 .. Size(f) : b[UpTo(f - 1) + j] = stream[f][j]
  BY <1>1, <1>7 DEF Laid
<1>9. /\ Bytes' = b \o bytes /\ Bytes' \in Seq(Byte) /\ Len(Bytes') = Len(b) + n
      /\ \A j \in 1 .. Len(b) : Bytes'[j] = b[j]
      /\ \A j \in 1 .. n : Bytes'[Len(b) + j] = bytes[j]
  <2>1. PICK all : all = b \o bytes
    OBVIOUS
  <2>2. /\ all \in Seq(Byte) /\ Len(all) = Len(b) + n
        /\ \A j \in 1 .. Len(b) : all[j] = b[j]
        /\ \A j \in 1 .. n : all[Len(b) + j] = bytes[j]
    <3>1. /\ all \in Seq(Byte) /\ Len(all) = Len(b) + Len(bytes)
          /\ \A j \in 1 .. Len(b) : all[j] = b[j]
          /\ \A j \in 1 .. Len(bytes) : all[Len(b) + j] = bytes[j]
      <4>1. b \in Seq(Byte) /\ bytes \in Seq(Byte)
        BY <1>4, <1>8
      <4> QED
        BY <2>1, <4>1, ConcatAt
    <3> QED
      BY <1>4, <3>1
  <2> QED
    BY <1>6, <1>7, <2>1, <2>2
<1>10. Extends(Bytes', Bytes)
  <2>1. Len(b) <= Len(b) + n
    BY <1>4, <1>8
  <2> QED
    BY <1>7, <1>9, <2>1 DEF Extends
<1>11. /\ \A f \in Ids : stream'[f] = stream[f]
       /\ stream' \in Seq(Fragments) /\ Len(stream') = k + 1 /\ stream'[k + 1] = bytes
       /\ Ids = 1 .. k /\ Ids' = 1 .. k + 1
  BY <1>1, <1>3, <1>4, <1>7 DEF Ids
<1>12. /\ \A m \in 0 .. k : UpTo(m)' = UpTo(m)
       /\ \A f \in Ids : Size(f)' = Size(f)
       /\ Size(k + 1)' = n
  <2>1. \A m \in 0 .. k : UpTo(m)' = UpTo(m)
    BY <1>1, <1>7, <1>11, UpToStays
  <2> QED
    BY <1>4, <1>11, <2>1 DEF Size
<1>13. UpTo(k + 1)' = UpTo(k)' + Size(k + 1)'
  <2>1. (stream \in Seq(Fragments))' => Counted'
    BY UpToFacts, PTL
  <2>2. k + 1 \in Ids' /\ (k + 1) - 1 = k
    BY <1>8, <1>11
  <2> QED
    BY <1>11, <2>1, <2>2 DEF Counted
<1>14. Len(Bytes') = UpTo(Len(stream))'
  <2>1. UpTo(Len(stream))' = UpTo(k + 1)'
    BY <1>11 DEF UpTo, BytesIn
  <2>2. k \in 0 .. k
    BY <1>8
  <2> QED
    BY <1>8, <1>9, <1>12, <1>13, <2>1, <2>2
<1>15. ASSUME NEW f \in Ids', NEW j \in 1 .. Size(f)'
       PROVE  Bytes'[UpTo(f - 1)' + j] = stream'[f][j]
  <2>1. f \in 1 .. k \/ f = k + 1
    BY <1>8, <1>11
  <2>2. CASE f \in 1 .. k
    <3>1. f \in Ids /\ j \in 1 .. Size(f) /\ stream'[f] = stream[f] /\ f - 1 \in 0 .. k
          /\ f \in 0 .. Len(stream) /\ Len(stream) \in f .. Len(stream)
      BY <1>7, <1>8, <1>11, <1>12, <2>2
    <3>2. UpTo(f) = UpTo(f - 1) + Size(f) /\ UpTo(f - 1) \in Nat /\ Size(f) \in Nat
      BY <1>1, <1>7, <3>1, UpToFacts, SizeFacts DEF Counted
    <3>3. UpTo(f) <= UpTo(k)
      BY <1>1, <1>7, <3>1, UpToGrows
    <3>4. UpTo(f - 1) + j \in 1 .. Len(b)
      BY <1>8, <3>1, <3>2, <3>3
    <3>5. UpTo(f - 1)' = UpTo(f - 1)
      BY <1>12, <3>1
    <3>6. b[UpTo(f - 1) + j] = stream[f][j]
      BY <1>8, <3>1
    <3> QED
      BY <1>9, <3>1, <3>4, <3>5, <3>6
  <2>3. CASE f = k + 1
    <3>1. f - 1 = k /\ j \in 1 .. n /\ stream'[f] = bytes
      BY <1>8, <1>11, <1>12, <2>3
    <3>2. UpTo(f - 1)' = Len(b)
      <4>1. UpTo(k)' = UpTo(k)
        BY <1>8, <1>12
      <4> QED
        BY <1>8, <3>1, <4>1
    <3> QED
      BY <1>9, <3>1, <3>2
  <2> QED
    BY <2>1, <2>2, <2>3
<1>16. Laid'
  BY <1>9, <1>14, <1>15 DEF Laid
<1> QED
  BY <1>10, <1>11, <1>16

-----------------------------------------------------------------------------
(* Where a place is in the stream                                          *)

\* Fragments that follow one another in the stream, behind the first a.
Run(fs, a) == \A i \in DOMAIN fs : fs[i] = a + i
Linked(fs) == fs # <<>> /\ Run(fs, Head(fs) - 1)

\* A run of fragments holds what lies between its ends.
LEMMA RunBytes ==
    ASSUME stream \in Seq(Fragments), NEW fs \in Seq(Ids), NEW a \in Nat, Run(fs, a),
           a + Len(fs) <= Len(stream)
    PROVE  \A k \in 0 .. Len(fs) : /\ BytesIn(SubSeq(fs, 1, k)) = UpTo(a + k) - UpTo(a)
                                   /\ a + k \in 0 .. Len(stream)
<1> DEFINE T == {k \in 0 .. Len(fs) : BytesIn(SubSeq(fs, 1, k)) # UpTo(a + k) - UpTo(a)}
<1>1. Len(fs) \in Nat /\ Len(stream) \in Nat /\ T \subseteq Nat /\ DOMAIN fs = 1 .. Len(fs)
  OBVIOUS
<1>2. \A k \in 0 .. Len(fs) : a + k \in 0 .. Len(stream)
  BY <1>1
<1>3. SUFFICES ASSUME T # {} PROVE FALSE
  BY <1>2
<1>4. PICK k \in T : \A l \in T : k <= l
  <2> HIDE DEF T
  <2> QED
    BY <1>1, <1>3, LeastNumber
<1>5. k \in 0 .. Len(fs) /\ BytesIn(SubSeq(fs, 1, k)) # UpTo(a + k) - UpTo(a)
  BY <1>4
<1>6. UpTo(a) \in Nat
  <2>1. a \in 0 .. Len(stream)
    BY <1>1
  <2> QED
    BY <2>1, UpToFacts DEF Counted
<1>7. k # 0
  <2>1. BytesIn(SubSeq(fs, 1, 0)) = 0
    BY BytesUpTo
  <2>2. a + 0 = a
    OBVIOUS
  <2> QED
    BY <1>5, <1>6, <2>1, <2>2
<1>8. k - 1 \in 0 .. Len(fs) /\ ~ (k <= k - 1) /\ k \in 1 .. Len(fs) /\ k - 1 \notin T
  <2>1. k - 1 \in 0 .. Len(fs) /\ ~ (k <= k - 1) /\ k \in 1 .. Len(fs)
    BY <1>1, <1>5, <1>7
  <2> QED
    BY <1>4, <2>1
<1>9. BytesIn(SubSeq(fs, 1, k - 1)) = UpTo(a + (k - 1)) - UpTo(a)
  BY <1>8
<1>10. BytesIn(SubSeq(fs, 1, k)) = BytesIn(SubSeq(fs, 1, k - 1)) + Size(fs[k])
  BY <1>8, BytesUpTo
<1>11. fs[k] = a + k /\ fs[k] \in Ids
  BY <1>1, <1>8 DEF Run
<1>12. PICK n \in Ids : n = a + k /\ n - 1 = a + (k - 1) /\ fs[k] = n
  BY <1>8, <1>11 DEF Ids
<1>13. n - 1 \in 0 .. Len(stream)
  BY <1>2, <1>8, <1>12
<1>14. UpTo(n) = UpTo(n - 1) + Size(n) /\ UpTo(n - 1) \in Nat /\ Size(n) \in Nat
  BY <1>13, UpToFacts, SizeFacts DEF Counted
<1>15. BytesIn(SubSeq(fs, 1, k)) = UpTo(n) - UpTo(a)
  BY <1>6, <1>9, <1>10, <1>12, <1>14
<1> QED
  BY <1>5, <1>12, <1>15

\* How many bytes are in front of a place.
Offset(place) == UpTo(place.frag - 1) + place.at

\* A place and the rest of its fragment end where the fragment does.
LEMMA OffsetTypes ==
    ASSUME stream \in Seq(Fragments), NEW place \in Places
    PROVE  /\ Offset(place) \in Nat /\ place.at \in Nat /\ place.frag - 1 \in 0 .. Len(stream)
           /\ UpTo(place.frag) = UpTo(place.frag - 1) + Size(place.frag)
           /\ UpTo(place.frag) \in Nat /\ Remaining(place) \in Int
           /\ Offset(place) + Remaining(place) = UpTo(place.frag)
<1>1. place.frag \in Ids /\ place.at \in Nat /\ Len(stream) \in Nat
  BY ParserAssumption DEF Places
<1>2. PICK f \in Ids : f = place.frag
  BY <1>1
<1>3. f - 1 \in 0 .. Len(stream) /\ f \in 0 .. Len(stream)
  BY <1>1 DEF Ids
<1>4. UpTo(f) = UpTo(f - 1) + Size(f) /\ UpTo(f - 1) \in Nat /\ Size(f) \in Nat /\ UpTo(f) \in Nat
  BY <1>3, UpToFacts, SizeFacts DEF Counted
<1>5. Offset(place) = UpTo(f - 1) + place.at /\ Remaining(place) = Size(f) - place.at
  BY <1>2 DEF Offset, Remaining
<1> QED
  BY <1>1, <1>2, <1>3, <1>4, <1>5

\* The byte at a place is that of the stream.
LEMMA ByteIs ==
    ASSUME stream \in Seq(Fragments), Laid, NEW place \in Places, Remaining(place) > 0
    PROVE  ByteAt(place) = Bytes[Offset(place) + 1]
<1>1. PICK f \in Ids : f = place.frag
  BY DEF Places
<1>2. PICK at \in Nat : at = place.at
  BY OffsetTypes
<1>3. Size(f) \in Nat /\ Size(f) - at > 0
  BY <1>1, <1>2, SizeFacts DEF Remaining
<1>4. at + 1 \in 1 .. Size(f)
  BY <1>3
<1>5. Bytes[UpTo(f - 1) + (at + 1)] = stream[f][at + 1]
  BY <1>4 DEF Laid
<1>6. UpTo(f - 1) \in Nat
  BY <1>1, OffsetTypes, UpToFacts DEF Counted
<1>7. UpTo(f - 1) + (at + 1) = Offset(place) + 1
  BY <1>1, <1>2, <1>6 DEF Offset
<1> QED
  BY <1>1, <1>2, <1>5, <1>7 DEF ByteAt

\* What the client thread copies out of a work item are bytes of the stream.
HoldsBytes(item) ==
    /\ Offset(item.start) \in Nat
    /\ Offset(item.start) + item.body <= Len(Bytes)
    /\ Copied(item) = SubSeq(Bytes, Offset(item.start) + 1, Offset(item.start) + item.body)
Copying ==
    \A item \in WorkItems :
        Copies(item) /\ item.body # 0 /\ Linked(item.list) => HoldsBytes(item)

\* A copy out of linked fragments is a part of the stream.
LEMMA CopiedIs == stream \in Seq(Fragments) /\ Laid => Copying
<1> SUFFICES ASSUME stream \in Seq(Fragments), Laid,
                    NEW item \in WorkItems, Copies(item), item.body # 0, Linked(item.list)
             PROVE  HoldsBytes(item)
  BY DEF Copying
<1>1. PICK fs, n, at, a : fs = item.list /\ n = item.body /\ at = item.start.at /\ a = Head(fs) - 1
  OBVIOUS
<1>2. /\ fs \in Seq(Ids) /\ fs # <<>> /\ n \in Nat /\ n # 0
      /\ item.start \in Places /\ at \in Nat /\ item.start.frag = Head(fs)
      /\ at + n <= BytesIn(fs) /\ Run(fs, a)
  <2>1. item.start \in Places
    BY DEF WorkItems, Copies
  <2>2. n \in Nat
    BY <1>1, ParserAssumption DEF WorkItems
  <2> QED
    BY <1>1, <2>1, <2>2, ParserAssumption DEF WorkItems, Copies, Places, Linked
<1>3. /\ Len(fs) \in Nat /\ Len(stream) \in Nat /\ DOMAIN fs = 1 .. Len(fs)
      /\ \A i \in 1 .. Len(fs) : fs[i] \in Ids /\ fs[i] = a + i
      /\ a \in Nat /\ a + Len(fs) <= Len(stream)
  <2>1. Len(fs) \in Nat /\ Len(stream) \in Nat /\ DOMAIN fs = 1 .. Len(fs) /\ Len(fs) # 0
        /\ \A i \in 1 .. Len(fs) : fs[i] \in Ids
    BY <1>2
  <2>2. \A i \in 1 .. Len(fs) : fs[i] = a + i
    BY <1>2, <2>1 DEF Run
  <2>3. Head(fs) = fs[1] /\ 1 \in 1 .. Len(fs) /\ Len(fs) \in 1 .. Len(fs)
    BY <1>2, <2>1
  <2>4. a \in Nat
    BY <1>1, <2>1, <2>3 DEF Ids
  <2>5. a + Len(fs) \in Ids
    BY <2>1, <2>2, <2>3
  <2> QED
    BY <2>1, <2>2, <2>4, <2>5 DEF Ids
<1>4. \A k \in 0 .. Len(fs) : /\ BytesIn(SubSeq(fs, 1, k)) = UpTo(a + k) - UpTo(a)
                              /\ a + k \in 0 .. Len(stream)
  BY <1>2, <1>3, RunBytes
<1>5. \A k \in 0 .. Len(stream) : UpTo(k) \in Nat
  BY UpToFacts DEF Counted
<1>6. PICK o \in Nat : o = Offset(item.start)
  BY <1>2, OffsetTypes
<1>7. UpTo(a) \in Nat /\ o = UpTo(a) + at
  <2>1. a \in 0 .. Len(stream)
    BY <1>3
  <2> QED
    BY <1>1, <1>2, <1>5, <1>6, <2>1 DEF Offset
<1>8. o + n <= Len(Bytes)
  <2>1. SubSeq(fs, 1, Len(fs)) = fs /\ Len(fs) \in 0 .. Len(fs)
    BY <1>2, <1>3, BytesUpTo
  <2>2. BytesIn(fs) = UpTo(a + Len(fs)) - UpTo(a) /\ a + Len(fs) \in 0 .. Len(stream)
    BY <1>4, <2>1
  <2>3. UpTo(a + Len(fs)) <= UpTo(Len(stream)) /\ UpTo(Len(stream)) = Len(Bytes)
    <3>1. Len(stream) \in (a + Len(fs)) .. Len(stream)
      BY <1>3
    <3> QED
      BY <2>2, <3>1, UpToGrows DEF Laid
  <2>4. PICK u \in Nat : u = UpTo(a + Len(fs))
    BY <1>5, <2>2
  <2>5. PICK l \in Nat : l = Len(Bytes)
    BY DEF Laid
  <2> QED
    BY <1>2, <1>7, <2>2, <2>3, <2>4, <2>5
<1>9. ASSUME NEW j \in 1 .. n
      PROVE  ByteOf(fs, at + j) = Bytes[o + j]
  <2>1. PICK m \in Nat : m = at + j /\ 0 < m /\ m <= BytesIn(fs)
    <3>1. BytesIn(fs) \in Nat
      BY <1>2, BytesAreCells
    <3> QED
      BY <1>2, <3>1
  <2>2. \E k \in DOMAIN fs : BytesIn(SubSeq(fs, 1, k)) >= m /\ BytesIn(SubSeq(fs, 1, k - 1)) < m
    BY <1>2, <2>1, HolderExists
  <2>3. PICK k : k = Holder(fs, m)
    OBVIOUS
  <2>4. k \in DOMAIN fs /\ BytesIn(SubSeq(fs, 1, k - 1)) < m /\ m <= BytesIn(SubSeq(fs, 1, k))
    <3>1. \E i \in DOMAIN fs : BytesIn(SubSeq(fs, 1, i - 1)) < m /\ m <= BytesIn(SubSeq(fs, 1, i))
      <4>1. PICK i \in DOMAIN fs : BytesIn(SubSeq(fs, 1, i)) >= m /\ BytesIn(SubSeq(fs, 1, i - 1)) < m
        BY <2>2
      <4>2. BytesIn(SubSeq(fs, 1, i)) \in Nat
        <5>1. i \in 0 .. Len(fs)
          BY <1>3
        <5> QED
          BY <1>2, <5>1, BytesUpTo
      <4> QED
        BY <2>1, <4>1, <4>2
    <3> QED
      BY <2>3, <3>1 DEF Holder
  <2>5. k \in 1 .. Len(fs) /\ k \in 0 .. Len(fs) /\ k - 1 \in 0 .. Len(fs) /\ fs[k] = a + k
    BY <1>3, <2>4
  <2>6. PICK f \in Ids : f = a + k /\ f = fs[k] /\ f - 1 = a + (k - 1)
    BY <1>3, <2>5
  <2>7. /\ BytesIn(SubSeq(fs, 1, k)) = UpTo(f) - UpTo(a)
        /\ BytesIn(SubSeq(fs, 1, k - 1)) = UpTo(f - 1) - UpTo(a)
        /\ UpTo(f) \in Nat /\ UpTo(f - 1) \in Nat
    <3>1. /\ BytesIn(SubSeq(fs, 1, k)) = UpTo(a + k) - UpTo(a) /\ a + k \in 0 .. Len(stream)
          /\ BytesIn(SubSeq(fs, 1, k - 1)) = UpTo(a + (k - 1)) - UpTo(a) /\ a + (k - 1) \in 0 .. Len(stream)
      BY <1>4, <2>5
    <3> QED
      BY <1>5, <2>6, <3>1
  <2>8. UpTo(f) = UpTo(f - 1) + Size(f) /\ Size(f) \in Nat
    BY UpToFacts, SizeFacts DEF Counted
  <2>9. PICK i \in 1 .. Size(f) : i = m - (UpTo(f - 1) - UpTo(a))
    BY <1>7, <2>1, <2>4, <2>7, <2>8
  <2>10. Bytes[UpTo(f - 1) + i] = stream[f][i]
    BY DEF Laid
  <2>11. UpTo(f - 1) + i = o + j
    <3>1. PICK u, v \in Nat : u = UpTo(a) /\ v = UpTo(f - 1)
      BY <1>7, <2>7
    <3>2. i = m - (v - u) /\ o = u + at /\ m = at + j /\ at \in Nat
      BY <1>2, <1>7, <2>1, <2>9, <3>1
    <3>3. v + i = o + j
      BY <3>2
    <3> QED
      BY <3>1, <3>3
  <2>12. ByteOf(fs, m) = stream[f][i]
    BY <2>3, <2>6, <2>7, <2>9 DEF ByteOf
  <2> QED
    BY <2>1, <2>10, <2>11, <2>12
<1>10. Copied(item) = [j \in 1 .. n |-> Bytes[o + j]]
  <2>1. Copied(item) = [j \in 1 .. n |-> ByteOf(fs, at + j)]
    BY <1>1 DEF Copied
  <2> QED
    BY <1>9, <2>1
<1>11. SubSeq(Bytes, o + 1, o + n) = [j \in 1 .. n |-> Bytes[o + j]]
  <2>1. PICK b \in Seq(Byte) : b = Bytes /\ o + n <= Len(b)
    BY <1>8 DEF Laid
  <2> DEFINE s == SubSeq(b, o + 1, o + n)
             t == [j \in 1 .. n |-> b[o + j]]
  <2>2. \A j \in 1 .. Len(b) : b[j] \in Byte
    OBVIOUS
  <2>3. s \in Seq(Byte) /\ Len(s) = n /\ \A j \in 1 .. n : s[j] = b[o + j]
    BY <1>2, <2>1, <2>2
  <2>4. t \in Seq(Byte) /\ Len(t) = n /\ \A j \in 1 .. n : t[j] = b[o + j]
    <3>1. \A j \in 1 .. n : o + j \in 1 .. Len(b)
      BY <1>2, <2>1
    <3>2. \A j \in 1 .. n : b[o + j] \in Byte
      BY <2>2, <3>1
    <3> QED
      BY <1>2, <3>2
  <2> HIDE DEF s, t
  <2>5. s = t
    BY <1>2, <2>3, <2>4, SeqEqual
  <2> QED
    BY <2>1, <2>5 DEF s, t
<1> QED
  BY <1>1, <1>6, <1>8, <1>10, <1>11 DEF HoldsBytes

-----------------------------------------------------------------------------
(* No fragment is skipped                                                  *)

\* The fragments Parse has taken, and the bytes in front of the first unread one.
Taken == IF pc = "parse" THEN Len(stream) - 1 ELSE Len(stream)
Consumed == UpTo(Taken) - unread

\* The fragments of a work item follow one another; those of the one in hand
\* end with the last that Parse has taken.
Gapless ==
    /\ pc = "parse" => input = Len(stream)
    /\ list # <<>> => Taken \in Len(list) .. Len(stream) /\ Run(list, Taken - Len(list))
    /\ \A i \in DOMAIN queue : Linked(queue[i].list)

\* What is unread was taken.
LEMMA TakenTypes ==
    ASSUME Holding
    PROVE  /\ Taken \in 0 .. Len(stream) /\ Taken \in Nat /\ UpTo(Taken) \in Nat
           /\ Consumed \in Int /\ UpTo(Taken) = Consumed + unread
<1>1. stream \in Seq(Fragments) /\ unread \in Nat
  BY DEF Holding, TypeOK
<1>2. Len(stream) \in Nat
  BY <1>1
<1>3. pc = "parse" => Len(stream) # 0
  <2>1. pc = "parse" => input \in Ids
    BY DEF Holding, TypeOK, Shaped
  <2> QED
    BY <1>2, <2>1 DEF Ids
<1>4. Taken \in 0 .. Len(stream) /\ Taken \in Nat
  BY <1>2, <1>3 DEF Taken
<1>5. UpTo(Taken) \in Nat
  BY <1>1, <1>4, UpToFacts DEF Counted
<1> QED
  BY <1>1, <1>4, <1>5 DEF Consumed

\* The bytes from a place in the work item on are the rest of what was taken.
LEMMA InRun ==
    ASSUME Holding, Gapless, NEW place \in Places, place.frag \in ToSet(list)
    PROVE  /\ Offset(place) + Remaining(place) + BytesIn(Later(place.frag)) = UpTo(Taken)
           /\ BytesIn(Later(place.frag)) \in Nat
<1>1. stream \in Seq(Fragments) /\ list \in Seq(Ids) /\ Distinct(list)
  BY DEF Holding, TypeOK, Shaped
<1>2. PICK p \in DOMAIN list : list[p] = place.frag
  BY DEF ToSet
<1>3. /\ Len(list) \in Nat /\ p \in 1 .. Len(list) /\ list # <<>> /\ Len(stream) \in Nat
      /\ p \in 0 .. Len(list) /\ p - 1 \in 0 .. Len(list) /\ Len(list) \in 0 .. Len(list)
  BY <1>1, <1>2
<1>4. Taken \in Nat /\ Taken \in Len(list) .. Len(stream) /\ Run(list, Taken - Len(list))
  BY <1>3, TakenTypes DEF Gapless
<1>5. PICK a \in Nat : a = Taken - Len(list)
  BY <1>3, <1>4
<1>6. Run(list, a) /\ a + Len(list) <= Len(stream) /\ a + Len(list) = Taken
  BY <1>3, <1>4, <1>5
<1>7. \A k \in 0 .. Len(list) : /\ BytesIn(SubSeq(list, 1, k)) = UpTo(a + k) - UpTo(a)
                                /\ a + k \in 0 .. Len(stream)
  BY <1>1, <1>6, RunBytes
<1>8. \A k \in 0 .. Len(stream) : UpTo(k) \in Nat
  BY <1>1, UpToFacts DEF Counted
<1>9. SubSeq(list, 1, Len(list)) = list
  BY <1>1, BytesUpTo
<1>10. BytesIn(list) = UpTo(Taken) - UpTo(a)
  <2>1. BytesIn(SubSeq(list, 1, Len(list))) = UpTo(a + Len(list)) - UpTo(a)
    BY <1>3, <1>7
  <2> QED
    BY <1>6, <1>9, <2>1
<1>11. PICK f \in Ids : f = place.frag /\ f = a + p /\ f - 1 = a + (p - 1)
  <2>1. list[p] = a + p
    BY <1>2, <1>6 DEF Run
  <2>2. list[p] \in Ids
    BY <1>1, <1>2
  <2> QED
    BY <1>2, <1>3, <2>1, <2>2
<1>12. BytesIn(SubSeq(list, 1, p - 1)) = UpTo(f - 1) - UpTo(a)
  BY <1>3, <1>7, <1>11
<1>13. /\ BytesIn(list) = BytesIn(SubSeq(list, 1, p - 1)) + Size(list[p]) + BytesIn(SubSeq(list, p + 1, Len(list)))
       /\ BytesIn(SubSeq(list, p + 1, Len(list))) \in Nat
  BY <1>1, <1>3, BytesSplit
<1>14. Later(f) = SubSeq(list, p + 1, Len(list))
  BY <1>1, <1>2, <1>11, LaterOf
<1>15. PICK l, s, u, v, w \in Nat : /\ l = BytesIn(Later(f)) /\ s = Size(f) /\ u = UpTo(a)
                                    /\ v = UpTo(f - 1) /\ w = UpTo(Taken)
  <2>1. Size(f) \in Nat
    BY <1>1, SizeFacts
  <2>2. UpTo(a) \in Nat /\ UpTo(f - 1) \in Nat /\ UpTo(Taken) \in Nat
    <3>1. a \in 0 .. Len(stream) /\ f - 1 \in 0 .. Len(stream)
      BY <1>3, <1>6, <1>7, <1>11
    <3> QED
      BY <1>8, <3>1, TakenTypes
  <2> QED
    BY <1>13, <1>14, <2>1, <2>2
<1>16. w - u = (v - u) + s + l
  BY <1>2, <1>10, <1>11, <1>12, <1>13, <1>14, <1>15
<1>17. /\ Offset(place) + Remaining(place) = UpTo(place.frag)
       /\ UpTo(place.frag) = UpTo(place.frag - 1) + Size(place.frag)
  BY <1>1, OffsetTypes
<1>18. Offset(place) + Remaining(place) = v + s
  BY <1>11, <1>15, <1>17
<1>19. v + s + l = w
  BY <1>16
<1> QED
  BY <1>11, <1>15, <1>18, <1>19

\* The next byte Parse reads is the first unread one of the stream.
LEMMA NormalizedIs ==
    ASSUME Holding, Laid, Gapless, frag # None, CanNormalize, unread # 0
    PROVE  /\ Offset(Normalized) = Consumed
           /\ ByteAt(Normalized) = Bytes[Consumed + 1]
           /\ Consumed \in Nat
<1>1. TypeOK /\ Distinct(list) /\ frag \in ToSet(list) /\ Ahead /\ stream \in Seq(Fragments)
  BY DEF Holding, TypeOK, Shaped
<1>2. PICK c : c = Normalized
  OBVIOUS
<1>3. c \in Places /\ c.frag \in ToSet(list) /\ Remaining(c) > 0 /\ AheadOf(c)
  BY <1>1, <1>2, NormalizedFacts
<1>4. Offset(c) + Remaining(c) + BytesIn(Later(c.frag)) = UpTo(Taken)
  BY <1>3, InRun
<1>5. PICK o \in Nat, r, l, w \in Int : /\ o = Offset(c) /\ r = Remaining(c) /\ l = BytesIn(Later(c.frag))
                                       /\ w = UpTo(Taken)
  BY <1>1, <1>3, OffsetTypes, InRun, TakenTypes
<1>6. unread = r + l /\ Consumed = w - unread /\ o + r + l = w
  BY <1>3, <1>4, <1>5 DEF AheadOf, Consumed
<1>7. o = Consumed
  BY <1>5, <1>6
<1> QED
  BY <1>1, <1>2, <1>3, <1>5, <1>7, ByteIs

\* A cursor that advances has as many bytes more in front of it.
LEMMA LandsIs ==
    ASSUME Holding, Gapless, NEW place, NEW n \in Nat, LandsOn(place, n)
    PROVE  /\ Offset(place) = Consumed + n
           /\ Offset(place) <= UpTo(place.frag)
<1>1. place \in Places /\ place.frag \in ToSet(list) /\ Remaining(place) >= 0
      /\ unread - n = Remaining(place) + BytesIn(Later(place.frag))
      /\ stream \in Seq(Fragments) /\ unread \in Nat
  BY DEF LandsOn, Holding, TypeOK
<1>2. Offset(place) + Remaining(place) + BytesIn(Later(place.frag)) = UpTo(Taken)
  BY <1>1, InRun
<1>3. PICK o \in Nat, r, l, w \in Int : /\ o = Offset(place) /\ r = Remaining(place)
                                       /\ l = BytesIn(Later(place.frag)) /\ w = UpTo(Taken)
  BY <1>1, OffsetTypes, InRun, TakenTypes
<1>4. o + r = UpTo(place.frag)
  BY <1>1, <1>3, OffsetTypes
<1>5. PICK k \in Nat : k = unread
  BY <1>1
<1>6. Consumed = w - k
  BY <1>3, <1>5 DEF Consumed
<1>7. k - n = r + l /\ o + r + l = w /\ r >= 0
  BY <1>1, <1>2, <1>3, <1>5
<1>8. o = (w - k) + n /\ o <= o + r
  BY <1>7
<1> QED
  BY <1>3, <1>4, <1>6, <1>8

\* What is taken and unread is at the end of the stream, unless a fragment is
\* about to be taken.
LEMMA ConsumedIs ==
    ASSUME Holding, Laid, pc # "parse"
    PROVE  Taken = Len(stream) /\ Len(Bytes) = Consumed + unread
BY TakenTypes DEF Taken, Laid

-----------------------------------------------------------------------------
(* Steps that leave the fragments where they are                           *)

\* With the stream, everything said about its bytes stays.
LEMMA SameBytes ==
    ASSUME stream' = stream
    PROVE  /\ Bytes' = Bytes
           /\ Laid => Laid'
           /\ \A n : UpTo(n)' = UpTo(n)
           /\ \A item : InQueue(item)' = InQueue(item)
           /\ \A item : Copies(item)' <=> Copies(item)
<1>1. Bytes' = Bytes
  BY DEF Bytes
<1>2. \A n : UpTo(n)' = UpTo(n)
  BY DEF UpTo, BytesIn, Size
<1>3. Laid => Laid'
  BY <1>1, <1>2 DEF Laid, Ids, Size
<1>4. \A fs : BytesIn(fs)' = BytesIn(fs)
  BY DEF BytesIn, Size
<1>5. \A item : InQueue(item)' = InQueue(item)
  BY DEF InQueue, Copied, ByteOf, Holder, BytesIn, Size
<1>6. \A item : Copies(item)' <=> Copies(item)
  BY <1>4 DEF Copies
<1> QED
  BY <1>1, <1>2, <1>3, <1>5, <1>6

\* The fragment that joins the work item, or the next one, is the one behind
\* those taken before; what a finished work item keeps, and what is cut off in
\* front of a body, leaves no gap.
LEMMA GaplessIsInductive == ASSUME Holding, Gapless, [Next]_vars PROVE Gapless'
<1> DEFINE QueueLinked == \A i \in DOMAIN queue : Linked(queue[i].list)
<1>1. /\ stream \in Seq(Fragments) /\ list \in Seq(Ids) /\ Distinct(list) /\ queue \in Seq(WorkItems)
      /\ Len(stream) \in Nat /\ Len(list) \in Nat
      /\ input = None <=> pc = "idle"
      /\ frag = None <=> list = <<>>
  BY DEF Holding, TypeOK, Shaped
<1>2. ASSUME UNCHANGED <<stream, list>>, (pc = "parse") = (pc' = "parse"), input' = input \/ pc' # "parse"
      PROVE  /\ pc' = "parse" => input' = Len(stream)'
             /\ list' # <<>> => Taken' \in Len(list') .. Len(stream') /\ Run(list', Taken' - Len(list'))
  BY <1>2 DEF Gapless, Taken
<1>3. CASE queue' = queue /\ UNCHANGED <<stream, list>> /\ pc # "parse" /\ pc' # "parse"
  BY <1>2, <1>3 DEF Gapless
<1>4. CASE Receive
  <2>1. PICK bytes : stream' = Append(stream, bytes)
    BY <1>4 DEF Receive
  <2>2. Len(stream') = Len(stream) + 1
    BY <1>1, <2>1
  <2>3. /\ pc = "idle" /\ pc' = "parse" /\ input' = Len(stream) + 1
        /\ list' = list /\ queue' = queue
    BY <1>4 DEF Receive, parserVars
  <2>4. Taken' = Taken
    BY <1>1, <2>2, <2>3 DEF Taken
  <2>5. Len(stream) <= Len(stream')
    BY <1>1, <2>2
  <2> QED
    BY <1>1, <2>2, <2>3, <2>4, <2>5 DEF Gapless
<1>5. CASE TakeFragment
  <2>1. /\ pc = "parse" /\ pc' # "parse" /\ list' = Append(list, input)
        /\ UNCHANGED <<stream, queue>>
    BY <1>5 DEF TakeFragment, Continue, NextStep
  <2>2. /\ input = Len(stream) /\ input \in Ids
    BY <1>1, <2>1, ParserAssumption DEF Gapless, Holding, TypeOK
  <2>3. Taken = Len(stream) - 1 /\ Taken' = Len(stream) /\ Len(stream) # 0
    BY <1>1, <2>1, <2>2 DEF Taken, Ids
  <2>4. Len(list') = Len(list) + 1 /\ list'[Len(list) + 1] = input
        /\ \A i \in 1 .. Len(list) : list'[i] = list[i]
    BY <1>1, <2>1, <2>2
  <2>5. Run(list', Len(stream) - (Len(list) + 1)) /\ Len(list) + 1 <= Len(stream)
    <3>1. CASE list = <<>>
      <4>1. list' = <<input>>
        BY <2>1, <3>1
      <4>2. Len(list) = 0 /\ \A i \in DOMAIN list' : i = 1
        BY <3>1, <4>1
      <4>3. list'[1] = Len(stream)
        BY <2>2, <4>1
      <4> QED
        BY <1>1, <2>3, <4>2, <4>3 DEF Run
    <3>2. CASE list # <<>>
      <4>1. Taken \in Len(list) .. Len(stream) /\ Run(list, Taken - Len(list))
        BY <3>2 DEF Gapless
      <4>2. \A i \in 1 .. Len(list) : list[i] = Taken - Len(list) + i
        BY <4>1 DEF Run
      <4>3. PICK l, t \in Nat : l = Len(list) /\ t = Len(stream)
        BY <1>1
      <4>4. \A i \in 1 .. l : list'[i] = t - (l + 1) + i
        BY <2>3, <2>4, <4>2, <4>3
      <4>5. list'[l + 1] = t - (l + 1) + (l + 1)
        BY <2>2, <2>4, <4>3
      <4>6. DOMAIN list' = 1 .. l + 1
        BY <1>1, <2>1, <2>2, <4>3
      <4>7. \A i \in 1 .. l + 1 : list'[i] = t - (l + 1) + i
        BY <4>3, <4>4, <4>5
      <4> QED
        BY <2>3, <4>1, <4>3, <4>6, <4>7 DEF Run
    <3> QED
      BY <3>1, <3>2
  <2> QED
    BY <1>1, <2>1, <2>3, <2>4, <2>5 DEF Gapless
<1>6. CASE Drain \/ Prefix \/ Second \/ EndReceive \/ HalfClose \/ PeerCloses \/ UNCHANGED vars
  <2>1. /\ UNCHANGED <<stream, list, queue>>
        /\ (pc # "parse" /\ pc' # "parse") \/ UNCHANGED <<pc, input>>
    BY <1>6 DEF Drain, Prefix, Second, EndReceive, HalfClose, PeerCloses, vars, parserVars,
                Return, Continue, NextStep
  <2> QED
    BY <1>2, <2>1 DEF Gapless
<1>7. CASE Consume
  <2>1. /\ UNCHANGED <<stream, list, pc, input>> /\ queue # <<>> /\ queue' = Tail(queue)
    BY <1>7 DEF Consume, parserVars
  <2>2. ASSUME NEW i \in DOMAIN queue'
        PROVE  Linked(queue'[i].list)
    <3>1. i + 1 \in DOMAIN queue /\ queue'[i] = queue[i + 1]
      BY <1>1, <2>1
    <3> QED
      BY <3>1 DEF Gapless
  <2> QED
    BY <1>2, <2>1, <2>2 DEF Gapless
<1>8. CASE DeleteParser
  <2>1. list' = <<>> /\ queue' = queue /\ pc' = "idle"
    BY <1>8 DEF DeleteParser
  <2> QED
    BY <2>1 DEF Gapless
<1>9. CASE EndPrefix
  <2>1. /\ pc = "endPrefix" /\ pc' # "parse" /\ UNCHANGED <<stream, queue>>
        /\ list' = list \/ list' = Kept(frag')
    BY <1>9 DEF EndPrefix, Return, Continue, parserVars
  <2>2. CASE list' = list
    BY <1>2, <2>1, <2>2 DEF Gapless
  <2>3. CASE list' # list
    <3>1. CanAdvance(cursor, 1) /\ frag' = Advanced(cursor, 1).frag /\ list' = Kept(frag')
      BY <1>9, <2>1, <2>3 DEF EndPrefix, Return, parserVars
    <3>2. /\ unread \in Nat /\ unread >= 1 /\ InFragment /\ Remaining(cursor) > 0 /\ TypeOK
      BY <2>1 DEF Holding, TypeOK, Shaped
    <3>3. /\ cursor \in Places /\ cursor.frag \in ToSet(list) /\ AheadOf(cursor)
      BY <1>1, <3>2, CursorHasNext DEF Holding, Ahead
    <3>4. LandsOn(Advanced(cursor, 1), 1)
      BY <1>1, <3>2, <3>3, AdvancedFacts
    <3>5. PICK p \in DOMAIN list : list[p] = frag'
      <4>1. frag' \in ToSet(list)
        BY <3>1, <3>4 DEF LandsOn
      <4> QED
        BY <4>1 DEF ToSet
    <3>6. Later(frag') = SubSeq(list, p + 1, Len(list))
      BY <1>1, <3>5, LaterOf
    <3>7. p \in 1 .. Len(list) /\ DOMAIN list = 1 .. Len(list) /\ list # <<>> /\ \A i \in 1 .. Len(list) : list[i] \in Ids
      BY <1>1, <3>5
    <3>8. PICK k, n \in Nat : k = p /\ n = Len(list) /\ k <= n /\ 1 <= k
      <4>1. p \in Nat /\ Len(list) \in Nat /\ p <= Len(list) /\ 1 <= p
        BY <1>1, <3>7
      <4> QED
        BY <4>1
    <3>9. Later(frag') \in Seq(Ids) /\ Len(Later(frag')) = n - k
          /\ \A i \in 1 .. n - k : Later(frag')[i] = list[k + i]
      <4>1. PICK fs \in Seq(Ids) : fs = list /\ Len(fs) = n
        BY <1>1, <3>8
      <4>2. \A i \in 1 .. Len(fs) : fs[i] \in Ids
        OBVIOUS
      <4>3. /\ SubSeq(fs, k + 1, n) \in Seq(Ids) /\ Len(SubSeq(fs, k + 1, n)) = n - k
            /\ \A i \in 1 .. n - k : SubSeq(fs, k + 1, n)[i] = fs[k + i]
        BY <3>8, <4>1, <4>2
      <4> QED
        BY <3>6, <3>8, <4>1, <4>3
    <3>10. /\ Len(list') = n - k + 1 /\ DOMAIN list' = 1 .. n - k + 1
           /\ list'[1] = list[k]
           /\ \A i \in 1 .. n - k : list'[i + 1] = list[k + i]
      <4>1. PICK later \in Seq(Ids), f \in Ids : later = Later(frag') /\ f = frag' /\ f = list[k]
        BY <3>5, <3>7, <3>8, <3>9
      <4>2. list' = <<f>> \o later /\ Len(later) = n - k
        BY <3>1, <3>9, <4>1 DEF Kept
      <4>3. /\ <<f>> \in Seq(Ids) /\ Len(<<f>>) = 1 /\ <<f>>[1] = f
            /\ n - k \in Nat
        BY <3>8
      <4>4. PICK one \in Seq(Ids) : one = <<f>> /\ Len(one) = 1 /\ one[1] = f
        BY <4>3
      <4>5. /\ list' \in Seq(Ids) /\ Len(list') = 1 + (n - k)
            /\ \A i \in 1 .. 1 : list'[i] = one[i]
            /\ \A i \in 1 .. n - k : list'[1 + i] = later[i]
        <5>1. list' = one \o later
          BY <4>2, <4>4
        <5>2. /\ list' \in Seq(Ids) /\ Len(list') = Len(one) + Len(later)
              /\ \A i \in 1 .. Len(one) : list'[i] = one[i]
              /\ \A i \in 1 .. Len(later) : list'[Len(one) + i] = later[i]
          BY <5>1, ConcatAt
        <5> QED
          BY <4>2, <4>4, <5>2
      <4>6. \A i \in 1 .. n - k : list'[i + 1] = list[k + i]
        <5>1. \A i \in 1 .. n - k : later[i] = list[k + i] /\ 1 + i = i + 1
          BY <3>9, <4>1
        <5> QED
          BY <4>5, <5>1
      <4>7. list'[1] = list[k] /\ Len(list') = n - k + 1
        BY <4>1, <4>3, <4>4, <4>5
      <4> QED
        BY <4>5, <4>6, <4>7
    <3>11. \A i \in 1 .. n - k + 1 : list'[i] = list[k - 1 + i]
      <4>1. ASSUME NEW i \in 1 .. n - k + 1
            PROVE  list'[i] = list[k - 1 + i]
        <5>1. CASE i = 1
          BY <3>8, <3>10, <5>1
        <5>2. CASE i # 1
          <6>1. PICK j \in 1 .. n - k : j = i - 1 /\ i = j + 1 /\ k + j = k - 1 + i
            BY <3>8, <5>2
          <6> QED
            BY <3>10, <6>1
        <5> QED
          BY <5>1, <5>2
      <4> QED
        BY <4>1
    <3>12. Taken \in n .. Len(stream) /\ Run(list, Taken - n) /\ Taken' = Taken
      BY <2>1, <3>7, <3>8 DEF Gapless, Taken
    <3>13. \A i \in 1 .. n : list[i] = Taken - n + i
      BY <3>7, <3>8, <3>12 DEF Run
    <3>14. Run(list', Taken - (n - k + 1))
      <4>1. PICK t \in Nat : t = Taken
        BY <3>12, TakenTypes
      <4>2. \A i \in 1 .. n - k + 1 : k - 1 + i \in 1 .. n
        BY <3>7, <3>8
      <4>3. \A i \in 1 .. n - k + 1 : list'[i] = t - n + (k - 1 + i)
        BY <3>11, <3>13, <4>1, <4>2
      <4>4. \A i \in 1 .. n - k + 1 : t - n + (k - 1 + i) = t - (n - k + 1) + i
        BY <3>8
      <4> QED
        BY <3>10, <4>1, <4>3, <4>4 DEF Run
    <3>15. Taken \in (n - k + 1) .. Len(stream)
      BY <3>7, <3>8, <3>12
    <3> QED
      BY <2>1, <3>10, <3>12, <3>14, <3>15 DEF Gapless
  <2> QED
    BY <2>2, <2>3
<1>10. CASE Body
  <2>1. pc = "body" /\ pc' # "parse" /\ stream' = stream
    BY <1>10 DEF Body, Return
  <2>2. CASE UNCHANGED <<list, queue>>
    BY <1>2, <2>1, <2>2 DEF Gapless
  <2>3. CASE ~ UNCHANGED <<list, queue>>
    <3>1. /\ queue' = Append(queue, Finished(Normalized))
          /\ list' = <<>> \/ list' = <<Last(list)>>
      BY <1>10, <2>3 DEF Body, Return, parserVars
    <3>2. frag # None /\ list # <<>>
      BY <1>1, <2>1 DEF Holding, Shaped
    <3>3. PICK n \in Nat : n = Len(list) /\ n \in 1 .. n
      BY <1>1, <3>2
    <3>4. Taken \in n .. Len(stream) /\ Run(list, Taken - n) /\ Taken' = Taken /\ Taken \in Nat
      BY <2>1, <3>2, <3>3, TakenTypes DEF Gapless, Taken
    <3>5. \A i \in 1 .. n : list[i] = Taken - n + i
      <4>1. DOMAIN list = 1 .. n
        BY <1>1, <3>3
      <4> QED
        BY <3>4, <4>1 DEF Run
    <3>6. Last(list) = Taken
      <4>1. list[n] = Taken - n + n
        BY <3>3, <3>5
      <4> QED
        BY <3>3, <3>4, <4>1 DEF Last
    <3>7. list' # <<>> => Run(list', Taken - 1) /\ Len(list') = 1
      <4> SUFFICES ASSUME list' = <<Last(list)>> PROVE Run(list', Taken - 1) /\ Len(list') = 1
        BY <3>1
      <4>1. Len(list') = 1 /\ list'[1] = Taken /\ \A i \in DOMAIN list' : i = 1
        BY <3>6
      <4>2. Taken = Taken - 1 + 1
        BY <3>4
      <4> QED
        BY <4>1, <4>2 DEF Run
    <3>8. list' # <<>> => Taken' \in Len(list') .. Len(stream') /\ Run(list', Taken' - Len(list'))
      <4> SUFFICES ASSUME list' # <<>> PROVE Taken' \in Len(list') .. Len(stream') /\ Run(list', Taken' - Len(list'))
        OBVIOUS
      <4>1. Len(list') = 1 /\ Run(list', Taken - 1) /\ Taken' = Taken /\ Len(stream') = Len(stream)
        BY <2>1, <3>4, <3>7
      <4>2. Taken \in 1 .. Len(stream)
        BY <1>1, <3>3, <3>4
      <4> QED
        BY <4>1, <4>2
    <3>9. Linked(list)
      <4>1. Head(list) - 1 = Taken - n
        <5>1. Head(list) = list[1] /\ list[1] = Taken - n + 1
          BY <3>2, <3>3, <3>5
        <5> QED
          BY <3>3, <3>4, <5>1
      <4> QED
        BY <3>2, <3>4, <4>1 DEF Linked
    <3>10. PICK item : item = Finished(Normalized) /\ item.list = list
      <4>1. Finished(Normalized).list = list
        BY DEF Finished
      <4> QED
        BY <4>1
    <3>11. \A i \in DOMAIN queue' : Linked(queue'[i].list)
      <4>1. ASSUME NEW i \in DOMAIN queue'
            PROVE  queue'[i] = item \/ (i \in DOMAIN queue /\ queue'[i] = queue[i])
        BY <1>1, <3>1, <3>10
      <4> QED
        BY <3>9, <3>10, <4>1 DEF Gapless
    <3> QED
      BY <2>1, <3>8, <3>11 DEF Gapless
  <2> QED
    BY <2>2, <2>3
<1> QED
  BY <1>4, <1>5, <1>6, <1>7, <1>8, <1>9, <1>10 DEF Next

-----------------------------------------------------------------------------
(* The cursor is where it says                                             *)

\* Unless it waits for a body, a parser that has not found the stream corrupt
\* has a cursor as long as bytes are unread, and holds no fragment otherwise; an
\* empty body is in the last one.
Standing ==
    ~corrupt /\ link # "gone" /\ body = 0 =>
        /\ unread > 0 => InFragment
        /\ unread = 0 /\ pc # "body" => frag = None
        /\ unread > 0 /\ pc = "body" => InLast

\* A cursor that has crossed all but the last fragment of a body is in that one.
LEMMA BodyEndsInLast ==
    ASSUME Holding, Gapless, NEW place, place \in Places, LandsOn(place, body),
           frag = Head(list), cursor \in Places, cursor.frag = frag, Offset(cursor) = Consumed,
           BytesIn(Front(list)) < cursor.at + body
    PROVE  place.frag = Last(list)
<1>1. /\ stream \in Seq(Fragments) /\ list \in Seq(Ids) /\ list # <<>> /\ body \in Nat
      /\ Len(stream) \in Nat
  <2>1. body \in Nat
    BY ParserAssumption DEF Holding, TypeOK
  <2> QED
    BY <2>1, ParserAssumption DEF Holding, TypeOK, Shaped, Places, Ids
<1>2. PICK n \in Nat : n = Len(list) /\ n \in 1 .. n /\ n - 1 \in 0 .. n
  BY <1>1
<1>3. PICK q \in DOMAIN list : list[q] = place.frag
  BY DEF LandsOn, ToSet
<1>4. Taken \in n .. Len(stream) /\ Run(list, Taken - n) /\ Taken \in Nat
  BY <1>1, <1>2, TakenTypes DEF Gapless
<1>5. PICK a \in Nat : a = Taken - n
  BY <1>2, <1>4
<1>6. Run(list, a) /\ a + n <= Len(stream)
  BY <1>2, <1>4, <1>5
<1>7. \A k \in 0 .. n : BytesIn(SubSeq(list, 1, k)) = UpTo(a + k) - UpTo(a) /\ a + k \in 0 .. Len(stream)
  BY <1>1, <1>2, <1>6, RunBytes
<1>8. BytesIn(Front(list)) = UpTo(a + (n - 1)) - UpTo(a)
  <2>1. Front(list) = SubSeq(list, 1, n - 1)
    BY <1>2 DEF Front
  <2> QED
    BY <1>2, <1>7, <2>1
<1>9. PICK o, u, v, at \in Nat : o = Offset(cursor) /\ u = UpTo(a) /\ v = UpTo(a + (n - 1)) /\ at = cursor.at
  <2>1. a \in 0 .. Len(stream) /\ a + (n - 1) \in 0 .. Len(stream)
    BY <1>2, <1>6, <1>7
  <2> QED
    BY <1>1, <2>1, OffsetTypes, UpToFacts DEF Counted
<1>10. o = u + at
  <2>1. list[1] = a + 1 /\ frag = list[1]
    BY <1>1, <1>2, <1>6 DEF Run
  <2>2. frag - 1 = a
    BY <2>1
  <2> QED
    BY <1>9, <2>2 DEF Offset
<1>11. v - u < at + body
  BY <1>8, <1>9
<1>12. Offset(place) = o + body /\ Offset(place) <= UpTo(place.frag)
  BY <1>1, <1>9, LandsIs
<1>13. q \in 1 .. n /\ place.frag = a + q /\ a + q \in 0 .. Len(stream)
  <2>1. q \in 1 .. n /\ q \in 0 .. n
    BY <1>1, <1>2
  <2>2. list[q] = a + q
    BY <1>6 DEF Run
  <2> QED
    BY <1>3, <1>7, <2>1, <2>2
<1>14. q = n
  <2>1. SUFFICES ASSUME q # n PROVE FALSE
    OBVIOUS
  <2>2. a + q \in 0 .. Len(stream) /\ a + (n - 1) \in (a + q) .. Len(stream)
    BY <1>1, <1>2, <1>6, <1>13, <2>1
  <2>3. UpTo(a + q) <= UpTo(a + (n - 1))
    BY <1>1, <2>2, UpToGrows
  <2>4. PICK w \in Nat : w = UpTo(a + q)
    BY <1>1, <2>2, UpToFacts DEF Counted
  <2>5. o + body <= w /\ w <= v
    BY <1>9, <1>12, <1>13, <2>3, <2>4
  <2>6. PICK m \in Nat : m = body
    BY <1>1
  <2>7. o + m <= w /\ w <= v /\ o = u + at /\ v - u < at + m
    BY <1>10, <1>11, <2>5, <2>6
  <2> QED
    BY <2>7
<1> QED
  BY <1>2, <1>3, <1>14 DEF Last

\* It is the step that finishes a packet that needs the geometry: the cursor
\* ends in the last fragment, which the next work item begins with.
LEMMA StandingIsInductive ==
    ASSUME Holding, Fitting, Laid, Gapless, Standing, [Next]_vars
    PROVE  Standing'
<1>1. /\ stream \in Seq(Fragments) /\ list \in Seq(Ids) /\ Distinct(list) /\ TypeOK
      /\ unread \in Nat /\ body \in Nat /\ corrupt \in BOOLEAN
      /\ frag \in Ids \cup {None} /\ cursor \in Places \cup {None}
      /\ (frag = None <=> list = <<>>) /\ (frag # None => frag \in ToSet(list))
      /\ None \notin Ids /\ None \notin Places
  <2>1. None \notin Ids /\ None \notin Places
    BY ParserAssumption DEF Ids, Places
  <2>2. body \in Nat /\ unread \in Nat
    BY ParserAssumption DEF Holding, TypeOK
  <2> QED
    BY <2>1, <2>2 DEF Holding, TypeOK, Shaped
<1>2. CASE /\ UNCHANGED <<frag, cursor, unread, list, body, corrupt>>
           /\ (link' = "gone" \/ link # "gone")
           /\ pc = "body" <=> pc' = "body"
  <2>1. (InFragment' <=> InFragment) /\ (InLast' <=> InLast)
    BY <1>2 DEF InFragment, InLast, Later
  <2> QED
    BY <1>2, <2>1 DEF Standing
<1>3. CASE Receive \/ EndReceive \/ HalfClose \/ PeerCloses \/ Consume \/ UNCHANGED vars
  <2>1. /\ UNCHANGED <<frag, cursor, unread, list, body, corrupt>>
        /\ pc = "body" <=> pc' = "body"
        /\ link' = link \/ link = "up" \/ link = "halfClosed"
    BY <1>3 DEF Receive, EndReceive, HalfClose, PeerCloses, Consume, vars, parserVars
  <2> QED
    BY <1>2, <2>1
<1>4. CASE DeleteParser
  BY <1>4 DEF DeleteParser, Standing
<1>5. CASE Drain
  <2>1. /\ UNCHANGED <<frag, cursor, unread, list, body, corrupt, link>> /\ pc = "drain" /\ body = 0
        /\ pc' # "body"
    BY <1>1, <1>5 DEF Drain, Return, Continue, NextStep, parserVars, Holding, Shaped
  <2> QED
    BY <1>2, <2>1
<1>6. CASE TakeFragment
  <2> SUFFICES ASSUME ~corrupt, link # "gone", body = 0
               PROVE  unread' > 0 /\ InFragment' /\ pc' # "body"
    BY <1>6 DEF TakeFragment, Continue, Standing
  <2>1. /\ pc = "parse" /\ pc' = "prefix" /\ input \in Ids
        /\ frag' = IF frag = None THEN input ELSE frag
        /\ cursor' = IF unread = 0 THEN [frag |-> input, at |-> 0] ELSE cursor
        /\ unread' = unread + Size(input)
    BY <1>1, <1>6 DEF TakeFragment, Continue, NextStep, Holding, TypeOK, Shaped
  <2>2. unread' > 0
    BY <1>1, <2>1, SizeFacts
  <2>3. CASE unread = 0
    <3>1. frag = None
      BY <2>1, <2>3 DEF Standing
    <3>2. cursor' = [frag |-> input, at |-> 0] /\ frag' = input /\ input # None
      BY <1>1, <2>1, <2>3, <3>1
    <3>3. cursor' # None
      BY <2>1, <3>2, ParserAssumption DEF Ids
    <3> QED
      BY <2>1, <2>2, <3>2, <3>3 DEF InFragment
  <2>4. CASE unread # 0
    <3>1. InFragment
      BY <1>1, <2>4 DEF Standing
    <3> QED
      BY <2>1, <2>2, <2>4, <3>1 DEF InFragment
  <2> QED
    BY <2>3, <2>4
<1>7. CASE Prefix
  <2> SUFFICES ASSUME ~corrupt, link # "gone", body = 0
               PROVE  /\ unread' > 0 => InFragment'
                      /\ unread' = 0 => frag' = None
                      /\ pc' # "body"
    BY <1>7 DEF Prefix, Return, Continue, parserVars, Standing
  <2>1. pc = "prefix"
    BY <1>7 DEF Prefix
  <2>2. CASE ~PrefixStarts \/ ~CanNormalize
    BY <1>7, <2>1, <2>2 DEF Prefix, Return, parserVars, Standing, InFragment
  <2>3. CASE PrefixStarts /\ CanNormalize
    <3>1. /\ unread >= 2 /\ unread' >= 1 /\ frag' = cursor'.frag /\ pc' # "body"
          /\ cursor' = Normalized \/ cursor' = Advanced(Normalized, 1)
      BY <1>1, <1>7, <2>3 DEF Prefix, Continue, PrefixStarts
    <3>2. InFragment /\ frag # None
      BY <3>1, <2>3 DEF CanNormalize, InFragment
    <3>3. /\ Normalized \in Places /\ Normalized.frag \in ToSet(list)
          /\ Remaining(Normalized) > 0 /\ AheadOf(Normalized)
      BY <1>1, <2>3, <3>1, <3>2, NormalizedFacts DEF Holding
    <3>4. LandsOn(Advanced(Normalized, 1), 1)
      BY <1>1, <3>1, <3>3, AdvancedFacts
    <3>5. cursor' \in Places
      BY <3>1, <3>3, <3>4 DEF LandsOn
    <3>6. cursor'.frag \in Ids
      BY <3>5 DEF Places
    <3> QED
      BY <1>1, <3>1, <3>5, <3>6 DEF InFragment
  <2> QED
    BY <2>2, <2>3
<1>8. CASE Second
  <2> SUFFICES ASSUME ~corrupt, link # "gone", body = 0
               PROVE  InFragment' /\ unread' > 0 /\ pc' # "body"
    <3>1. link' = link /\ body' = body /\ (corrupt' = corrupt \/ corrupt' = TRUE)
      <4>1. corrupt' = corrupt \/ corrupt' = (corrupt \/ "more" = "corrupt") \/ corrupt' = (corrupt \/ "corrupt" = "corrupt")
        BY <1>8 DEF Second, Return, Continue
      <4> QED
        BY <1>1, <1>8, <4>1 DEF Second, Return, Continue, parserVars
    <3>2. unread' > 0 => unread' # 0
      OBVIOUS
    <3> QED
      BY <3>1, <3>2 DEF Standing
  <2>1. pc = "second" /\ unread > 0
    BY <1>1, <1>8 DEF Second, Holding, Shaped
  <2>2. InFragment /\ frag # None /\ CanNormalize
    <3>1. InFragment
      BY <2>1 DEF Standing
    <3> QED
      BY <2>1, <3>1, CursorHasNext DEF InFragment
  <2>3. cursor' = Normalized /\ frag' = cursor'.frag /\ unread' = unread /\ pc' # "body"
    BY <1>8, <2>2 DEF Second, Return, Continue
  <2>4. Normalized \in Places /\ Normalized.frag \in Ids
    BY <1>1, <2>1, <2>2, NormalizedFacts DEF Holding
  <2> QED
    BY <1>1, <2>1, <2>3, <2>4 DEF InFragment
<1>9. CASE EndPrefix
  <2>1. /\ pc = "endPrefix" /\ unread >= 1 /\ InFragment /\ Remaining(cursor) > 0
    BY <1>9 DEF EndPrefix, Holding, Shaped
  <2>2. /\ cursor \in Places /\ cursor.frag \in ToSet(list) /\ AheadOf(cursor)
    BY <1>1, <2>1, CursorHasNext DEF Holding, Ahead
  <2>3. PICK g : g = Advanced(cursor, 1)
    OBVIOUS
  <2>4. CanAdvance(cursor, 1) /\ LandsOn(g, 1) /\ g \in Places /\ g.frag \in Ids
    <3>1. CanAdvance(cursor, 1) /\ LandsOn(g, 1)
      BY <1>1, <2>1, <2>2, <2>3, AdvancedFacts
    <3> QED
      BY <3>1 DEF LandsOn
  <2>5. /\ frag' = g.frag /\ unread' = unread - 1
        /\ cursor' = IF unread = 1 THEN None ELSE g
    BY <1>9, <2>3, <2>4 DEF EndPrefix
  <2>6. CASE TooLong(size)
    BY <1>9, <2>4, <2>6 DEF EndPrefix, Return, Standing
  <2>7. CASE ~TooLong(size)
    <3>1. list' = Kept(g.frag) /\ pc' = "body" /\ corrupt' = corrupt /\ link' = link
      BY <1>9, <2>4, <2>5, <2>7 DEF EndPrefix, Continue
    <3> SUFFICES ASSUME ~corrupt, unread' > 0 PROVE InFragment' /\ InLast'
      BY <3>1 DEF Standing
    <3>2. unread >= 2 /\ cursor' = g
      BY <1>1, <2>1, <2>5
    <3>3. InLast \/ BeforeLast
      BY <1>1, <2>1 DEF Fitting, PrefixFits
    <3>4. Later(g.frag) = <<>>
      BY <2>1, <2>3, <3>2, <3>3, OneByteOn
    <3>5. list' = <<g.frag>>
      BY <2>4, <3>1, <3>4 DEF Kept
    <3>6. Later(frag)' = Behind(<<g.frag>>, g.frag)
      BY <2>5, <3>5 DEF Later, Behind
    <3>7. Behind(<<g.frag>>, g.frag) = <<>>
      <4>0. PICK f \in Ids : f = g.frag
        BY <2>4
      <4>1. PICK one \in Seq(Ids) : one = <<g.frag>> /\ Len(one) = 1 /\ one[1] = g.frag
        <5>1. <<f>> \in Seq(Ids) /\ Len(<<f>>) = 1 /\ <<f>>[1] = f
          OBVIOUS
        <5> QED
          BY <4>0, <5>1
      <4>2. 1 \in DOMAIN one /\ Distinct(one)
        BY <4>1 DEF Distinct
      <4>3. Behind(one, one[1]) = SubSeq(one, 1 + 1, Len(one))
        BY <4>2, BehindOf
      <4> QED
        BY <4>1, <4>2, <4>3
    <3> QED
      BY <1>1, <2>4, <2>5, <3>2, <3>6, <3>7 DEF InFragment, InLast
  <2> QED
    BY <2>6, <2>7
<1>10. CASE Body
  <2> SUFFICES ASSUME ~corrupt, link # "gone", body' = 0
               PROVE  /\ unread' > 0 => InFragment'
                      /\ unread' = 0 => frag' = None
                      /\ pc' # "body"
    BY <1>10 DEF Body, Return, Standing
  <2>1. pc = "body" /\ pc' # "body" /\ frag # None
    BY <1>10 DEF Body, Return, Holding, Shaped
  <2>2. CASE ~Complete \/ ~CanNormalize \/ ~CanAdvance(Normalized, body)
    <3>1. UNCHANGED parserVars /\ body = 0
      BY <1>10, <2>2 DEF Body, parserVars
    <3>2. unread > 0 => InFragment
      BY <3>1 DEF Standing
    <3>3. CanNormalize
      BY <1>1, <3>2, CursorHasNext DEF CanNormalize
    <3>4. Complete /\ CanAdvance(Normalized, body)
      BY <1>1, <3>1 DEF Complete, CanAdvance
    <3> QED
      BY <2>2, <3>3, <3>4
  <2>3. CASE Complete /\ CanNormalize /\ CanAdvance(Normalized, body)
    <3>1. unread' = unread - body
      BY <1>10, <2>3 DEF Body
    <3>2. CASE unread = body
      <4>1. frag' = None
        BY <1>10, <2>3, <3>2 DEF Body
      <4> QED
        BY <1>1, <2>1, <3>1, <3>2, <4>1
    <3>3. CASE unread # body
      <4>1. /\ unread > 0 /\ body <= unread /\ unread' > 0
            /\ cursor' = Advanced(Normalized, body) /\ frag' = Last(list)
        BY <1>1, <1>10, <2>3, <3>1, <3>3 DEF Body, Complete
      <4>2. InFragment
        BY <2>3, <4>1 DEF CanNormalize
      <4>3. /\ cursor \in Places /\ cursor.frag = frag /\ frag \in Ids /\ frag \in ToSet(list)
            /\ AheadOf(cursor) /\ (InLast => Remaining(cursor) = unread)
        BY <4>1, <4>2, CursorHasNext DEF Holding, Ahead
      <4>4. PICK g : g = Advanced(Normalized, body)
        OBVIOUS
      <4>5. g \in Places /\ g.frag = Last(list)
        <5>1. CASE body = 0
          <6>1. InLast
            BY <2>1, <4>1, <5>1 DEF Standing
          <6>2. Remaining(cursor) > 0
            BY <4>1, <4>3, <6>1
          <6>3. Normalized = cursor
            BY <6>2 DEF Normalized
          <6>4. cursor.at + 0 = cursor.at
            BY <4>3, ParserAssumption DEF Places
          <6>5. g = [cursor EXCEPT !.at = @ + 0]
            <7>1. Advanced(cursor, 0) = [cursor EXCEPT !.at = @ + 0]
              BY <6>2 DEF Advanced
            <7> QED
              BY <4>4, <5>1, <6>3, <7>1
          <6>6. g.frag = cursor.frag /\ g.at = cursor.at /\ g \in Places
            BY <4>3, <6>4, <6>5 DEF Places
          <6>7. PICK p \in DOMAIN list : list[p] = frag
            BY <4>3 DEF ToSet
          <6>8. SubSeq(list, p + 1, Len(list)) = <<>>
            BY <1>1, <6>1, <6>7, LaterOf DEF InLast
          <6>9. p = Len(list)
            <7>1. PICK fs \in Seq(Ids) : fs = list
              BY <1>1
            <7>2. PICK n, k \in Nat : n = Len(fs) /\ k = p /\ k <= n
              <8>1. p \in 1 .. Len(fs) /\ Len(fs) \in Nat
                BY <6>7, <7>1
              <8> QED
                BY <8>1
            <7>3. Len(SubSeq(fs, k + 1, n)) = n - k
              BY <7>2
            <7>4. Len(SubSeq(fs, k + 1, n)) = 0
              BY <6>8, <7>1, <7>2
            <7> QED
              BY <7>1, <7>2, <7>3, <7>4
          <6> QED
            BY <4>3, <6>6, <6>7, <6>9 DEF Last
        <5>2. CASE body # 0
          <6>1. frag = Head(list) /\ Remaining(cursor) > 0 /\ BytesIn(Front(list)) < cursor.at + body
            BY <1>1, <2>1, <4>1, <4>2, <5>2 DEF Fitting, BodyFits
          <6>2. Normalized = cursor
            BY <6>1 DEF Normalized
          <6>3. LandsOn(g, body) /\ g \in Places
            <7>1. LandsOn(g, body)
              BY <1>1, <4>1, <4>3, <4>4, <6>1, <6>2, AdvancedFacts
            <7> QED
              BY <7>1 DEF LandsOn
          <6>4. Offset(cursor) = Consumed
            BY <2>1, <2>3, <4>1, <6>2, NormalizedIs
          <6> QED
            BY <4>3, <6>1, <6>3, <6>4, BodyEndsInLast
        <5> QED
          BY <5>1, <5>2
      <4>6. g.frag \in Ids
        BY <4>5 DEF Places
      <4> QED
        BY <1>1, <2>1, <4>1, <4>4, <4>5, <4>6 DEF InFragment
    <3> QED
      BY <3>2, <3>3
  <2> QED
    BY <2>2, <2>3
<1> QED
  BY <1>3, <1>4, <1>5, <1>6, <1>7, <1>8, <1>9, <1>10 DEF Next

-----------------------------------------------------------------------------
(* What has come out                                                       *)

\* A part of the stream stays the same when bytes arrive.
LEMMA SubSeqStays ==
    ASSUME NEW b \in Seq(Byte), NEW more \in Seq(Byte), Extends(more, b),
           NEW o \in Nat, NEW n \in Nat, o + n <= Len(b)
    PROVE  SubSeq(more, o + 1, o + n) = SubSeq(b, o + 1, o + n)
<1> DEFINE s == SubSeq(b, o + 1, o + n)
           t == SubSeq(more, o + 1, o + n)
<1>1. /\ \A j \in 1 .. Len(b) : b[j] \in Byte
      /\ \A j \in 1 .. Len(more) : more[j] \in Byte
      /\ Len(b) \in Nat /\ Len(more) \in Nat /\ Len(b) <= Len(more) /\ o + n <= Len(more)
      /\ \A j \in 1 .. Len(b) : more[j] = b[j]
  BY DEF Extends
<1>2. s \in Seq(Byte) /\ Len(s) = n /\ \A j \in 1 .. n : s[j] = b[o + j]
  BY <1>1
<1>3. t \in Seq(Byte) /\ Len(t) = n /\ \A j \in 1 .. n : t[j] = more[o + j]
  BY <1>1
<1>4. \A j \in 1 .. n : o + j \in 1 .. Len(b)
  BY <1>1
<1> HIDE DEF s, t
<1>5. \A j \in 1 .. n : s[j] = t[j]
  BY <1>1, <1>2, <1>3, <1>4
<1>6. s = t
  BY <1>2, <1>3, <1>5, SeqEqual
<1> QED
  BY <1>6 DEF s, t

\* The packets of the finished work items.
Pending == [i \in DOMAIN queue |-> InQueue(queue[i])]

\* The finished work items are packets.
LEMMA PendingTypes ==
    ASSUME Holding, ItemsFit
    PROVE  /\ Pending \in Seq(Seq(Byte)) /\ Len(Pending) = Len(queue)
           /\ \A i \in 1 .. Len(queue) : Pending[i] = InQueue(queue[i])
           /\ delivered \in Seq(Seq(Byte)) /\ Emitted \in Seq(Seq(Byte))
<1>1. queue \in Seq(WorkItems) /\ stream \in Seq(Fragments) /\ delivered \in Seq(Seq(Byte))
  BY DEF Holding, TypeOK
<1>2. DOMAIN queue = 1 .. Len(queue) /\ Len(queue) \in Nat
  BY <1>1
<1>3. ASSUME NEW i \in 1 .. Len(queue)
      PROVE  InQueue(queue[i]) \in Seq(Byte)
  <2>1. PICK item \in WorkItems : item = queue[i] /\ Copies(item)
    BY <1>1, <1>2, <1>3 DEF ItemsFit, ItemFits
  <2>2. CASE item.body = 0
    BY <2>1, <2>2 DEF InQueue
  <2>3. CASE item.body # 0
    <3>1. Copied(item) \in Seq(Byte)
      BY <1>1, <2>1, <2>3, CopiedTypes
    <3> QED
      BY <2>1, <2>3, <3>1 DEF InQueue
  <2> QED
    BY <2>2, <2>3
<1>4. /\ Pending \in Seq(Seq(Byte)) /\ Len(Pending) = Len(queue)
      /\ \A i \in 1 .. Len(queue) : Pending[i] = InQueue(queue[i])
  BY <1>2, <1>3 DEF Pending
<1>5. Emitted = delivered \o Pending
  BY DEF Emitted, Pending
<1>6. Emitted \in Seq(Seq(Byte))
  <2>1. PICK p \in Seq(Seq(Byte)) : p = Pending
    BY <1>4
  <2>2. delivered \o p \in Seq(Seq(Byte))
    BY <1>1
  <2> QED
    BY <1>5, <2>1, <2>2
<1> QED
  BY <1>1, <1>4, <1>6

\* The first of a sequence goes to the end of the one before it.
LEMMA HeadMoves ==
    ASSUME NEW S, NEW d \in Seq(S), NEW p \in Seq(S), p # <<>>, NEW q \in Seq(S),
           Len(q) = Len(p) - 1, \A i \in 1 .. Len(q) : q[i] = p[i + 1]
    PROVE  Append(d, p[1]) \o q = d \o p
<1> DEFINE e == Append(d, p[1])
           s == e \o q
           t == d \o p
<1>1. /\ Len(d) \in Nat /\ Len(p) \in Nat /\ Len(q) \in Nat /\ Len(p) = Len(q) + 1 /\ p[1] \in S
  <2>1. Len(p) \in Nat /\ Len(p) # 0
    OBVIOUS
  <2>2. 1 \in 1 .. Len(p)
    BY <2>1
  <2> QED
    BY <2>1, <2>2
<1>2. /\ e \in Seq(S) /\ Len(e) = Len(d) + 1
      /\ e[Len(d) + 1] = p[1] /\ \A i \in 1 .. Len(d) : e[i] = d[i]
  BY <1>1
<1> HIDE DEF e
<1>3. /\ s \in Seq(S) /\ Len(s) = Len(e) + Len(q)
      /\ \A i \in 1 .. Len(e) : s[i] = e[i]
      /\ \A i \in 1 .. Len(q) : s[Len(e) + i] = q[i]
  <2> HIDE DEF s
  <2>1. s = e \o q
    BY DEF s
  <2>2. PICK x \in Seq(S) : x = e
    BY <1>2
  <2>3. PICK y : y = s
    OBVIOUS
  <2>4. y = x \o q
    BY <2>1, <2>2, <2>3
  <2>5. /\ y \in Seq(S) /\ Len(y) = Len(x) + Len(q)
        /\ \A i \in 1 .. Len(x) : y[i] = x[i]
        /\ \A i \in 1 .. Len(q) : y[Len(x) + i] = q[i]
    BY <2>4, ConcatAt
  <2> QED
    BY <2>2, <2>3, <2>5
<1>4. /\ t \in Seq(S) /\ Len(t) = Len(d) + Len(p)
      /\ \A i \in 1 .. Len(d) : t[i] = d[i]
      /\ \A i \in 1 .. Len(p) : t[Len(d) + i] = p[i]
  <2> HIDE DEF t
  <2>1. t = d \o p
    BY DEF t
  <2> QED
    BY <2>1, ConcatAt
<1> HIDE DEF s, t
<1>5. PICK l, m \in Nat : l = Len(d) /\ m = Len(q) /\ Len(e) = l + 1 /\ Len(p) = m + 1
  BY <1>1, <1>2
<1>6. /\ Len(s) = l + 1 + m /\ Len(t) = l + 1 + m
      /\ \A i \in 1 .. l : s[i] = t[i]
      /\ s[l + 1] = t[l + 1]
      /\ \A j \in 1 .. m : s[l + 1 + j] = t[l + 1 + j]
  <2>1. \A i \in 1 .. l : s[i] = d[i] /\ t[i] = d[i]
    <3>1. \A i \in 1 .. l : i \in 1 .. Len(e)
      BY <1>5
    <3> QED
      BY <1>2, <1>3, <1>4, <1>5, <3>1
  <2>2. s[l + 1] = p[1] /\ t[l + 1] = p[1]
    <3>1. l + 1 \in 1 .. Len(e) /\ 1 \in 1 .. Len(p)
      BY <1>5
    <3> QED
      BY <1>2, <1>3, <1>4, <1>5, <3>1
  <2>3. ASSUME NEW j \in 1 .. m
        PROVE  s[l + 1 + j] = q[j] /\ t[l + 1 + j] = p[j + 1]
    <3>1. s[Len(e) + j] = q[j]
      BY <1>3, <1>5
    <3>2. j + 1 \in 1 .. Len(p) /\ l + (j + 1) = l + 1 + j
      BY <1>5
    <3>3. t[l + (j + 1)] = p[j + 1]
      BY <1>4, <1>5, <3>2
    <3> QED
      BY <1>5, <3>1, <3>2, <3>3
  <2>4. \A j \in 1 .. m : q[j] = p[j + 1]
    BY <1>5
  <2>5. Len(s) = l + 1 + m /\ Len(t) = l + (m + 1)
    BY <1>3, <1>4, <1>5
  <2>6. l + (m + 1) = l + 1 + m
    OBVIOUS
  <2> QED
    BY <2>1, <2>2, <2>3, <2>4, <2>5, <2>6
<1> HIDE DEF s, t
<1>7. s = t
  <2>1. ASSUME NEW i \in 1 .. Len(s)
        PROVE  s[i] = t[i]
    <3>1. i \in 1 .. l \/ i = l + 1 \/ i - (l + 1) \in 1 .. m
      BY <1>6
    <3>2. CASE i - (l + 1) \in 1 .. m
      <4>1. PICK j \in 1 .. m : i = l + 1 + j
        BY <1>6, <3>2
      <4> QED
        BY <1>6, <4>1
    <3> QED
      BY <1>6, <3>1, <3>2
  <2> QED
    BY <1>3, <1>4, <1>6, <2>1, SeqEqual
<1> QED
  BY <1>7 DEF s, t, e

\* A packet is what it was when it was finished, whatever arrives, and whether
\* the client thread has copied it or not.
LEMMA EmittedStays ==
    ASSUME Holding, Fitting, Laid, Gapless, [Next]_vars, ~Body
    PROVE  Emitted' = Emitted
<1>1. queue \in Seq(WorkItems) /\ stream \in Seq(Fragments) /\ ItemsFit
  BY DEF Holding, TypeOK, Fitting
<1>2. CASE UNCHANGED <<stream, queue, delivered>>
  <2>1. \A item : InQueue(item)' = InQueue(item)
    BY <1>2, SameBytes
  <2> QED
    BY <1>2, <2>1 DEF Emitted
<1>3. CASE Receive
  <2>1. queue' = queue /\ delivered' = delivered
    BY <1>3 DEF Receive
  <2>2. Laid' /\ Extends(Bytes', Bytes) /\ \A f \in Ids : stream'[f] = stream[f]
    BY <1>3, LaidGrows
  <2>3. Holding' /\ Fitting'
    BY HoldingIsInductive, FittingIsInductive
  <2>4. /\ (stream \in Seq(Fragments))' /\ (queue \in Seq(WorkItems))'
        /\ Bytes \in Seq(Byte) /\ Bytes' \in Seq(Byte)
    BY <2>2, <2>3 DEF Holding, TypeOK, Laid
  <2>5. Copying /\ Copying'
    <3>1. Copying
      BY <1>1, CopiedIs
    <3>2. Copying'
      BY <2>2, <2>4, CopiedIs, PTL
    <3> QED
      BY <3>1, <3>2
  <2>6. ASSUME NEW i \in DOMAIN queue
        PROVE  InQueue(queue[i])' = InQueue(queue[i])
    <3>1. PICK item : item = queue[i] /\ item = queue'[i]
      BY <2>1
    <3>2. item \in WorkItems /\ item \in WorkItems' /\ Copies(item) /\ Linked(item.list)
      <4>1. item \in WorkItems'
        BY <2>1, <2>4, <2>6, <3>1
      <4>2. item \in WorkItems
        <5>1. queue[i] \in WorkItems
          BY <1>1, <2>6
        <5> QED
          BY <3>1, <5>1
      <4>3. ItemFits(queue[i]) /\ Linked(queue[i].list)
        BY <1>1, <2>6 DEF ItemsFit, Gapless
      <4> QED
        BY <3>1, <4>1, <4>2, <4>3 DEF ItemFits
    <3>3. Copies(item)'
      <4>1. ItemFits(item)
        BY <1>1, <2>6, <3>1 DEF ItemsFit
      <4>2. corrupt' = corrupt
        BY <1>3 DEF Receive
      <4>3. ItemFits(item)'
        BY <1>1, <2>2, <3>2, <4>1, <4>2, ItemKeepsFitting
      <4> QED
        BY <4>3 DEF ItemFits
    <3>4. InQueue(item)' = InQueue(item)
      <4>1. CASE item.body = 0
        BY <4>1 DEF InQueue
      <4>2. CASE item.body # 0
        <5>1. HoldsBytes(item) /\ HoldsBytes(item)'
          BY <2>5, <3>2, <3>3, <4>2 DEF Copying
        <5>2. item.start \in Places /\ item.body \in Nat
          BY <3>2, <4>2, ParserAssumption DEF WorkItems, Copies
        <5>3. item.start.frag - 1 \in 0 .. Len(stream)
          BY <1>1, <5>2, OffsetTypes
        <5>4. UpTo(item.start.frag - 1)' = UpTo(item.start.frag - 1)
          BY <1>1, <2>2, <5>3, UpToStays
        <5>5. Offset(item.start)' = Offset(item.start)
          BY <5>4 DEF Offset
        <5>6. PICK o, n : o = Offset(item.start) /\ n = item.body
          OBVIOUS
        <5>7. o \in Nat /\ n \in Nat /\ o + n <= Len(Bytes)
          BY <5>1, <5>2, <5>6 DEF HoldsBytes
        <5>8. SubSeq(Bytes', o + 1, o + n) = SubSeq(Bytes, o + 1, o + n)
          BY <2>2, <2>4, <5>7, SubSeqStays
        <5>9. Copied(item)' = Copied(item)
          BY <5>1, <5>5, <5>6, <5>8 DEF HoldsBytes
        <5> QED
          BY <4>2, <5>9 DEF InQueue
      <4> QED
        BY <4>1, <4>2
    <3>5. InQueue(queue[i])' = InQueue(item)'
      BY <3>1 DEF InQueue, Copied, ByteOf, Holder, BytesIn, Size
    <3> QED
      BY <3>1, <3>4, <3>5
  <2> QED
    BY <2>1, <2>6 DEF Emitted
<1>4. CASE Consume
  <2>1. PICK item : item = Head(queue)
    OBVIOUS
  <2>2. queue # <<>> /\ queue' = Tail(queue) /\ stream' = stream
    BY <1>4 DEF Consume
  <2>3. /\ Len(queue) \in Nat /\ 1 \in DOMAIN queue /\ 1 \in 1 .. Len(queue) /\ item = queue[1]
        /\ Len(queue') = Len(queue) - 1 /\ DOMAIN queue' = 1 .. Len(queue')
        /\ \A i \in 1 .. Len(queue') : queue'[i] = queue[i + 1] /\ i + 1 \in 1 .. Len(queue)
    BY <1>1, <2>1, <2>2
  <2>4. Copies(item)
    BY <1>1, <2>3 DEF ItemsFit, ItemFits
  <2>5. delivered' = Append(delivered, InQueue(item))
    BY <1>4, <2>1, <2>4 DEF Consume, InQueue
  <2>6. /\ Pending \in Seq(Seq(Byte)) /\ Len(Pending) = Len(queue)
        /\ \A i \in 1 .. Len(queue) : Pending[i] = InQueue(queue[i])
        /\ delivered \in Seq(Seq(Byte))
    BY <1>1, PendingTypes
  <2>7. \A x : InQueue(x)' = InQueue(x)
    BY <2>2, SameBytes
  <2>8. PICK p, q, d : p = Pending /\ q = Pending' /\ d = delivered
    OBVIOUS
  <2>9. /\ p \in Seq(Seq(Byte)) /\ Len(p) = Len(queue) /\ p # <<>> /\ p[1] = InQueue(item)
        /\ d \in Seq(Seq(Byte))
    BY <2>3, <2>6, <2>8
  <2>10. /\ q \in Seq(Seq(Byte)) /\ Len(q) = Len(p) - 1
         /\ \A i \in 1 .. Len(q) : q[i] = p[i + 1]
    <3>1. Holding' /\ Fitting'
      BY HoldingIsInductive, FittingIsInductive
    <3>2. ItemsFit'
      BY <3>1 DEF Fitting
    <3>3. q = [i \in 1 .. Len(queue') |-> InQueue(queue[i])']
      BY <2>3, <2>8 DEF Pending
    <3>4. ASSUME NEW i \in 1 .. Len(queue')
          PROVE  InQueue(queue[i])' = p[i + 1]
      <4>1. PICK x : x = queue'[i] /\ x = queue[i + 1]
        BY <2>3, <3>4
      <4>2. InQueue(queue[i])' = InQueue(x)'
        BY <4>1 DEF InQueue, Copied, ByteOf, Holder, BytesIn, Size
      <4>3. InQueue(x)' = InQueue(x)
        BY <2>7
      <4> QED
        BY <2>3, <2>6, <2>8, <4>1, <4>2, <4>3
    <3>5. q = [i \in 1 .. Len(queue') |-> p[i + 1]]
      BY <3>3, <3>4
    <3>6. PICK n \in Nat : n = Len(queue') /\ n = Len(p) - 1
      BY <2>3, <2>9
    <3>7. \A i \in 1 .. n : p[i + 1] \in Seq(Byte)
      BY <2>9, <3>6
    <3> QED
      BY <3>5, <3>6, <3>7
  <2>11. Append(d, p[1]) \o q = d \o p
    BY <2>9, <2>10, HeadMoves
  <2>12. Emitted = d \o p /\ Emitted' = delivered' \o q
    BY <2>8 DEF Emitted, Pending
  <2> QED
    BY <2>5, <2>8, <2>9, <2>11, <2>12
<1>5. CASE Receive \/ Consume \/ UNCHANGED <<stream, queue, delivered>>
  BY <1>2, <1>3, <1>4, <1>5
<1>6. CASE TakeFragment \/ Drain \/ EndReceive \/ Prefix \/ Second \/ EndPrefix
           \/ HalfClose \/ PeerCloses \/ DeleteParser \/ UNCHANGED vars
  <2>1. UNCHANGED <<stream, queue, delivered>>
    BY <1>6 DEF TakeFragment, Drain, EndReceive, Prefix, Second, EndPrefix, HalfClose, PeerCloses,
                DeleteParser, Return, Continue, vars
  <2> QED
    BY <1>2, <2>1
<1> QED
  BY <1>5, <1>6 DEF Next

\* A finished work item is the next packet.
LEMMA EmittedGrows ==
    ASSUME Holding, Fitting, Holding', Fitting', stream' = stream, delivered' = delivered,
           NEW item, queue' = Append(queue, item)
    PROVE  Emitted' = Append(Emitted, InQueue(item))
<1>1. queue \in Seq(WorkItems) /\ ItemsFit /\ ItemsFit'
  BY DEF Holding, TypeOK, Fitting
<1>2. /\ Pending \in Seq(Seq(Byte)) /\ Len(Pending) = Len(queue)
      /\ \A i \in 1 .. Len(queue) : Pending[i] = InQueue(queue[i])
      /\ delivered \in Seq(Seq(Byte))
  BY <1>1, PendingTypes
<1>3. \A x : InQueue(x)' = InQueue(x)
  BY SameBytes
<1>4. /\ Len(queue) \in Nat /\ Len(queue') = Len(queue) + 1 /\ DOMAIN queue' = 1 .. Len(queue')
      /\ queue'[Len(queue) + 1] = item
      /\ \A i \in 1 .. Len(queue) : queue'[i] = queue[i]
  BY <1>1
<1>5. PICK p, q, d, x : p = Pending /\ q = Pending' /\ d = delivered /\ x = InQueue(item)
  OBVIOUS
<1>6. PICK n \in Nat : n = Len(queue)
  BY <1>4
<1>7. p \in Seq(Seq(Byte)) /\ Len(p) = n /\ d \in Seq(Seq(Byte))
  BY <1>2, <1>5, <1>6
<1>8. x \in Seq(Byte)
  <2>1. PICK wi \in WorkItems : wi = item
    <3>1. item \in WorkItems'
      <4>1. queue' \in Seq(WorkItems') /\ Len(queue) + 1 \in DOMAIN queue'
        BY <1>4 DEF Holding, TypeOK
      <4> QED
        BY <1>4, <4>1
    <3>2. WorkItems' = WorkItems
      BY SameStream
    <3> QED
      BY <3>1, <3>2
  <2>2. Copies(item)
    <3>1. ItemFits(queue[n + 1])'
      BY <1>1, <1>4, <1>6 DEF ItemsFit
    <3>2. Copies(item)'
      <4>1. Copies(queue[n + 1])' /\ queue'[n + 1] = item
        BY <1>4, <1>6, <3>1 DEF ItemFits
      <4> QED
        BY <4>1 DEF Copies, BytesIn, Size
    <3> QED
      BY <3>2, SameBytes
  <2>3. CASE item.body = 0
    BY <1>5, <2>3 DEF InQueue
  <2>4. CASE item.body # 0
    <3>1. Copied(wi) \in Seq(Byte)
      <4>1. stream \in Seq(Fragments)
        BY DEF Holding, TypeOK
      <4> QED
        BY <2>1, <2>2, <2>4, <4>1, CopiedTypes
    <3> QED
      BY <1>5, <2>1, <2>4, <3>1 DEF InQueue
  <2> QED
    BY <2>3, <2>4
<1>9. q = Append(p, x)
  <2>1. q = [i \in 1 .. n + 1 |-> InQueue(queue[i])']
    BY <1>4, <1>5, <1>6 DEF Pending
  <2>2. ASSUME NEW i \in 1 .. n
        PROVE  InQueue(queue[i])' = p[i]
    <3>1. PICK y : y = queue'[i] /\ y = queue[i]
      BY <1>4, <1>6
    <3>2. InQueue(queue[i])' = InQueue(y)'
      BY <3>1 DEF InQueue, Copied, ByteOf, Holder, BytesIn, Size
    <3> QED
      BY <1>2, <1>3, <1>5, <1>6, <3>1, <3>2
  <2>3. InQueue(queue[n + 1])' = x
    <3>1. InQueue(queue[n + 1])' = InQueue(item)'
      <4>1. queue'[n + 1] = item
        BY <1>4, <1>6
      <4> QED
        BY <4>1 DEF InQueue, Copied, ByteOf, Holder, BytesIn, Size
    <3> QED
      BY <1>3, <1>5, <3>1
  <2>4. q = [i \in 1 .. n + 1 |-> IF i = n + 1 THEN x ELSE p[i]]
    <3>1. \A i \in 1 .. n + 1 : i = n + 1 \/ i \in 1 .. n
      OBVIOUS
    <3> QED
      BY <2>1, <2>2, <2>3, <3>1
  <2>5. /\ Append(p, x) \in Seq(Seq(Byte)) /\ Len(Append(p, x)) = n + 1 /\ Append(p, x)[n + 1] = x
        /\ \A i \in 1 .. n : Append(p, x)[i] = p[i]
    BY <1>7, <1>8
  <2>6. q \in Seq(Seq(Byte)) /\ Len(q) = n + 1 /\ q[n + 1] = x /\ \A i \in 1 .. n : q[i] = p[i]
    <3>1. \A i \in 1 .. n : p[i] \in Seq(Byte)
      BY <1>7
    <3> QED
      BY <1>8, <2>4, <3>1
  <2> DEFINE r == Append(p, x)
  <2>7. r \in Seq(Seq(Byte)) /\ Len(r) = Len(q) /\ \A i \in 1 .. Len(q) : r[i] = q[i]
    BY <2>5, <2>6
  <2> HIDE DEF r
  <2>8. r = q
    BY <2>6, <2>7, SeqEqual
  <2> QED
    BY <2>8 DEF r
<1>10. d \o Append(p, x) = Append(d \o p, x)
  BY <1>7, <1>8, OneMore
<1>11. Emitted = d \o p /\ Emitted' = d \o q
  BY <1>5 DEF Emitted, Pending
<1> QED
  BY <1>5, <1>9, <1>10, <1>11

-----------------------------------------------------------------------------
(* The packets are those of the stream                                     *)

\* Where Parse is in the packet that begins behind the first p bytes.
InPacket(p) ==
    /\ body = 0 /\ pc \notin {"second", "endPrefix", "body"} => p = Consumed
    /\ pc = "second" =>
          p + 1 = Consumed /\ LongAt(Bytes, p) /\ size = Bytes[p + 1]
    /\ pc = "endPrefix" =>
          /\ HasPrefix(Bytes, p) /\ StartAt(Bytes, p) = Consumed + 1
          /\ size = LengthAt(Bytes, p)
          /\ LongAt(Bytes, p) => size >= OneByteLimit
    /\ pc = "body" \/ body > 0 =>
          /\ HasPrefix(Bytes, p) /\ ~CorruptAt(Bytes, p) /\ StartAt(Bytes, p) = Consumed
          /\ body = LengthAt(Bytes, p)

\* What has come out are the packets in front of the one Parse is in; a stream
\* that was found corrupt has a corrupt prefix behind its first packets.
Decoded ==
    IF corrupt
    THEN \E packets, p : Reaches(Bytes, packets, p) /\ CorruptAt(Bytes, p)
    ELSE \E p : Reaches(Bytes, Emitted, p) /\ InPacket(p)

\* The inductive invariant, on top of Holding and Fitting.
Decoding == Laid /\ Gapless /\ Standing /\ Decoded

\* Nothing has come out of an empty stream.
LEMMA InitialDecoding == Init => Decoding
<1> SUFFICES ASSUME Init PROVE Decoding
  OBVIOUS
<1>1. Laid
  BY LaidAtFirst
<1>2. Gapless /\ Standing
  BY DEF Init, Gapless, Standing
<1>3. Bytes = <<>> /\ Emitted = <<>>
  <2>1. <<>> \in Seq(Seq(Byte)) /\ <<>> \in Seq(Byte)
    OBVIOUS
  <2>2. Bytes = <<>>
    BY <2>1, FlattenAppend DEF Init, Bytes
  <2>3. [i \in DOMAIN queue |-> InQueue(queue[i])] = <<>>
    BY DEF Init
  <2>4. Emitted = <<>> \o <<>>
    BY <2>3 DEF Init, Emitted
  <2> QED
    BY <2>1, <2>2, <2>4, ConcatEmptySeq
<1>4. Consumed = 0
  <2>1. stream = <<>> /\ stream \in Seq(Fragments) /\ Taken = 0 /\ unread = 0
    BY DEF Init, Taken
  <2>2. UpTo(0) = 0
    BY <2>1, UpToFacts DEF Counted
  <2> QED
    BY <2>1, <2>2 DEF Consumed
<1>5. InPacket(0)
  BY <1>4 DEF Init, InPacket
<1>6. corrupt = FALSE
  BY DEF Init
<1> QED
  BY <1>1, <1>2, <1>3, <1>5, <1>6, ReachesStart DEF Decoding, Decoded

\* What was found corrupt stays so.
LEMMA CorruptStays ==
    ASSUME Decoded, corrupt, corrupt', stream' = stream
    PROVE  Decoded'
<1>1. Bytes' = Bytes
  BY DEF Bytes
<1> QED
  BY <1>1 DEF Decoded

\* Steps that move nothing in the packet.
LEMMA DecodedStays ==
    ASSUME Decoded, stream' = stream, Emitted' = Emitted, Consumed' = Consumed,
           corrupt' = corrupt, body' = body, body \in Nat,
           \/ /\ body = 0 /\ pc \notin {"second", "endPrefix", "body"}
              /\ pc' \notin {"second", "endPrefix", "body"}
           \/ body > 0 /\ pc' \notin {"second", "endPrefix"}
           \/ pc' = pc /\ size' = size
    PROVE  Decoded'
<1>1. Bytes' = Bytes
  BY DEF Bytes
<1>2. CASE corrupt
  BY <1>1, <1>2 DEF Decoded
<1>3. CASE ~corrupt
  <2>1. PICK p : Reaches(Bytes, Emitted, p) /\ InPacket(p)
    BY <1>3 DEF Decoded
  <2>2. InPacket(p)'
    <3>1. CASE /\ body = 0 /\ pc \notin {"second", "endPrefix", "body"}
               /\ pc' \notin {"second", "endPrefix", "body"}
      BY <2>1, <3>1 DEF InPacket
    <3>2. CASE body > 0 /\ pc' \notin {"second", "endPrefix"}
      BY <1>1, <2>1, <3>2 DEF InPacket
    <3>3. CASE pc' = pc /\ size' = size
      BY <1>1, <2>1, <3>3 DEF InPacket
    <3> QED
      BY <3>1, <3>2, <3>3
  <2> QED
    BY <1>1, <1>3, <2>1, <2>2 DEF Decoded
<1> QED
  BY <1>2, <1>3

\* Bytes that arrive leave the packets before them as they were.
LEMMA ReceiveDecodes == ASSUME Holding, Fitting, Decoding, Receive PROVE Decoded'
<1>1. /\ pc = "idle" /\ pc' = "parse" /\ UNCHANGED <<unread, body, corrupt>>
      /\ stream \in Seq(Fragments) /\ Len(stream) \in Nat /\ Laid /\ Decoded /\ Gapless
  BY DEF Receive, parserVars, Holding, TypeOK, Decoding
<1>2. Laid' /\ Extends(Bytes', Bytes) /\ \A f \in Ids : stream'[f] = stream[f]
  BY <1>1, LaidGrows
<1>3. Bytes \in Seq(Byte) /\ Bytes' \in Seq(Byte)
  BY <1>1, <1>2 DEF Laid
<1>4. PICK b, more : b = Bytes /\ more = Bytes'
  OBVIOUS
<1>5. /\ b \in Seq(Byte) /\ more \in Seq(Byte) /\ Extends(more, b)
      /\ Len(b) <= Len(more) /\ \A j \in 1 .. Len(b) : more[j] = b[j]
  BY <1>2, <1>3, <1>4 DEF Extends
<1>6. CASE corrupt
  <2>1. PICK packets, p : Reaches(b, packets, p) /\ CorruptAt(b, p)
    BY <1>1, <1>4, <1>6 DEF Decoded
  <2>2. Reaches(more, packets, p)
    BY <1>5, <2>1, ReachesOn
  <2>3. p \in 0 .. Len(b) /\ HasPrefix(b, p)
    BY <2>1 DEF Reaches, CorruptAt
  <2>4. CorruptAt(more, p)
    BY <1>5, <2>1, <2>3, MoreBytes
  <2> QED
    BY <1>1, <1>4, <1>6, <2>2, <2>4 DEF Decoded
<1>7. CASE ~corrupt
  <2>1. PICK p : Reaches(b, Emitted, p) /\ InPacket(p)
    BY <1>1, <1>4, <1>7 DEF Decoded
  <2>2. PICK packets : packets = Emitted
    OBVIOUS
  <2>3. Reaches(more, packets, p)
    BY <1>5, <2>1, <2>2, ReachesOn
  <2>4. Emitted' = packets
    <3>1. ~Body
      BY <1>1 DEF Body
    <3>2. [Next]_vars
      BY DEF Next
    <3> QED
      BY <1>1, <2>2, <3>1, <3>2, EmittedStays
  <2>5. Consumed' = Consumed
    <3>1. PICK n : n = Taken
      OBVIOUS
    <3>2. n \in 0 .. Len(stream)
      BY <3>1, TakenTypes
    <3>3. UpTo(n)' = UpTo(n)
      BY <1>1, <1>2, <3>2, UpToStays
    <3>4. Taken' = n
      <4>1. Len(stream') = Len(stream) + 1
        <5>1. PICK bytes : stream' = Append(stream, bytes)
          BY DEF Receive
        <5> QED
          BY <1>1, <5>1
      <4> QED
        BY <1>1, <3>1, <4>1 DEF Taken
    <3>5. UpTo(Taken)' = UpTo(n)'
      BY <3>4 DEF UpTo, BytesIn
    <3> QED
      BY <1>1, <3>1, <3>3, <3>5 DEF Consumed
  <2>6. ASSUME body > 0
        PROVE  /\ HasPrefix(more, p) /\ ~CorruptAt(more, p) /\ StartAt(more, p) = Consumed
               /\ body = LengthAt(more, p)
    <3>1. /\ HasPrefix(b, p) /\ ~CorruptAt(b, p) /\ StartAt(b, p) = Consumed
          /\ body = LengthAt(b, p)
      BY <1>4, <2>1, <2>6 DEF InPacket
    <3>2. p \in 0 .. Len(b)
      BY <2>1 DEF Reaches
    <3>3. /\ HasPrefix(more, p) /\ (CorruptAt(more, p) <=> CorruptAt(b, p))
          /\ StartAt(more, p) = StartAt(b, p) /\ LengthAt(more, p) = LengthAt(b, p)
      BY <1>5, <3>1, <3>2, MoreBytes
    <3> QED
      BY <3>1, <3>3
  <2>7. InPacket(p)'
    BY <1>1, <1>4, <2>1, <2>5, <2>6 DEF InPacket
  <2> QED
    BY <1>1, <1>4, <1>7, <2>3, <2>4, <2>7 DEF Decoded
<1> QED
  BY <1>1, <1>6, <1>7 DEF Holding, TypeOK

\* A fragment that is taken moves nothing that is consumed.
LEMMA TakeFragmentDecodes == ASSUME Holding, Fitting, Decoding, TakeFragment PROVE Decoded'
<1>1. /\ pc = "parse" /\ pc' = (IF body = 0 THEN "prefix" ELSE "body") /\ unread' = unread + Size(input)
      /\ UNCHANGED <<stream, body, corrupt>>
      /\ stream \in Seq(Fragments) /\ Len(stream) \in Nat /\ unread \in Nat /\ body \in Nat
      /\ input \in Ids /\ input = Len(stream)
  <2>1. body \in Nat
    BY ParserAssumption DEF Holding, TypeOK
  <2> QED
    BY <2>1 DEF TakeFragment, Continue, NextStep, Holding, TypeOK, Shaped, Decoding, Gapless
<1>2. PICK n \in Ids : n = input /\ n = Len(stream) /\ n - 1 \in 0 .. Len(stream)
  BY <1>1 DEF Ids
<1>3. UpTo(n) = UpTo(n - 1) + Size(n) /\ UpTo(n - 1) \in Nat /\ Size(n) \in Nat
  BY <1>1, <1>2, UpToFacts, SizeFacts DEF Counted
<1>4. Consumed = UpTo(n - 1) - unread
  BY <1>1, <1>2 DEF Consumed, Taken
<1>5. Consumed' = UpTo(n) - (unread + Size(n))
  <2>1. UpTo(Taken)' = UpTo(n)
    BY <1>1, <1>2 DEF Taken, UpTo, BytesIn, Size
  <2>2. unread' = unread + Size(n)
    BY <1>1, <1>2
  <2> QED
    BY <2>1, <2>2 DEF Consumed
<1>6. Consumed' = Consumed
  <2>1. PICK u, k, s \in Nat : u = UpTo(n - 1) /\ k = unread /\ s = Size(n)
    BY <1>1, <1>3
  <2>2. Consumed = u - k /\ Consumed' = (u + s) - (k + s)
    BY <1>3, <1>4, <1>5, <2>1
  <2> QED
    BY <2>2
<1>7. Emitted' = Emitted
  <2>1. ~Body /\ [Next]_vars
    BY <1>1 DEF Body, Next
  <2> QED
    BY <2>1, EmittedStays DEF Decoding
<1> QED
  BY <1>1, <1>6, <1>7, DecodedStays DEF Decoding

\* Steps that read nothing.
LEMMA OtherStepsDecode ==
    ASSUME Holding, Fitting, Decoding,
           Drain \/ EndReceive \/ Consume \/ HalfClose \/ PeerCloses \/ DeleteParser \/ UNCHANGED vars
    PROVE  Decoded'
<1>1. body \in Nat /\ corrupt \in BOOLEAN
  BY ParserAssumption DEF Holding, TypeOK
<1>2. /\ UNCHANGED <<stream, unread, body, corrupt>>
      /\ \/ pc = "drain" /\ body = 0 /\ pc' \in {"end", "prefix"}
         \/ pc = "end" /\ pc' = "idle"
         \/ pc' = pc /\ size' = size
  <2>1. CASE Drain
    <3>1. body = 0
      BY <2>1 DEF Drain, Holding, Shaped
    <3>2. corrupt' = (corrupt \/ "more" = "corrupt") \/ corrupt' = corrupt
      BY <2>1 DEF Drain, Return, Continue
    <3>3. pc = "drain" /\ pc' \in {"end", "prefix"} /\ UNCHANGED <<stream, unread, body>>
      BY <2>1, <3>1 DEF Drain, Return, Continue, NextStep, parserVars
    <3> QED
      BY <1>1, <3>1, <3>2, <3>3
  <2>2. CASE EndReceive \/ Consume \/ HalfClose \/ PeerCloses \/ DeleteParser \/ UNCHANGED vars
    BY <2>2 DEF EndReceive, Consume, HalfClose, PeerCloses, DeleteParser, vars, parserVars
  <2> QED
    BY <2>1, <2>2
<1>3. Consumed' = Consumed
  <2>1. pc = "parse" <=> pc' = "parse"
    BY <1>2
  <2>2. Taken' = Taken
    BY <1>2, <2>1 DEF Taken
  <2>3. UpTo(Taken)' = UpTo(Taken)
    BY <1>2, <2>2 DEF UpTo, BytesIn, Size
  <2> QED
    BY <1>2, <2>3 DEF Consumed
<1>4. Emitted' = Emitted
  <2>1. [Next]_vars
    BY DEF Next
  <2>2. ~Body
    <3>1. Body => pc' = "drain" \/ pc' = "end"
      BY DEF Body, Return
    <3>2. Body => pc = "body"
      BY DEF Body
    <3> QED
      BY <1>2, <3>1, <3>2
  <2> QED
    BY <2>1, <2>2, EmittedStays DEF Decoding
<1>5. body = 0 \/ body > 0
  BY <1>1
<1> QED
  BY <1>1, <1>2, <1>3, <1>4, <1>5, DecodedStays DEF Decoding

\* Bytes that Parse consumes.
LEMMA ConsumedMoves ==
    ASSUME Holding, stream' = stream, pc # "parse", pc' # "parse", NEW n \in Nat, unread' = unread - n
    PROVE  Consumed' = Consumed + n
<1>1. UpTo(Taken)' = UpTo(Taken)
  BY DEF Taken, UpTo, BytesIn, Size
<1>2. UpTo(Taken) \in Nat /\ unread \in Nat
  BY TakenTypes DEF Holding, TypeOK
<1>3. PICK u, k \in Nat : u = UpTo(Taken) /\ k = unread
  BY <1>2
<1>4. Consumed = u - k /\ Consumed' = u - (k - n)
  BY <1>1, <1>3 DEF Consumed
<1> QED
  BY <1>3, <1>4

\* A prefix begins where a packet may; that it has a second byte is seen from
\* the first.
LEMMA PrefixDecodes == ASSUME Holding, Fitting, Decoding, Prefix PROVE Decoded'
<1>1. /\ pc = "prefix" /\ body = 0 /\ corrupt \in BOOLEAN /\ unread \in Nat /\ link # "gone"
      /\ UNCHANGED <<stream, corrupt, body>> /\ pc' # "parse"
      /\ Laid /\ Gapless /\ Decoded /\ Bytes \in Seq(Byte) /\ OneByteLimit \in Nat
  BY ParserAssumption
     DEF Prefix, Return, Continue, parserVars, Holding, TypeOK, Shaped, Fitting, Decoding, Laid
<1>2. Emitted' = Emitted
  <2>1. ~Body /\ [Next]_vars
    BY <1>1 DEF Body, Next
  <2> QED
    BY <2>1, EmittedStays DEF Decoding
<1>3. CASE ~PrefixStarts \/ ~CanNormalize
  <2>1. pc' = "end" /\ unread' = unread
    BY <1>3 DEF Prefix, Return, parserVars
  <2>2. Consumed' = Consumed
    <3>1. Taken' = Taken
      BY <1>1 DEF Taken
    <3>2. UpTo(Taken)' = UpTo(Taken)
      BY <1>1, <3>1 DEF UpTo, BytesIn, Size
    <3> QED
      BY <2>1, <3>2 DEF Consumed
  <2> QED
    BY <1>1, <1>2, <2>1, <2>2, DecodedStays
<1>4. CASE corrupt
  BY <1>1, <1>4, CorruptStays
<1>5. CASE PrefixStarts /\ CanNormalize /\ ~corrupt
  <2>1. PICK p : Reaches(Bytes, Emitted, p) /\ InPacket(p)
    BY <1>1, <1>5 DEF Decoded
  <2>2. unread >= 2 /\ frag # None
    BY <1>1, <1>5 DEF PrefixStarts, CanNormalize, InFragment
  <2>3. p = Consumed /\ p \in 0 .. Len(Bytes)
    BY <1>1, <2>1 DEF InPacket, Reaches
  <2>4. ByteAt(Normalized) = Bytes[p + 1]
    BY <1>1, <1>5, <2>2, <2>3, NormalizedIs
  <2>5. Len(Bytes) = p + unread /\ p \in Nat
    BY <1>1, <2>3, ConsumedIs
  <2>6. Bytes[p + 1] \in Nat
    <3>1. PICK b \in Seq(Byte) : b = Bytes
      BY <1>1
    <3>2. p + 1 \in 1 .. Len(b)
      BY <1>1, <2>2, <2>5, <3>1
    <3>3. b[p + 1] \in Byte
      BY <3>2
    <3> QED
      BY <3>1, <3>3 DEF Byte
  <2>7. size' = Bytes[p + 1]
    BY <1>5, <2>4 DEF Prefix
  <2>8. CASE Bytes[p + 1] < OneByteLimit
    <3>1. unread' = unread /\ pc' = "endPrefix"
      BY <1>5, <2>4, <2>8 DEF Prefix, Continue
    <3>2. Consumed' = p
      <4>1. unread' = unread - 0
        BY <1>1, <3>1
      <4>2. Consumed' = Consumed + 0
        BY <1>1, <4>1, ConsumedMoves
      <4> QED
        BY <2>3, <2>5, <4>2
    <3>3. ~LongAt(Bytes, p)
      BY <1>1, <2>6, <2>8 DEF LongAt
    <3>4. StartAt(Bytes, p) = p + 1 /\ LengthAt(Bytes, p) = Bytes[p + 1]
      BY <3>3 DEF StartAt, LengthAt
    <3>5. HasPrefix(Bytes, p)
      BY <1>1, <2>2, <2>5, <3>4 DEF HasPrefix
    <3>6. InPacket(p)'
      <4>1. Bytes' = Bytes
        BY <1>1 DEF Bytes
      <4> QED
        BY <1>1, <2>7, <3>1, <3>2, <3>3, <3>4, <3>5, <4>1 DEF InPacket
    <3> QED
      BY <1>1, <1>2, <1>5, <2>1, <3>6 DEF Decoded, Bytes
  <2>9. CASE ~ (Bytes[p + 1] < OneByteLimit)
    <3>1. unread' = unread - 1 /\ pc' = "second"
      BY <1>5, <2>4, <2>9 DEF Prefix, Continue
    <3>2. Consumed' = p + 1
      BY <1>1, <2>3, <3>1, ConsumedMoves
    <3>3. LongAt(Bytes, p)
      BY <1>1, <2>6, <2>9 DEF LongAt
    <3>4. InPacket(p)'
      <4>1. Bytes' = Bytes
        BY <1>1 DEF Bytes
      <4> QED
        BY <1>1, <2>7, <3>1, <3>2, <3>3, <4>1 DEF InPacket
    <3> QED
      BY <1>1, <1>2, <1>5, <2>1, <3>4 DEF Decoded, Bytes
  <2> QED
    BY <2>8, <2>9
<1> QED
  BY <1>1, <1>3, <1>4, <1>5

\* A second byte that was not needed is a corrupt prefix.
LEMMA SecondDecodes == ASSUME Holding, Fitting, Decoding, Second PROVE Decoded'
<1>1. /\ pc = "second" /\ body = 0 /\ corrupt \in BOOLEAN /\ unread \in Nat /\ unread >= 1 /\ link # "gone"
      /\ UNCHANGED <<stream, body, unread>> /\ pc' \in {"end", "endPrefix"} /\ (corrupt => corrupt')
      /\ Laid /\ Gapless /\ Decoded /\ Bytes \in Seq(Byte) /\ OneByteLimit \in Nat /\ Standing
  BY ParserAssumption
     DEF Second, Return, Continue, parserVars, Holding, TypeOK, Shaped, Fitting, Decoding, Laid
<1>2. Emitted' = Emitted
  <2>1. ~Body /\ [Next]_vars
    BY <1>1 DEF Body, Next
  <2> QED
    BY <2>1, EmittedStays DEF Decoding
<1>3. CASE corrupt
  BY <1>1, <1>3, CorruptStays
<1>4. CASE ~corrupt
  <2>1. PICK p : Reaches(Bytes, Emitted, p) /\ InPacket(p)
    BY <1>1, <1>4 DEF Decoded
  <2>2. InFragment /\ CanNormalize /\ frag # None
    <3>1. unread > 0
      BY <1>1
    <3>2. InFragment
      BY <1>1, <1>4, <3>1 DEF Standing
    <3> QED
      BY <3>1, <3>2, CursorHasNext DEF InFragment
  <2>3. /\ p + 1 = Consumed /\ p \in 0 .. Len(Bytes) /\ LongAt(Bytes, p) /\ size = Bytes[p + 1]
        /\ p \in Nat
    BY <1>1, <2>1 DEF InPacket, Reaches
  <2>4. ByteAt(Normalized) = Bytes[p + 2]
    <3>1. ByteAt(Normalized) = Bytes[Consumed + 1]
      BY <1>1, <2>2, NormalizedIs
    <3>2. (p + 1) + 1 = p + 2
      BY <2>3
    <3> QED
      BY <2>3, <3>1, <3>2
  <2>5. Len(Bytes) = p + 1 + unread
    BY <1>1, <2>3, ConsumedIs
  <2>6. PICK n : n = (size - OneByteLimit) * ByteBase + ByteAt(Normalized)
    OBVIOUS
  <2>7. n = LengthAt(Bytes, p)
    BY <2>3, <2>4, <2>6 DEF LengthAt
  <2>8. StartAt(Bytes, p) = p + 2
    BY <2>3 DEF StartAt
  <2>9. HasPrefix(Bytes, p)
    BY <1>1, <2>3, <2>5, <2>8 DEF HasPrefix
  <2>10. n \in Nat
    BY <1>1, <2>3, <2>7, <2>9, PrefixTypes
  <2>11. Bytes' = Bytes
    BY <1>1 DEF Bytes
  <2>12. CASE n < OneByteLimit
    <3>1. corrupt'
      BY <2>2, <2>6, <2>12 DEF Second, Return
    <3>2. CorruptAt(Bytes, p)
      BY <2>3, <2>7, <2>9, <2>12 DEF CorruptAt
    <3> QED
      BY <2>1, <2>11, <3>1, <3>2 DEF Decoded
  <2>13. CASE ~ (n < OneByteLimit)
    <3>1. size' = n /\ pc' = "endPrefix" /\ corrupt' = corrupt
      BY <2>2, <2>6, <2>13 DEF Second, Continue
    <3>2. Consumed' = p + 1
      <4>1. unread' = unread - 0
        BY <1>1
      <4>2. Consumed' = Consumed + 0
        BY <1>1, <3>1, <4>1, ConsumedMoves
      <4> QED
        BY <2>3, <4>2
    <3>3. n >= OneByteLimit
      BY <1>1, <2>10, <2>13
    <3>4. InPacket(p)'
      <4>1. p + 2 = (p + 1) + 1
        BY <2>3
      <4> QED
        BY <1>1, <2>3, <2>7, <2>8, <2>9, <2>11, <3>1, <3>2, <3>3, <4>1 DEF InPacket
    <3> QED
      BY <1>2, <1>4, <2>1, <2>11, <3>1, <3>4 DEF Decoded
  <2> QED
    BY <2>12, <2>13
<1> QED
  BY <1>1, <1>3, <1>4

\* A prefix that says too much is a corrupt one; any other has a body behind it.
LEMMA EndPrefixDecodes == ASSUME Holding, Fitting, Decoding, EndPrefix PROVE Decoded'
<1>1. /\ pc = "endPrefix" /\ body = 0 /\ corrupt \in BOOLEAN /\ unread \in Nat /\ unread >= 1
      /\ InFragment /\ Remaining(cursor) > 0 /\ TypeOK /\ Distinct(list)
      /\ Laid /\ Gapless /\ Decoded /\ Bytes \in Seq(Byte)
  BY DEF EndPrefix, Holding, TypeOK, Shaped, Fitting, Decoding, Laid
<1>2. CanAdvance(cursor, 1)
  <2>1. cursor \in Places /\ cursor.frag \in ToSet(list) /\ AheadOf(cursor)
    BY <1>1, CursorHasNext DEF Holding, Ahead
  <2> QED
    BY <1>1, <2>1, AdvancedFacts
<1>3. stream' = stream /\ unread' = unread - 1 /\ pc' # "parse" /\ (corrupt => corrupt')
  BY <1>1, <1>2 DEF EndPrefix, Return, Continue
<1>4. Emitted' = Emitted
  <2>1. ~Body /\ [Next]_vars
    BY <1>1 DEF Body, Next
  <2> QED
    BY <2>1, EmittedStays DEF Decoding
<1>5. CASE corrupt
  BY <1>1, <1>3, <1>5, CorruptStays
<1>6. CASE ~corrupt
  <2>1. PICK p : Reaches(Bytes, Emitted, p) /\ InPacket(p)
    BY <1>1, <1>6 DEF Decoded
  <2>2. /\ HasPrefix(Bytes, p) /\ StartAt(Bytes, p) = Consumed + 1 /\ size = LengthAt(Bytes, p)
        /\ LongAt(Bytes, p) => size >= OneByteLimit
    BY <1>1, <2>1 DEF InPacket
  <2>3. Consumed' = Consumed + 1
    BY <1>1, <1>3, ConsumedMoves
  <2>4. Bytes' = Bytes
    BY <1>3 DEF Bytes
  <2>5. CASE TooLong(size)
    <3>1. corrupt'
      BY <1>2, <2>5 DEF EndPrefix, Return
    <3>2. CorruptAt(Bytes, p)
      BY <2>2, <2>5 DEF CorruptAt, TooLong
    <3> QED
      BY <2>1, <2>4, <3>1, <3>2 DEF Decoded
  <2>6. CASE ~TooLong(size)
    <3>1. body' = size /\ pc' = "body" /\ corrupt' = corrupt
      BY <1>2, <2>6 DEF EndPrefix, Continue
    <3>2. ~CorruptAt(Bytes, p)
      <4>1. p \in 0 .. Len(Bytes)
        BY <2>1 DEF Reaches
      <4>2. size \in Nat /\ OneByteLimit \in Nat
        BY <1>1, <2>2, <4>1, PrefixTypes, ParserAssumption
      <4> QED
        BY <2>2, <2>6, <4>2 DEF CorruptAt, TooLong
    <3>3. InPacket(p)'
      BY <2>2, <2>3, <2>4, <3>1, <3>2 DEF InPacket
    <3> QED
      BY <1>4, <1>6, <2>1, <2>4, <3>1, <3>3 DEF Decoded
  <2> QED
    BY <2>5, <2>6
<1> QED
  BY <1>1, <1>5, <1>6

\* The fragments in hand follow one another.
LEMMA ListLinked ==
    ASSUME Holding, Gapless, list # <<>>
    PROVE  Linked(list)
<1>1. list \in Seq(Ids) /\ Len(list) \in Nat /\ Taken \in Nat /\ Len(list) # 0
  BY TakenTypes DEF Holding, TypeOK
<1>2. Taken \in Len(list) .. Len(stream) /\ Run(list, Taken - Len(list))
  BY DEF Gapless
<1>3. 1 \in DOMAIN list /\ Head(list) = list[1]
  BY <1>1
<1>4. Head(list) = (Taken - Len(list)) + 1
  BY <1>2, <1>3 DEF Run
<1>5. PICK a \in Nat : a = Taken - Len(list)
  <2>1. Taken >= Len(list)
    BY <1>2
  <2>2. PICK t, l \in Nat : t = Taken /\ l = Len(list)
    BY <1>1
  <2>3. t - l \in Nat
    BY <2>1, <2>2
  <2> QED
    BY <2>2, <2>3
<1>6. Head(list) - 1 = a
  BY <1>4, <1>5
<1> QED
  BY <1>2, <1>5, <1>6 DEF Linked

\* A finished work item is the packet that is complete, and the next one begins
\* behind it.
LEMMA BodyDecodes == ASSUME Holding, Fitting, Decoding, Body PROVE Decoded'
<1>1. /\ pc = "body" /\ body \in Nat /\ corrupt \in BOOLEAN /\ unread \in Nat /\ link # "gone"
      /\ frag # None /\ list # <<>> /\ stream \in Seq(Fragments)
      /\ stream' = stream /\ delivered' = delivered /\ corrupt' = corrupt /\ pc' \in {"drain", "end"}
      /\ Laid /\ Gapless /\ Decoded /\ Bytes \in Seq(Byte) /\ Standing
  <2>1. body \in Nat
    BY ParserAssumption DEF Holding, TypeOK
  <2> QED
    BY <2>1 DEF Body, Return, Holding, TypeOK, Shaped, Decoding, Laid
<1>2. [Next]_vars /\ Holding' /\ Fitting'
  BY HoldingIsInductive, FittingIsInductive DEF Next
<1>3. CASE corrupt
  BY <1>1, <1>3, CorruptStays
<1>4. CASE ~corrupt /\ (~Complete \/ ~CanNormalize \/ ~CanAdvance(Normalized, body))
  <2>1. pc' = "end" /\ UNCHANGED <<unread, body, queue>>
    BY <1>4 DEF Body, Return, parserVars
  <2>2. body # 0
    <3> SUFFICES ASSUME body = 0 PROVE FALSE
      OBVIOUS
    <3>1. Complete /\ CanAdvance(Normalized, body)
      BY <1>1 DEF Complete, CanAdvance
    <3>2. unread > 0 => InFragment
      BY <1>1, <1>4 DEF Standing
    <3>3. CanNormalize
      BY <1>1, <3>2, CursorHasNext DEF CanNormalize
    <3> QED
      BY <1>4, <3>1, <3>3
  <2>3. Consumed' = Consumed
    <3>1. Taken' = Taken
      BY <1>1 DEF Taken
    <3>2. UpTo(Taken)' = UpTo(Taken)
      BY <1>1, <3>1 DEF UpTo, BytesIn, Size
    <3> QED
      BY <2>1, <3>2 DEF Consumed
  <2>4. Emitted' = Emitted
    <3>1. \A x : InQueue(x)' = InQueue(x)
      BY <1>1, SameBytes
    <3> QED
      BY <1>1, <2>1, <3>1 DEF Emitted
  <2> QED
    BY <1>1, <2>1, <2>2, <2>3, <2>4, DecodedStays
<1>5. CASE ~corrupt /\ Complete /\ CanNormalize /\ CanAdvance(Normalized, body)
  <2>1. PICK p : Reaches(Bytes, Emitted, p) /\ InPacket(p)
    BY <1>1, <1>5 DEF Decoded
  <2>2. PICK item : item = Finished(Normalized)
    OBVIOUS
  <2>3. /\ queue' = Append(queue, item) /\ unread' = unread - body /\ body' = 0 /\ pc' = "drain"
        /\ body <= unread
    BY <1>1, <1>5, <2>2 DEF Body, Return, Complete
  <2>4. item.list = list /\ item.start = Normalized /\ item.body = body
    BY <2>2 DEF Finished
  <2>5. Emitted' = Append(Emitted, InQueue(item))
    BY <1>1, <1>2, <2>3, EmittedGrows
  <2>6. /\ HasPrefix(Bytes, p) /\ ~CorruptAt(Bytes, p) /\ StartAt(Bytes, p) = Consumed
        /\ body = LengthAt(Bytes, p) /\ p \in 0 .. Len(Bytes)
    BY <1>1, <2>1 DEF InPacket, Reaches
  <2>7. Consumed \in Nat
    BY <1>1, <2>6, PrefixTypes
  <2>8. Len(Bytes) = Consumed + unread
    BY <1>1, ConsumedIs
  <2>9. EndAt(Bytes, p) = Consumed + body
    BY <2>6 DEF EndAt
  <2>10. HasPacket(Bytes, p)
    BY <1>1, <2>3, <2>6, <2>7, <2>8, <2>9 DEF HasPacket
  <2>11. PacketAt(Bytes, p) = SubSeq(Bytes, Consumed + 1, Consumed + body)
    BY <2>6, <2>9 DEF PacketAt
  <2>12. InQueue(item) = PacketAt(Bytes, p)
    <3>1. CASE body = 0
      <4>1. PICK b \in Seq(Byte), o \in Nat : b = Bytes /\ o = Consumed
        BY <1>1, <2>7
      <4>2. Consumed + body = o
        BY <2>7, <3>1, <4>1
      <4>3. SubSeq(b, o + 1, o) = <<>>
        BY <4>1
      <4> QED
        BY <2>4, <2>11, <3>1, <4>1, <4>2, <4>3 DEF InQueue
    <3>2. CASE body # 0
      <4>1. unread # 0
        BY <1>1, <2>3, <3>2
      <4>2. Offset(Normalized) = Consumed
        BY <1>1, <1>5, <4>1, NormalizedIs
      <4>3. /\ Len(queue) \in Nat /\ DOMAIN queue' = 1 .. Len(queue) + 1
            /\ Len(queue) + 1 \in DOMAIN queue' /\ queue'[Len(queue) + 1] = item
        BY <2>3 DEF Holding, TypeOK
      <4>4. item \in WorkItems
        <5>1. item \in WorkItems'
          <6>1. queue' \in Seq(WorkItems')
            BY <1>2 DEF Holding, TypeOK
          <6> QED
            BY <4>3, <6>1
        <5>2. WorkItems' = WorkItems
          BY <1>1, SameStream
        <5> QED
          BY <5>1, <5>2
      <4>5. Copies(item)
        <5>1. PICK n : n = Len(queue) + 1
          OBVIOUS
        <5>2. Copies(queue[n])'
          BY <1>2, <4>3, <5>1 DEF Fitting, ItemsFit, ItemFits
        <5>3. Copies(item)'
          <6>1. queue'[n] = item
            BY <4>3, <5>1
          <6> QED
            BY <5>2, <6>1 DEF Copies, BytesIn, Size
        <5> QED
          BY <1>1, <5>3, SameBytes
      <4>6. Linked(item.list)
        BY <1>1, <2>4, ListLinked
      <4>7. HoldsBytes(item)
        <5>1. Copying
          BY <1>1, CopiedIs
        <5> QED
          BY <2>4, <3>2, <4>4, <4>5, <4>6, <5>1 DEF Copying
      <4> QED
        BY <2>4, <2>11, <3>2, <4>2, <4>7 DEF HoldsBytes, InQueue
    <3> QED
      BY <3>1, <3>2
  <2>13. Reaches(Bytes, Append(Emitted, PacketAt(Bytes, p)), EndAt(Bytes, p))
    BY <1>1, <2>1, <2>10, ReachesPacket
  <2>14. Consumed' = Consumed + body
    BY <1>1, <2>3, ConsumedMoves
  <2>15. PICK e : e = EndAt(Bytes, p) /\ e = Consumed'
    BY <2>9, <2>14
  <2>16. InPacket(e)'
    BY <2>3, <2>15 DEF InPacket
  <2>17. Reaches(Bytes', Emitted', e)
    <3>1. Bytes' = Bytes
      BY <1>1 DEF Bytes
    <3> QED
      BY <2>5, <2>12, <2>13, <2>15, <3>1
  <2> QED
    BY <1>1, <1>5, <2>16, <2>17 DEF Decoded
<1> QED
  BY <1>1, <1>3, <1>4, <1>5

\* Every step keeps Decoding.
LEMMA DecodingIsInductive == Holding /\ Fitting /\ Decoding /\ [Next]_vars => Decoding'
<1> SUFFICES ASSUME Holding, Fitting, Decoding, [Next]_vars PROVE Decoding'
  OBVIOUS
<1>1. Laid /\ Gapless /\ Standing
  BY DEF Decoding
<1>2. Laid'
  <2>1. CASE Receive
    BY <1>1, <2>1, LaidGrows
  <2>2. CASE stream' = stream
    BY <1>1, <2>2, SameBytes
  <2>3. Receive \/ stream' = stream
    BY DEF Next, TakeFragment, Drain, EndReceive, Prefix, Second, EndPrefix, Body, Consume, HalfClose,
           PeerCloses, DeleteParser, Return, Continue, vars
  <2> QED
    BY <2>1, <2>2, <2>3
<1>3. Gapless'
  BY <1>1, GaplessIsInductive
<1>4. Standing'
  BY <1>1, StandingIsInductive
<1>5. Decoded'
  <2>1. CASE Receive
    BY <2>1, ReceiveDecodes
  <2>2. CASE TakeFragment
    BY <2>2, TakeFragmentDecodes
  <2>3. CASE Prefix
    BY <2>3, PrefixDecodes
  <2>4. CASE Second
    BY <2>4, SecondDecodes
  <2>5. CASE EndPrefix
    BY <2>5, EndPrefixDecodes
  <2>6. CASE Body
    BY <2>6, BodyDecodes
  <2>7. CASE Drain \/ EndReceive \/ Consume \/ HalfClose \/ PeerCloses \/ DeleteParser \/ UNCHANGED vars
    BY <2>7, OtherStepsDecode
  <2> QED
    BY <2>1, <2>2, <2>3, <2>4, <2>5, <2>6, <2>7 DEF Next
<1> QED
  BY <1>2, <1>3, <1>4, <1>5 DEF Decoding

\* So it always holds.
LEMMA DecodingAlways == Spec => []Decoding
BY InitialDecoding, HoldingAlways, FittingAlways, DecodingIsInductive, PTL DEF Spec

-----------------------------------------------------------------------------
(* What comes out, and when                                                *)

\* The first of two sequences is a prefix of both together.
LEMMA PrefixOfConcat ==
    ASSUME NEW S, NEW s \in Seq(S), NEW t \in Seq(S), NEW u, u = s \o t
    PROVE  IsPrefix(s, u) /\ u \in Seq(S) /\ Len(u) = Len(s) + Len(t)
<1>1. /\ u \in Seq(S) /\ Len(u) = Len(s) + Len(t)
      /\ \A i \in 1 .. Len(s) : u[i] = s[i]
  BY ConcatAt
<1>2. PICK m, n \in Nat : m = Len(s) /\ n = Len(t)
  OBVIOUS
<1>3. m <= Len(u) /\ 1 .. m \subseteq 1 .. Len(u)
  BY <1>1, <1>2
<1> DEFINE first == SubSeq(u, 1, m)
<1>4. first \in Seq(S) /\ Len(first) = m /\ \A i \in 1 .. m : first[i] = u[i]
  BY <1>1, <1>2, <1>3
<1>5. SubSeq(s, 1, m) = s
  BY <1>2, SubSeqFull
<1> HIDE DEF first
<1>6. first = s
  BY <1>1, <1>2, <1>4, SeqEqual
<1> QED
  BY <1>1, <1>2, <1>3, <1>5, <1>6 DEF IsPrefix, first

\* Until the stream is found corrupt, what comes out is what the peer framed,
\* however the stream was cut into fragments, and it is found corrupt only if it
\* is.
THEOREM PacketsComeOutAsFramed == Spec => []PacketsAreFramed
<1>1. Holding /\ Fitting /\ Decoding => PacketsAreFramed
  <2> SUFFICES ASSUME Holding, Fitting, Decoding PROVE PacketsAreFramed
    OBVIOUS
  <2>1. PICK b \in Seq(Byte) : b = Bytes
    BY DEF Decoding, Laid
  <2>2. Framing = Framed(b)[0]
    BY <2>1 DEF Framing, Bytes
  <2>3. ItemsAreWhole
    BY DEF Fitting, ItemsFit, ItemFits, ItemsAreWhole
  <2>4. ASSUME ~corrupt PROVE IsPrefix(Emitted, Framing.packets)
    <3>1. PICK p : Reaches(b, Emitted, p)
      BY <2>1, <2>4 DEF Decoding, Decoded
    <3>2. PICK e, f, t : e = Emitted /\ f = Framing.packets /\ t = Framed(b)[p].packets
      OBVIOUS
    <3>3. e \in Seq(Seq(Byte)) /\ t \in Seq(Seq(Byte)) /\ f = e \o t
      BY <2>2, <3>1, <3>2, ReachesFraming
    <3> QED
      BY <3>2, <3>3, PrefixOfConcat
  <2>5. ASSUME corrupt PROVE Framing.corrupt
    <3>1. PICK packets, p : Reaches(b, packets, p) /\ CorruptAt(b, p)
      BY <2>1, <2>5 DEF Decoding, Decoded
    <3>2. ~HasPacket(b, p)
      BY <3>1 DEF HasPacket
    <3>3. Framed(b)[0].corrupt = Framed(b)[p].corrupt /\ Framed(b)[p] = FramedAt(b, Framed(b), p)
      BY <3>1, ReachesFraming
    <3> QED
      BY <2>2, <3>1, <3>2, <3>3 DEF FramedAt
  <2> QED
    BY <2>3, <2>4, <2>5 DEF PacketsAreFramed
<1> QED
  BY <1>1, HoldingAlways, FittingAlways, DecodingAlways, PTL

\* Between two fragments nothing that is complete is held back, except an empty
\* packet of one byte at the end, and what is behind a two-byte prefix that ended
\* a fragment.
THEOREM CompletePacketsComeOut == Spec => []NothingHeldBack
<1>1. Holding /\ Fitting /\ Decoding => NothingHeldBack
  <2> SUFFICES ASSUME Holding, Fitting, Decoding, pc = "idle", link # "gone", ~corrupt, ~PrefixEndsFragment
               PROVE  \/ Len(Emitted) = Len(Framing.packets)
                      \/ /\ unread = 1 /\ Len(Emitted) + 1 = Len(Framing.packets)
                         /\ Last(Framing.packets) = <<>>
    BY DEF NothingHeldBack
  <2>1. Laid /\ Standing /\ Decoded /\ unread \in Nat /\ body \in Nat
    BY ParserAssumption DEF Decoding, Holding, TypeOK
  <2>2. PICK b \in Seq(Byte) : b = Bytes
    BY <2>1 DEF Laid
  <2>3. PICK p : Reaches(b, Emitted, p) /\ InPacket(p)
    BY <2>1, <2>2 DEF Decoded
  <2>4. PICK e, f, t : e = Emitted /\ f = Framing.packets /\ t = Framed(b)[p].packets
    OBVIOUS
  <2>5. /\ e \in Seq(Seq(Byte)) /\ t \in Seq(Seq(Byte)) /\ f = e \o t
        /\ Framed(b)[p] = FramedAt(b, Framed(b), p) /\ p \in 0 .. Len(b)
    <3>1. Framing = Framed(b)[0]
      BY <2>2 DEF Framing, Bytes
    <3> QED
      BY <2>3, <2>4, <3>1, ReachesFraming
  <2>6. Len(b) = Consumed + unread
    BY <2>2, <2>1, ConsumedIs
  <2>7. CASE ~HasPacket(b, p)
    <3>1. t = <<>>
      BY <2>4, <2>5, <2>7 DEF FramedAt
    <3>2. e \o <<>> = e
      BY <2>5, ConcatEmptySeq
    <3> QED
      BY <2>4, <2>5, <3>1, <3>2
  <2>8. CASE HasPacket(b, p)
    <3>1. /\ HasPrefix(b, p) /\ StartAt(b, p) \in p + 1 .. Len(b) /\ LengthAt(b, p) \in Nat
          /\ EndAt(b, p) = StartAt(b, p) + LengthAt(b, p) /\ EndAt(b, p) <= Len(b) /\ p < Len(b)
          /\ p \in Nat /\ StartAt(b, p) \in Nat
      BY <2>5, <2>8, PrefixTypes DEF HasPacket, HasPrefix, EndAt
    <3>2. body = 0
      <4> SUFFICES ASSUME body > 0 PROVE FALSE
        BY <2>1
      <4>1. unread > 0 /\ InFragment
        BY <2>1 DEF PrefixEndsFragment
      <4>2. StartAt(b, p) = Consumed /\ body = LengthAt(b, p)
        BY <2>2, <2>3 DEF InPacket
      <4>3. body <= unread
        BY <2>1, <2>6, <3>1, <4>2
      <4>4. frag = Head(list) /\ frag # None /\ BytesIn(list) < cursor.at + body
        BY <4>1 DEF Fitting, BodyFits, Waiting, InFragment
      <4>5. BytesIn(list) = Size(frag) + BytesIn(Later(frag))
        BY <4>4, ListBytes
      <4>6. PICK at, r, l \in Nat : at = cursor.at /\ r = Remaining(cursor) /\ l = BytesIn(Later(frag))
        BY <4>1, CursorHasNext
      <4>7. unread = r + l /\ Size(frag) = at + r
        BY <4>1, <4>6, CursorHasNext
      <4> QED
        BY <2>1, <4>3, <4>4, <4>5, <4>6, <4>7
    <3>3. p = Consumed
      BY <2>3, <3>2 DEF InPacket
    <3>4. unread = 1
      <4>1. unread > 0
        BY <2>1, <2>6, <3>1, <3>3
      <4>2. InFragment
        BY <2>1, <3>2, <4>1 DEF Standing
      <4> QED
        BY <3>2, <4>1, <4>2 DEF Fitting, PrefixFits, Waiting
    <3>5. EndAt(b, p) = p + 1 /\ StartAt(b, p) = p + 1 /\ Len(b) = p + 1
      BY <2>6, <3>1, <3>3, <3>4
    <3>6. PacketAt(b, p) = <<>>
      <4>1. PICK s \in Nat : s = p + 1
        BY <3>1
      <4>2. SubSeq(b, s + 1, s) = <<>>
        BY <4>1
      <4> QED
        BY <3>5, <4>1, <4>2 DEF PacketAt
    <3>7. Framed(b)[p + 1].packets = <<>>
      <4>1. p + 1 \in 0 .. Len(b) /\ ~ (p + 1 < Len(b))
        BY <3>1, <3>5
      <4>2. ~HasPacket(b, p + 1)
        BY <4>1 DEF HasPacket, HasPrefix
      <4>3. Framed(b)[p + 1] = FramedAt(b, Framed(b), p + 1)
        BY <4>1, FramedIs
      <4> QED
        BY <4>2, <4>3 DEF FramedAt
    <3>8. t = << <<>> >>
      <4>1. t = <<PacketAt(b, p)>> \o Framed(b)[EndAt(b, p)].packets
        BY <2>4, <2>5, <2>8 DEF FramedAt
      <4>2. << <<>> >> \o <<>> = << <<>> >>
        OBVIOUS
      <4> QED
        BY <3>5, <3>6, <3>7, <4>1, <4>2
    <3>9. /\ Len(t) = 1 /\ t[1] = <<>>
      BY <3>8
    <3>10. /\ Len(f) = Len(e) + Len(t) /\ \A i \in 1 .. Len(t) : f[Len(e) + i] = t[i]
      BY <2>5, ConcatAt
    <3>11. Len(f) = Len(e) + 1 /\ f[Len(e) + 1] = <<>>
      <4>1. 1 \in 1 .. Len(t)
        BY <3>9
      <4> QED
        BY <3>9, <3>10, <4>1
    <3>12. Last(f) = <<>>
      BY <3>11 DEF Last
    <3> QED
      BY <2>4, <3>4, <3>11, <3>12
  <2> QED
    BY <2>7, <2>8
<1> QED
  BY <1>1, HoldingAlways, FittingAlways, DecodingAlways, PTL
=============================================================================
