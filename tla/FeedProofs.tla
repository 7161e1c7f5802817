------------------------------ MODULE FeedProofs ------------------------------
(***************************************************************************)
(* For any items, keys, bounds and cuts of a snapshot: what a surface is fed *)
(* is whole, and what it shows once it applied everything is what the tables *)
(* hold.                                                                     *)
(***************************************************************************)
EXTENDS TimelineFeed, SequenceLemmas, FiniteSetTheorems

-----------------------------------------------------------------------------
(* Rows in order.                                                          *)
Rises(s, n) == \A j, k \in 1..n : j < k => s[j] < s[k]
Reaches(s, n, S) == \A x \in S : \E j \in 1..n : s[j] = x

LEMMA OneToOneOnto ==
  ASSUME NEW S, IsFiniteSet(S), NEW f \in [1..Cardinality(S) -> S],
         \A j, k \in 1..Cardinality(S) : f[j] = f[k] => j = k
  PROVE  Reaches(f, Cardinality(S), S)
<1> DEFINE n == Cardinality(S)
           T == 1..n
<1>1. n \in Nat
  BY FS_CardinalityType
<1>2. IsFiniteSet(T) /\ Cardinality(T) = n
  BY <1>1, FS_Interval
<1>3. f \in Injection(T, S)
  BY DEF Injection, IsInjective
<1>4. f \in Surjection(T, S)
  <2> HIDE DEF n, T
  <2> QED BY <1>2, <1>3, FS_Injection DEF n
<1> QED BY <1>4 DEF Surjection, Reaches

LEMMA AscendingExists ==
  ASSUME NEW n \in Nat, NEW S \in SUBSET (1..n)
  PROVE  /\ IsFiniteSet(S) /\ Cardinality(S) \in Nat
         /\ \E s \in [1..Cardinality(S) -> S] : Rises(s, Cardinality(S))
<1> DEFINE Good(R) == /\ IsFiniteSet(R) /\ Cardinality(R) \in Nat
                      /\ \E s \in [1..Cardinality(R) -> R] : Rises(s, Cardinality(R))
           P == {m \in Nat : \A R \in SUBSET (1..m) : Good(R)}
<1>1. 0 \in P
  <2>1. Cardinality({}) = 0 /\ IsFiniteSet({})
    BY FS_EmptySet
  <2>2. \A R \in SUBSET (1..0) : R = {}
    OBVIOUS
  <2>3. [j \in 1..0 |-> 0] \in [1..0 -> {}] /\ Rises([j \in 1..0 |-> 0], 0)
    BY DEF Rises
  <2>4. Good({})
    <3> DEFINE c == Cardinality({})
    <3>1. c = 0
      BY <2>1
    <3> HIDE DEF c
    <3>2. \E s \in [1..c -> {}] : Rises(s, c)
      BY <2>3, <3>1
    <3> QED BY <2>1, <3>2 DEF c
  <2> HIDE DEF Good
  <2> QED BY <2>2, <2>4
<1>2. ASSUME NEW m \in Nat, m \in P PROVE m + 1 \in P
  <2> SUFFICES ASSUME NEW R \in SUBSET (1..(m + 1)) PROVE Good(R)
    OBVIOUS
  <2>1. CASE m + 1 \notin R
    <3>1. R \in SUBSET (1..m)
      <4>1. \A i \in 1..(m + 1) : i # m + 1 => i \in 1..m
        OBVIOUS
      <4> QED BY ONLY <2>1, <4>1, R \in SUBSET (1..(m + 1))
    <3> QED BY <1>2, <3>1
  <2>2. CASE m + 1 \in R
    <3> DEFINE Q == R \ {m + 1}
    <3>1. Q \in SUBSET (1..m) /\ R = Q \cup {m + 1} /\ m + 1 \notin Q
      <4>1. \A i \in 1..(m + 1) : i # m + 1 => i \in 1..m
        OBVIOUS
      <4> QED BY ONLY <2>2, <4>1, R \in SUBSET (1..(m + 1))
    <3>2. Good(Q)
      <4>1. \A X \in SUBSET (1..m) : Good(X)
        BY <1>2
      <4> HIDE DEF Q, Good
      <4> QED BY <3>1, <4>1
    <3> HIDE DEF Q
    <3>3. IsFiniteSet(Q) /\ Cardinality(Q) \in Nat
      BY <3>2
    <3> DEFINE c == Cardinality(Q)
    <3>4. PICK s \in [1..c -> Q] : Rises(s, c)
      BY <3>2
    <3>5. IsFiniteSet(R) /\ Cardinality(R) = c + 1
      BY <3>1, <3>3, FS_AddElement
    <3> DEFINE t == [j \in 1..(c + 1) |-> IF j = c + 1 THEN m + 1 ELSE s[j]]
    <3> HIDE DEF c
    <3>6. c \in Nat
      BY <3>3 DEF c
    <3>7. \A j \in 1..(c + 1) : j = c + 1 \/ j \in 1..c
      BY <3>6
    <3>8. t \in [1..(c + 1) -> R]
      BY <3>1, <3>4, <3>7
    <3>9. ASSUME NEW j \in 1..(c + 1), NEW k \in 1..(c + 1), j < k PROVE t[j] < t[k]
      <4>1. j \in 1..c /\ t[j] = s[j] /\ s[j] \in 1..m
        <5>1. j \in 1..c /\ j # c + 1
          BY <3>6, <3>9
        <5>2. s[j] \in Q
          BY <5>1
        <5> QED BY <3>1, <5>1, <5>2
      <4>2. CASE k = c + 1
        <5>1. t[k] = m + 1
          BY <4>2
        <5> HIDE DEF t
        <5> QED BY <4>1, <5>1
      <4>3. CASE k \in 1..c
        <5>1. t[k] = s[k]
          BY <3>6, <4>3
        <5> QED BY <3>4, <3>9, <4>1, <4>3, <5>1 DEF Rises
      <4> QED BY <3>7, <4>2, <4>3
    <3>10. Rises(t, c + 1)
      BY <3>9 DEF Rises
    <3> HIDE DEF t
    <3> QED BY <3>5, <3>6, <3>8, <3>10
  <2> QED BY <2>1, <2>2
<1> HIDE DEF P
<1>3. n \in P
  BY <1>1, <1>2, Induction
<1> QED BY <1>3 DEF P

(* Ascending lists a set of positions, each once.                          *)
LEMMA AscendingIs ==
  ASSUME NEW n \in Nat, NEW S \in SUBSET (1..n)
  PROVE  /\ Ascending(S) \in Seq(S)
         /\ Rises(Ascending(S), Len(Ascending(S)))
         /\ Reaches(Ascending(S), Len(Ascending(S)), S)
<1> DEFINE c == Cardinality(S)
           a == Ascending(S)
<1>1. IsFiniteSet(S) /\ c \in Nat /\ \E s \in [1..c -> S] : Rises(s, c)
  BY AscendingExists
<1>2. a \in [1..c -> S] /\ Rises(a, c)
  <2>1. a = CHOOSE s \in [1..c -> S] : \A j, k \in DOMAIN s : j < k => s[j] < s[k]
    BY DEF Ascending
  <2>2. \E s \in [1..c -> S] : \A j, k \in DOMAIN s : j < k => s[j] < s[k]
    <3>1. PICK s \in [1..c -> S] : Rises(s, c)
      BY <1>1
    <3>2. DOMAIN s = 1..c
      OBVIOUS
    <3> QED BY <3>1, <3>2 DEF Rises
  <2> HIDE DEF c, a
  <2>3. a \in [1..c -> S] /\ \A j, k \in DOMAIN a : j < k => a[j] < a[k]
    BY <2>1, <2>2
  <2>4. DOMAIN a = 1..c
    BY <2>3
  <2> QED BY <2>3, <2>4 DEF Rises
<1>3. \A j, k \in 1..c : a[j] = a[k] => j = k
  <2> HIDE DEF a, c
  <2>1. \A j \in 1..c : a[j] \in Nat
    <3>1. \A j \in 1..c : a[j] \in S
      BY <1>2
    <3>2. \A x \in S : x \in Nat
      OBVIOUS
    <3> QED BY <3>1, <3>2
  <2>2. ASSUME NEW j \in 1..c, NEW k \in 1..c, a[j] = a[k], j < k PROVE FALSE
    <3>1. a[j] < a[k]
      BY <1>2, <2>2 DEF Rises
    <3> QED BY <2>1, <2>2, <3>1
  <2>3. \A j, k \in 1..c : j < k \/ k < j \/ j = k
    BY <1>1
  <2> QED BY <2>2, <2>3
<1>4. Reaches(a, c, S)
  <2> HIDE DEF a
  <2> QED BY <1>1, <1>2, <1>3, OneToOneOnto
<1>5. a \in Seq(S) /\ Len(a) = c
  <2> HIDE DEF a, c
  <2> QED BY <1>1, <1>2
<1> QED BY <1>2, <1>4, <1>5

(* SetToSeq lists a finite set.                                            *)
LEMMA SetToSeqIs ==
  ASSUME NEW S, IsFiniteSet(S)
  PROVE  /\ SetToSeq(S) \in Seq(S)
         /\ Reaches(SetToSeq(S), Len(SetToSeq(S)), S)
<1> DEFINE c == Cardinality(S)
           a == SetToSeq(S)
<1>1. c \in Nat
  BY FS_CardinalityType
<1>2. \E f \in [1..c -> S] : IsInjective(f)
  <2>1. PICK n \in Nat : ExistsBijection(1..n, S)
    BY FS_NatBijection
  <2>2. c = n
    BY <2>1, FS_CountingElements
  <2> QED BY <2>1, <2>2 DEF ExistsBijection, Bijection, Injection
<1>3. a \in [1..c -> S] /\ IsInjective(a)
  BY <1>2 DEF SetToSeq
<1>4. \A j, k \in 1..c : a[j] = a[k] => j = k
  BY <1>3 DEF IsInjective
<1> HIDE DEF a
<1>5. Reaches(a, c, S)
  BY <1>3, <1>4, OneToOneOnto
<1>6. a \in Seq(S) /\ Len(a) = c
  <2> HIDE DEF c
  <2> QED BY <1>1, <1>3
<1> QED BY <1>5, <1>6 DEF a
-----------------------------------------------------------------------------
(***************************************************************************)
(* Frames.  What the frames carry is put together frame by frame (Content); *)
(* a surface reads the same as long as no part of an entry is missing       *)
(* (Unbroken).                                                              *)
(***************************************************************************)
EntrySet == [of: {"timeline", "ui"}, id: Items \cup Keys, number: Nat, expansion: Expansions]
FrameSet == [kind: {"header", "chunk", "fragment", "end"}, entries: Seq(EntrySet),
             index: Nat, count: Nat]

Brings(f) == IF f.kind = "fragment" /\ f.index # 1 THEN <<>> ELSE f.entries
Contents(frames) == [j \in 1..Len(frames) |-> Brings(frames[j])]
Content(frames) == FlattenSeq(Contents(frames))

Unbroken(frames) ==
  \A j \in 1..Len(frames) : frames[j].kind = "fragment" =>
     \A part \in 1..Parts : \E k \in 1..Len(frames) :
        frames[k] = Frame("fragment", frames[j].entries, part, Parts)

(* The frames fs carry the entries es.                                     *)
Carry(fs, es) ==
  /\ fs \in Seq(FrameSet) /\ es \in Seq(EntrySet)
  /\ Unbroken(fs) /\ Content(fs) = es

LEMMA FrameType ==
  ASSUME NEW es \in Seq(EntrySet), NEW i \in Nat, NEW n \in Nat,
         NEW kind \in {"header", "chunk", "fragment", "end"}
  PROVE  Frame(kind, es, i, n) \in FrameSet
BY DEF Frame, FrameSet

LEMMA ContentsType ==
  ASSUME NEW fs \in Seq(FrameSet)
  PROVE  Contents(fs) \in Seq(Seq(EntrySet)) /\ Len(Contents(fs)) = Len(fs)
<1>1. \A j \in 1..Len(fs) : fs[j] \in FrameSet
  OBVIOUS
<1>2. <<>> \in Seq(EntrySet)
  OBVIOUS
<1>3. \A f \in FrameSet : f.entries \in Seq(EntrySet)
  BY DEF FrameSet
<1>4. \A j \in 1..Len(fs) : Brings(fs[j]) \in Seq(EntrySet)
  BY <1>1, <1>2, <1>3 DEF Brings
<1>5. Len(fs) \in Nat
  OBVIOUS
<1> QED BY <1>4, <1>5 DEF Contents

LEMMA ContentType ==
  ASSUME NEW fs \in Seq(FrameSet)
  PROVE  Content(fs) \in Seq(EntrySet)
<1>1. Contents(fs) \in Seq(Seq(EntrySet))
  BY ContentsType
<1>2. FlattenOK(EntrySet, Contents(fs))
  BY <1>1, FlattenElements
<1> QED BY <1>2 DEF FlattenOK, Content

LEMMA CarryConcat ==
  ASSUME NEW fs, NEW es, NEW gs, NEW ds, Carry(fs, es), Carry(gs, ds)
  PROVE  Carry(fs \o gs, es \o ds)
<1> DEFINE n == Len(fs)
           m == Len(gs)
           hs == fs \o gs
<1>1. fs \in Seq(FrameSet) /\ gs \in Seq(FrameSet) /\ n \in Nat /\ m \in Nat
  BY DEF Carry
<1>2. /\ hs \in Seq(FrameSet) /\ Len(hs) = n + m
      /\ \A j \in 1..(n + m) : hs[j] = IF j <= n THEN fs[j] ELSE gs[j - n]
  BY <1>1, ConcatProperties
<1>3. /\ \A j \in 1..n : j \in 1..(n + m) /\ hs[j] = fs[j]
      /\ \A j \in 1..m : n + j \in 1..(n + m) /\ hs[n + j] = gs[j]
      /\ \A j \in 1..(n + m) : j \in 1..n \/ \E k \in 1..m : j = n + k
  <2>1. \A j \in 1..n : j \in 1..(n + m) /\ j <= n
    BY <1>1
  <2>2. \A j \in 1..m : n + j \in 1..(n + m) /\ ~(n + j <= n) /\ (n + j) - n = j
    BY <1>1
  <2>3. \A j \in 1..(n + m) : j \in 1..n \/ (j - n \in 1..m /\ j = n + (j - n))
    BY <1>1
  <2> HIDE DEF hs, n, m
  <2>4. \A j \in 1..m : hs[n + j] = gs[j]
    BY <1>2, <2>2
  <2> QED BY <1>2, <2>1, <2>2, <2>3, <2>4
<1>4. Unbroken(hs)
  <2> HIDE DEF hs
  <2> SUFFICES ASSUME NEW j \in 1..(n + m), hs[j].kind = "fragment", NEW part \in 1..Parts
               PROVE  \E k \in 1..(n + m) :
                         hs[k] = Frame("fragment", hs[j].entries, part, Parts)
    BY <1>2 DEF Unbroken
  <2>1. CASE j \in 1..n
    <3>1. PICK k \in 1..n : fs[k] = Frame("fragment", fs[j].entries, part, Parts)
      BY <1>3, <2>1 DEF Carry, Unbroken
    <3> QED BY <1>3, <2>1, <3>1
  <2>2. CASE \E k \in 1..m : j = n + k
    <3>1. PICK i \in 1..m : j = n + i
      BY <2>2
    <3>2. PICK k \in 1..m : gs[k] = Frame("fragment", gs[i].entries, part, Parts)
      BY <1>3, <3>1 DEF Carry, Unbroken
    <3> QED BY <1>3, <3>1, <3>2
  <2> QED BY <1>3, <2>1, <2>2
<1>5. Contents(hs) = Contents(fs) \o Contents(gs)
  <2>1. /\ Contents(fs) \in Seq(Seq(EntrySet)) /\ Len(Contents(fs)) = n
        /\ Contents(gs) \in Seq(Seq(EntrySet)) /\ Len(Contents(gs)) = m
        /\ Contents(hs) \in Seq(Seq(EntrySet)) /\ Len(Contents(hs)) = n + m
    <3> HIDE DEF hs
    <3> QED BY <1>1, <1>2, ContentsType
  <2> DEFINE a == Contents(fs)
             b == Contents(gs)
             c == Contents(hs)
  <2>2. /\ \A j \in 1..n : a[j] = Brings(fs[j])
        /\ \A j \in 1..m : b[j] = Brings(gs[j])
        /\ \A j \in 1..(n + m) : c[j] = Brings(hs[j])
    <3> HIDE DEF hs
    <3> QED BY <1>2 DEF Contents
  <2> HIDE DEF a, b, c, hs, n, m
  <2>3. /\ a \o b \in Seq(Seq(EntrySet)) /\ Len(a \o b) = n + m
        /\ \A j \in 1..(n + m) : (a \o b)[j] = IF j <= n THEN a[j] ELSE b[j - n]
    BY <2>1, ConcatProperties DEF a, b
  <2>4. \A j \in 1..(n + m) : (a \o b)[j] = c[j]
    <3> SUFFICES ASSUME NEW j \in 1..(n + m) PROVE (a \o b)[j] = c[j]
      OBVIOUS
    <3>1. CASE j \in 1..n
      <4>1. j <= n
        BY <1>1, <3>1
      <4> QED BY <1>3, <2>2, <2>3, <3>1, <4>1
    <3>2. CASE \E k \in 1..m : j = n + k
      <4>1. PICK k \in 1..m : j = n + k
        BY <3>2
      <4>2. ~(j <= n) /\ j - n = k
        BY <1>1, <4>1
      <4>3. (a \o b)[j] = b[k]
        BY <2>3, <4>2
      <4>4. hs[j] = gs[k]
        BY <1>3, <4>1
      <4> QED BY <2>2, <4>3, <4>4
    <3> QED BY <1>3, <3>1, <3>2
  <2>5. c \in Seq(Seq(EntrySet)) /\ Len(c) = n + m
    BY <2>1 DEF c
  <2>6. a \o b = c
    <3> DEFINE d == a \o b
    <3>1. /\ d \in Seq(Seq(EntrySet)) /\ c \in Seq(Seq(EntrySet)) /\ Len(d) = Len(c)
          /\ \A j \in 1..Len(d) : d[j] = c[j]
      BY <2>3, <2>4, <2>5
    <3> HIDE DEF d
    <3>2. d = c
      BY <3>1, SeqEqual
    <3> QED BY <3>2 DEF d
  <2> QED BY <2>6 DEF a, b, c
<1>6. Content(hs) = es \o ds
  <2>1. Contents(fs) \in Seq(Seq(EntrySet)) /\ Contents(gs) \in Seq(Seq(EntrySet))
    BY <1>1, ContentsType
  <2>2. FlattenSeq(Contents(fs) \o Contents(gs)) = FlattenSeq(Contents(fs)) \o FlattenSeq(Contents(gs))
    BY <2>1, FlattenConcat
  <2> QED BY <1>5, <2>2 DEF Carry, Content
<1>7. es \o ds \in Seq(EntrySet)
  <2>1. es \in Seq(EntrySet) /\ ds \in Seq(EntrySet)
    BY DEF Carry
  <2> QED BY <2>1, ConcatProperties
<1> HIDE DEF hs
<1>8. Carry(hs, es \o ds)
  BY <1>2, <1>4, <1>6, <1>7 DEF Carry
<1> QED BY <1>8 DEF hs

LEMMA CarryNothing == Carry(<<>>, <<>>)
<1>1. Contents(<<>>) = <<>>
  BY DEF Contents
<1>2. Content(<<>>) = <<>>
  BY <1>1, FlattenEmpty DEF Content
<1> QED BY <1>2 DEF Carry, Unbroken

(* A frame that is no fragment.                                            *)
LEMMA CarryFrame ==
  ASSUME NEW es \in Seq(EntrySet), NEW i \in Nat, NEW n \in Nat,
         NEW kind \in {"header", "chunk", "end"}
  PROVE  Carry(<<Frame(kind, es, i, n)>>, es)
<1> DEFINE f == Frame(kind, es, i, n)
<1>1. f \in FrameSet /\ f.kind # "fragment" /\ f.entries = es
  <2>1. f \in FrameSet
    BY FrameType
  <2> QED BY <2>1 DEF Frame
<1> HIDE DEF f
<1>2. <<f>> \in Seq(FrameSet) /\ Len(<<f>>) = 1 /\ <<f>>[1] = f
  BY <1>1
<1> DEFINE fs == <<f>>
<1>3. Unbroken(fs)
  BY <1>1, <1>2 DEF Unbroken
<1>4. Contents(fs) = [j \in 1..1 |-> es]
  BY <1>1, <1>2 DEF Contents, Brings
<1>5. Content(fs) = es
  <2> DEFINE one == 1
             cs == Contents(fs)
  <2>1. one \in Nat /\ one = 1 /\ HasLen(cs, one) /\ cs[one] = es
    BY <1>4 DEF HasLen
  <2> HIDE DEF one, cs
  <2>2. FlattenSeq(cs) = es
    BY <2>1, FlattenOne
  <2> QED BY <2>2 DEF cs, Content
<1> HIDE DEF fs
<1>6. Carry(fs, es)
  BY <1>2, <1>3, <1>5 DEF Carry, fs
<1> QED BY <1>6 DEF fs, f

LEMMA CarryChunk ==
  ASSUME NEW es \in Seq(EntrySet)
  PROVE  Carry(Chunk(es), es)
<1>1. CASE es = <<>>
  BY <1>1, CarryNothing DEF Chunk
<1>2. CASE es # <<>>
  <2>1. 0 \in Nat /\ "chunk" \in {"header", "chunk", "end"}
    OBVIOUS
  <2>2. Carry(<<Frame("chunk", es, 0, 0)>>, es)
    BY <2>1, CarryFrame
  <2> QED BY <1>2, <2>2 DEF Chunk
<1> QED BY <1>1, <1>2

LEMMA CarryFragments ==
  ASSUME NEW e \in EntrySet
  PROVE  Carry(Fragments(e), <<e>>)
<1> DEFINE fs == Fragments(e)
           F(n) == [j \in 1..n |-> IF j = 1 THEN <<e>> ELSE <<>>]
<1>0. Parts \in Nat \ {0} /\ <<e>> \in Seq(EntrySet) /\ <<>> \in Seq(EntrySet)
  BY FeedAssumption
<1>1. \A j \in 1..Parts : Frame("fragment", <<e>>, j, Parts) \in FrameSet
  BY <1>0, FrameType
<1>2. fs \in Seq(FrameSet) /\ Len(fs) = Parts
      /\ \A j \in 1..Parts : fs[j] = Frame("fragment", <<e>>, j, Parts)
  BY <1>0, <1>1 DEF Fragments
<1>3. \A j \in 1..Parts : /\ fs[j].kind = "fragment" /\ fs[j].entries = <<e>>
                          /\ fs[j].index = j
  <2> HIDE DEF fs
  <2> QED BY <1>2 DEF Frame
<1> HIDE DEF fs
<1>4. Unbroken(fs)
  BY <1>2, <1>3 DEF Unbroken
<1>5. Contents(fs) = F(Parts)
  BY <1>0, <1>2, <1>3 DEF Contents, Brings
<1>6. \A n \in Nat : F(n + 1) \in Seq(Seq(EntrySet)) /\ Len(F(n + 1)) = n + 1
  BY <1>0
<1> DEFINE P == {n \in Nat : FlattenSeq(F(n + 1)) = <<e>>}
<1>7. 0 \in P
  <2> DEFINE one == 1
             cs == F(0 + 1)
  <2>1. one \in Nat /\ one = 1 /\ HasLen(cs, one) /\ cs[one] = <<e>>
    BY DEF HasLen
  <2> HIDE DEF one, cs
  <2>2. FlattenSeq(cs) = <<e>>
    BY <2>1, FlattenOne
  <2> QED BY <2>2 DEF cs
<1>8. ASSUME NEW n \in Nat, n \in P PROVE n + 1 \in P
  <2>1. F(n + 1) \in Seq(Seq(EntrySet)) /\ FlattenSeq(F(n + 1)) = <<e>>
    BY <1>6, <1>8
  <2>2. F((n + 1) + 1) = Append(F(n + 1), <<>>)
    <3>1. /\ F((n + 1) + 1) \in Seq(Seq(EntrySet)) /\ Len(F((n + 1) + 1)) = (n + 1) + 1
          /\ Append(F(n + 1), <<>>) \in Seq(Seq(EntrySet))
          /\ Len(Append(F(n + 1), <<>>)) = (n + 1) + 1
      BY <1>0, <1>6, <2>1
    <3>2. \A j \in 1..((n + 1) + 1) : F((n + 1) + 1)[j] = Append(F(n + 1), <<>>)[j]
      <4> SUFFICES ASSUME NEW j \in 1..((n + 1) + 1)
                   PROVE  F((n + 1) + 1)[j] = Append(F(n + 1), <<>>)[j]
        OBVIOUS
      <4>1. CASE j = (n + 1) + 1
        BY <1>6, <2>1, <4>1
      <4>2. CASE j # (n + 1) + 1
        <5>1. j \in 1..(n + 1)
          BY <4>2
        <5>2. F((n + 1) + 1)[j] = F(n + 1)[j]
          BY <5>1
        <5> DEFINE g == F(n + 1)
        <5>3. g \in Seq(Seq(EntrySet)) /\ Len(g) = n + 1
          BY <1>6
        <5> HIDE DEF g
        <5>4. Append(g, <<>>)[j] = g[j]
          BY <5>1, <5>3
        <5> QED BY <5>2, <5>4 DEF g
      <4> QED BY <4>1, <4>2
    <3> DEFINE a == F((n + 1) + 1)
               b == Append(F(n + 1), <<>>)
    <3>3. /\ a \in Seq(Seq(EntrySet)) /\ b \in Seq(Seq(EntrySet))
          /\ Len(a) = (n + 1) + 1 /\ Len(b) = (n + 1) + 1
          /\ \A j \in 1..((n + 1) + 1) : a[j] = b[j]
      BY <3>1, <3>2
    <3> HIDE DEF a, b
    <3>4. a = b
      BY <3>3
    <3> QED BY <3>4 DEF a, b
  <2> DEFINE g == F(n + 1)
  <2>3. FlattenSeq(Append(g, <<>>)) = FlattenSeq(g) \o <<>>
    <3>1. g \in Seq(Seq(EntrySet)) /\ <<>> \in Seq(EntrySet)
      BY <1>0, <2>1
    <3> HIDE DEF g
    <3> QED BY ONLY <3>1, FlattenAppend
  <2>4. <<e>> \o <<>> = <<e>>
    BY <1>0, ConcatEmptySeq
  <2>5. n + 1 \in Nat
    OBVIOUS
  <2> HIDE DEF F
  <2> QED BY <2>1, <2>2, <2>3, <2>4, <2>5
<1>9. Parts - 1 \in P
  <2>1. Parts - 1 \in Nat
    BY <1>0
  <2> HIDE DEF P
  <2> QED BY <1>7, <1>8, <2>1, Induction
<1>10. Content(fs) = <<e>>
  <2>1. (Parts - 1) + 1 = Parts
    BY <1>0
  <2> QED BY <1>5, <1>9, <2>1 DEF Content
<1>11. Carry(fs, <<e>>)
  BY <1>0, <1>2, <1>4, <1>10 DEF Carry
<1> QED BY <1>11 DEF fs
-----------------------------------------------------------------------------
(* chunk_entries: what it has put out and what is open.                    *)
Acc == [frames: Seq(FrameSet), open: Seq(EntrySet)]
NoFrames == [frames |-> <<>>, open |-> <<>>]

(* The frames and the open chunk hold the entries es.                      *)
Holds(acc, es) ==
  acc \in Acc /\ \E ds \in Seq(EntrySet) : Carry(acc.frames, ds) /\ ds \o acc.open = es

LEMMA AddIs ==
  ASSUME NEW acc \in Acc, NEW e
  PROVE  AddEntry(acc, e) =
           IF e.id \in Large
           THEN [frames |-> (acc.frames \o Chunk(acc.open)) \o Fragments(e), open |-> <<>>]
           ELSE IF Len(acc.open) + 1 > ChunkMax
           THEN [frames |-> acc.frames \o Chunk(acc.open), open |-> <<e>>]
           ELSE [frames |-> acc.frames, open |-> Append(acc.open, e)]
<1>1. [acc EXCEPT !.open = Append(@, e)] = [frames |-> acc.frames, open |-> Append(acc.open, e)]
  <2> DEFINE o == Append(acc.open, e)
  <2> HIDE DEF o
  <2>1. [acc EXCEPT !.open = o] = [frames |-> acc.frames, open |-> o]
    BY DEF Acc
  <2> QED BY <2>1 DEF o
<1> QED BY ONLY <1>1 DEF AddEntry

LEMMA AddType ==
  ASSUME NEW acc \in Acc, NEW e \in EntrySet
  PROVE  AddEntry(acc, e) \in Acc
<1>1. acc.frames \in Seq(FrameSet) /\ acc.open \in Seq(EntrySet)
  BY DEF Acc
<1>2. /\ Chunk(acc.open) \in Seq(FrameSet) /\ Fragments(e) \in Seq(FrameSet)
      /\ <<e>> \in Seq(EntrySet) /\ <<>> \in Seq(EntrySet)
  <2>1. Carry(Chunk(acc.open), acc.open) /\ Carry(Fragments(e), <<e>>)
    BY <1>1, CarryChunk, CarryFragments
  <2> QED BY <2>1 DEF Carry
<1> DEFINE c == Chunk(acc.open)
           f == Fragments(e)
           x == acc.frames
<1>3. /\ x \o c \in Seq(FrameSet) /\ (x \o c) \o f \in Seq(FrameSet)
      /\ Append(acc.open, e) \in Seq(EntrySet)
  <2>1. x \in Seq(FrameSet) /\ c \in Seq(FrameSet) /\ f \in Seq(FrameSet)
    BY <1>1, <1>2
  <2> HIDE DEF x, c, f
  <2>2. x \o c \in Seq(FrameSet)
    BY <2>1, ConcatProperties
  <2> DEFINE y == x \o c
  <2>3. y \in Seq(FrameSet)
    BY <2>2
  <2> HIDE DEF y
  <2>4. y \o f \in Seq(FrameSet)
    BY <2>1, <2>3, ConcatProperties
  <2> QED BY <1>1, <2>2, <2>4 DEF y
<1>4. AddEntry(acc, e) =
        IF e.id \in Large THEN [frames |-> (x \o c) \o f, open |-> <<>>]
        ELSE IF Len(acc.open) + 1 > ChunkMax THEN [frames |-> x \o c, open |-> <<e>>]
        ELSE [frames |-> x, open |-> Append(acc.open, e)]
  BY AddIs
<1> HIDE DEF c, f, x
<1> QED BY <1>1, <1>2, <1>3, <1>4 DEF Acc, x

LEMMA AddHolds ==
  ASSUME NEW acc, NEW es \in Seq(EntrySet), NEW e \in EntrySet, Holds(acc, es)
  PROVE  Holds(AddEntry(acc, e), Append(es, e))
<1>1. acc \in Acc /\ acc.frames \in Seq(FrameSet) /\ acc.open \in Seq(EntrySet)
  BY DEF Acc, Holds
<1>2. AddEntry(acc, e) \in Acc
  BY <1>1, AddType
<1>3. PICK ds \in Seq(EntrySet) : Carry(acc.frames, ds) /\ ds \o acc.open = es
  BY DEF Holds
<1> DEFINE c == Chunk(acc.open)
           f == Fragments(e)
           x == acc.frames
           o == acc.open
<1>4. o \in Seq(EntrySet) /\ Carry(c, o) /\ Carry(f, <<e>>) /\ Carry(x, ds)
  BY <1>1, <1>3, CarryChunk, CarryFragments
<1>5. AddEntry(acc, e) =
        IF e.id \in Large THEN [frames |-> (x \o c) \o f, open |-> <<>>]
        ELSE IF Len(o) + 1 > ChunkMax THEN [frames |-> x \o c, open |-> <<e>>]
        ELSE [frames |-> x, open |-> Append(o, e)]
  BY <1>1, AddIs
<1> HIDE DEF c, f, x, o
<1>6. ds \o o = es
  BY <1>3 DEF o
<1>7. Carry(x \o c, es)
  BY <1>4, <1>6, CarryConcat
<1> DEFINE y == x \o c
<1>8. Carry(y \o f, es \o <<e>>)
  <2>1. Carry(y, es)
    BY <1>7
  <2> HIDE DEF y
  <2> QED BY <1>4, <2>1, CarryConcat
<1>9. es \o <<e>> = Append(es, e) /\ Append(es, e) \in Seq(EntrySet)
  OBVIOUS
<1>10. Append(es, e) \o <<>> = Append(es, e)
  BY <1>9, ConcatEmptySeq
<1>11. ds \o Append(o, e) = Append(es, e)
  <2>1. ds \o Append(o, e) = Append(ds \o o, e)
    BY <1>4, ConcatAppend
  <2> QED BY <1>6, <2>1
<1> DEFINE next == AddEntry(acc, e)
<1>12. \E bs \in Seq(EntrySet) : Carry(next.frames, bs) /\ bs \o next.open = Append(es, e)
  <2> HIDE DEF next
  <2>1. CASE next = [frames |-> y \o f, open |-> <<>>]
    <3>1. next.frames = y \o f /\ next.open = <<>>
      BY <2>1
    <3> QED BY <1>8, <1>9, <1>10, <3>1
  <2>2. CASE next = [frames |-> x \o c, open |-> <<e>>]
    <3>1. next.frames = x \o c /\ next.open = <<e>>
      BY <2>2
    <3> QED BY <1>7, <1>9, <3>1
  <2>3. CASE next = [frames |-> x, open |-> Append(o, e)]
    <3>1. next.frames = x /\ next.open = Append(o, e)
      BY <2>3
    <3> QED BY <1>4, <1>11, <3>1
  <2>4. \/ next = [frames |-> y \o f, open |-> <<>>]
        \/ next = [frames |-> x \o c, open |-> <<e>>]
        \/ next = [frames |-> x, open |-> Append(o, e)]
    BY <1>5 DEF next
  <2> QED BY <2>1, <2>2, <2>3, <2>4
<1> QED BY <1>2, <1>12 DEF Holds

(* The frames and the open chunk after a prefix of the entries, one more at a time.*)
LEMMA AddFold ==
  ASSUME NEW t \in Seq(EntrySet)
  PROVE  \E kept \in [0..Len(t) -> Acc] :
           /\ kept[0] = NoFrames
           /\ \A k \in 1..Len(t) : kept[k] = AddEntry(kept[k - 1], t[k])
           /\ FoldLeft(AddEntry, NoFrames, t) = kept[Len(t)]
<1> DEFINE n == Len(t)
           V == Acc
           base == NoFrames
           K == [k \in 1..n |-> [x \in V |-> AddEntry(x, t[k])]]
           Eq(g) == g = [s \in SUBSET DOMAIN t |->
                           IF s = {} THEN NoFrames
                           ELSE AddEntry(g[s \ {Max(s)}], t[Max(s)])]
           u == CHOOSE g : Eq(g)
           kept == [k \in 0..n |-> u[1..k]]
<1>1. n \in Nat /\ base \in V /\ DOMAIN t = 1..n
  BY DEF NoFrames, Acc
<1>2. \A k \in 1..n : \A x \in V : AddEntry(x, t[k]) \in V
  BY <1>1, AddType
<1>3. \A k \in 1..n : \A x \in V : K[k][x] = AddEntry(x, t[k]) /\ K[k][x] \in V
  BY <1>2
<1>4. PICK g \in [SUBSET (1..n) -> V] : Folds(g, n, base, K)
  <2> HIDE DEF n, V, base, K
  <2>1. \A k \in 1..n : \A x \in V : K[k][x] \in V BY <1>3
  <2>2. QED BY ONLY <1>1, <2>1, FoldExists
<1>5. \A s \in SUBSET (1..n) :
        g[s] = IF s = {} THEN NoFrames ELSE AddEntry(g[s \ {Max(s)}], t[Max(s)])
  <2> SUFFICES ASSUME NEW s \in SUBSET (1..n)
               PROVE  g[s] = IF s = {} THEN NoFrames ELSE AddEntry(g[s \ {Max(s)}], t[Max(s)])
    OBVIOUS
  <2>1. g[s] = IF s = {} THEN base ELSE K[Max(s)][g[s \ {Max(s)}]] BY <1>4 DEF Folds
  <2>2. CASE s = {} BY <2>1, <2>2
  <2>3. CASE s # {}
    <3>1. Max(s) \in 1..n BY <1>1, <2>3, LastPosition
    <3>2. g[s \ {Max(s)}] \in V BY <1>4
    <3> HIDE DEF K, V
    <3>3. K[Max(s)][g[s \ {Max(s)}]] = AddEntry(g[s \ {Max(s)}], t[Max(s)])
      BY <1>3, <3>1, <3>2
    <3>4. QED BY <2>1, <2>3, <3>3
  <2>4. QED BY <2>2, <2>3
<1>6. Eq(g)
  <2>1. g = [s \in SUBSET (1..n) |-> g[s]] BY <1>4
  <2>2. QED BY <1>1, <1>5, <2>1
<1>7. Eq(u)
  <2> HIDE DEF Eq
  <2>1. QED BY <1>6
<1>8. FoldLeft(AddEntry, NoFrames, t) = u[1..n]
  BY <1>1 DEF FoldLeft, MapThenFoldSet
<1> HIDE DEF u, K
<1>9. \A s \in SUBSET (1..n) :
        u[s] = IF s = {} THEN NoFrames ELSE AddEntry(u[s \ {Max(s)}], t[Max(s)])
  BY <1>1, <1>7
<1>10. u[1..0] = NoFrames
  <2>1. 1..0 = {} /\ 1..0 \in SUBSET (1..n) OBVIOUS
  <2>2. QED BY <1>9, <2>1
<1>11. \A k \in 1..n : u[1..k] = AddEntry(u[1..(k - 1)], t[k])
  <2> SUFFICES ASSUME NEW k \in 1..n PROVE u[1..k] = AddEntry(u[1..(k - 1)], t[k])
    OBVIOUS
  <2>1. k \in Nat \ {0} /\ 1..k \in SUBSET (1..n) BY <1>1
  <2>2. 1..k # {} /\ Max(1..k) = k /\ (1..k) \ {k} = 1..(k - 1) BY <2>1, PrefixPositions
  <2>3. QED BY <1>9, <2>1, <2>2
<1>12. \A k \in 0..n : kept[k] = u[1..k] OBVIOUS
<1>13. \A k \in 0..n : kept[k] \in V
  <2> DEFINE S == {k \in Nat : k <= n => u[1..k] \in V}
  <2>1. 0 \in S BY <1>1, <1>10
  <2>2. ASSUME NEW k \in Nat, k \in S PROVE k + 1 \in S
    <3>1. k + 1 \in 1..n => k <= n /\ (k + 1) - 1 = k BY <1>1
    <3>2. k + 1 \in 1..n => u[1..(k + 1)] = AddEntry(u[1..k], t[k + 1]) BY <1>11, <3>1
    <3>3. k + 1 <= n => k + 1 \in 1..n BY <1>1
    <3> HIDE DEF V
    <3>4. QED BY <1>2, <2>2, <3>1, <3>2, <3>3
  <2> HIDE DEF S
  <2>3. \A k \in Nat : k \in S BY <2>1, <2>2, Induction
  <2>4. \A k \in 0..n : k \in Nat /\ k <= n BY <1>1
  <2>5. QED BY <1>12, <2>3, <2>4 DEF S
<1>14. kept \in [0..n -> V] BY <1>13
<1>15. kept[0] = NoFrames /\ kept[n] = u[1..n] BY <1>1, <1>10, <1>12
<1>16. \A k \in 1..n : kept[k] = AddEntry(kept[k - 1], t[k])
  <2>1. \A k \in 1..n : k \in 0..n /\ k - 1 \in 0..n BY <1>1
  <2> HIDE DEF kept
  <2>2. QED BY <1>11, <1>12, <2>1
<1> HIDE DEF kept
<1>17. QED BY <1>8, <1>14, <1>15, <1>16

(* However the entries are cut, the frames carry them all, in order.       *)
LEMMA ChunksCarry ==
  ASSUME NEW t \in Seq(EntrySet)
  PROVE  Carry(ChunkEntries(t), t)
<1> DEFINE n == Len(t)
<1>1. n \in Nat
  OBVIOUS
<1>2. PICK kept \in [0..n -> Acc] :
         /\ kept[0] = NoFrames
         /\ \A k \in 1..n : kept[k] = AddEntry(kept[k - 1], t[k])
         /\ FoldLeft(AddEntry, NoFrames, t) = kept[n]
  BY AddFold
<1> DEFINE P == {k \in Nat : k <= n => Holds(kept[k], SubSeq(t, 1, k))}
<1>3. 0 \in P
  <2>1. NoFrames \in Acc
    BY DEF NoFrames, Acc
  <2>2. SubSeq(t, 1, 0) = <<>>
    OBVIOUS
  <2>3. <<>> \in Seq(EntrySet) /\ <<>> \o <<>> = <<>>
    OBVIOUS
  <2>4. NoFrames.frames = <<>> /\ NoFrames.open = <<>>
    BY DEF NoFrames
  <2>5. Holds(NoFrames, <<>>)
    BY <2>1, <2>3, <2>4, CarryNothing DEF Holds
  <2> QED BY <1>2, <2>2, <2>5
<1>4. ASSUME NEW k \in Nat, k \in P PROVE k + 1 \in P
  <2> SUFFICES ASSUME k + 1 <= n PROVE Holds(kept[k + 1], SubSeq(t, 1, k + 1))
    OBVIOUS
  <2>1. k <= n /\ k + 1 \in 1..n /\ (k + 1) - 1 = k
    BY <1>1
  <2>2. Holds(kept[k], SubSeq(t, 1, k))
    BY <1>4, <2>1
  <2>3. kept[k + 1] = AddEntry(kept[k], t[k + 1])
    BY <1>2, <2>1
  <2>4. SubSeq(t, 1, k) \in Seq(EntrySet) /\ t[k + 1] \in EntrySet
    BY <2>1
  <2>5. SubSeq(t, 1, k + 1) = Append(SubSeq(t, 1, k), t[k + 1])
    BY <2>1
  <2> DEFINE s == SubSeq(t, 1, k)
             a == kept[k]
             e == t[k + 1]
  <2>6. Holds(AddEntry(a, e), Append(s, e))
    <3>1. s \in Seq(EntrySet) /\ e \in EntrySet /\ Holds(a, s)
      BY <2>2, <2>4
    <3> HIDE DEF s, a, e
    <3> QED BY <3>1, AddHolds
  <2> QED BY <2>3, <2>5, <2>6
<1>5. n \in P
  <2> HIDE DEF P, n
  <2> QED BY <1>1, <1>3, <1>4, Induction
<1>6. SubSeq(t, 1, n) = t
  OBVIOUS
<1> DEFINE all == FoldLeft(AddEntry, NoFrames, t)
<1>7. Holds(all, t)
  BY <1>1, <1>2, <1>5, <1>6
<1>8. ChunkEntries(t) = all.frames \o Chunk(all.open)
  BY DEF ChunkEntries, NoFrames
<1> HIDE DEF all
<1>9. PICK ds \in Seq(EntrySet) : Carry(all.frames, ds) /\ ds \o all.open = t
  BY <1>7 DEF Holds
<1>10. Carry(Chunk(all.open), all.open)
  <2>1. all.open \in Seq(EntrySet)
    BY <1>7 DEF Holds, Acc
  <2> QED BY <2>1, CarryChunk
<1> QED BY <1>8, <1>9, <1>10, CarryConcat

(* A surface that stages frames with no part missing has what they carry.  *)
LEMMA StagedIs ==
  ASSUME NEW fs, NEW es, Carry(fs, es)
  PROVE  Staged(fs) = es
<1>1. fs \in Seq(FrameSet) /\ DOMAIN fs = 1..Len(fs)
  BY DEF Carry
<1>2. ASSUME NEW j \in 1..Len(fs)
      PROVE  (IF fs[j].kind = "fragment" THEN Reassembled(fs, j) ELSE fs[j].entries)
               = Brings(fs[j])
  <2>1. CASE fs[j].kind = "fragment" /\ fs[j].index = 1
    <3>1. \A part \in 1..Parts : Frame("fragment", fs[j].entries, part, Parts) \in ToSet(fs)
      BY <1>1, <2>1 DEF Carry, Unbroken, ToSet
    <3> QED BY <2>1, <3>1 DEF Reassembled, Brings
  <2>2. CASE fs[j].kind = "fragment" /\ fs[j].index # 1
    BY <2>2 DEF Reassembled, Brings
  <2>3. CASE fs[j].kind # "fragment"
    BY <2>3 DEF Brings
  <2> QED BY <2>1, <2>2, <2>3
<1>3. Contents(fs) = [j \in DOMAIN fs |->
         IF fs[j].kind = "fragment" THEN Reassembled(fs, j) ELSE fs[j].entries]
  BY <1>1, <1>2 DEF Contents
<1> QED BY <1>3 DEF Staged, Content, Carry
-----------------------------------------------------------------------------
(* What the log t says of an item.                                         *)
Records == [mutations: Seq(Mutation), items: [Items -> [first: Nat, last: Nat]],
            generation: Generation]

Writes(t, i) ==
  {n \in 1..Len(t.mutations) : t.mutations[n].operation = "add" /\ t.mutations[n].item = i}

(* The row of an item names its first and its last write.                  *)
RowOK(t, i) ==
  \/ Writes(t, i) = {} /\ t.items[i] = NoRow
  \/ /\ t.items[i].first \in Writes(t, i) /\ t.items[i].last \in Writes(t, i)
     /\ \A n \in Writes(t, i) : t.items[i].first <= n /\ n <= t.items[i].last

LogOK(t) ==
  /\ t \in Records
  /\ \A n \in 1..Len(t.mutations) : t.mutations[n].generation <= t.generation
  /\ \A i \in Items : RowOK(t, i)

(* A prompt of an old generation follows a mutation of a newer one.        *)
Misfiled(t) ==
  \E n, m \in 1..Len(t.mutations) :
     n < m /\ t.mutations[n].generation > t.mutations[m].generation

(* A reset after l opens a generation that a reader of g does not take.    *)
NoReset(t, l, g) ==
  \A n \in 1..Len(t.mutations) :
     n > l /\ t.mutations[n].operation = "reset" => t.mutations[n].generation > g

(* From t to tt the mutation mu is logged.                                 *)
Logs(t, tt, mu) ==
  LET n == Len(t.mutations) + 1 IN
  /\ tt \in Records /\ mu \in Mutation
  /\ tt.mutations = Append(t.mutations, mu)
  /\ t.generation <= tt.generation /\ mu.generation <= tt.generation
  /\ mu.operation = "reset" => mu.generation > t.generation /\ tt.items = t.items
  /\ mu.operation = "add" =>
        tt.items = [t.items EXCEPT ![mu.item] =
                      [first |-> IF @ = NoRow THEN n ELSE @.first, last |-> n]]

LEMMA RecordsAre ==
  ASSUME NEW t \in Records
  PROVE  /\ t.mutations \in Seq(Mutation) /\ Len(t.mutations) \in Nat
         /\ \A n \in 1..Len(t.mutations) :
               /\ t.mutations[n] \in Mutation
               /\ t.mutations[n].operation \in {"add", "reset"}
               /\ t.mutations[n].item \in Items /\ t.mutations[n].generation \in Nat
         /\ t.generation \in Nat
         /\ \A i \in Items : t.items[i].first \in Nat /\ t.items[i].last \in Nat
<1>1. t.mutations \in Seq(Mutation) /\ t.generation \in Generation
      /\ t.items \in [Items -> [first: Nat, last: Nat]]
  BY DEF Records
<1>2. \A n \in 1..Len(t.mutations) : t.mutations[n] \in Mutation
  BY <1>1
<1>3. Generation \subseteq Nat
  BY DEF Generation
<1>4. \A n \in 1..Len(t.mutations) :
         /\ t.mutations[n].operation \in {"add", "reset"}
         /\ t.mutations[n].item \in Items /\ t.mutations[n].generation \in Nat
  BY <1>2, <1>3 DEF Mutation
<1>5. \A i \in Items : t.items[i].first \in Nat /\ t.items[i].last \in Nat
  BY <1>1
<1>6. Len(t.mutations) \in Nat
  BY <1>1
<1> QED BY <1>1, <1>2, <1>3, <1>4, <1>5, <1>6

LEMMA Logged ==
  ASSUME NEW t, NEW tt, NEW mu, LogOK(t), Logs(t, tt, mu)
  PROVE  /\ Len(tt.mutations) = Len(t.mutations) + 1
         /\ tt.mutations[Len(t.mutations) + 1] = mu
         /\ \A n \in 1..Len(t.mutations) : tt.mutations[n] = t.mutations[n]
         /\ LogOK(tt)
         /\ \A i \in Items : Writes(tt, i) = IF mu.operation = "add" /\ mu.item = i
                                             THEN Writes(t, i) \cup {Len(t.mutations) + 1}
                                             ELSE Writes(t, i)
         /\ Misfiled(t) => Misfiled(tt)
         /\ \A l \in Nat, g \in Nat :
               NoReset(t, l, g) /\ g <= t.generation => NoReset(tt, l, g)
<1> DEFINE L == Len(t.mutations)
           n == L + 1
<1>1. t \in Records /\ tt \in Records /\ mu \in Mutation /\ L \in Nat
  BY RecordsAre DEF LogOK, Logs
<1>2. /\ Len(tt.mutations) = n /\ tt.mutations[n] = mu
      /\ \A k \in 1..L : k \in 1..n /\ tt.mutations[k] = t.mutations[k]
  <2>1. t.mutations \in Seq(Mutation) /\ tt.mutations = Append(t.mutations, mu)
    BY <1>1, RecordsAre DEF Logs
  <2> DEFINE s == t.mutations
  <2>2. s \in Seq(Mutation) /\ tt.mutations = Append(s, mu) /\ L = Len(s)
    BY <2>1
  <2> HIDE DEF s
  <2>3. /\ Len(tt.mutations) = n /\ tt.mutations[n] = mu
        /\ \A k \in 1..L : k \in 1..n /\ tt.mutations[k] = s[k]
    BY <1>1, <2>2
  <2> QED BY <2>3 DEF s
<1>3. \A k \in 1..n : k = n \/ k \in 1..L
  BY <1>1
<1>4. /\ mu.operation \in {"add", "reset"} /\ mu.item \in Items /\ mu.generation \in Nat
      /\ t.generation \in Nat /\ tt.generation \in Nat
      /\ t.generation <= tt.generation /\ mu.generation <= tt.generation
  <2>1. mu.operation \in {"add", "reset"} /\ mu.item \in Items /\ mu.generation \in Generation
    BY <1>1 DEF Mutation
  <2> QED BY <1>1, <2>1, RecordsAre DEF Generation, Logs
<1>5. \A i \in Items : Writes(tt, i) = IF mu.operation = "add" /\ mu.item = i
                                       THEN Writes(t, i) \cup {n} ELSE Writes(t, i)
  <2> HIDE DEF L
  <2> SUFFICES ASSUME NEW i \in Items
               PROVE  Writes(tt, i) = IF mu.operation = "add" /\ mu.item = i
                                      THEN Writes(t, i) \cup {n} ELSE Writes(t, i)
    OBVIOUS
  <2>1. /\ \A k \in 1..n : k \in Writes(tt, i) <=>
              tt.mutations[k].operation = "add" /\ tt.mutations[k].item = i
        /\ Writes(tt, i) \subseteq 1..n
    BY <1>2 DEF Writes
  <2>2. /\ \A k \in 1..L : k \in Writes(t, i) <=>
              t.mutations[k].operation = "add" /\ t.mutations[k].item = i
        /\ Writes(t, i) \subseteq 1..L
    BY DEF Writes, L
  <2>3. n \in 1..n /\ n \notin 1..L
    BY <1>1
  <2>4. CASE mu.operation = "add" /\ mu.item = i
    BY <1>2, <1>3, <2>1, <2>2, <2>3, <2>4
  <2>5. CASE ~(mu.operation = "add" /\ mu.item = i)
    BY <1>2, <1>3, <2>1, <2>2, <2>3, <2>5
  <2> QED BY <2>4, <2>5
<1>6. \A k \in 1..n : tt.mutations[k].generation <= tt.generation
  <2>1. \A k \in 1..L : t.mutations[k].generation <= t.generation
                        /\ t.mutations[k].generation \in Nat
    BY <1>1, RecordsAre DEF LogOK
  <2> HIDE DEF L
  <2>2. \A k \in 1..L : tt.mutations[k].generation <= tt.generation
    BY <1>2, <1>4, <2>1
  <2> QED BY <1>2, <1>3, <1>4, <2>2
<1>7. ASSUME NEW i \in Items PROVE RowOK(tt, i)
  <2>1. RowOK(t, i) /\ t.items[i].first \in Nat /\ t.items[i].last \in Nat
    BY <1>1, RecordsAre DEF LogOK
  <2>2. CASE mu.operation = "add" /\ mu.item = i
    <3>1. tt.items[i] = [first |-> IF t.items[i] = NoRow THEN n ELSE t.items[i].first, last |-> n]
      <4>1. t.items \in [Items -> [first: Nat, last: Nat]]
        BY <1>1 DEF Records
      <4> QED BY <2>2, <4>1 DEF Logs
    <3>2. Writes(tt, i) = Writes(t, i) \cup {n} /\ Writes(t, i) \subseteq 1..L
      BY <1>5, <2>2 DEF Writes
    <3>3. tt.items[i].last = n /\ \A k \in Writes(tt, i) : k <= n
      BY <1>1, <3>1, <3>2
    <3>4. CASE t.items[i] = NoRow
      <4>1. Writes(t, i) = {}
        <5>1. ~(0 \in 1..L)
          BY <1>1
        <5> QED BY <2>1, <3>2, <3>4, <5>1 DEF RowOK, NoRow
      <4>2. tt.items[i].first = n /\ Writes(tt, i) = {n}
        BY <3>1, <3>2, <3>4, <4>1
      <4> QED BY <1>1, <3>3, <4>2 DEF RowOK
    <3>5. CASE t.items[i] # NoRow
      <4>1. tt.items[i].first = t.items[i].first
        BY <3>1, <3>5
      <4>2. /\ t.items[i].first \in Writes(t, i)
            /\ \A k \in Writes(t, i) : t.items[i].first <= k
        BY <2>1, <3>5 DEF RowOK
      <4>3. t.items[i].first <= n
        BY <1>1, <3>2, <4>2
      <4> QED BY <3>2, <3>3, <4>1, <4>2, <4>3 DEF RowOK
    <3> QED BY <3>4, <3>5
  <2>3. CASE ~(mu.operation = "add" /\ mu.item = i)
    <3>1. Writes(tt, i) = Writes(t, i)
      BY <1>5, <2>3
    <3>2. tt.items[i] = t.items[i]
      <4>1. t.items \in [Items -> [first: Nat, last: Nat]]
        BY <1>1 DEF Records
      <4> QED BY <1>4, <2>3, <4>1 DEF Logs
    <3> QED BY <2>1, <3>1, <3>2 DEF RowOK
  <2> QED BY <2>2, <2>3
<1>8. LogOK(tt)
  BY <1>1, <1>2, <1>6, <1>7 DEF LogOK
<1>9. Misfiled(t) => Misfiled(tt)
  BY <1>2 DEF Misfiled
<1>10. ASSUME NEW l \in Nat, NEW g \in Nat, NoReset(t, l, g), g <= t.generation
       PROVE  NoReset(tt, l, g)
  <2> SUFFICES ASSUME NEW k \in 1..n, k > l, tt.mutations[k].operation = "reset"
               PROVE  tt.mutations[k].generation > g
    BY <1>2 DEF NoReset
  <2>1. CASE k = n
    <3>1. mu.generation > t.generation
      BY <1>2, <2>1 DEF Logs
    <3> QED BY <1>2, <1>4, <1>10, <2>1, <3>1
  <2>2. CASE k \in 1..L
    BY <1>2, <1>10, <2>2 DEF NoReset
  <2> QED BY <1>3, <2>1, <2>2
<1> QED BY <1>2, <1>5, <1>8, <1>9, <1>10
-----------------------------------------------------------------------------
(***************************************************************************)
(* The queue.  A reader that has the log up to l of L mutations and the UI  *)
(* state up to revision r finds in queue q what it has not: the last        *)
(* mutation, and of every key the last change, its changes in their order.  *)
(***************************************************************************)
UiStates == [rows: [Keys -> UiRow], revision: Revision]

UiAt(q, j, k) == q[j].of = "ui" /\ q[j].key = k
Silent(q, p, k) == \A j \in 1..Len(q) : j > p => ~UiAt(q, j, k)

Queued(q, L, l, u, r) ==
  /\ \A j \in 1..Len(q) : q[j].of = "timeline" => q[j].number \in 1..L
  /\ L > l => \E j \in 1..Len(q) : q[j].of = "timeline" /\ q[j].number = L
  /\ \A j \in 1..Len(q) : q[j].of = "ui" => r < q[j].number /\ q[j].number <= u.revision
  /\ \A j, m \in 1..Len(q) :
        j < m /\ q[j].of = "ui" /\ q[m].of = "ui" => q[j].number < q[m].number
  /\ \A j \in 1..Len(q), k \in Keys :
        UiAt(q, j, k) /\ Silent(q, j, k) => q[j].expansion = u.rows[k].expansion

LEMMA Queue ==
  ASSUME NEW q \in Seq(Event), NEW e \in Event
  PROVE  /\ Append(q, e) \in Seq(Event) /\ Len(q) \in Nat
         /\ Len(Append(q, e)) = Len(q) + 1 /\ Append(q, e)[Len(q) + 1] = e
         /\ \A j \in 1..Len(q) : /\ j \in 1..(Len(q) + 1) /\ j < Len(q) + 1
                                 /\ Append(q, e)[j] = q[j] /\ q[j] \in Event
         /\ \A j \in 1..(Len(q) + 1) : j = Len(q) + 1 \/ j \in 1..Len(q)
  OBVIOUS

LEMMA SilentAppend ==
  ASSUME NEW q \in Seq(Event), NEW e \in Event, NEW p \in Nat, NEW k \in Keys
  PROVE  /\ Silent(Append(q, e), p, k) => Silent(q, p, k)
         /\ Silent(Append(q, e), p, k) /\ p <= Len(q) => ~(e.of = "ui" /\ e.key = k)
<1> DEFINE n == Len(q)
           a == Append(q, e)
<1>1. /\ Len(a) = n + 1 /\ a[n + 1] = e /\ n \in Nat
      /\ \A j \in 1..n : j \in 1..(n + 1) /\ a[j] = q[j]
  BY Queue
<1> HIDE DEF a
<1>2. Silent(a, p, k) => Silent(q, p, k)
  BY <1>1 DEF Silent, UiAt
<1>3. p <= n => n + 1 \in 1..(n + 1) /\ n + 1 > p
  BY <1>1
<1> HIDE DEF n
<1>4. Silent(a, p, k) /\ p <= n => ~(e.of = "ui" /\ e.key = k)
  BY <1>1, <1>3 DEF Silent, UiAt
<1> QED BY <1>2, <1>4 DEF a, n

(* A mutation is pushed.                                                   *)
LEMMA QueuedMutation ==
  ASSUME NEW q \in Seq(Event), NEW e \in Event, NEW L \in Nat, NEW l, NEW u, NEW r,
         Queued(q, L, l, u, r), e.of = "timeline", e.number = L + 1
  PROVE  Queued(Append(q, e), L + 1, l, u, r)
<1> DEFINE n == Len(q)
           a == Append(q, e)
<1>1. /\ a \in Seq(Event) /\ Len(a) = n + 1 /\ a[n + 1] = e /\ n \in Nat
      /\ \A j \in 1..n : j \in 1..(n + 1) /\ j < n + 1 /\ a[j] = q[j] /\ q[j] \in Event
      /\ \A j \in 1..(n + 1) : j = n + 1 \/ j \in 1..n
  BY Queue
<1>2. \A j \in 1..n, k \in Keys : Silent(a, j, k) => Silent(q, j, k)
  BY SilentAppend
<1> HIDE DEF a, n
<1>3. \A j \in 1..(n + 1) : a[j].of = "timeline" => a[j].number \in 1..(L + 1)
  <2>1. \A j \in 1..n : q[j].of = "timeline" => q[j].number \in 1..(L + 1)
    BY DEF Queued, n
  <2> QED BY <1>1, <2>1
<1>4. \E j \in 1..(n + 1) : a[j].of = "timeline" /\ a[j].number = L + 1
  <2>1. n + 1 \in 1..(n + 1)
    BY <1>1
  <2> QED BY <1>1, <2>1
<1>5. \A j \in 1..(n + 1) : a[j].of = "ui" => j \in 1..n
  <2>1. "timeline" # "ui"
    OBVIOUS
  <2> QED BY <1>1, <2>1
<1>6. \A j \in 1..(n + 1) : a[j].of = "ui" => r < a[j].number /\ a[j].number <= u.revision
  BY <1>1, <1>5 DEF Queued, n
<1>7. \A j, m \in 1..(n + 1) :
         j < m /\ a[j].of = "ui" /\ a[m].of = "ui" => a[j].number < a[m].number
  BY <1>1, <1>5 DEF Queued, n
<1>8. \A j \in 1..(n + 1), k \in Keys :
         UiAt(a, j, k) /\ Silent(a, j, k) => a[j].expansion = u.rows[k].expansion
  <2> SUFFICES ASSUME NEW j \in 1..(n + 1), NEW k \in Keys, UiAt(a, j, k), Silent(a, j, k)
               PROVE  a[j].expansion = u.rows[k].expansion
    OBVIOUS
  <2>1. j \in 1..n /\ a[j] = q[j]
    BY <1>1, <1>5 DEF UiAt
  <2>2. UiAt(q, j, k) /\ Silent(q, j, k)
    BY <1>2, <2>1 DEF UiAt
  <2> QED BY <2>1, <2>2 DEF Queued, n
<1> QED BY <1>1, <1>3, <1>4, <1>6, <1>7, <1>8 DEF Queued, a

(* A change of the UI state is pushed.                                     *)
LEMMA QueuedChange ==
  ASSUME NEW q \in Seq(Event), NEW e \in Event, NEW L, NEW l,
         NEW u \in UiStates, NEW uu \in UiStates, NEW r \in Nat, r <= u.revision,
         Queued(q, L, l, u, r), e.of = "ui", e.number = u.revision + 1,
         uu.revision = u.revision + 1, uu.rows[e.key].expansion = e.expansion,
         \A k \in Keys \ {e.key} : uu.rows[k] = u.rows[k]
  PROVE  Queued(Append(q, e), L, l, uu, r)
<1> DEFINE n == Len(q)
           a == Append(q, e)
<1>1. /\ a \in Seq(Event) /\ Len(a) = n + 1 /\ a[n + 1] = e /\ n \in Nat
      /\ \A j \in 1..n : j \in 1..(n + 1) /\ j < n + 1 /\ a[j] = q[j] /\ q[j] \in Event
      /\ \A j \in 1..(n + 1) : j = n + 1 \/ j \in 1..n
  BY Queue
<1>2. \A j \in 1..n, k \in Keys : Silent(a, j, k) => Silent(q, j, k) /\ k # e.key
  <2>1. \A j \in 1..n : j \in Nat /\ j <= n
    BY <1>1
  <2> QED BY <2>1, SilentAppend
<1>3. u.revision \in Nat /\ "timeline" # "ui"
  BY DEF UiStates, Revision
<1> HIDE DEF a, n
<1>4. \A j \in 1..(n + 1) : a[j].of = "timeline" => a[j].number \in 1..L
  BY <1>1, <1>3 DEF Queued, n
<1>5. L > l => \E j \in 1..(n + 1) : a[j].of = "timeline" /\ a[j].number = L
  <2>1. L > l => \E j \in 1..n : q[j].of = "timeline" /\ q[j].number = L
    BY DEF Queued, n
  <2> QED BY <1>1, <2>1
<1>6. \A j \in 1..n : q[j].of = "ui" => r < q[j].number /\ q[j].number <= u.revision
                                       /\ q[j].number \in Nat
  <2>1. \A j \in 1..n : q[j].number \in Nat
    BY <1>1 DEF Event
  <2> QED BY <2>1 DEF Queued, n
<1>7. \A j \in 1..(n + 1) : a[j].of = "ui" => r < a[j].number /\ a[j].number <= uu.revision
  <2> SUFFICES ASSUME NEW j \in 1..(n + 1), a[j].of = "ui"
               PROVE  r < a[j].number /\ a[j].number <= uu.revision
    OBVIOUS
  <2>1. CASE j = n + 1
    BY <1>1, <1>3, <2>1
  <2>2. CASE j \in 1..n
    BY <1>1, <1>3, <1>6, <2>2
  <2> QED BY <1>1, <2>1, <2>2
<1>8. ASSUME NEW j \in 1..(n + 1), NEW m \in 1..(n + 1), j < m, a[j].of = "ui", a[m].of = "ui"
      PROVE  a[j].number < a[m].number
  <2>1. j \in 1..n
    BY <1>1, <1>8
  <2>2. CASE m = n + 1
    BY <1>1, <1>3, <1>6, <1>8, <2>1, <2>2
  <2>3. CASE m \in 1..n
    BY <1>1, <1>8, <2>1, <2>3 DEF Queued, n
  <2> QED BY <1>1, <2>2, <2>3
<1>9. ASSUME NEW j \in 1..(n + 1), NEW k \in Keys, UiAt(a, j, k), Silent(a, j, k)
      PROVE  a[j].expansion = uu.rows[k].expansion
  <2>1. CASE j = n + 1
    BY <1>1, <1>9, <2>1 DEF UiAt
  <2>2. CASE j \in 1..n
    <3>1. Silent(q, j, k) /\ k # e.key /\ a[j] = q[j]
      BY <1>1, <1>2, <1>9, <2>2
    <3>2. UiAt(q, j, k)
      BY <1>9, <3>1 DEF UiAt
    <3>3. q[j].expansion = u.rows[k].expansion
      BY <2>2, <3>1, <3>2 DEF Queued, n
    <3> QED BY <3>1, <3>3
  <2> QED BY <1>1, <2>1, <2>2
<1> QED BY <1>1, <1>4, <1>5, <1>7, <1>8, <1>9 DEF Queued, a
-----------------------------------------------------------------------------
(***************************************************************************)
(* The invariant, of a log t, a UI state u, a stream st and a surface sf.    *)
(***************************************************************************)
ItemEntries == [of: {"timeline"}, id: Items, number: Nat, expansion: Expansions]
UiEntries   == [of: {"ui"}, id: Keys, number: Nat, expansion: Expansions]

Streams == [pc: {"closed", "captured", "mode", "ui", "sent", "live"},
            barrier: [last: Nat, generation: Nat, revision: Nat],
            mode: {"full", "delta"}, entries: Seq(ItemEntries), rows: Seq(UiEntries),
            frames: Seq(FrameSet), queue: Seq(Event), dropped: BOOLEAN]
Surfaces == [items: [Items -> Nat], ui: [Keys -> Expansions], last: Nat,
             generation: Nat, revision: Nat, synced: BOOLEAN]

UiOK(u) == u \in UiStates /\ IsFiniteSet({k \in Keys : u.rows[k].expansion # AutoState})

(* x is a write of item i, or nothing, that no write up to l is later than.*)
Fresh(t, i, x, l) == x \in {0} \cup Writes(t, i) /\ \A n \in Writes(t, i) : n <= l => n <= x

SurfaceOK(t, u, s) ==
  /\ s \in Surfaces
  /\ s.last <= Len(t.mutations) /\ s.generation <= t.generation /\ s.revision <= u.revision
  /\ \A i \in Items : s.items[i] <= Len(t.mutations)
  /\ NoReset(t, s.last, s.generation)
  /\ ~Misfiled(t) => \A i \in Items : Fresh(t, i, s.items[i], s.last)

StreamOK(st) ==
  st \in Streams /\ Len(st.queue) <= BacklogMax /\ (st.dropped => st.queue = <<>>)

BarrierOK(t, u, st) ==
  st.pc # "closed" =>
    /\ st.barrier.last <= Len(t.mutations)
    /\ st.barrier.generation <= t.generation /\ st.barrier.revision <= u.revision
    /\ NoReset(t, st.barrier.last, st.barrier.generation)

(* With the entries es, applied over base, no write up to l is missed.     *)
LastOf(es, j, i) ==
  es[j].id = i /\ \A k \in 1..Len(es) : k > j => es[k].id # i

Carries(t, es, l, base) ==
  /\ \A j \in 1..Len(es) : es[j].number \in Writes(t, es[j].id)
  /\ \A i \in Items : \A n \in Writes(t, i) : n <= l =>
        /\ (\A j \in 1..Len(es) : es[j].id # i) => n <= base[i]
        /\ \A j \in 1..Len(es) : LastOf(es, j, i) => n <= es[j].number

Base(st, sf) == IF st.mode = "delta" THEN sf.items ELSE [i \in Items |-> 0]

EntriesOK(t, st, sf) ==
  /\ \A j \in 1..Len(st.entries) : st.entries[j].number <= Len(t.mutations)
  /\ ~Misfiled(t) /\ (st.pc = "sent" \/ (st.pc \in {"mode", "ui"} /\ st.mode = "delta"))
       => Carries(t, st.entries, st.barrier.last, Base(st, sf))

FramesOK(st) ==
  st.pc = "sent" =>
    /\ Staged(st.frames) = st.entries \o st.rows
    /\ Last(st.frames).count = Head(st.frames).count
    /\ Last(st.frames).count = Len(Staged(st.frames))
    /\ Last(st.frames).index = CountOf(st.frames, "fragment")

(* The rows, and the default for a key without one, are what u says.       *)
Tell(rows, u, k) ==
  /\ \A j \in 1..Len(rows) : rows[j].id = k => rows[j].expansion = u.rows[k].expansion
  /\ (\A j \in 1..Len(rows) : rows[j].id # k) => u.rows[k].expansion = AutoState

QueueOK(t, u, st, sf) ==
  st.pc # "closed" /\ ~st.dropped =>
    /\ st.pc # "live" =>
         Queued(st.queue, Len(t.mutations), st.barrier.last, u, st.barrier.revision)
    /\ st.pc \in {"ui", "sent"} =>
         \A k \in Keys : Silent(st.queue, 0, k) => Tell(st.rows, u, k)
    /\ st.pc = "live" /\ sf.synced =>
         /\ Queued(st.queue, Len(t.mutations), sf.last, u, sf.revision)
         /\ \A k \in Keys : Silent(st.queue, 0, k) => sf.ui[k] = u.rows[k].expansion

FeedInv(t, u, st, sf) ==
  /\ LogOK(t) /\ Len(t.mutations) <= MaxMutations
  /\ UiOK(u) /\ SurfaceOK(t, u, sf) /\ StreamOK(st) /\ BarrierOK(t, u, st)
  /\ EntriesOK(t, st, sf) /\ FramesOK(st) /\ QueueOK(t, u, st, sf)

LEMMA StreamIs ==
  ASSUME NEW st \in Streams
  PROVE  /\ st.queue \in Seq(Event) /\ Len(st.queue) \in Nat
         /\ st.entries \in Seq(ItemEntries) /\ st.rows \in Seq(UiEntries)
         /\ st.frames \in Seq(FrameSet)
         /\ st.barrier.last \in Nat /\ st.barrier.generation \in Nat
         /\ st.barrier.revision \in Nat
         /\ st.mode \in {"full", "delta"} /\ st.dropped \in BOOLEAN
         /\ st.pc \in {"closed", "captured", "mode", "ui", "sent", "live"}
<1>1. st.queue \in Seq(Event)
  BY DEF Streams
<1>2. Len(st.queue) \in Nat
  BY <1>1
<1> QED BY <1>1, <1>2 DEF Streams

LEMMA SurfaceIs ==
  ASSUME NEW s \in Surfaces
  PROVE  /\ s.last \in Nat /\ s.generation \in Nat /\ s.revision \in Nat
         /\ s.items \in [Items -> Nat] /\ s.ui \in [Keys -> Expansions]
         /\ s.synced \in BOOLEAN
         /\ \A i \in Items : s.items[i] \in Nat
BY DEF Surfaces

-----------------------------------------------------------------------------
(* Publish: the event e is pushed to the stream st, which becomes ss.       *)
Pushed(st, ss, e) == ss = IF st.pc = "closed" THEN st ELSE PushLive(st, e)

LEMMA PushedIs ==
  ASSUME NEW st, NEW ss, NEW e \in Event, StreamOK(st), Pushed(st, ss, e)
  PROVE  /\ StreamOK(ss)
         /\ ss.pc = st.pc /\ ss.barrier = st.barrier /\ ss.mode = st.mode
         /\ ss.entries = st.entries /\ ss.rows = st.rows /\ ss.frames = st.frames
         /\ ss.pc # "closed" /\ ~ss.dropped => ~st.dropped /\ ss.queue = Append(st.queue, e)
<1>1. st \in Streams /\ Len(st.queue) <= BacklogMax /\ (st.dropped => st.queue = <<>>)
  BY DEF StreamOK
<1>2. st.queue \in Seq(Event) /\ Len(st.queue) \in Nat /\ BacklogMax \in Nat
  BY <1>1, StreamIs, FeedAssumption
<1>3. CASE ss = st /\ (st.pc = "closed" \/ st.dropped)
  BY <1>1, <1>3 DEF StreamOK
<1>4. CASE ss = [st EXCEPT !.dropped = TRUE, !.queue = <<>>]
  <2>1. ss \in Streams
    <3> DEFINE w == <<>>
    <3>1. w \in Seq(Event) /\ ss = [st EXCEPT !.dropped = TRUE, !.queue = w]
      BY <1>4
    <3> HIDE DEF w
    <3> QED BY <1>1, <3>1 DEF Streams
  <2>2. ss.dropped /\ ss.queue = <<>> /\ Len(ss.queue) = 0
    BY <1>1, <1>4 DEF Streams
  <2>3. /\ ss.pc = st.pc /\ ss.barrier = st.barrier /\ ss.mode = st.mode
        /\ ss.entries = st.entries /\ ss.rows = st.rows /\ ss.frames = st.frames
    BY <1>1, <1>4 DEF Streams
  <2> QED BY <1>2, <2>1, <2>2, <2>3 DEF StreamOK
<1>5. CASE ~st.dropped /\ ~(Len(st.queue) + 1 > BacklogMax)
           /\ ss = [st EXCEPT !.queue = Append(@, e)]
  <2> DEFINE q == Append(st.queue, e)
  <2>1. q \in Seq(Event) /\ Len(q) = Len(st.queue) + 1
    BY <1>2
  <2>2. Len(q) <= BacklogMax
    BY <1>2, <1>5, <2>1
  <2> HIDE DEF q
  <2>3. ss = [st EXCEPT !.queue = q]
    BY <1>5 DEF q
  <2>4. ss \in Streams
    BY <1>1, <2>1, <2>3 DEF Streams
  <2>5. ss.queue = q
    BY <1>1, <2>3 DEF Streams
  <2>6. /\ ss.pc = st.pc /\ ss.barrier = st.barrier /\ ss.mode = st.mode
        /\ ss.entries = st.entries /\ ss.rows = st.rows /\ ss.frames = st.frames
        /\ ss.dropped = st.dropped
    BY <1>1, <2>3 DEF Streams
  <2> QED BY <1>5, <2>2, <2>4, <2>5, <2>6 DEF StreamOK, q
<1> QED BY <1>3, <1>4, <1>5 DEF Pushed, PushLive

LEMMA EventTypes ==
  /\ \A n \in Nat : /\ TimelineEvent(n) \in Event
                    /\ TimelineEvent(n).of = "timeline" /\ TimelineEvent(n).number = n
  /\ \A n \in Nat, k \in Keys, x \in Expansions :
        /\ UiChanged(n, k, x) \in Event /\ UiChanged(n, k, x).of = "ui"
        /\ UiChanged(n, k, x).number = n /\ UiChanged(n, k, x).key = k
        /\ UiChanged(n, k, x).expansion = x
<1>1. (CHOOSE k \in Keys : TRUE) \in Keys
  BY FeedAssumption
<1>2. AutoState \in Expansions
  BY DEF Expansions
<1> DEFINE some == CHOOSE k \in Keys : TRUE
<1>3. ASSUME NEW n \in Nat
      PROVE  /\ TimelineEvent(n) \in Event
             /\ TimelineEvent(n).of = "timeline" /\ TimelineEvent(n).number = n
  <2>1. TimelineEvent(n) = [of |-> "timeline", number |-> n, key |-> some,
                            expansion |-> AutoState]
    BY DEF TimelineEvent
  <2>2. some \in Keys
    BY <1>1
  <2> HIDE DEF some
  <2> QED BY <1>2, <2>1, <2>2 DEF Event
<1>4. ASSUME NEW n \in Nat, NEW k \in Keys, NEW x \in Expansions
      PROVE  /\ UiChanged(n, k, x) \in Event /\ UiChanged(n, k, x).of = "ui"
             /\ UiChanged(n, k, x).number = n /\ UiChanged(n, k, x).key = k
             /\ UiChanged(n, k, x).expansion = x
  BY DEF UiChanged, Event
<1> QED BY <1>3, <1>4

-----------------------------------------------------------------------------
(* A mutation is logged and published.                                     *)

(* The writes of tt are those of t, and some that are later than all of t. *)
Extends(t, tt) ==
  /\ Len(t.mutations) <= Len(tt.mutations)
  /\ \A i \in Items : /\ Writes(t, i) \subseteq Writes(tt, i)
                      /\ \A n \in Writes(tt, i) : n \in Writes(t, i) \/ n > Len(t.mutations)

LEMMA FreshKept ==
  ASSUME NEW t, NEW tt, Extends(t, tt), NEW i \in Items, NEW x, NEW l \in Nat,
         Len(t.mutations) \in Nat, l <= Len(t.mutations), Fresh(t, i, x, l),
         Writes(tt, i) \subseteq Nat
  PROVE  Fresh(tt, i, x, l)
<1>1. \A n \in Writes(tt, i) : n <= l => n \in Writes(t, i)
  BY DEF Extends
<1> QED BY <1>1 DEF Fresh, Extends

LEMMA CarriesKept ==
  ASSUME NEW t, NEW tt, Extends(t, tt), NEW es \in Seq(ItemEntries), NEW l \in Nat, NEW base,
         Len(t.mutations) \in Nat, l <= Len(t.mutations), Carries(t, es, l, base),
         \A i \in Items : Writes(tt, i) \subseteq Nat
  PROVE  Carries(tt, es, l, base)
<1>1. \A i \in Items : \A n \in Writes(tt, i) : n <= l => n \in Writes(t, i)
  BY DEF Extends
<1>2. \A j \in 1..Len(es) : es[j].id \in Items
  <2>1. \A j \in 1..Len(es) : es[j] \in ItemEntries
    OBVIOUS
  <2> QED BY <2>1 DEF ItemEntries
<1>3. \A j \in 1..Len(es) : es[j].number \in Writes(tt, es[j].id)
  BY <1>2 DEF Carries, Extends
<1> QED BY <1>1, <1>3 DEF Carries

LEMMA WriteKeeps ==
  ASSUME NEW t, NEW tt, NEW mu, NEW u, NEW st, NEW ss, NEW sf, NEW e \in Event,
         FeedInv(t, u, st, sf), Logs(t, tt, mu), Len(t.mutations) + 1 <= MaxMutations,
         e.of = "timeline", e.number = Len(t.mutations) + 1, Pushed(st, ss, e)
  PROVE  FeedInv(tt, u, ss, sf)
<1> DEFINE L == Len(t.mutations)
           M == Len(tt.mutations)
<1>1. /\ LogOK(t) /\ UiOK(u) /\ SurfaceOK(t, u, sf) /\ StreamOK(st) /\ BarrierOK(t, u, st)
      /\ EntriesOK(t, st, sf) /\ FramesOK(st) /\ QueueOK(t, u, st, sf)
  BY DEF FeedInv
<1>2. /\ M = L + 1 /\ LogOK(tt)
      /\ \A i \in Items : Writes(tt, i) = IF mu.operation = "add" /\ mu.item = i
                                          THEN Writes(t, i) \cup {L + 1} ELSE Writes(t, i)
      /\ Misfiled(t) => Misfiled(tt)
      /\ \A l \in Nat, g \in Nat : NoReset(t, l, g) /\ g <= t.generation => NoReset(tt, l, g)
  BY <1>1, Logged
<1>3. L \in Nat /\ t.generation \in Nat /\ tt.generation \in Nat /\ t.generation <= tt.generation
  BY <1>1, <1>2, RecordsAre DEF LogOK, Logs
<1>4. Extends(t, tt)
  BY <1>2, <1>3 DEF Extends
<1>5. \A i \in Items : Writes(tt, i) \subseteq Nat
  BY DEF Writes
<1>6. /\ StreamOK(ss)
      /\ ss.pc = st.pc /\ ss.barrier = st.barrier /\ ss.mode = st.mode
      /\ ss.entries = st.entries /\ ss.rows = st.rows /\ ss.frames = st.frames
      /\ ss.pc # "closed" /\ ~ss.dropped => ~st.dropped /\ ss.queue = Append(st.queue, e)
  BY <1>1, PushedIs
<1>7. st \in Streams /\ sf \in Surfaces /\ u \in UiStates
  BY <1>1 DEF StreamOK, SurfaceOK, UiOK
<1>8. /\ st.queue \in Seq(Event) /\ st.entries \in Seq(ItemEntries)
      /\ st.barrier.last \in Nat /\ st.barrier.generation \in Nat
  BY <1>7, StreamIs
<1>9. /\ sf.last \in Nat /\ sf.generation \in Nat
      /\ \A i \in Items : sf.items[i] \in Nat
  BY <1>7, SurfaceIs
<1> HIDE DEF L, M
<1>10. SurfaceOK(tt, u, sf)
  <2>1. /\ sf.last <= L /\ sf.generation <= t.generation /\ sf.revision <= u.revision
        /\ \A i \in Items : sf.items[i] <= L
        /\ NoReset(t, sf.last, sf.generation)
        /\ ~Misfiled(t) => \A i \in Items : Fresh(t, i, sf.items[i], sf.last)
    BY <1>1 DEF SurfaceOK, L
  <2>2. sf.last <= M /\ sf.generation <= tt.generation /\ \A i \in Items : sf.items[i] <= M
    BY <1>2, <1>3, <1>9, <2>1
  <2>3. NoReset(tt, sf.last, sf.generation)
    BY <1>2, <1>9, <2>1
  <2>4. ~Misfiled(tt) => \A i \in Items : Fresh(tt, i, sf.items[i], sf.last)
    BY <1>2, <1>3, <1>4, <1>5, <1>9, <2>1, FreshKept DEF L
  <2> QED BY <1>7, <2>1, <2>2, <2>3, <2>4 DEF SurfaceOK, M
<1>11. ss.pc # "closed" => st.barrier.last <= L /\ BarrierOK(tt, u, ss)
  <2> SUFFICES ASSUME st.pc # "closed" PROVE st.barrier.last <= L /\ BarrierOK(tt, u, ss)
    BY <1>6
  <2>1. /\ st.barrier.last <= L
        /\ st.barrier.generation <= t.generation /\ st.barrier.revision <= u.revision
        /\ NoReset(t, st.barrier.last, st.barrier.generation)
    BY <1>1 DEF BarrierOK, L
  <2>2. st.barrier.last <= M /\ st.barrier.generation <= tt.generation
    BY <1>2, <1>3, <1>8, <2>1
  <2>3. NoReset(tt, st.barrier.last, st.barrier.generation)
    BY <1>2, <1>8, <2>1
  <2> QED BY <1>6, <2>1, <2>2, <2>3 DEF BarrierOK, M
<1>12. EntriesOK(tt, ss, sf)
  <2>1. \A j \in 1..Len(ss.entries) : ss.entries[j].number <= M
    <3>1. \A j \in 1..Len(st.entries) : st.entries[j].number <= L /\ st.entries[j].number \in Nat
      <4>1. \A j \in 1..Len(st.entries) : st.entries[j] \in ItemEntries
        BY <1>8
      <4>2. \A x \in ItemEntries : x.number \in Nat
        BY DEF ItemEntries
      <4> QED BY <1>1, <4>1, <4>2 DEF EntriesOK, L
    <3> QED BY <1>2, <1>3, <1>6, <3>1
  <2>2. ASSUME ~Misfiled(tt),
               ss.pc = "sent" \/ (ss.pc \in {"mode", "ui"} /\ ss.mode = "delta")
        PROVE  Carries(tt, ss.entries, ss.barrier.last, Base(ss, sf))
    <3>1. Carries(t, st.entries, st.barrier.last, Base(st, sf))
      BY <1>1, <1>2, <1>6, <2>2 DEF EntriesOK
    <3>2. st.barrier.last <= L
      BY <1>6, <1>11, <2>2
    <3> DEFINE es == st.entries
               l  == st.barrier.last
               b  == Base(st, sf)
    <3>3. Carries(tt, es, l, b)
      <4>1. es \in Seq(ItemEntries) /\ l \in Nat /\ l <= L /\ Carries(t, es, l, b)
        BY <1>8, <3>1, <3>2
      <4> HIDE DEF es, l, b
      <4> QED BY <1>3, <1>4, <1>5, <4>1, CarriesKept DEF L
    <3>4. Base(ss, sf) = b
      BY <1>6 DEF Base
    <3> QED BY <1>6, <3>3, <3>4
  <2> QED BY <2>1, <2>2 DEF EntriesOK, M
<1>13. FramesOK(ss)
  BY <1>1, <1>6 DEF FramesOK
<1>14. QueueOK(tt, u, ss, sf)
  <2> SUFFICES ASSUME ss.pc # "closed", ~ss.dropped PROVE QueueOK(tt, u, ss, sf)
    BY DEF QueueOK
  <2>1. ~st.dropped /\ ss.queue = Append(st.queue, e) /\ st.pc # "closed"
    BY <1>6
  <2> DEFINE q == st.queue
  <2>2. \A k \in Keys : Silent(ss.queue, 0, k) => Silent(q, 0, k)
    <3>1. 0 \in Nat
      OBVIOUS
    <3> QED BY <1>8, <2>1, <3>1, SilentAppend
  <2>3. \A l, r : Queued(q, L, l, u, r) => Queued(ss.queue, M, l, u, r)
    <3>1. q \in Seq(Event) /\ ss.queue = Append(q, e) /\ e.number = L + 1
      BY <1>8, <2>1 DEF L
    <3> HIDE DEF q
    <3> QED BY <1>2, <1>3, <3>1, QueuedMutation
  <2>4. /\ st.pc # "live" => Queued(q, L, st.barrier.last, u, st.barrier.revision)
        /\ st.pc \in {"ui", "sent"} => \A k \in Keys : Silent(q, 0, k) => Tell(st.rows, u, k)
        /\ st.pc = "live" /\ sf.synced =>
              /\ Queued(q, L, sf.last, u, sf.revision)
              /\ \A k \in Keys : Silent(q, 0, k) => sf.ui[k] = u.rows[k].expansion
    BY <1>1, <2>1 DEF QueueOK, L
  <2> HIDE DEF q
  <2>5. ss.pc # "live" => Queued(ss.queue, M, ss.barrier.last, u, ss.barrier.revision)
    BY <1>6, <2>3, <2>4
  <2>6. ss.pc \in {"ui", "sent"} =>
           \A k \in Keys : Silent(ss.queue, 0, k) => Tell(ss.rows, u, k)
    BY <1>6, <2>2, <2>4
  <2>7. ss.pc = "live" /\ sf.synced =>
           /\ Queued(ss.queue, M, sf.last, u, sf.revision)
           /\ \A k \in Keys : Silent(ss.queue, 0, k) => sf.ui[k] = u.rows[k].expansion
    BY <1>6, <2>2, <2>3, <2>4
  <2> QED BY <2>5, <2>6, <2>7 DEF QueueOK, M
<1>15. BarrierOK(tt, u, ss)
  BY <1>11 DEF BarrierOK
<1>16. M <= MaxMutations
  BY <1>2 DEF L
<1> QED BY <1>1, <1>2, <1>6, <1>10, <1>12, <1>13, <1>14, <1>15, <1>16 DEF FeedInv, M
-----------------------------------------------------------------------------
(* A key is expanded, collapsed or left to the default.                    *)
Changed(u, k, x) ==
  LET n == u.revision + 1 IN
  [revision |-> n, rows |-> [u.rows EXCEPT ![k] =
     [expansion |-> x, revision |-> IF x = AutoState THEN 0 ELSE n]]]

LEMMA ChangedIs ==
  ASSUME NEW u, NEW k \in Keys, NEW x \in Expansions, UiOK(u), u.revision + 1 <= MaxRevision
  PROVE  /\ UiOK(Changed(u, k, x)) /\ u.revision \in Nat
         /\ Changed(u, k, x).revision = u.revision + 1
         /\ Changed(u, k, x).rows[k].expansion = x
         /\ \A m \in Keys \ {k} : Changed(u, k, x).rows[m] = u.rows[m]
<1> DEFINE uu == Changed(u, k, x)
           n == u.revision + 1
           row == [expansion |-> x, revision |-> IF x = AutoState THEN 0 ELSE n]
<1>1. u \in UiStates /\ u.rows \in [Keys -> UiRow] /\ u.revision \in Revision
  BY DEF UiOK, UiStates
<1>2. u.revision \in Nat /\ n \in Revision /\ 0 \in Revision
  BY <1>1, FeedAssumption DEF Revision
<1>3. row \in UiRow /\ row.expansion = x
  <2> HIDE DEF n
  <2> QED BY <1>2 DEF UiRow
<1> HIDE DEF row
<1>4. uu = [revision |-> n, rows |-> [u.rows EXCEPT ![k] = row]]
  BY DEF Changed, row
<1>5. uu.revision = n /\ uu.rows = [u.rows EXCEPT ![k] = row]
  <2> HIDE DEF uu
  <2> QED BY <1>4
<1>6. uu.rows \in [Keys -> UiRow] /\ uu.rows[k] = row
      /\ \A m \in Keys \ {k} : uu.rows[m] = u.rows[m]
  <2> HIDE DEF uu
  <2> QED BY <1>1, <1>3, <1>5
<1>7. uu \in UiStates
  <2> DEFINE r == [u.rows EXCEPT ![k] = row]
  <2>1. r \in [Keys -> UiRow] /\ uu = [revision |-> n, rows |-> r]
    BY <1>4, <1>5, <1>6
  <2> HIDE DEF r, n, uu
  <2> QED BY <1>2, <2>1 DEF UiStates
<1>8. IsFiniteSet({m \in Keys : uu.rows[m].expansion # AutoState})
  <2> DEFINE A == {m \in Keys : u.rows[m].expansion # AutoState}
             B == {m \in Keys : uu.rows[m].expansion # AutoState}
  <2>1. IsFiniteSet(A \cup {k})
    <3>1. IsFiniteSet(A)
      BY DEF UiOK
    <3> HIDE DEF A
    <3> QED BY <3>1, FS_AddElement
  <2>2. B \subseteq A \cup {k}
    BY <1>6
  <2> HIDE DEF A, B
  <2>3. IsFiniteSet(B)
    BY <2>1, <2>2, FS_Subset
  <2> QED BY <2>3 DEF B
<1> QED BY <1>2, <1>3, <1>5, <1>6, <1>7, <1>8 DEF UiOK

LEMMA ChangeKeeps ==
  ASSUME NEW t, NEW u, NEW uu, NEW st, NEW ss, NEW sf, FeedInv(t, u, st, sf),
         NEW key \in Keys, NEW x \in Expansions, u.revision + 1 <= MaxRevision,
         uu = Changed(u, key, x), Pushed(st, ss, UiChanged(u.revision + 1, key, x))
  PROVE  FeedInv(t, uu, ss, sf)
<1> DEFINE L == Len(t.mutations)
           e == UiChanged(u.revision + 1, key, x)
<1>1. /\ LogOK(t) /\ UiOK(u) /\ SurfaceOK(t, u, sf) /\ StreamOK(st) /\ BarrierOK(t, u, st)
      /\ EntriesOK(t, st, sf) /\ FramesOK(st) /\ QueueOK(t, u, st, sf) /\ L <= MaxMutations
  BY DEF FeedInv
<1>2. /\ UiOK(uu) /\ u.revision \in Nat
      /\ uu.revision = u.revision + 1 /\ uu.rows[key].expansion = x
      /\ \A m \in Keys \ {key} : uu.rows[m] = u.rows[m]
  BY <1>1, ChangedIs
<1>3. /\ e \in Event /\ e.of = "ui" /\ e.number = u.revision + 1 /\ e.key = key
      /\ e.expansion = x
  <2>1. u.revision + 1 \in Nat
    BY <1>2
  <2> QED BY <2>1, EventTypes
<1> HIDE DEF e
<1>4. /\ StreamOK(ss)
      /\ ss.pc = st.pc /\ ss.barrier = st.barrier /\ ss.mode = st.mode
      /\ ss.entries = st.entries /\ ss.rows = st.rows /\ ss.frames = st.frames
      /\ ss.pc # "closed" /\ ~ss.dropped => ~st.dropped /\ ss.queue = Append(st.queue, e)
  <2>1. Pushed(st, ss, e)
    BY DEF e
  <2> QED BY <1>1, <1>3, <2>1, PushedIs
<1>5. st \in Streams /\ sf \in Surfaces /\ u \in UiStates /\ uu \in UiStates
  BY <1>1, <1>2 DEF StreamOK, SurfaceOK, UiOK
<1>6. st.queue \in Seq(Event) /\ st.barrier.revision \in Nat /\ sf.revision \in Nat
  BY <1>5, StreamIs, SurfaceIs
<1>7. SurfaceOK(t, uu, sf)
  <2>1. sf.revision <= u.revision
    BY <1>1 DEF SurfaceOK
  <2>2. sf.revision <= uu.revision
    BY <1>2, <1>6, <2>1
  <2> QED BY <1>1, <2>2 DEF SurfaceOK
<1>8. BarrierOK(t, uu, ss)
  <2> SUFFICES ASSUME ss.pc # "closed" PROVE BarrierOK(t, uu, ss)
    BY DEF BarrierOK
  <2>1. st.barrier.revision <= u.revision
    BY <1>1, <1>4 DEF BarrierOK
  <2>2. st.barrier.revision <= uu.revision
    BY <1>2, <1>6, <2>1
  <2> QED BY <1>1, <1>4, <2>2 DEF BarrierOK
<1>9. EntriesOK(t, ss, sf)
  <2>1. Base(ss, sf) = Base(st, sf)
    BY <1>4 DEF Base
  <2> QED BY <1>1, <1>4, <2>1 DEF EntriesOK
<1>10. FramesOK(ss)
  BY <1>1, <1>4 DEF FramesOK
<1>11. QueueOK(t, uu, ss, sf)
  <2> SUFFICES ASSUME ss.pc # "closed", ~ss.dropped PROVE QueueOK(t, uu, ss, sf)
    BY DEF QueueOK
  <2>1. ~st.dropped /\ ss.queue = Append(st.queue, e) /\ st.pc # "closed"
    BY <1>4
  <2> DEFINE q == st.queue
  <2>2. \A k \in Keys : Silent(ss.queue, 0, k) => Silent(q, 0, k) /\ k # key
    <3>1. 0 \in Nat /\ 0 <= Len(q)
      BY <1>6
    <3> QED BY <1>3, <1>6, <2>1, <3>1, SilentAppend
  <2>3. \A l : \A r \in Nat : r <= u.revision /\ Queued(q, L, l, u, r)
                                => Queued(ss.queue, L, l, uu, r)
    <3>1. q \in Seq(Event) /\ ss.queue = Append(q, e)
      BY <1>6, <2>1
    <3>2. \A k \in Keys \ {e.key} : uu.rows[k] = u.rows[k]
      BY <1>2, <1>3
    <3>3. uu.rows[e.key].expansion = e.expansion
      BY <1>2, <1>3
    <3> HIDE DEF q, L
    <3> QED BY <1>2, <1>3, <1>5, <3>1, <3>2, <3>3, QueuedChange
  <2>4. /\ st.pc # "live" => Queued(q, L, st.barrier.last, u, st.barrier.revision)
        /\ st.pc \in {"ui", "sent"} => \A k \in Keys : Silent(q, 0, k) => Tell(st.rows, u, k)
        /\ st.pc = "live" /\ sf.synced =>
              /\ Queued(q, L, sf.last, u, sf.revision)
              /\ \A k \in Keys : Silent(q, 0, k) => sf.ui[k] = u.rows[k].expansion
    BY <1>1, <2>1 DEF QueueOK
  <2>5. st.barrier.revision <= u.revision /\ sf.revision <= u.revision
    BY <1>1, <2>1 DEF BarrierOK, SurfaceOK
  <2> HIDE DEF q, L
  <2>6. ss.pc # "live" => Queued(ss.queue, L, ss.barrier.last, uu, ss.barrier.revision)
    BY <1>4, <1>6, <2>3, <2>4, <2>5
  <2>7. ASSUME ss.pc \in {"ui", "sent"}, NEW k \in Keys, Silent(ss.queue, 0, k)
        PROVE  Tell(ss.rows, uu, k)
    <3>1. Tell(st.rows, u, k) /\ uu.rows[k] = u.rows[k]
      BY <1>2, <1>4, <2>2, <2>4, <2>7
    <3> QED BY <1>4, <3>1 DEF Tell
  <2>8. ASSUME ss.pc = "live", sf.synced
        PROVE  /\ Queued(ss.queue, L, sf.last, uu, sf.revision)
               /\ \A k \in Keys : Silent(ss.queue, 0, k) => sf.ui[k] = uu.rows[k].expansion
    <3>1. /\ Queued(q, L, sf.last, u, sf.revision)
          /\ \A k \in Keys : Silent(q, 0, k) => sf.ui[k] = u.rows[k].expansion
      BY <1>4, <2>4, <2>8
    <3>2. \A k \in Keys : Silent(ss.queue, 0, k) => sf.ui[k] = uu.rows[k].expansion
      BY <1>2, <2>2, <3>1
    <3> QED BY <1>6, <2>3, <2>5, <3>1, <3>2
  <2> QED BY <2>6, <2>7, <2>8 DEF QueueOK, L
<1> QED BY <1>1, <1>2, <1>4, <1>7, <1>8, <1>9, <1>10, <1>11 DEF FeedInv
-----------------------------------------------------------------------------
(***************************************************************************)
(* The producer.  Entries that list every write they should, in the order   *)
(* of the log.                                                              *)
(***************************************************************************)
Listing(t, ns) == [j \in 1..Len(ns) |-> ItemEntry(t.mutations[ns[j]].item, ns[j])]

LEMMA ListingIs ==
  ASSUME NEW t, LogOK(t), NEW ns \in Seq(1..Len(t.mutations))
  PROVE  /\ Listing(t, ns) \in Seq(ItemEntries) /\ Len(Listing(t, ns)) = Len(ns)
         /\ \A j \in 1..Len(ns) :
               /\ ns[j] \in 1..Len(t.mutations)
               /\ Listing(t, ns)[j].number = ns[j]
               /\ Listing(t, ns)[j].id = t.mutations[ns[j]].item
               /\ t.mutations[ns[j]].item \in Items
<1> DEFINE m == Len(ns)
           es == Listing(t, ns)
<1>1. t \in Records /\ m \in Nat
  BY DEF LogOK
<1>2. \A j \in 1..m : ns[j] \in 1..Len(t.mutations)
  OBVIOUS
<1>3. \A n \in 1..Len(t.mutations) : n \in Nat /\ t.mutations[n].item \in Items
  BY <1>1, RecordsAre
<1>4. AutoState \in Expansions
  BY DEF Expansions
<1>5. ASSUME NEW n \in 1..Len(t.mutations)
      PROVE  /\ ItemEntry(t.mutations[n].item, n) \in ItemEntries
             /\ ItemEntry(t.mutations[n].item, n).number = n
             /\ ItemEntry(t.mutations[n].item, n).id = t.mutations[n].item
  <2> DEFINE i == t.mutations[n].item
  <2>1. i \in Items /\ n \in Nat
    BY <1>3
  <2> HIDE DEF i
  <2>2. /\ ItemEntry(i, n) \in ItemEntries /\ ItemEntry(i, n).number = n
        /\ ItemEntry(i, n).id = i
    BY <1>4, <2>1 DEF ItemEntry, ItemEntries
  <2> QED BY <2>2 DEF i
<1>6. \A j \in 1..m : es[j] = ItemEntry(t.mutations[ns[j]].item, ns[j])
  BY DEF Listing
<1>7. es \in Seq(ItemEntries) /\ Len(es) = m
  <2> DEFINE F(j) == ItemEntry(t.mutations[ns[j]].item, ns[j])
  <2>1. \A j \in 1..m : F(j) \in ItemEntries
    BY <1>2, <1>5
  <2>2. es = [j \in 1..m |-> F(j)]
    BY DEF Listing
  <2> HIDE DEF F, es, m
  <2> QED BY <1>1, <2>1, <2>2
<1> HIDE DEF es, m
<1>8. \A j \in 1..m : /\ es[j].number = ns[j] /\ es[j].id = t.mutations[ns[j]].item
                      /\ t.mutations[ns[j]].item \in Items
  BY <1>2, <1>3, <1>5, <1>6
<1> QED BY <1>2, <1>7, <1>8 DEF es, m

(* A delta whose ends fit misses nothing when no prompt is misfiled.        *)
LEMMA DeltaCarries ==
  ASSUME NEW t, LogOK(t), ~Misfiled(t), NEW items \in [Items -> Nat],
         NEW after \in Nat, NEW last \in 1..Len(t.mutations), NEW g \in Nat,
         NoReset(t, after, g), \A i \in Items : Fresh(t, i, items[i], after),
         NEW S, S = {n \in (after + 1)..Len(t.mutations) : t.mutations[n].generation = g},
         NEW ns \in Seq(S), Rises(ns, Len(ns)), Reaches(ns, Len(ns), S), Len(ns) # 0,
         ns[1] = after + 1, ns[Len(ns)] = last
  PROVE  Carries(t, Listing(t, ns), last, items)
<1> DEFINE L == Len(t.mutations)
           m == Len(ns)
           es == Listing(t, ns)
<1>1. t \in Records /\ L \in Nat /\ m \in Nat \ {0}
  BY RecordsAre DEF LogOK
<1>2. S \subseteq 1..L
  BY <1>1
<1>3. ns \in Seq(1..L)
  <2> DEFINE T == 1..L
  <2>1. S \subseteq T
    BY <1>2
  <2> HIDE DEF T
  <2>2. ns \in Seq(T)
    BY <2>1, SeqMonotonic
  <2> QED BY <2>2 DEF T
<1>4. /\ es \in Seq(ItemEntries) /\ Len(es) = m
      /\ \A j \in 1..m : /\ ns[j] \in 1..L /\ es[j].number = ns[j]
                         /\ es[j].id = t.mutations[ns[j]].item
                         /\ t.mutations[ns[j]].item \in Items
  BY <1>3, ListingIs
<1> HIDE DEF es
<1>5. \A n \in S : /\ n \in Nat /\ n > after /\ n \in 1..L /\ t.mutations[n].generation = g
                   /\ t.mutations[n].operation = "add"
  <2> SUFFICES ASSUME NEW n \in S
               PROVE  /\ n \in Nat /\ n > after /\ n \in 1..L
                      /\ t.mutations[n].generation = g /\ t.mutations[n].operation = "add"
    OBVIOUS
  <2>1. n \in (after + 1)..L /\ t.mutations[n].generation = g
    OBVIOUS
  <2>2. n \in 1..L /\ n \in Nat /\ n > after
    BY <1>1, <2>1
  <2>3. t.mutations[n].operation \in {"add", "reset"}
    BY <1>1, <2>2, RecordsAre
  <2>4. t.mutations[n].operation # "reset"
    <3> SUFFICES ASSUME t.mutations[n].operation = "reset" PROVE FALSE
      OBVIOUS
    <3>1. t.mutations[n].generation > g
      BY <2>2 DEF NoReset
    <3> QED BY <2>1, <3>1
  <2> QED BY <2>1, <2>2, <2>3, <2>4
<1>6. \A j \in 1..m : ns[j] \in S
  OBVIOUS
<1>7. \A n \in 1..L : after < n /\ n <= last => n \in S
  <2> SUFFICES ASSUME NEW n \in 1..L, after < n, n <= last PROVE n \in S
    OBVIOUS
  <2>1. after + 1 \in S /\ last \in S
    <3>1. 1 \in 1..m /\ m \in 1..m
      BY <1>1
    <3> QED BY <1>6, <3>1
  <2>2. t.mutations[after + 1].generation = g /\ t.mutations[last].generation = g
        /\ after + 1 \in 1..L /\ last \in 1..L
    BY <1>5, <2>1
  <2>3. \A j, k \in 1..L : j < k => ~(t.mutations[j].generation > t.mutations[k].generation)
    BY DEF Misfiled
  <2>4. t.mutations[n].generation \in Nat
    BY <1>1, RecordsAre
  <2>5. n = after + 1 \/ after + 1 < n
    BY <1>1
  <2>6. n = last \/ n < last
    BY <1>1
  <2>7. ~(g > t.mutations[n].generation) /\ ~(t.mutations[n].generation > g)
    BY <2>2, <2>3, <2>5, <2>6
  <2>8. t.mutations[n].generation = g
    BY <2>4, <2>7
  <2>9. n \in (after + 1)..L
    BY <1>1
  <2> QED BY <2>8, <2>9
<1>8. \A j \in 1..Len(es) : es[j].number \in Writes(t, es[j].id)
  BY <1>4, <1>5, <1>6 DEF Writes
<1>9. ASSUME NEW i \in Items, NEW n \in Writes(t, i), n <= last
      PROVE  /\ (\A j \in 1..Len(es) : es[j].id # i) => n <= items[i]
             /\ \A j \in 1..Len(es) : LastOf(es, j, i) => n <= es[j].number
  <2>1. n \in 1..L /\ n \in Nat /\ t.mutations[n].item = i
    BY DEF Writes
  <2>2. CASE n <= after
    <3>1. n <= items[i]
      BY <1>9, <2>2 DEF Fresh
    <3>2. \A j \in 1..m : n <= ns[j]
      BY <1>5, <1>6, <2>1, <2>2
    <3> QED BY <1>4, <3>1, <3>2
  <2>3. CASE ~(n <= after)
    <3>1. n \in S
      BY <1>7, <1>9, <2>1, <2>3
    <3>2. PICK p \in 1..m : ns[p] = n
      BY <3>1 DEF Reaches
    <3>3. es[p].id = i /\ p \in 1..Len(es)
      BY <1>4, <2>1, <3>2
    <3>4. ASSUME NEW j \in 1..Len(es), LastOf(es, j, i) PROVE n <= es[j].number
      <4>1. ~(p > j)
        BY <3>3, <3>4 DEF LastOf
      <4>2. p = j \/ p < j
        BY <1>1, <1>4, <4>1
      <4>3. ns[j] \in Nat /\ es[j].number = ns[j]
        BY <1>4, <1>5, <1>6
      <4>4. CASE p = j
        BY <2>1, <3>2, <4>3, <4>4
      <4>5. CASE p < j
        <5>1. ns[p] < ns[j]
          BY <1>4, <4>5 DEF Rises
        <5> QED BY <2>1, <3>2, <4>3, <5>1
      <4> QED BY <4>2, <4>4, <4>5
    <3> QED BY <3>3, <3>4
  <2> QED BY <2>2, <2>3
<1>10. Carries(t, es, last, items)
  BY <1>8, <1>9 DEF Carries
<1> QED BY <1>10 DEF es
-----------------------------------------------------------------------------
(* What the invariant says of the variables.                               *)
Inv == FeedInv(timeline, ui, stream, surface)

LEMMA InvIs ==
  ASSUME Inv
  PROVE  /\ timeline \in Records /\ LastSequence \in Nat /\ timeline.generation \in Nat
         /\ LastSequence <= MaxMutations
         /\ ui \in UiStates /\ ui.revision \in Nat
         /\ stream \in Streams /\ surface \in Surfaces
         /\ LogOK(timeline) /\ UiOK(ui) /\ SurfaceOK(timeline, ui, surface)
         /\ StreamOK(stream) /\ BarrierOK(timeline, ui, stream)
         /\ EntriesOK(timeline, stream, surface) /\ FramesOK(stream)
         /\ QueueOK(timeline, ui, stream, surface)
<1>1. /\ LogOK(timeline) /\ UiOK(ui) /\ SurfaceOK(timeline, ui, surface)
      /\ StreamOK(stream) /\ BarrierOK(timeline, ui, stream)
      /\ EntriesOK(timeline, stream, surface) /\ FramesOK(stream)
      /\ QueueOK(timeline, ui, stream, surface) /\ Len(timeline.mutations) <= MaxMutations
  BY DEF Inv, FeedInv
<1>2. timeline \in Records /\ ui \in UiStates /\ stream \in Streams /\ surface \in Surfaces
  BY <1>1 DEF LogOK, UiOK, StreamOK, SurfaceOK
<1>3. ui.revision \in Nat
  BY <1>2 DEF UiStates, Revision
<1> QED BY <1>1, <1>2, <1>3, RecordsAre DEF LastSequence

LEMMA QueuedNothing ==
  ASSUME NEW L \in Nat, NEW u, NEW r
  PROVE  Queued(<<>>, L, L, u, r)
<1>1. Len(<<>>) = 0 /\ 1..0 = {} /\ ~(L > L)
  OBVIOUS
<1> QED BY <1>1 DEF Queued

LEMMA NoStreamIs == StreamOK(NoStream) /\ NoStream.pc = "closed" /\ NoStream.queue = <<>>
                    /\ NoStream.entries = <<>> /\ NoStream.frames = <<>>
                    /\ NoStream.rows = <<>> /\ ~NoStream.dropped
<1>1. NoBarrier \in [last: Nat, generation: Nat, revision: Nat]
  BY DEF NoBarrier
<1> DEFINE w == <<>>
<1>2. w \in Seq(ItemEntries) /\ w \in Seq(UiEntries) /\ w \in Seq(FrameSet) /\ w \in Seq(Event)
      /\ Len(w) <= BacklogMax
  BY FeedAssumption
<1>3. NoStream = [pc |-> "closed", barrier |-> NoBarrier, mode |-> "full", entries |-> w,
                  rows |-> w, frames |-> w, queue |-> w, dropped |-> FALSE]
  BY DEF NoStream
<1> HIDE DEF w
<1>4. NoStream \in Streams
  BY <1>1, <1>2, <1>3 DEF Streams
<1>5. /\ NoStream.pc = "closed" /\ NoStream.queue = w /\ NoStream.entries = w
      /\ NoStream.frames = w /\ NoStream.rows = w /\ NoStream.dropped = FALSE
  BY <1>3
<1> QED BY <1>2, <1>4, <1>5 DEF StreamOK, w

LEMMA CaptureKeeps == Inv /\ CaptureBarrier => Inv'
<1> SUFFICES ASSUME Inv, CaptureBarrier PROVE Inv'
  OBVIOUS
<1> DEFINE b == [last |-> LastSequence, generation |-> timeline.generation,
                 revision |-> ui.revision]
<1>1. /\ UNCHANGED <<timeline, ui, surface>>
      /\ stream' = [NoStream EXCEPT !.pc = "captured", !.barrier = b]
  BY DEF CaptureBarrier
<1>2. /\ b \in [last: Nat, generation: Nat, revision: Nat]
      /\ b.last = LastSequence /\ b.generation = timeline.generation /\ b.revision = ui.revision
  BY InvIs
<1> HIDE DEF b
<1>3. NoStream \in Streams
  BY NoStreamIs DEF StreamOK
<1>4. stream' \in Streams
  BY <1>1, <1>2, <1>3 DEF Streams
<1>5. /\ stream'.pc = "captured" /\ stream'.barrier = b /\ stream'.queue = NoStream.queue
      /\ stream'.entries = NoStream.entries /\ stream'.dropped = NoStream.dropped
  BY <1>1, <1>3 DEF Streams
<1>6. stream'.queue = <<>> /\ stream'.entries = <<>> /\ ~stream'.dropped
  BY <1>5, NoStreamIs
<1>7. StreamOK(stream')
  BY <1>3, <1>4, <1>5, <1>6, NoStreamIs DEF StreamOK
<1>8. BarrierOK(timeline, ui, stream')
  <2>1. NoReset(timeline, LastSequence, timeline.generation)
    <3>1. \A n \in 1..LastSequence : ~(n > LastSequence)
      BY InvIs
    <3> QED BY <3>1 DEF NoReset, LastSequence
  <2>2. LastSequence <= LastSequence /\ timeline.generation <= timeline.generation
        /\ ui.revision <= ui.revision
    BY InvIs
  <2> QED BY <1>2, <1>5, <2>1, <2>2 DEF BarrierOK, LastSequence
<1>9. EntriesOK(timeline, stream', surface)
  <2>1. Len(stream'.entries) = 0
    BY <1>6
  <2> QED BY <1>5, <2>1 DEF EntriesOK
<1>10. FramesOK(stream')
  BY <1>5 DEF FramesOK
<1>11. QueueOK(timeline, ui, stream', surface)
  <2>1. Queued(<<>>, LastSequence, LastSequence, ui, ui.revision)
    BY InvIs, QueuedNothing
  <2> QED BY <1>2, <1>5, <1>6, <2>1 DEF QueueOK, LastSequence
<1>12. FeedInv(timeline, ui, stream', surface)
  BY <1>7, <1>8, <1>9, <1>10, <1>11, InvIs DEF FeedInv, LastSequence
<1> QED BY <1>1, <1>12 DEF Inv

LEMMA ChooseKeeps ==
  ASSUME Inv, NEW resume \in BOOLEAN, ChooseMode(resume)
  PROVE  Inv'
<1> DEFINE g == stream.barrier.generation
           after == surface.last
           S == {n \in (after + 1)..LastSequence : timeline.mutations[n].generation = g}
           ns == Ascending(S)
           isDelta == /\ resume
                      /\ surface.generation = g
                      /\ after < stream.barrier.last
                      /\ CoversDelta(after, ns)
           mode == IF isDelta THEN "delta" ELSE "full"
           es == IF isDelta THEN Listing(timeline, ns) ELSE <<>>
<1>0. /\ timeline \in Records /\ LastSequence \in Nat /\ stream \in Streams
      /\ surface \in Surfaces /\ LogOK(timeline) /\ SurfaceOK(timeline, ui, surface)
      /\ LastSequence = Len(timeline.mutations)
  BY InvIs DEF LastSequence
<1>1. after \in Nat /\ g \in Nat /\ stream.barrier.last \in Nat
      /\ surface.items \in [Items -> Nat]
  BY <1>0, StreamIs, SurfaceIs
<1>2. S \in SUBSET (1..LastSequence)
  BY <1>0, <1>1
<1>3. /\ ns \in Seq(S) /\ Rises(ns, Len(ns)) /\ Reaches(ns, Len(ns), S)
  <2> HIDE DEF S
  <2> QED BY <1>0, <1>2, AscendingIs
<1>4. ns \in Seq(1..LastSequence)
  <2> DEFINE T == 1..LastSequence
  <2>1. S \subseteq T
    BY <1>2
  <2> HIDE DEF T, S, ns
  <2>2. ns \in Seq(T)
    BY <1>3, <2>1, SeqMonotonic
  <2> QED BY <2>2 DEF T
<1>5. /\ stream.pc = "captured"
      /\ stream' = [stream EXCEPT !.pc = "mode", !.mode = mode, !.entries = es]
      /\ UNCHANGED <<timeline, ui, surface>>
  <2>1. MutationsAfter(g, after) = ns
    BY DEF MutationsAfter
  <2>2. [j \in DOMAIN ns |-> MutationEntry(ns[j])] = Listing(timeline, ns)
    <3>1. DOMAIN ns = 1..Len(ns)
      <4> HIDE DEF ns
      <4> QED BY <1>4
    <3> HIDE DEF ns
    <3> QED BY <3>1 DEF Listing, MutationEntry
  <2> HIDE DEF ns
  <2> QED BY <2>1, <2>2 DEF ChooseMode
<1> HIDE DEF S, ns
<1>6. /\ Listing(timeline, ns) \in Seq(ItemEntries) /\ Len(Listing(timeline, ns)) = Len(ns)
      /\ \A j \in 1..Len(ns) : /\ ns[j] \in 1..LastSequence
                               /\ Listing(timeline, ns)[j].number = ns[j]
  BY <1>0, <1>4, ListingIs
<1>7. es \in Seq(ItemEntries) /\ \A j \in 1..Len(es) : es[j].number <= LastSequence
  <2>1. CASE isDelta
    <3>1. es = Listing(timeline, ns)
      BY <2>1
    <3>2. \A j \in 1..Len(ns) : ns[j] <= LastSequence
      BY <1>0, <1>6
    <3> HIDE DEF es
    <3> QED BY <1>6, <3>1, <3>2
  <2>2. CASE ~isDelta
    <3>1. es = <<>>
      BY <2>2
    <3> HIDE DEF es
    <3>2. Len(es) = 0 /\ es \in Seq(ItemEntries)
      BY <3>1
    <3> QED BY <3>2
  <2> QED BY <2>1, <2>2
<1>8. ASSUME isDelta, ~Misfiled(timeline)
      PROVE  Carries(timeline, es, stream.barrier.last, surface.items)
  <2>1. Len(ns) # 0 /\ ns[1] = after + 1 /\ ns[Len(ns)] = stream.barrier.last
    <3>1. ns # <<>> /\ Head(ns) = after + 1 /\ Last(ns) = stream.barrier.last
      BY <1>8 DEF CoversDelta
    <3>2. Head(ns) = ns[1] /\ Last(ns) = ns[Len(ns)] /\ Len(ns) # 0
      BY <1>3, <3>1 DEF Last
    <3> QED BY <3>1, <3>2
  <2>2. stream.barrier.last \in 1..LastSequence
    <3>1. Len(ns) \in 1..Len(ns)
      <4>1. Len(ns) \in Nat
        BY <1>3
      <4> QED BY <2>1, <4>1
    <3> QED BY <1>6, <2>1, <3>1
  <2>3. /\ NoReset(timeline, after, g)
        /\ \A i \in Items : Fresh(timeline, i, surface.items[i], after)
    <3>1. surface.generation = g
      BY <1>8
    <3> QED BY <1>0, <1>8, <3>1 DEF SurfaceOK
  <2> DEFINE items == surface.items
             last == stream.barrier.last
  <2>4. /\ LogOK(timeline) /\ ~Misfiled(timeline) /\ items \in [Items -> Nat]
        /\ after \in Nat /\ last \in 1..Len(timeline.mutations) /\ g \in Nat
        /\ NoReset(timeline, after, g) /\ \A i \in Items : Fresh(timeline, i, items[i], after)
        /\ S = {n \in (after + 1)..Len(timeline.mutations) : timeline.mutations[n].generation = g}
        /\ ns \in Seq(S) /\ Rises(ns, Len(ns)) /\ Reaches(ns, Len(ns), S) /\ Len(ns) # 0
        /\ ns[1] = after + 1 /\ ns[Len(ns)] = last
    BY <1>0, <1>1, <1>3, <1>8, <2>1, <2>2, <2>3 DEF S
  <2> HIDE DEF items, last, after, g
  <2>5. Carries(timeline, Listing(timeline, ns), last, items)
    BY ONLY <2>4, DeltaCarries
  <2>6. es = Listing(timeline, ns)
    BY <1>8
  <2> QED BY <2>5, <2>6 DEF items, last
<1>9. mode = "delta" => isDelta
  OBVIOUS
<1>10. mode \in {"full", "delta"}
  OBVIOUS
<1> HIDE DEF es, mode, isDelta
<1>11. stream' \in Streams
  BY <1>0, <1>5, <1>7, <1>10 DEF Streams
<1>12. /\ stream'.pc = "mode" /\ stream'.mode = mode /\ stream'.entries = es
       /\ stream'.barrier = stream.barrier /\ stream'.queue = stream.queue
       /\ stream'.dropped = stream.dropped
  BY <1>0, <1>5 DEF Streams
<1>13. StreamOK(stream')
  BY <1>11, <1>12, InvIs DEF StreamOK
<1>14. BarrierOK(timeline, ui, stream')
  BY <1>5, <1>12, InvIs DEF BarrierOK
<1>15. EntriesOK(timeline, stream', surface)
  <2>1. stream'.mode = "delta" => Base(stream', surface) = surface.items
    BY DEF Base
  <2> QED BY <1>0, <1>7, <1>8, <1>9, <1>12, <2>1 DEF EntriesOK
<1>16. FramesOK(stream')
  BY <1>12 DEF FramesOK
<1>17. QueueOK(timeline, ui, stream', surface)
  BY <1>5, <1>12, InvIs DEF QueueOK
<1>18. FeedInv(timeline, ui, stream', surface)
  BY <1>0, <1>13, <1>14, <1>15, <1>16, <1>17, InvIs DEF FeedInv
<1> QED BY <1>5, <1>18 DEF Inv

LEMMA ReadKeeps == Inv /\ ReadUiRows => Inv'
<1> SUFFICES ASSUME Inv, ReadUiRows PROVE Inv'
  OBVIOUS
<1> DEFINE S == {k \in Keys : ui.rows[k].expansion # AutoState}
           kept == SetToSeq(S)
           n == Len(kept)
           rows == [j \in 1..n |-> UiEntry(kept[j], ui.rows[kept[j]].expansion)]
<1>1. kept \in Seq(S) /\ Reaches(kept, n, S)
  <2>1. IsFiniteSet(S)
    BY InvIs DEF UiOK
  <2> HIDE DEF S
  <2> QED BY <2>1, SetToSeqIs
<1>2. /\ stream.pc = "mode" /\ UNCHANGED <<timeline, ui, surface>>
      /\ stream' = [stream EXCEPT !.pc = "ui", !.rows = rows]
  <2>1. DOMAIN kept = 1..n
    <3> HIDE DEF kept
    <3> QED BY <1>1
  <2> HIDE DEF kept
  <2>2. [j \in DOMAIN kept |-> UiEntry(kept[j], ui.rows[kept[j]].expansion)] = rows
    BY <2>1
  <2> HIDE DEF rows
  <2> QED BY <2>2 DEF ReadUiRows, kept
<1> HIDE DEF kept
<1>3. \A k \in Keys : ui.rows[k].expansion \in Expansions
  <2>1. ui.rows \in [Keys -> UiRow]
    BY InvIs DEF UiStates
  <2> QED BY <2>1 DEF UiRow
<1>4. \A j \in 1..n : kept[j] \in S /\ kept[j] \in Keys
  <2>1. \A j \in 1..n : kept[j] \in S
    <3> HIDE DEF S
    <3> QED BY <1>1
  <2> QED BY <2>1
<1>5. \A k \in Keys, x \in Expansions :
         UiEntry(k, x) \in UiEntries /\ UiEntry(k, x).id = k /\ UiEntry(k, x).expansion = x
  BY DEF UiEntry, UiEntries
<1>6. n \in Nat
  <2> HIDE DEF S
  <2> QED BY <1>1
<1>7. rows \in Seq(UiEntries) /\ Len(rows) = n
      /\ \A j \in 1..n : rows[j].id = kept[j] /\ rows[j].expansion = ui.rows[kept[j]].expansion
  <2> HIDE DEF n
  <2>1. \A j \in 1..n : rows[j] \in UiEntries
    BY <1>3, <1>4, <1>5
  <2>2. rows \in Seq(UiEntries) /\ Len(rows) = n
    BY <1>6, <2>1
  <2>3. \A j \in 1..n : rows[j].id = kept[j] /\ rows[j].expansion = ui.rows[kept[j]].expansion
    BY <1>3, <1>4, <1>5
  <2> QED BY <2>2, <2>3
<1> HIDE DEF rows, n
<1>8. \A k \in Keys : Tell(rows, ui, k)
  <2> SUFFICES ASSUME NEW k \in Keys PROVE Tell(rows, ui, k)
    OBVIOUS
  <2>1. \A j \in 1..n : rows[j].id = k => rows[j].expansion = ui.rows[k].expansion
    BY <1>7
  <2>2. (\A j \in 1..n : rows[j].id # k) => ui.rows[k].expansion = AutoState
    <3>1. k \in S => \E j \in 1..n : kept[j] = k
      BY <1>1 DEF Reaches
    <3> QED BY <1>7, <3>1
  <2> QED BY <1>7, <2>1, <2>2 DEF Tell
<1>9. stream' \in Streams
  BY <1>2, <1>7, InvIs DEF Streams
<1>10. /\ stream'.pc = "ui" /\ stream'.mode = stream.mode /\ stream'.entries = stream.entries
       /\ stream'.barrier = stream.barrier /\ stream'.queue = stream.queue
       /\ stream'.dropped = stream.dropped /\ stream'.rows = rows
  BY <1>2, InvIs DEF Streams
<1>11. StreamOK(stream')
  BY <1>9, <1>10, InvIs DEF StreamOK
<1>12. BarrierOK(timeline, ui, stream')
  BY <1>2, <1>10, InvIs DEF BarrierOK
<1>13. EntriesOK(timeline, stream', surface)
  <2>1. Base(stream', surface) = Base(stream, surface)
    BY <1>10 DEF Base
  <2> QED BY <1>2, <1>10, <2>1, InvIs DEF EntriesOK
<1>14. FramesOK(stream')
  BY <1>10 DEF FramesOK
<1>15. QueueOK(timeline, ui, stream', surface)
  BY <1>2, <1>8, <1>10, InvIs DEF QueueOK
<1>16. FeedInv(timeline, ui, stream', surface)
  BY <1>11, <1>12, <1>13, <1>14, <1>15, InvIs DEF FeedInv, LastSequence
<1> QED BY <1>2, <1>16 DEF Inv
-----------------------------------------------------------------------------
(* The rows of the items, each with its last write.                        *)
LEMMA ItemRowsAre ==
  ASSUME Inv
  PROVE  /\ ItemRows \in Seq(ItemEntries)
         /\ \A j \in 1..Len(ItemRows) : ItemRows[j].number <= LastSequence
         /\ \A l : Carries(timeline, ItemRows, l, [i \in Items |-> 0])
<1> DEFINE first(i) == timeline.items[i].first
           last(i) == timeline.items[i].last
           F == {timeline.items[i].first : i \in Items} \ {0}
           firsts == Ascending(F)
           at(n) == CHOOSE i \in Items : timeline.items[i].first = n
           m == Len(firsts)
           es == [j \in 1..m |-> ItemEntry(at(firsts[j]), last(at(firsts[j])))]
<1>1. /\ LogOK(timeline) /\ timeline \in Records /\ LastSequence \in Nat
      /\ LastSequence = Len(timeline.mutations)
  BY InvIs DEF LastSequence
<1>2. \A i \in Items : Writes(timeline, i) \subseteq 1..LastSequence
  BY <1>1 DEF Writes
<1>3. \A i \in Items : first(i) \in Nat /\ last(i) \in Nat
  BY <1>1, RecordsAre
<1>4. ASSUME NEW i \in Items, first(i) # 0
      PROVE  /\ first(i) \in Writes(timeline, i) /\ last(i) \in Writes(timeline, i)
             /\ \A n \in Writes(timeline, i) : n <= last(i)
  <2>1. RowOK(timeline, i)
    BY <1>1 DEF LogOK
  <2>2. timeline.items[i] # NoRow
    BY <1>4 DEF NoRow
  <2> QED BY <2>1, <2>2 DEF RowOK
<1>5. ASSUME NEW i \in Items, first(i) = 0 PROVE Writes(timeline, i) = {}
  <2>1. RowOK(timeline, i)
    BY <1>1 DEF LogOK
  <2>2. ~(0 \in 1..LastSequence)
    BY <1>1
  <2> QED BY <1>2, <1>5, <2>1, <2>2 DEF RowOK
<1>6. F \in SUBSET (1..LastSequence)
  BY <1>2, <1>4
<1>7. firsts \in Seq(F) /\ Reaches(firsts, m, F)
  <2> HIDE DEF F
  <2> QED BY <1>1, <1>6, AscendingIs
<1>8. \A n \in F : at(n) \in Items /\ first(at(n)) = n /\ n # 0
  BY DEF at
<1>9. \A i \in Items : first(i) # 0 => first(i) \in F /\ at(first(i)) = i
  <2> SUFFICES ASSUME NEW i \in Items, first(i) # 0
               PROVE  first(i) \in F /\ at(first(i)) = i
    OBVIOUS
  <2>1. first(i) \in F
    OBVIOUS
  <2> DEFINE k == at(first(i))
  <2>2. k \in Items /\ first(k) = first(i)
    <3> HIDE DEF F, at
    <3> QED BY <1>8, <2>1
  <2> HIDE DEF k
  <2>3. first(i) \in Writes(timeline, i) /\ first(i) \in Writes(timeline, k)
    BY <1>4, <2>2
  <2>4. k = i
    BY <2>3 DEF Writes
  <2> QED BY <2>1, <2>4 DEF k
<1>10. ItemRows = es
  <2>1. DOMAIN firsts = 1..m
    <3> HIDE DEF firsts
    <3> QED BY <1>7
  <2>2. ItemRows = [j \in DOMAIN firsts |-> ItemEntry(at(firsts[j]), last(at(firsts[j])))]
    BY DEF ItemRows
  <2> QED BY <2>1, <2>2
<1>11. m \in Nat /\ \A j \in 1..m : firsts[j] \in F
  <2> HIDE DEF F, firsts
  <2> QED BY <1>7
<1> HIDE DEF at, firsts, F, m
<1>12. AutoState \in Expansions
  BY DEF Expansions
<1>13. \A i \in Items, n \in Nat : ItemEntry(i, n) \in ItemEntries
                                   /\ ItemEntry(i, n).id = i /\ ItemEntry(i, n).number = n
  BY <1>12 DEF ItemEntry, ItemEntries
<1>14. ASSUME NEW j \in 1..m
       PROVE  /\ es[j] \in ItemEntries /\ es[j].id \in Items /\ first(es[j].id) # 0
              /\ es[j].id = at(firsts[j]) /\ es[j].number = last(es[j].id)
  <2> DEFINE i == at(firsts[j])
  <2>1. i \in Items /\ first(i) # 0
    BY <1>8, <1>11
  <2>2. es[j] = ItemEntry(i, last(i))
    OBVIOUS
  <2> HIDE DEF i, es
  <2>3. es[j] \in ItemEntries /\ es[j].id = i /\ es[j].number = last(i)
    BY <1>3, <1>13, <2>1, <2>2
  <2> QED BY <2>1, <2>3 DEF i
<1>15. es \in Seq(ItemEntries) /\ Len(es) = m
  <2>1. \A j \in 1..m : ItemEntry(at(firsts[j]), last(at(firsts[j]))) \in ItemEntries
    BY <1>14
  <2> DEFINE f(j) == ItemEntry(at(firsts[j]), last(at(firsts[j])))
  <2>2. es = [j \in 1..m |-> f(j)] /\ \A j \in 1..m : f(j) \in ItemEntries
    BY <2>1
  <2> HIDE DEF es, f
  <2> QED BY <1>11, <2>2
<1> HIDE DEF es
<1>16. \A j \in 1..m : /\ es[j].number \in Writes(timeline, es[j].id)
                       /\ es[j].number <= LastSequence
                       /\ \A n \in Writes(timeline, es[j].id) : n <= es[j].number
  <2> SUFFICES ASSUME NEW j \in 1..m
               PROVE  /\ es[j].number \in Writes(timeline, es[j].id)
                      /\ es[j].number <= LastSequence
                      /\ \A n \in Writes(timeline, es[j].id) : n <= es[j].number
    OBVIOUS
  <2> DEFINE i == es[j].id
  <2>1. i \in Items /\ first(i) # 0 /\ es[j].number = last(i)
    BY <1>14
  <2> HIDE DEF i
  <2>2. last(i) \in Writes(timeline, i) /\ \A n \in Writes(timeline, i) : n <= last(i)
    BY <1>4, <2>1
  <2>3. last(i) <= LastSequence
    BY <1>1, <1>2, <2>1, <2>2
  <2> QED BY <2>1, <2>2, <2>3 DEF i
<1>17. \A i \in Items : Writes(timeline, i) # {} => \E j \in 1..m : es[j].id = i
  <2> SUFFICES ASSUME NEW i \in Items, Writes(timeline, i) # {}
               PROVE  \E j \in 1..m : es[j].id = i
    OBVIOUS
  <2>1. first(i) # 0
    BY <1>5
  <2>2. first(i) \in F /\ at(first(i)) = i
    BY <1>9, <2>1
  <2>3. PICK j \in 1..m : firsts[j] = first(i)
    BY <1>7, <2>2 DEF Reaches
  <2> QED BY <1>14, <2>2, <2>3
<1>18. \A l : Carries(timeline, es, l, [i \in Items |-> 0])
  <2> SUFFICES ASSUME NEW l PROVE Carries(timeline, es, l, [i \in Items |-> 0])
    OBVIOUS
  <2>1. \A i \in Items : \A n \in Writes(timeline, i) :
           /\ ~(\A j \in 1..Len(es) : es[j].id # i)
           /\ \A j \in 1..Len(es) : LastOf(es, j, i) => n <= es[j].number
    BY <1>15, <1>16, <1>17 DEF LastOf
  <2> QED BY <1>15, <1>16, <2>1 DEF Carries
<1> QED BY <1>10, <1>15, <1>16, <1>18
-----------------------------------------------------------------------------
(* The frames of a snapshot: a header, the body, the end.                  *)
LEMMA CountShifted ==
  ASSUME NEW body \in Seq(FrameSet), NEW a, NEW z,
         a.kind # "fragment", z.kind # "fragment"
  PROVE  /\ CountOf(body, "fragment") \in Nat
         /\ CountOf((<<a>> \o body) \o <<z>>, "fragment") = CountOf(body, "fragment")
<1> DEFINE n == Len(body)
           fs == (<<a>> \o body) \o <<z>>
           S == {j \in 1..n : body[j].kind = "fragment"}
           T == {j \in 1..(n + 2) : fs[j].kind = "fragment"}
           f == [j \in S |-> j + 1]
<1>1. n \in Nat /\ DOMAIN body = 1..n
  OBVIOUS
<1>2. /\ DOMAIN fs = 1..(n + 2) /\ fs[1] = a /\ fs[n + 2] = z
      /\ \A j \in 1..n : fs[j + 1] = body[j]
  OBVIOUS
<1> HIDE DEF fs
<1>3. IsFiniteSet(S)
  <2> DEFINE I == 1..n
  <2>1. IsFiniteSet(I)
    BY <1>1, FS_Interval
  <2>2. S \subseteq I
    OBVIOUS
  <2> HIDE DEF I, S
  <2> QED BY <2>1, <2>2, FS_Subset
<1>4. f \in Bijection(S, T)
  <2>1. \A j \in S : j \in Nat /\ j + 1 \in T
    <3>1. \A j \in 1..n : j \in Nat /\ j + 1 \in 1..(n + 2)
      BY <1>1
    <3> QED BY <1>2, <3>1
  <2>2. \A j, k \in S : j + 1 = k + 1 => j = k
    OBVIOUS
  <2>3. \A k \in T : \E j \in S : j + 1 = k
    <3> SUFFICES ASSUME NEW k \in T PROVE \E j \in S : j + 1 = k
      OBVIOUS
    <3>1. k # 1 /\ k # n + 2
      BY <1>2
    <3>2. k - 1 \in 1..n /\ (k - 1) + 1 = k
      BY <1>1, <3>1
    <3>3. fs[k] = body[k - 1]
      BY <1>2, <3>2
    <3>4. k - 1 \in S
      BY <3>2, <3>3
    <3> QED BY <3>2, <3>4
  <2> HIDE DEF S, T
  <2>4. f \in [S -> T]
    BY <2>1
  <2>5. \A j, k \in S : f[j] = f[k] => j = k
    BY <2>2
  <2>6. \A k \in T : \E j \in S : f[j] = k
    BY <2>3
  <2> HIDE DEF f
  <2> QED BY <2>4, <2>5, <2>6 DEF Bijection, Injection, Surjection, IsInjective
<1>5. Cardinality(S) \in Nat /\ Cardinality(T) = Cardinality(S)
  <2> HIDE DEF S, T, f
  <2>1. ExistsBijection(S, T)
    BY <1>4 DEF ExistsBijection
  <2> QED BY <1>3, <2>1, FS_CardinalityType, FS_Bijection
<1> QED BY <1>1, <1>2, <1>5 DEF CountOf, fs
SnapshotFrames(es, rows) ==
  LET n    == Len(es) + Len(rows)
      body == ChunkEntries(es) \o ChunkEntries(rows)
  IN  (<<Frame("header", <<>>, 0, n)>> \o body)
        \o <<Frame("end", <<>>, CountOf(body, "fragment"), n)>>

LEMMA FramesCarry ==
  ASSUME NEW es \in Seq(EntrySet), NEW rows \in Seq(EntrySet), NEW frames,
         frames = SnapshotFrames(es, rows)
  PROVE  /\ frames \in Seq(FrameSet) /\ Staged(frames) = es \o rows
         /\ Head(frames).count = Len(es \o rows) /\ Last(frames).count = Len(es \o rows)
         /\ Last(frames).index = CountOf(frames, "fragment")
<1> DEFINE n == Len(es) + Len(rows)
           body == ChunkEntries(es) \o ChunkEntries(rows)
           c == CountOf(body, "fragment")
           w == <<>>
           a == Frame("header", w, 0, n)
           z == Frame("end", w, c, n)
<1>0. n \in Nat /\ n = Len(es \o rows)
  OBVIOUS
<1> HIDE DEF n
<1>1. Carry(body, es \o rows)
  <2>1. Carry(ChunkEntries(es), es) /\ Carry(ChunkEntries(rows), rows)
    BY ChunksCarry
  <2> QED BY <2>1, CarryConcat
<1>2. body \in Seq(FrameSet) /\ es \o rows \in Seq(EntrySet)
  BY <1>1 DEF Carry
<1>3. a.kind = "header" /\ a.count = n /\ z.kind = "end" /\ z.count = n /\ z.index = c
  BY DEF Frame
<1>4. frames = (<<a>> \o body) \o <<z>>
  BY DEF SnapshotFrames, n
<1> HIDE DEF body
<1>5. w \in Seq(EntrySet) /\ 0 \in Nat
  OBVIOUS
<1>6. c \in Nat /\ CountOf(frames, "fragment") = c
  <2> HIDE DEF a, z
  <2>1. a.kind # "fragment" /\ z.kind # "fragment"
    BY <1>3
  <2> QED BY ONLY <1>2, <1>4, <2>1, CountShifted DEF c
<1>7. Carry(<<a>>, w) /\ Carry(<<z>>, w)
  <2> HIDE DEF c, w
  <2> QED BY <1>0, <1>5, <1>6, CarryFrame
<1>8. /\ frames \in Seq(FrameSet) /\ Head(frames) = a /\ Last(frames) = z
  <2>1. <<a>> \in Seq(FrameSet) /\ <<z>> \in Seq(FrameSet)
    BY <1>7 DEF Carry
  <2> HIDE DEF a, z
  <2>2. a \in FrameSet /\ z \in FrameSet
    BY <2>1
  <2> DEFINE f == (<<a>> \o body) \o <<z>>
  <2>3. /\ f \in Seq(FrameSet) /\ Len(f) = Len(body) + 2 /\ Len(body) \in Nat
        /\ f[1] = a /\ f[Len(body) + 2] = z
    BY <1>2, <2>2
  <2> HIDE DEF f
  <2>4. f # <<>> /\ Head(f) = f[1] /\ f[Len(f)] = z
    BY <2>3
  <2> QED BY <1>4, <2>3, <2>4 DEF f, Last
<1> HIDE DEF a, z, c
<1>9. Carry(frames, (w \o (es \o rows)) \o w)
  <2> DEFINE x == <<a>>
             y == <<z>>
             d == es \o rows
  <2>1. Carry(x, w) /\ Carry(y, w) /\ Carry(body, d) /\ frames = (x \o body) \o y
    BY <1>1, <1>4, <1>7
  <2> HIDE DEF x, y, d, w
  <2>2. Carry(x \o body, w \o d)
    BY <2>1, CarryConcat
  <2>3. Carry((x \o body) \o y, (w \o d) \o w)
    BY <2>1, <2>2, CarryConcat
  <2> QED BY <2>1, <2>3 DEF d
<1>10. (w \o (es \o rows)) \o w = es \o rows
  <2> DEFINE d == es \o rows
  <2>1. d \in Seq(EntrySet)
    BY <1>2
  <2> HIDE DEF d
  <2>2. w \o d = d /\ d \o w = d
    BY <2>1, ConcatEmptySeq
  <2> QED BY <2>2 DEF d
<1>11. Staged(frames) = es \o rows
  BY <1>9, <1>10, StagedIs
<1> QED BY <1>0, <1>3, <1>6, <1>8, <1>11

LEMMA EntriesAre ==
  /\ ItemEntries \subseteq EntrySet /\ UiEntries \subseteq EntrySet
  /\ \A es \in Seq(ItemEntries) : es \in Seq(EntrySet)
  /\ \A es \in Seq(UiEntries) : es \in Seq(EntrySet)
<1>1. ItemEntries \subseteq EntrySet /\ UiEntries \subseteq EntrySet
  BY DEF ItemEntries, UiEntries, EntrySet
<1> QED BY <1>1, SeqMonotonic

LEMMA ProduceKeeps == Inv /\ ProduceFrames => Inv'
<1> SUFFICES ASSUME Inv, ProduceFrames PROVE Inv'
  OBVIOUS
<1> DEFINE es == IF stream.mode = "delta" THEN stream.entries ELSE ItemRows
           rows == stream.rows
           frames == SnapshotFrames(es, rows)
<1>1. /\ stream.pc = "ui" /\ UNCHANGED <<timeline, ui, surface>>
      /\ stream' = [stream EXCEPT !.pc = "sent", !.entries = es, !.frames = frames]
  BY DEF ProduceFrames, SnapshotFrames
<1>2. /\ stream \in Streams /\ stream.entries \in Seq(ItemEntries) /\ rows \in Seq(UiEntries)
      /\ stream.mode \in {"full", "delta"}
  BY InvIs, StreamIs
<1>3. /\ es \in Seq(ItemEntries)
      /\ \A j \in 1..Len(es) : es[j].number <= LastSequence
  <2>1. CASE stream.mode = "delta"
    <3>1. es = stream.entries
      BY <2>1
    <3> HIDE DEF es
    <3> QED BY <1>2, <3>1, InvIs DEF EntriesOK, LastSequence
  <2>2. CASE stream.mode # "delta"
    <3>1. es = ItemRows
      BY <2>2
    <3> HIDE DEF es
    <3> QED BY <3>1, ItemRowsAre
  <2> QED BY <2>1, <2>2
<1>4. ASSUME ~Misfiled(timeline)
      PROVE  Carries(timeline, es, stream.barrier.last, Base(stream, surface))
  <2>1. CASE stream.mode = "delta"
    <3>1. es = stream.entries
      BY <2>1
    <3> QED BY <1>1, <1>4, <2>1, <3>1, InvIs DEF EntriesOK
  <2>2. CASE stream.mode # "delta"
    <3>1. es = ItemRows /\ Base(stream, surface) = [i \in Items |-> 0]
      BY <2>2 DEF Base
    <3> HIDE DEF es
    <3> QED BY <3>1, ItemRowsAre
  <2> QED BY <2>1, <2>2
<1> HIDE DEF es
<1>6. /\ frames \in Seq(FrameSet) /\ Staged(frames) = es \o rows
      /\ Head(frames).count = Len(es \o rows) /\ Last(frames).count = Len(es \o rows)
      /\ Last(frames).index = CountOf(frames, "fragment")
  <2>1. es \in Seq(EntrySet) /\ rows \in Seq(EntrySet)
    BY <1>2, <1>3, EntriesAre
  <2> HIDE DEF rows
  <2> QED BY <2>1, FramesCarry
<1> HIDE DEF frames, rows
<1>8. stream' \in Streams
  BY <1>1, <1>2, <1>3, <1>6 DEF Streams
<1>9. /\ stream'.pc = "sent" /\ stream'.mode = stream.mode /\ stream'.entries = es
      /\ stream'.barrier = stream.barrier /\ stream'.queue = stream.queue
      /\ stream'.dropped = stream.dropped /\ stream'.rows = stream.rows
      /\ stream'.frames = frames
  BY <1>1, <1>2 DEF Streams
<1>10. StreamOK(stream')
  BY <1>8, <1>9, InvIs DEF StreamOK
<1>11. BarrierOK(timeline, ui, stream')
  BY <1>1, <1>9, InvIs DEF BarrierOK
<1>12. EntriesOK(timeline, stream', surface)
  <2>1. Base(stream', surface) = Base(stream, surface)
    BY <1>9 DEF Base
  <2>2. \A j \in 1..Len(es) : es[j].number <= Len(timeline.mutations)
    BY <1>3 DEF LastSequence
  <2> QED BY <1>4, <1>9, <2>1, <2>2 DEF EntriesOK
<1>13. FramesOK(stream')
  BY <1>6, <1>9 DEF FramesOK, rows
<1>14. QueueOK(timeline, ui, stream', surface)
  BY <1>1, <1>9, InvIs DEF QueueOK
<1>15. FeedInv(timeline, ui, stream', surface)
  BY <1>10, <1>11, <1>12, <1>13, <1>14, InvIs DEF FeedInv, LastSequence
<1> QED BY <1>1, <1>15 DEF Inv
-----------------------------------------------------------------------------
(***************************************************************************)
(* The surface.  The last entry of an item or a key decides.                *)
(***************************************************************************)
Match(s, j, b) == s[j].of = b.of /\ s[j].id = b.id

LEMMA ShownIs ==
  ASSUME NEW s \in Seq(EntrySet), NEW b
  PROVE  \/ (\A j \in 1..Len(s) : ~Match(s, j, b)) /\ Shown(s, b) = b
         \/ \E j \in 1..Len(s) : /\ Match(s, j, b) /\ Shown(s, b) = s[j]
                                 /\ \A k \in 1..Len(s) : k > j => ~Match(s, k, b)
<1> DEFINE n == Len(s)
           at == {j \in 1..n : Match(s, j, b)}
           last == CHOOSE j \in at : \A k \in at : k <= j
<1>1. n \in Nat /\ DOMAIN s = 1..n
  OBVIOUS
<1>2. Shown(s, b) = IF at = {} THEN b ELSE s[last]
  BY <1>1 DEF Shown, Match
<1>3. CASE at = {}
  BY <1>2, <1>3
<1>4. CASE at # {}
  <2>1. at \in SUBSET (1..n)
    OBVIOUS
  <2>2. \E j \in at : \A k \in at : k <= j
    <3> HIDE DEF at, n
    <3> QED BY <1>1, <1>4, <2>1, LastPosition
  <2>3. last \in at /\ \A k \in at : k <= last
    BY <2>2
  <2> HIDE DEF last
  <2>4. \A k \in 1..n : k > last => ~Match(s, k, b)
    <3> SUFFICES ASSUME NEW k \in 1..n, k > last, Match(s, k, b) PROVE FALSE
      OBVIOUS
    <3>1. k \in at
      OBVIOUS
    <3>2. k <= last /\ last \in 1..n
      BY <2>3, <3>1
    <3> QED BY <1>1, <3>2
  <2> QED BY <1>2, <1>4, <2>3, <2>4
<1> QED BY <1>3, <1>4

Joins(s, es, rows) == s = es \o rows

LEMMA StagedAre ==
  ASSUME NEW es \in Seq(ItemEntries), NEW rows \in Seq(UiEntries), NEW s, Joins(s, es, rows)
  PROVE  /\ s \in Seq(EntrySet) /\ Len(es) \in Nat /\ Len(rows) \in Nat
         /\ \A j \in 1..Len(es) : /\ j \in 1..Len(s) /\ s[j] = es[j] /\ es[j].of = "timeline"
                                  /\ es[j].id \in Items /\ es[j].number \in Nat
         /\ \A j \in 1..Len(rows) : /\ Len(es) + j \in 1..Len(s) /\ s[Len(es) + j] = rows[j]
                                    /\ rows[j].of = "ui" /\ rows[j].id \in Keys
                                    /\ rows[j].expansion \in Expansions
         /\ \A j \in 1..Len(s) : j \in 1..Len(es) \/ \E k \in 1..Len(rows) : j = Len(es) + k
<1>1. es \in Seq(EntrySet) /\ rows \in Seq(EntrySet)
  BY EntriesAre
<1> DEFINE n == Len(es)
           m == Len(rows)
<1>2. n \in Nat /\ m \in Nat
  OBVIOUS
<1>3. /\ s \in Seq(EntrySet) /\ Len(s) = n + m
      /\ \A j \in 1..(n + m) : s[j] = IF j <= n THEN es[j] ELSE rows[j - n]
  <2>1. s = es \o rows
    BY DEF Joins
  <2> QED BY <1>1, <2>1, ConcatProperties
<1>4. \A j \in 1..n : es[j] \in ItemEntries
  OBVIOUS
<1>5. \A j \in 1..m : rows[j] \in UiEntries
  OBVIOUS
<1>6. \A x \in ItemEntries : x.of = "timeline" /\ x.id \in Items /\ x.number \in Nat
  BY DEF ItemEntries
<1>7. \A x \in UiEntries : x.of = "ui" /\ x.id \in Keys /\ x.expansion \in Expansions
  BY DEF UiEntries
<1> HIDE DEF n, m
<1>8. \A j \in 1..n : j \in 1..(n + m) /\ j <= n
  BY <1>2
<1>9. \A j \in 1..m : n + j \in 1..(n + m) /\ ~(n + j <= n) /\ (n + j) - n = j
  BY <1>2
<1>10. \A j \in 1..(n + m) : j \in 1..n \/ (j - n \in 1..m /\ j = n + (j - n))
  BY <1>2
<1>11. \A j \in 1..m : s[n + j] = rows[j]
  BY <1>3, <1>9
<1>12. \A j \in 1..n : s[j] = es[j]
  BY <1>3, <1>8
<1> QED BY <1>2, <1>3, <1>4, <1>5, <1>6, <1>7, <1>8, <1>9, <1>10, <1>11, <1>12 DEF n, m

LEMMA ShownItem ==
  ASSUME NEW es \in Seq(ItemEntries), NEW rows \in Seq(UiEntries), NEW s, Joins(s, es, rows),
         NEW i \in Items, NEW n \in Nat
  PROVE  \/ (\A j \in 1..Len(es) : es[j].id # i) /\ Shown(s, ItemEntry(i, n)).number = n
         \/ \E j \in 1..Len(es) : LastOf(es, j, i)
                                  /\ Shown(s, ItemEntry(i, n)).number = es[j].number
<1> DEFINE b == ItemEntry(i, n)
<1>1. b.of = "timeline" /\ b.id = i /\ b.number = n
  BY DEF ItemEntry
<1> HIDE DEF b
<1>2. /\ s \in Seq(EntrySet) /\ Len(es) \in Nat
      /\ \A j \in 1..Len(es) : j \in 1..Len(s) /\ s[j] = es[j] /\ es[j].of = "timeline"
      /\ \A j \in 1..Len(rows) : s[Len(es) + j] = rows[j] /\ rows[j].of = "ui"
      /\ \A j \in 1..Len(s) : j \in 1..Len(es) \/ \E k \in 1..Len(rows) : j = Len(es) + k
  BY StagedAre
<1>3. \A j \in 1..Len(es) : Match(s, j, b) <=> es[j].id = i
  BY <1>1, <1>2 DEF Match
<1>4. ASSUME NEW j \in 1..Len(s), Match(s, j, b) PROVE j \in 1..Len(es)
  <2> SUFFICES ASSUME j \notin 1..Len(es) PROVE FALSE
    OBVIOUS
  <2>1. PICK k \in 1..Len(rows) : j = Len(es) + k
    BY <1>2
  <2>2. s[j] = rows[k] /\ rows[k].of = "ui"
    BY <1>2, <2>1
  <2>3. s[j].of = "timeline"
    BY <1>1, <1>4 DEF Match
  <2> QED BY <2>2, <2>3
<1>5. CASE (\A j \in 1..Len(s) : ~Match(s, j, b)) /\ Shown(s, b) = b
  BY <1>1, <1>2, <1>3, <1>5 DEF b
<1>6. CASE \E j \in 1..Len(s) : /\ Match(s, j, b) /\ Shown(s, b) = s[j]
                                /\ \A k \in 1..Len(s) : k > j => ~Match(s, k, b)
  <2>1. PICK j \in 1..Len(s) : /\ Match(s, j, b) /\ Shown(s, b) = s[j]
                               /\ \A k \in 1..Len(s) : k > j => ~Match(s, k, b)
    BY <1>6
  <2>2. j \in 1..Len(es) /\ s[j] = es[j]
    BY <1>2, <1>4, <2>1
  <2>3. LastOf(es, j, i)
    BY <1>2, <1>3, <2>1, <2>2 DEF LastOf
  <2> QED BY <2>1, <2>2, <2>3 DEF b
<1> QED BY <1>2, <1>5, <1>6, ShownIs

LEMMA ShownKey ==
  ASSUME NEW es \in Seq(ItemEntries), NEW rows \in Seq(UiEntries), NEW s, Joins(s, es, rows),
         NEW k \in Keys
  PROVE  \/ /\ \A j \in 1..Len(rows) : rows[j].id # k
            /\ Shown(s, UiEntry(k, AutoState)).expansion = AutoState
         \/ \E j \in 1..Len(rows) : /\ rows[j].id = k
               /\ Shown(s, UiEntry(k, AutoState)).expansion = rows[j].expansion
<1> DEFINE b == UiEntry(k, AutoState)
<1>1. b.of = "ui" /\ b.id = k /\ b.expansion = AutoState
  BY DEF UiEntry
<1> HIDE DEF b
<1>2. /\ s \in Seq(EntrySet)
      /\ \A j \in 1..Len(es) : s[j] = es[j] /\ es[j].of = "timeline"
      /\ \A j \in 1..Len(rows) : /\ Len(es) + j \in 1..Len(s) /\ s[Len(es) + j] = rows[j]
                                 /\ rows[j].of = "ui"
      /\ \A j \in 1..Len(s) : j \in 1..Len(es) \/ \E p \in 1..Len(rows) : j = Len(es) + p
  BY StagedAre
<1>3. \A j \in 1..Len(rows) : Match(s, Len(es) + j, b) <=> rows[j].id = k
  BY <1>1, <1>2 DEF Match
<1>4. \A j \in 1..Len(s) : Match(s, j, b) => \E p \in 1..Len(rows) : j = Len(es) + p
  <2>1. "ui" # "timeline"
    OBVIOUS
  <2> QED BY <1>1, <1>2, <2>1 DEF Match
<1>5. CASE (\A j \in 1..Len(s) : ~Match(s, j, b)) /\ Shown(s, b) = b
  BY <1>1, <1>2, <1>3, <1>5 DEF b
<1>6. CASE \E j \in 1..Len(s) : Match(s, j, b) /\ Shown(s, b) = s[j]
  <2>1. PICK j \in 1..Len(s) : Match(s, j, b) /\ Shown(s, b) = s[j]
    BY <1>6
  <2>2. PICK p \in 1..Len(rows) : j = Len(es) + p
    BY <1>4, <2>1
  <2>3. rows[p].id = k /\ Shown(s, b) = rows[p]
    BY <1>2, <1>3, <2>1, <2>2
  <2> QED BY <2>3 DEF b
<1> QED BY <1>2, <1>5, <1>6, ShownIs

LEMMA CommitKeeps == Inv /\ CommitSnapshot => Inv'
<1> SUFFICES ASSUME Inv, CommitSnapshot PROVE Inv'
  OBVIOUS
<1> DEFINE es == stream.entries
           rows == stream.rows
           s == Staged(stream.frames)
           base == Base(stream, surface)
           items == [i \in Items |-> Shown(s, ItemEntry(i, base[i])).number]
           keys == [k \in Keys |-> Shown(s, UiEntry(k, AutoState)).expansion]
           b == stream.barrier
           L == Len(timeline.mutations)
<1>1. /\ stream \in Streams /\ surface \in Surfaces /\ timeline \in Records /\ L \in Nat
      /\ es \in Seq(ItemEntries) /\ rows \in Seq(UiEntries)
      /\ b.last \in Nat /\ b.generation \in Nat /\ b.revision \in Nat
      /\ surface.items \in [Items -> Nat]
  BY InvIs, StreamIs, SurfaceIs DEF LastSequence
<1>2. /\ stream.pc = "sent" /\ UNCHANGED <<timeline, ui>>
      /\ stream' = [stream EXCEPT !.pc = "live", !.frames = <<>>, !.entries = <<>>, !.rows = <<>>]
      /\ surface' = [items |-> items, ui |-> keys, last |-> b.last, generation |-> b.generation,
                     revision |-> b.revision, synced |-> TRUE]
  <2>1. /\ stream.pc = "sent" /\ UNCHANGED <<timeline, ui>>
        /\ stream' = [stream EXCEPT !.pc = "live", !.frames = <<>>, !.entries = <<>>, !.rows = <<>>]
    BY DEF CommitSnapshot
  <2>2. \A i \in Items : (IF stream.mode = "delta" THEN surface.items[i] ELSE 0) = base[i]
    BY DEF Base
  <2> DEFINE shown == [i \in Items |-> Shown(s, ItemEntry(i,
                         IF stream.mode = "delta" THEN surface.items[i] ELSE 0)).number]
  <2>3. surface' = [items |-> shown, ui |-> keys, last |-> b.last, generation |-> b.generation,
                    revision |-> b.revision, synced |-> TRUE]
    BY DEF CommitSnapshot
  <2>4. shown = items
    BY <2>2
  <2> QED BY <2>1, <2>3, <2>4
<1>3. Joins(s, es, rows)
  BY <1>2, InvIs DEF FramesOK, Joins
<1>4. \A i \in Items : base[i] \in Nat /\ base[i] <= L
  <2>1. \A i \in Items : surface.items[i] <= L /\ surface.items[i] \in Nat
    BY <1>1, InvIs DEF SurfaceOK
  <2> QED BY <1>1, <2>1 DEF Base
<1> HIDE DEF s, base
<1>5. \A i \in Items :
         \/ (\A j \in 1..Len(es) : es[j].id # i) /\ items[i] = base[i]
         \/ \E j \in 1..Len(es) : LastOf(es, j, i) /\ items[i] = es[j].number
  <2>1. \A i \in Items : items[i] = Shown(s, ItemEntry(i, base[i])).number
    OBVIOUS
  <2> HIDE DEF es, rows, items
  <2>2. ASSUME NEW i \in Items, NEW n \in Nat
        PROVE  \/ (\A j \in 1..Len(es) : es[j].id # i) /\ Shown(s, ItemEntry(i, n)).number = n
               \/ \E j \in 1..Len(es) : LastOf(es, j, i)
                                        /\ Shown(s, ItemEntry(i, n)).number = es[j].number
    BY <1>1, <1>3, ShownItem
  <2> QED BY <1>4, <2>1, <2>2
<1>6. \A k \in Keys :
         \/ (\A j \in 1..Len(rows) : rows[j].id # k) /\ keys[k] = AutoState
         \/ \E j \in 1..Len(rows) : rows[j].id = k /\ keys[k] = rows[j].expansion
  <2> HIDE DEF es, rows
  <2> QED BY <1>1, <1>3, ShownKey
<1>7. /\ \A j \in 1..Len(es) : es[j].number \in Nat /\ es[j].number <= L
      /\ \A j \in 1..Len(rows) : rows[j].expansion \in Expansions
  <2>1. \A j \in 1..Len(es) : es[j].number <= L
    BY InvIs DEF EntriesOK
  <2>2. /\ \A j \in 1..Len(es) : es[j].number \in Nat
        /\ \A j \in 1..Len(rows) : rows[j].expansion \in Expansions
    <3> HIDE DEF es, rows
    <3> QED BY <1>1, <1>3, StagedAre
  <2> QED BY <2>1, <2>2
<1>8. ASSUME ~Misfiled(timeline), NEW i \in Items
      PROVE  Fresh(timeline, i, items[i], b.last)
  <2>1. Carries(timeline, es, b.last, base)
    BY <1>2, <1>8, InvIs DEF EntriesOK, base
  <2>2. base[i] \in {0} \cup Writes(timeline, i)
    <3>1. surface.items[i] \in {0} \cup Writes(timeline, i)
      BY <1>8, InvIs DEF SurfaceOK, Fresh
    <3> QED BY <3>1 DEF Base, base
  <2> HIDE DEF items, es
  <2>3. CASE (\A j \in 1..Len(es) : es[j].id # i) /\ items[i] = base[i]
    BY <2>1, <2>2, <2>3 DEF Carries, Fresh
  <2>4. CASE \E j \in 1..Len(es) : LastOf(es, j, i) /\ items[i] = es[j].number
    BY <2>1, <2>4 DEF Carries, Fresh, LastOf
  <2> QED BY <1>5, <2>3, <2>4
<1>9. items \in [Items -> Nat] /\ \A i \in Items : items[i] <= L
  <2>1. \A i \in Items : items[i] \in Nat /\ items[i] <= L
    <3> HIDE DEF items, es
    <3> QED BY <1>4, <1>5, <1>7
  <2> QED BY <2>1
<1>10. keys \in [Keys -> Expansions]
  <2>1. AutoState \in Expansions
    BY DEF Expansions
  <2>2. \A k \in Keys : keys[k] \in Expansions
    <3> HIDE DEF keys, rows
    <3> QED BY <1>6, <1>7, <2>1
  <2> QED BY <2>2
<1>11. ASSUME ~stream.dropped, NEW k \in Keys, Silent(stream.queue, 0, k)
       PROVE  keys[k] = ui.rows[k].expansion
  <2>1. Tell(rows, ui, k)
    BY <1>2, <1>11, InvIs DEF QueueOK
  <2> HIDE DEF keys, rows
  <2> QED BY <1>6, <2>1 DEF Tell
<1> HIDE DEF items, keys
<1>12. /\ surface' \in Surfaces /\ surface'.last = b.last /\ surface'.generation = b.generation
       /\ surface'.revision = b.revision /\ surface'.items = items /\ surface'.ui = keys
  <2> HIDE DEF b
  <2> QED BY <1>1, <1>2, <1>9, <1>10 DEF Surfaces
<1>13. stream' \in Streams /\ stream'.pc = "live" /\ stream'.entries = <<>>
       /\ stream'.queue = stream.queue /\ stream'.dropped = stream.dropped
       /\ stream'.barrier = stream.barrier
  <2> DEFINE w == <<>>
  <2>1. w \in Seq(ItemEntries) /\ w \in Seq(UiEntries) /\ w \in Seq(FrameSet)
        /\ stream' = [stream EXCEPT !.pc = "live", !.frames = w, !.entries = w, !.rows = w]
    BY <1>2
  <2> HIDE DEF w
  <2>2. stream' \in Streams /\ stream'.pc = "live" /\ stream'.entries = w
        /\ stream'.queue = stream.queue /\ stream'.dropped = stream.dropped
        /\ stream'.barrier = stream.barrier
    BY <1>1, <2>1 DEF Streams
  <2> QED BY <2>2 DEF w
<1>14. StreamOK(stream')
  BY <1>13, InvIs DEF StreamOK
<1>15. /\ b.last <= L /\ b.generation <= timeline.generation /\ b.revision <= ui.revision
       /\ NoReset(timeline, b.last, b.generation)
  BY <1>2, InvIs DEF BarrierOK
<1>16. SurfaceOK(timeline, ui, surface')
  BY <1>8, <1>9, <1>12, <1>15 DEF SurfaceOK
<1>17. BarrierOK(timeline, ui, stream')
  BY <1>13, <1>15 DEF BarrierOK
<1>18. EntriesOK(timeline, stream', surface')
  <2>1. Len(stream'.entries) = 0
    BY <1>13
  <2> QED BY <1>13, <2>1 DEF EntriesOK
<1>19. FramesOK(stream')
  BY <1>13 DEF FramesOK
<1>20. QueueOK(timeline, ui, stream', surface')
  <2>1. ~stream.dropped => Queued(stream.queue, L, b.last, ui, b.revision)
    BY <1>2, InvIs DEF QueueOK
  <2> QED BY <1>11, <1>12, <1>13, <2>1 DEF QueueOK
<1>21. FeedInv(timeline, ui, stream', surface')
  BY <1>14, <1>16, <1>17, <1>18, <1>19, <1>20, InvIs DEF FeedInv, LastSequence
<1> QED BY <1>2, <1>21 DEF Inv
-----------------------------------------------------------------------------
(* One live event.                                                         *)
Fields(s, items, keys, last, generation, revision, synced) ==
  /\ s.items = items /\ s.ui = keys /\ s.last = last /\ s.generation = generation
  /\ s.revision = revision /\ s.synced = synced

LEMMA UnsyncedForm ==
  ASSUME NEW s \in Surfaces, NEW ss, ss = [s EXCEPT !.synced = FALSE]
  PROVE  /\ Fields(ss, s.items, s.ui, s.last, s.generation, s.revision, FALSE)
         /\ ss \in Surfaces
BY DEF Surfaces, Fields

LEMMA ChangedForm ==
  ASSUME NEW s \in Surfaces, NEW k, NEW x \in Expansions, NEW n \in Nat, NEW ss,
         ss = [s EXCEPT !.ui[k] = x, !.revision = n]
  PROVE  /\ Fields(ss, s.items, [s.ui EXCEPT ![k] = x], s.last, s.generation, n, s.synced)
         /\ ss \in Surfaces
<1> DEFINE f == [s.ui EXCEPT ![k] = x]
<1>1. ss = [s EXCEPT !.ui = f, !.revision = n]
  OBVIOUS
<1>2. f \in [Keys -> Expansions]
  <2>1. s.ui \in [Keys -> Expansions]
    BY DEF Surfaces
  <2> QED BY <2>1
<1> HIDE DEF f
<1>3. Fields(ss, s.items, f, s.last, s.generation, n, s.synced)
  BY ONLY s \in Surfaces, <1>1 DEF Surfaces, Fields
<1>4. ss \in Surfaces
  BY ONLY s \in Surfaces, n \in Nat, <1>1, <1>2 DEF Surfaces
<1> QED BY <1>3, <1>4 DEF f

LEMMA WrittenForm ==
  ASSUME NEW s \in Surfaces, NEW i, NEW n \in Nat, NEW ss,
         ss = [s EXCEPT !.items[i] = n, !.last = n]
  PROVE  /\ Fields(ss, [s.items EXCEPT ![i] = n], s.ui, n, s.generation, s.revision, s.synced)
         /\ ss \in Surfaces
<1> DEFINE f == [s.items EXCEPT ![i] = n]
<1>1. ss = [s EXCEPT !.items = f, !.last = n]
  OBVIOUS
<1>2. f \in [Items -> Nat]
  <2>1. s.items \in [Items -> Nat]
    BY DEF Surfaces
  <2> QED BY <2>1
<1> HIDE DEF f
<1>3. Fields(ss, f, s.ui, n, s.generation, s.revision, s.synced)
  BY ONLY s \in Surfaces, <1>1 DEF Surfaces, Fields
<1>4. ss \in Surfaces
  BY ONLY s \in Surfaces, n \in Nat, <1>1, <1>2 DEF Surfaces
<1> QED BY <1>3, <1>4 DEF f

LEMMA ShowsType ==
  ASSUME NEW s \in Surfaces, NEW e \in Event
  PROVE  Shows(s, e) \in Surfaces
<1>1. e.number \in Nat /\ e.expansion \in Expansions
  BY DEF Event
<1>2. [s EXCEPT !.synced = FALSE] \in Surfaces
  BY UnsyncedForm
<1>3. [s EXCEPT !.ui[e.key] = e.expansion, !.revision = e.number] \in Surfaces
  <2> DEFINE k == e.key
             x == e.expansion
             n == e.number
             ss == [s EXCEPT !.ui[k] = x, !.revision = n]
  <2>1. x \in Expansions /\ n \in Nat /\ ss = [s EXCEPT !.ui[k] = x, !.revision = n]
    BY <1>1
  <2> HIDE DEF k, x, n, ss
  <2>2. ss \in Surfaces
    BY <2>1, ChangedForm
  <2> QED BY <2>2 DEF ss, k, x, n
<1>4. ASSUME NEW i PROVE [s EXCEPT !.items[i] = e.number, !.last = e.number] \in Surfaces
  <2> DEFINE n == e.number
             ss == [s EXCEPT !.items[i] = n, !.last = n]
  <2>1. n \in Nat /\ ss = [s EXCEPT !.items[i] = n, !.last = n]
    BY <1>1
  <2> HIDE DEF n, ss
  <2>2. ss \in Surfaces
    BY <2>1, WrittenForm
  <2> QED BY <2>2 DEF ss, n
<1> QED BY <1>2, <1>3, <1>4 DEF Shows

(* What the surface shows after a prefix of the queue, one event more at a time.*)
LEMMA ShowsFold ==
  ASSUME NEW t \in Seq(Event), NEW base \in Surfaces
  PROVE  \E kept \in [0..Len(t) -> Surfaces] :
           /\ kept[0] = base
           /\ \A k \in 1..Len(t) : kept[k] = Shows(kept[k - 1], t[k])
           /\ FoldLeft(Shows, base, t) = kept[Len(t)]
<1> DEFINE n == Len(t)
           V == Surfaces
           K == [k \in 1..n |-> [x \in V |-> Shows(x, t[k])]]
           Eq(g) == g = [s \in SUBSET DOMAIN t |->
                           IF s = {} THEN base
                           ELSE Shows(g[s \ {Max(s)}], t[Max(s)])]
           u == CHOOSE g : Eq(g)
           kept == [k \in 0..n |-> u[1..k]]
<1>1. n \in Nat /\ base \in V /\ DOMAIN t = 1..n
  OBVIOUS
<1>2. \A k \in 1..n : \A x \in V : Shows(x, t[k]) \in V
  BY <1>1, ShowsType
<1>3. \A k \in 1..n : \A x \in V : K[k][x] = Shows(x, t[k]) /\ K[k][x] \in V
  BY <1>2
<1>4. PICK g \in [SUBSET (1..n) -> V] : Folds(g, n, base, K)
  <2> HIDE DEF n, V, K
  <2>1. \A k \in 1..n : \A x \in V : K[k][x] \in V BY <1>3
  <2>2. QED BY ONLY <1>1, <2>1, FoldExists
<1>5. \A s \in SUBSET (1..n) :
        g[s] = IF s = {} THEN base ELSE Shows(g[s \ {Max(s)}], t[Max(s)])
  <2> SUFFICES ASSUME NEW s \in SUBSET (1..n)
               PROVE  g[s] = IF s = {} THEN base ELSE Shows(g[s \ {Max(s)}], t[Max(s)])
    OBVIOUS
  <2>1. g[s] = IF s = {} THEN base ELSE K[Max(s)][g[s \ {Max(s)}]] BY <1>4 DEF Folds
  <2>2. CASE s = {} BY <2>1, <2>2
  <2>3. CASE s # {}
    <3>1. Max(s) \in 1..n BY <1>1, <2>3, LastPosition
    <3>2. g[s \ {Max(s)}] \in V BY <1>4
    <3> HIDE DEF K, V
    <3>3. K[Max(s)][g[s \ {Max(s)}]] = Shows(g[s \ {Max(s)}], t[Max(s)])
      BY <1>3, <3>1, <3>2
    <3>4. QED BY <2>1, <2>3, <3>3
  <2>4. QED BY <2>2, <2>3
<1>6. Eq(g)
  <2>1. g = [s \in SUBSET (1..n) |-> g[s]] BY <1>4
  <2>2. QED BY <1>1, <1>5, <2>1
<1>7. Eq(u)
  <2> HIDE DEF Eq
  <2>1. QED BY <1>6
<1>8. FoldLeft(Shows, base, t) = u[1..n]
  BY <1>1 DEF FoldLeft, MapThenFoldSet
<1> HIDE DEF u, K
<1>9. \A s \in SUBSET (1..n) :
        u[s] = IF s = {} THEN base ELSE Shows(u[s \ {Max(s)}], t[Max(s)])
  BY <1>1, <1>7
<1>10. u[1..0] = base
  <2>1. 1..0 = {} /\ 1..0 \in SUBSET (1..n) OBVIOUS
  <2>2. QED BY <1>9, <2>1
<1>11. \A k \in 1..n : u[1..k] = Shows(u[1..(k - 1)], t[k])
  <2> SUFFICES ASSUME NEW k \in 1..n PROVE u[1..k] = Shows(u[1..(k - 1)], t[k])
    OBVIOUS
  <2>1. k \in Nat \ {0} /\ 1..k \in SUBSET (1..n) BY <1>1
  <2>2. 1..k # {} /\ Max(1..k) = k /\ (1..k) \ {k} = 1..(k - 1) BY <2>1, PrefixPositions
  <2>3. QED BY <1>9, <2>1, <2>2
<1>12. \A k \in 0..n : kept[k] = u[1..k] OBVIOUS
<1>13. \A k \in 0..n : kept[k] \in V
  <2> DEFINE S == {k \in Nat : k <= n => u[1..k] \in V}
  <2>1. 0 \in S BY <1>1, <1>10
  <2>2. ASSUME NEW k \in Nat, k \in S PROVE k + 1 \in S
    <3>1. k + 1 \in 1..n => k <= n /\ (k + 1) - 1 = k BY <1>1
    <3>2. k + 1 \in 1..n => u[1..(k + 1)] = Shows(u[1..k], t[k + 1]) BY <1>11, <3>1
    <3>3. k + 1 <= n => k + 1 \in 1..n BY <1>1
    <3> HIDE DEF V
    <3>4. QED BY <1>2, <2>2, <3>1, <3>2, <3>3
  <2> HIDE DEF S
  <2>3. \A k \in Nat : k \in S BY <2>1, <2>2, Induction
  <2>4. \A k \in 0..n : k \in Nat /\ k <= n BY <1>1
  <2>5. QED BY <1>12, <2>3, <2>4 DEF S
<1>14. kept \in [0..n -> V] BY <1>13
<1>15. kept[0] = base /\ kept[n] = u[1..n] BY <1>1, <1>10, <1>12
<1>16. \A k \in 1..n : kept[k] = Shows(kept[k - 1], t[k])
  <2>1. \A k \in 1..n : k \in 0..n /\ k - 1 \in 0..n BY <1>1
  <2> HIDE DEF kept
  <2>2. QED BY <1>11, <1>12, <2>1
<1> HIDE DEF kept
<1>17. QED BY <1>8, <1>14, <1>15, <1>16

(* s, once p events of the queue q are applied to base.                    *)
Drained(q, p, base, s) ==
  s.synced =>
    /\ base.synced /\ base.last <= s.last
    /\ \A j \in 1..p : q[j].of = "timeline" => q[j].number <= s.last
    /\ \A j \in 1..Len(q) : j > p /\ q[j].of = "ui" => s.revision < q[j].number
    /\ \A k \in Keys : Silent(q, p, k) => s.ui[k] = ui.rows[k].expansion

(* A change of the UI state is applied.                                    *)
LEMMA ShowsChange ==
  ASSUME UiOK(ui), NEW q \in Seq(Event), NEW p \in Nat, p + 1 \in 1..Len(q),
         NEW base \in Surfaces, NEW s, NEW L, SurfaceOK(timeline, ui, s), s.synced,
         Queued(q, L, base.last, ui, base.revision), Drained(q, p, base, s),
         q[p + 1].of = "ui"
  PROVE  /\ SurfaceOK(timeline, ui, Shows(s, q[p + 1]))
         /\ Drained(q, p + 1, base, Shows(s, q[p + 1]))
<1> DEFINE e == q[p + 1]
           key == e.key
           x == e.expansion
           n == e.number
           f == [s.ui EXCEPT ![key] = x]
           ss == Shows(s, e)
<1>1. e \in Event /\ s \in Surfaces
  BY DEF SurfaceOK
<1>2. key \in Keys /\ x \in Expansions /\ n \in Nat
  <2> HIDE DEF e
  <2> QED BY <1>1 DEF Event
<1>3. s.revision \in Nat /\ s.ui \in [Keys -> Expansions]
  BY <1>1, SurfaceIs
<1>4. s.revision < n /\ n <= ui.revision
  <2>1. p + 1 > p
    OBVIOUS
  <2> QED BY <2>1 DEF Drained, Queued
<1>5. ss = [s EXCEPT !.ui[key] = x, !.revision = n]
  <2>1. ~(n <= s.revision)
    BY <1>2, <1>3, <1>4
  <2> QED BY <2>1 DEF Shows
<1>6. Fields(ss, s.items, f, s.last, s.generation, n, s.synced)
  <2> HIDE DEF key, x, n, ss
  <2> QED BY ONLY <1>1, <1>2, <1>5, ChangedForm DEF f
<1>7. ss \in Surfaces
  BY <1>1, ShowsType
<1>8. f[key] = x /\ \A k \in Keys \ {key} : f[k] = s.ui[k]
  <2> HIDE DEF x, key
  <2> QED BY <1>2, <1>3
<1> HIDE DEF ss, f
<1>9. /\ ss.items = s.items /\ ss.ui = f /\ ss.last = s.last
      /\ ss.generation = s.generation /\ ss.revision = n /\ ss.synced = s.synced
  <2> HIDE DEF n
  <2> QED BY ONLY <1>6 DEF Fields
<1>10. SurfaceOK(timeline, ui, ss)
  BY <1>4, <1>7, <1>9 DEF SurfaceOK
<1>11. \A j \in 1..(p + 1) : j = p + 1 \/ j \in 1..p
  OBVIOUS
<1>12. \A j \in 1..(p + 1) : q[j].of = "timeline" => q[j].number <= ss.last
  <2>1. "ui" # "timeline"
    OBVIOUS
  <2> QED BY <1>9, <1>11, <2>1 DEF Drained
<1>13. \A j \in 1..Len(q) : j > p + 1 /\ q[j].of = "ui" => ss.revision < q[j].number
  BY <1>9 DEF Queued
<1>14. ASSUME NEW k \in Keys, Silent(q, p + 1, k)
       PROVE  ss.ui[k] = ui.rows[k].expansion
  <2>1. CASE k = key
    <3>1. UiAt(q, p + 1, k)
      BY <2>1 DEF UiAt
    <3>2. x = ui.rows[k].expansion
      BY <1>14, <3>1 DEF Queued
    <3> QED BY <1>8, <1>9, <2>1, <3>2
  <2>2. CASE k # key
    <3>1. Silent(q, p, k)
      <4>1. \A j \in 1..Len(q) : j > p => j = p + 1 \/ j > p + 1
        OBVIOUS
      <4> QED BY <1>14, <2>2, <4>1 DEF Silent, UiAt
    <3>2. s.ui[k] = ui.rows[k].expansion
      BY <3>1 DEF Drained
    <3> QED BY <1>8, <1>9, <2>2, <3>2
  <2> QED BY <2>1, <2>2
<1>15. Drained(q, p + 1, base, ss)
  <2>1. base.synced /\ base.last <= ss.last
    BY <1>9 DEF Drained
  <2> QED BY <1>12, <1>13, <1>14, <2>1 DEF Drained
<1> QED BY <1>10, <1>15 DEF ss, e

(* A mutation is applied, or found to be out of step.                      *)
LEMMA ShowsMutation ==
  ASSUME LogOK(timeline), NEW q \in Seq(Event), NEW p \in Nat, p + 1 \in 1..Len(q),
         NEW base \in Surfaces, NEW s, SurfaceOK(timeline, ui, s), s.synced,
         Queued(q, Len(timeline.mutations), base.last, ui, base.revision), Drained(q, p, base, s),
         q[p + 1].of = "timeline"
  PROVE  /\ SurfaceOK(timeline, ui, Shows(s, q[p + 1]))
         /\ Drained(q, p + 1, base, Shows(s, q[p + 1]))
<1> DEFINE L == Len(timeline.mutations)
           e == q[p + 1]
           n == e.number
           mu == timeline.mutations[n]
           ss == Shows(s, e)
<1>1. e \in Event /\ s \in Surfaces /\ timeline \in Records /\ L \in Nat
  BY RecordsAre DEF SurfaceOK, LogOK
<1>2. n \in 1..L
  BY DEF Queued
<1>3. /\ s.last \in Nat /\ s.generation \in Nat /\ s.items \in [Items -> Nat]
      /\ base.last \in Nat
  BY <1>1, SurfaceIs
<1>4. /\ mu.operation \in {"add", "reset"} /\ mu.item \in Items /\ mu.generation \in Nat
  BY <1>1, <1>2, RecordsAre
<1>5. ss \in Surfaces
  BY <1>1, ShowsType
<1>6. \A j \in 1..(p + 1) : j = p + 1 \/ j \in 1..p
  OBVIOUS
<1>7. \A k \in Keys : Silent(q, p + 1, k) => Silent(q, p, k)
  <2>1. \A j \in 1..Len(q) : j > p => j = p + 1 \/ j > p + 1
    OBVIOUS
  <2>2. ~(e.of = "ui")
    OBVIOUS
  <2> QED BY <2>1, <2>2 DEF Silent, UiAt
<1>8. \A j \in 1..Len(q) : j > p + 1 => j > p
  OBVIOUS
<1>9. /\ base.synced /\ base.last <= s.last
      /\ \A j \in 1..p : q[j].of = "timeline" => q[j].number <= s.last
      /\ \A j \in 1..Len(q) : j > p /\ q[j].of = "ui" => s.revision < q[j].number
      /\ \A k \in Keys : Silent(q, p, k) => s.ui[k] = ui.rows[k].expansion
  BY DEF Drained
<1>10. e.of # "ui" /\ e.of = "timeline"
  OBVIOUS
<1>11. \A j \in 1..p : q[j].of = "timeline" => q[j].number \in Nat
  <2>1. \A j \in 1..p : j \in 1..Len(q)
    OBVIOUS
  <2>2. \A j \in 1..Len(q) : q[j] \in Event
    OBVIOUS
  <2> QED BY <2>1, <2>2 DEF Event
<1> HIDE DEF e, L
<1>12. CASE n <= s.last
  <2>1. ss = s
    BY <1>10, <1>12 DEF Shows
  <2> HIDE DEF ss
  <2>2. \A j \in 1..(p + 1) : q[j].of = "timeline" => q[j].number <= s.last
    BY <1>6, <1>9, <1>12 DEF e
  <2>3. Drained(q, p + 1, base, s)
    BY <1>7, <1>8, <1>9, <2>2 DEF Drained
  <2> QED BY <2>1, <2>3 DEF ss, e
<1>13. CASE ~(n <= s.last) /\ (n # s.last + 1 \/ mu.generation # s.generation)
  <2>1. ss = [s EXCEPT !.synced = FALSE]
    BY <1>10, <1>13 DEF Shows
  <2> HIDE DEF ss
  <2>2. Fields(ss, s.items, s.ui, s.last, s.generation, s.revision, FALSE)
    BY <1>1, <2>1, UnsyncedForm
  <2>3. /\ ss.items = s.items /\ ss.last = s.last /\ ss.generation = s.generation
        /\ ss.revision = s.revision /\ ss.synced = FALSE
    BY ONLY <2>2 DEF Fields
  <2>4. SurfaceOK(timeline, ui, ss)
    BY <1>5, <2>3 DEF SurfaceOK
  <2>5. Drained(q, p + 1, base, ss)
    BY <2>3 DEF Drained
  <2> QED BY <2>4, <2>5 DEF ss, e
<1>14. CASE ~(n <= s.last) /\ n = s.last + 1 /\ mu.generation = s.generation
  <2> DEFINE i0 == mu.item
             f == [s.items EXCEPT ![i0] = n]
  <2>1. ss = [s EXCEPT !.items[i0] = n, !.last = n]
    BY <1>10, <1>14 DEF Shows
  <2> HIDE DEF ss
  <2>2. Fields(ss, f, s.ui, n, s.generation, s.revision, s.synced)
    <3>1. n \in Nat
      BY <1>2
    <3> HIDE DEF i0, n
    <3> QED BY ONLY <1>1, <2>1, <3>1, WrittenForm DEF f
  <2>3. f[i0] = n /\ \A i \in Items \ {i0} : f[i] = s.items[i]
    <3> HIDE DEF n, i0
    <3> QED BY <1>3, <1>4 DEF i0
  <2> HIDE DEF f
  <2>4. /\ ss.items = f /\ ss.ui = s.ui /\ ss.last = n /\ ss.generation = s.generation
        /\ ss.revision = s.revision /\ ss.synced = s.synced
    <3> HIDE DEF n
    <3> QED BY ONLY <2>2 DEF Fields
  <2>5. /\ s.last <= L /\ s.generation <= timeline.generation /\ s.revision <= ui.revision
        /\ \A i \in Items : s.items[i] <= L
        /\ NoReset(timeline, s.last, s.generation)
        /\ ~Misfiled(timeline) => \A i \in Items : Fresh(timeline, i, s.items[i], s.last)
    BY DEF SurfaceOK, L
  <2>6. s.last < n /\ n <= L /\ n \in Nat
    BY <1>1, <1>2, <1>3, <1>14
  <2>7. mu.operation = "add"
    <3> SUFFICES ASSUME mu.operation = "reset" PROVE FALSE
      BY <1>4
    <3>1. mu.generation > s.generation
      BY <1>2, <2>5, <2>6 DEF NoReset, L
    <3> QED BY <1>3, <1>14, <3>1
  <2>8. NoReset(timeline, n, s.generation)
    <3>1. \A m \in 1..L : m > n => m > s.last
      BY <1>1, <1>3, <2>6
    <3> QED BY <2>5, <3>1 DEF NoReset, L
  <2>9. n \in Writes(timeline, i0)
    BY <1>2, <2>7 DEF Writes, L
  <2>10. ASSUME ~Misfiled(timeline), NEW i \in Items PROVE Fresh(timeline, i, f[i], n)
    <3>1. CASE i = i0
      BY <2>3, <2>9, <3>1 DEF Fresh
    <3>2. CASE i # i0
      <4>1. f[i] = s.items[i] /\ Fresh(timeline, i, s.items[i], s.last)
        BY <2>3, <2>5, <2>10, <3>2
      <4>2. \A m \in Writes(timeline, i) : m <= n => m <= s.last
        <5> SUFFICES ASSUME NEW m \in Writes(timeline, i), m <= n PROVE m <= s.last
          OBVIOUS
        <5>1. m # n /\ m \in 1..L
          BY <3>2 DEF Writes, L
        <5> QED BY <1>1, <1>3, <1>14, <2>6, <5>1
      <4> QED BY <4>1, <4>2 DEF Fresh
    <3> QED BY <3>1, <3>2
  <2>11. \A i \in Items : f[i] <= L
    BY <2>3, <2>5, <2>6
  <2>12. SurfaceOK(timeline, ui, ss)
    BY <1>5, <2>4, <2>5, <2>6, <2>8, <2>10, <2>11 DEF SurfaceOK, L
  <2>13. base.last <= n /\ \A j \in 1..p : q[j].of = "timeline" => q[j].number <= n
    BY <1>3, <1>9, <1>11, <2>6
  <2>14. \A j \in 1..(p + 1) : q[j].of = "timeline" => q[j].number <= n
    <3>1. q[p + 1].number <= n
      BY <2>6 DEF e
    <3> QED BY <1>6, <2>13, <3>1
  <2>15. Drained(q, p + 1, base, ss)
    <3> HIDE DEF n
    <3> QED BY <1>7, <1>8, <1>9, <2>4, <2>13, <2>14 DEF Drained
  <2> QED BY <2>12, <2>15 DEF ss, e
<1> QED BY <1>12, <1>13, <1>14
LEMMA DrainKeeps == Inv /\ DrainLive => Inv'
<1> SUFFICES ASSUME Inv, DrainLive PROVE Inv'
  OBVIOUS
<1> DEFINE q == stream.queue
           n == Len(q)
           L == Len(timeline.mutations)
<1>1. /\ stream \in Streams /\ surface \in Surfaces /\ L \in Nat /\ q \in Seq(Event) /\ n \in Nat
      /\ LogOK(timeline) /\ UiOK(ui) /\ SurfaceOK(timeline, ui, surface)
  BY InvIs, StreamIs DEF LastSequence
<1>2. /\ stream.pc = "live" /\ q # <<>> /\ UNCHANGED <<timeline, ui>>
      /\ surface' = FoldLeft(Shows, surface, q)
      /\ stream' = [stream EXCEPT !.queue = <<>>]
  BY DEF DrainLive
<1>3. surface.synced => /\ Queued(q, L, surface.last, ui, surface.revision)
                        /\ \A k \in Keys : Silent(q, 0, k) => surface.ui[k] = ui.rows[k].expansion
  <2>1. ~stream.dropped
    BY <1>2, InvIs DEF StreamOK
  <2> QED BY <1>2, <2>1, InvIs DEF QueueOK
<1> HIDE DEF q, n, L
<1>4. PICK kept \in [0..n -> Surfaces] :
         /\ kept[0] = surface
         /\ \A k \in 1..n : kept[k] = Shows(kept[k - 1], q[k])
         /\ FoldLeft(Shows, surface, q) = kept[n]
  BY <1>1, ShowsFold DEF n
<1> DEFINE Good(k) == /\ SurfaceOK(timeline, ui, kept[k])
                      /\ Drained(q, k, surface, kept[k])
           P == {k \in Nat : k <= n => Good(k)}
<1>5. 0 \in P
  <2>1. Drained(q, 0, surface, surface)
    <3>1. surface.last <= surface.last
      <4>1. surface.last \in Nat
        BY <1>1, SurfaceIs
      <4> QED BY <4>1
    <3>2. 1..0 = {}
      OBVIOUS
    <3> QED BY <1>3, <3>1, <3>2 DEF Drained, Queued
  <2> QED BY <1>1, <1>4, <2>1
<1>6. ASSUME NEW k \in Nat, k \in P PROVE k + 1 \in P
  <2> SUFFICES ASSUME k + 1 <= n PROVE Good(k + 1)
    OBVIOUS
  <2>1. k <= n /\ k + 1 \in 1..n /\ (k + 1) - 1 = k
    BY <1>1
  <2> DEFINE s == kept[k]
             e == q[k + 1]
  <2>2. SurfaceOK(timeline, ui, s) /\ Drained(q, k, surface, s)
    BY <1>6, <2>1
  <2>3. kept[k + 1] = Shows(s, e)
    BY <1>4, <2>1
  <2>4. e.of \in {"timeline", "ui"}
    <3>1. e \in Event
      BY <1>1, <2>1 DEF n
    <3> HIDE DEF e
    <3> QED BY <3>1 DEF Event
  <2> HIDE DEF s
  <2>5. SurfaceOK(timeline, ui, Shows(s, e)) /\ Drained(q, k + 1, surface, Shows(s, e))
    <3>1. CASE ~s.synced
      <4>1. Shows(s, e) = s
        BY <3>1 DEF Shows
      <4> QED BY <2>2, <3>1, <4>1 DEF Drained
    <3>2. CASE s.synced
      <4>1. Queued(q, L, surface.last, ui, surface.revision)
        BY <1>3, <2>2, <3>2 DEF Drained
      <4>2. k + 1 \in 1..Len(q)
        BY <2>1 DEF n
      <4>3. CASE e.of = "ui"
        BY <1>1, <2>2, <3>2, <4>1, <4>2, <4>3, ShowsChange
      <4>4. CASE e.of = "timeline"
        <5>1. Queued(q, Len(timeline.mutations), surface.last, ui, surface.revision)
          BY <4>1 DEF L
        <5> QED BY ONLY <1>1, <2>2, <3>2, <4>2, <4>4, <5>1, k \in Nat, ShowsMutation
      <4> QED BY <2>4, <4>3, <4>4
    <3> QED BY <3>1, <3>2
  <2> QED BY <2>3, <2>5
<1>7. n \in P
  <2> HIDE DEF P
  <2> QED BY <1>1, <1>5, <1>6, Induction
<1>8. SurfaceOK(timeline, ui, surface') /\ Drained(q, n, surface, surface')
  BY <1>1, <1>2, <1>4, <1>7
<1>9. stream' \in Streams /\ stream'.queue = <<>> /\ stream'.pc = "live"
      /\ stream'.entries = stream.entries /\ stream'.barrier = stream.barrier
      /\ stream'.dropped = stream.dropped
  <2> DEFINE w == <<>>
  <2>1. w \in Seq(Event) /\ stream' = [stream EXCEPT !.queue = w]
    BY <1>2
  <2> HIDE DEF w
  <2>2. stream' \in Streams /\ stream'.queue = w /\ stream'.pc = "live"
        /\ stream'.entries = stream.entries /\ stream'.barrier = stream.barrier
        /\ stream'.dropped = stream.dropped
    BY <1>1, <1>2, <2>1 DEF Streams
  <2> QED BY <2>2 DEF w
<1>10. StreamOK(stream')
  <2>1. Len(stream'.queue) = 0 /\ BacklogMax \in Nat
    BY <1>9, FeedAssumption
  <2> QED BY <1>9, <2>1 DEF StreamOK
<1>11. BarrierOK(timeline, ui, stream')
  BY <1>2, <1>9, InvIs DEF BarrierOK
<1>12. EntriesOK(timeline, stream', surface')
  BY <1>9, InvIs DEF EntriesOK
<1>13. FramesOK(stream')
  BY <1>9 DEF FramesOK
<1>14. QueueOK(timeline, ui, stream', surface')
  <2> SUFFICES ASSUME surface'.synced
               PROVE  /\ Queued(<<>>, L, surface'.last, ui, surface'.revision)
                      /\ \A k \in Keys : surface'.ui[k] = ui.rows[k].expansion
    BY <1>9 DEF QueueOK, L
  <2>1. /\ surface.synced /\ surface.last <= surface'.last
        /\ \A j \in 1..n : q[j].of = "timeline" => q[j].number <= surface'.last
        /\ \A k \in Keys : Silent(q, n, k) => surface'.ui[k] = ui.rows[k].expansion
    BY <1>8 DEF Drained
  <2>2. surface.last \in Nat /\ surface'.last \in Nat /\ surface'.last <= L
    BY <1>1, <1>8, SurfaceIs DEF SurfaceOK, L
  <2>3. L > surface.last => L <= surface'.last
    BY <1>3, <2>1 DEF Queued, n
  <2>4. surface'.last = L
    BY <1>1, <2>1, <2>2, <2>3
  <2>5. Queued(<<>>, L, L, ui, surface'.revision)
    BY <1>1, QueuedNothing
  <2>6. \A k \in Keys : Silent(q, n, k)
    <3>1. \A j \in 1..n : ~(j > n)
      BY <1>1
    <3> QED BY <3>1 DEF Silent, n
  <2> QED BY <2>1, <2>4, <2>5, <2>6
<1>15. FeedInv(timeline, ui, stream', surface')
  BY <1>1, <1>8, <1>10, <1>11, <1>12, <1>13, <1>14, InvIs DEF FeedInv, LastSequence
<1> QED BY <1>2, <1>15 DEF Inv

LEMMA CloseKeeps == Inv /\ CloseStream => Inv'
<1> SUFFICES ASSUME Inv, CloseStream PROVE Inv'
  OBVIOUS
<1>1. /\ UNCHANGED <<timeline, ui>> /\ stream' = NoStream
      /\ surface' = [surface EXCEPT !.synced = FALSE]
  BY DEF CloseStream
<1>2. surface \in Surfaces
  BY InvIs
<1>3. surface' \in Surfaces
      /\ Fields(surface', surface.items, surface.ui, surface.last, surface.generation,
                surface.revision, FALSE)
  BY <1>1, <1>2, UnsyncedForm
<1>4. SurfaceOK(timeline, ui, surface')
  BY <1>3, InvIs DEF SurfaceOK, Fields
<1>5. /\ StreamOK(stream') /\ stream'.pc = "closed" /\ stream'.entries = <<>>
  BY <1>1, NoStreamIs
<1>6. Len(stream'.entries) = 0
  BY <1>5
<1>7. /\ BarrierOK(timeline, ui, stream') /\ EntriesOK(timeline, stream', surface')
      /\ FramesOK(stream') /\ QueueOK(timeline, ui, stream', surface')
  BY <1>5, <1>6 DEF BarrierOK, EntriesOK, FramesOK, QueueOK
<1>8. FeedInv(timeline, ui, stream', surface')
  BY <1>4, <1>5, <1>7, InvIs DEF FeedInv, LastSequence
<1> QED BY <1>1, <1>8 DEF Inv

-----------------------------------------------------------------------------
(* The writers.                                                            *)
LEMMA CommitLogs ==
  ASSUME Inv, NEW i \in Items, NEW g \in Generation, g <= timeline.generation, CommitItem(i, g)
  PROVE  Inv'
<1> DEFINE n == LastSequence + 1
           mu == [operation |-> "add", item |-> i, generation |-> g]
           row == [first |-> IF timeline.items[i] = NoRow THEN n ELSE timeline.items[i].first,
                   last |-> n]
           items == [timeline.items EXCEPT ![i] = row]
           log == Append(timeline.mutations, mu)
           e == TimelineEvent(n)
<1>1. /\ n <= MaxMutations /\ UNCHANGED <<ui, surface>>
      /\ timeline' = [timeline EXCEPT !.mutations = log, !.items = items]
      /\ Pushed(stream, stream', e)
  BY DEF CommitItem, Log, Publish, Pushed
<1>2. /\ timeline \in Records /\ LastSequence \in Nat
      /\ LastSequence = Len(timeline.mutations)
      /\ timeline.mutations \in Seq(Mutation) /\ timeline.items \in [Items -> [first: Nat, last: Nat]]
  BY InvIs DEF Records, LastSequence
<1>3. mu \in Mutation /\ mu.operation = "add" /\ mu.item = i /\ mu.generation = g
  BY DEF Mutation
<1>4. log \in Seq(Mutation)
  <2> HIDE DEF mu
  <2> QED BY <1>2, <1>3
<1>5. n \in Nat /\ row \in [first: Nat, last: Nat]
  <2>1. n \in Nat
    BY <1>2
  <2>2. timeline.items[i].first \in Nat
    BY <1>2
  <2> HIDE DEF n
  <2> QED BY <2>1, <2>2
<1>6. items \in [Items -> [first: Nat, last: Nat]]
  <2> HIDE DEF row
  <2> QED BY <1>2, <1>5
<1>7. items = [timeline.items EXCEPT ![mu.item] =
                 [first |-> IF @ = NoRow THEN n ELSE @.first, last |-> n]]
  BY <1>3
<1>8. log = Append(timeline.mutations, mu)
  OBVIOUS
<1> HIDE DEF log, items, mu, row
<1>9. /\ timeline' \in Records /\ timeline'.mutations = log /\ timeline'.items = items
      /\ timeline'.generation = timeline.generation
  BY <1>1, <1>2, <1>4, <1>6 DEF Records
<1>10. Logs(timeline, timeline', mu)
  <2>1. timeline.generation <= timeline.generation
    BY InvIs
  <2>2. mu.operation # "reset"
    BY <1>3
  <2> QED BY <1>2, <1>3, <1>7, <1>8, <1>9, <2>1, <2>2 DEF Logs
<1>11. e \in Event /\ e.of = "timeline" /\ e.number = n
  BY <1>5, EventTypes
<1> HIDE DEF e, n
<1>12. FeedInv(timeline', ui, stream', surface)
  <2>1. n = Len(timeline.mutations) + 1
    BY <1>2 DEF n
  <2>2. FeedInv(timeline, ui, stream, surface)
    BY DEF Inv
  <2>3. Len(timeline.mutations) + 1 <= MaxMutations /\ e.number = Len(timeline.mutations) + 1
    BY <1>1, <1>11, <2>1
  <2>4. Pushed(stream, stream', e) /\ Logs(timeline, timeline', mu) /\ e \in Event
        /\ e.of = "timeline"
    BY <1>1, <1>10, <1>11
  <2> QED BY ONLY <2>2, <2>3, <2>4, WriteKeeps
<1> QED BY <1>1, <1>12 DEF Inv

LEMMA ResetLogs == Inv /\ ResetTimeline => Inv'
<1> SUFFICES ASSUME Inv, ResetTimeline PROVE Inv'
  OBVIOUS
<1> DEFINE n == LastSequence + 1
           some == CHOOSE i \in Items : TRUE
           g == timeline.generation + 1
           mu == [operation |-> "reset", item |-> some, generation |-> g]
           log == Append(timeline.mutations, mu)
           e == TimelineEvent(n)
<1>1. /\ LastSequence < MaxMutations /\ timeline.generation < MaxGeneration
      /\ timeline' = [timeline EXCEPT !.mutations = log, !.generation = g]
      /\ UNCHANGED <<ui, surface>> /\ Pushed(stream, stream', e)
  BY DEF ResetTimeline, Log, Publish, Pushed
<1>2. /\ timeline \in Records /\ LastSequence \in Nat /\ timeline.generation \in Nat
      /\ LastSequence = Len(timeline.mutations) /\ MaxMutations \in Nat /\ MaxGeneration \in Nat
      /\ timeline.mutations \in Seq(Mutation) /\ timeline.generation \in Generation
  BY InvIs, FeedAssumption DEF Records, LastSequence
<1>3. some \in Items /\ g \in Generation /\ g > timeline.generation /\ g \in Nat
  <2>1. some \in Items
    BY FeedAssumption
  <2>2. g \in 1..MaxGeneration /\ g > timeline.generation /\ g \in Nat
    BY <1>1, <1>2
  <2> QED BY <2>1, <2>2 DEF Generation
<1> HIDE DEF some, g
<1>4. mu \in Mutation /\ mu.operation = "reset" /\ mu.generation = g
  BY <1>3 DEF Mutation
<1>5. log \in Seq(Mutation)
  <2> HIDE DEF mu
  <2> QED BY <1>2, <1>4
<1>6. log = Append(timeline.mutations, mu)
  OBVIOUS
<1> HIDE DEF log, mu
<1>7. /\ timeline' \in Records /\ timeline'.mutations = log /\ timeline'.items = timeline.items
      /\ timeline'.generation = g
  BY <1>1, <1>2, <1>3, <1>5 DEF Records
<1>8. Logs(timeline, timeline', mu)
  <2>1. timeline.generation <= g /\ g <= g
    BY <1>2, <1>3
  <2>2. mu.operation # "add"
    BY <1>4
  <2> QED BY <1>3, <1>4, <1>6, <1>7, <2>1, <2>2 DEF Logs
<1>9. n \in Nat /\ e \in Event /\ e.of = "timeline" /\ e.number = n
  <2>1. n \in Nat
    BY <1>2
  <2> QED BY <2>1, EventTypes
<1> HIDE DEF e, n
<1>10. FeedInv(timeline', ui, stream', surface)
  <2>1. n = Len(timeline.mutations) + 1 /\ n <= MaxMutations
    BY <1>1, <1>2 DEF n
  <2>2. FeedInv(timeline, ui, stream, surface)
    BY DEF Inv
  <2>3. Len(timeline.mutations) + 1 <= MaxMutations /\ e.number = Len(timeline.mutations) + 1
    BY <1>9, <2>1
  <2>4. Pushed(stream, stream', e) /\ Logs(timeline, timeline', mu) /\ e \in Event
        /\ e.of = "timeline"
    BY <1>1, <1>8, <1>9
  <2> QED BY ONLY <2>2, <2>3, <2>4, WriteKeeps
<1> QED BY <1>1, <1>10 DEF Inv

LEMMA SetKeeps ==
  ASSUME Inv, NEW k \in Keys, NEW x \in Expansions, SetExpansion(k, x)
  PROVE  Inv'
<1>1. /\ ui.revision + 1 <= MaxRevision /\ UNCHANGED <<timeline, surface>>
      /\ ui' = Changed(ui, k, x)
      /\ Pushed(stream, stream', UiChanged(ui.revision + 1, k, x))
  BY DEF SetExpansion, Changed, Publish, Pushed
<1>2. FeedInv(timeline, ui, stream, surface)
  BY DEF Inv
<1>3. FeedInv(timeline, ui', stream', surface)
  BY <1>1, <1>2, ChangeKeeps
<1> QED BY <1>1, <1>3 DEF Inv

LEMMA InitInv == FeedInit => Inv
<1> SUFFICES ASSUME FeedInit PROVE Inv
  OBVIOUS
<1> DEFINE w == <<>>
           rows == [i \in Items |-> NoRow]
           none == [i \in Items |-> 0]
           states == [k \in Keys |-> [expansion |-> AutoState, revision |-> 0]]
           autos == [k \in Keys |-> AutoState]
<1>1. /\ timeline = [mutations |-> w, items |-> rows, generation |-> 1]
      /\ ui = [rows |-> states, revision |-> 0]
      /\ stream = NoStream
      /\ surface = [items |-> none, ui |-> autos, last |-> 0, generation |-> 0,
                    revision |-> 0, synced |-> FALSE]
  BY DEF FeedInit
<1>2. /\ MaxMutations \in Nat /\ 1 \in Generation /\ 0 \in Revision
  BY FeedAssumption DEF Generation, Revision
<1>3. AutoState \in Expansions
  BY DEF Expansions
<1>4. /\ w \in Seq(Mutation) /\ Len(w) = 0 /\ 1..0 = {}
      /\ rows \in [Items -> [first: Nat, last: Nat]] /\ none \in [Items -> Nat]
      /\ autos \in [Keys -> Expansions] /\ states \in [Keys -> UiRow]
  BY <1>2, <1>3 DEF NoRow, UiRow
<1>5. /\ \A i \in Items : rows[i] = NoRow /\ none[i] = 0
      /\ \A k \in Keys : states[k].expansion = AutoState
  OBVIOUS
<1> HIDE DEF w, rows, none, states, autos
<1>6. timeline \in Records /\ timeline.mutations = w /\ timeline.items = rows
      /\ timeline.generation = 1
  BY <1>1, <1>2, <1>4 DEF Records
<1>7. ui \in UiStates /\ ui.rows = states /\ ui.revision = 0
  BY <1>1, <1>2, <1>4 DEF UiStates
<1>8. surface \in Surfaces /\ surface.last = 0 /\ surface.generation = 0
      /\ surface.revision = 0 /\ surface.items = none
  BY <1>1, <1>4 DEF Surfaces
<1>9. \A i \in Items : Writes(timeline, i) = {}
  BY <1>4, <1>6 DEF Writes
<1>10. LogOK(timeline)
  BY <1>4, <1>5, <1>6, <1>9 DEF LogOK, RowOK
<1>11. Len(timeline.mutations) = 0 /\ 0 <= MaxMutations
  BY <1>2, <1>4, <1>6
<1>12. UiOK(ui)
  <2>1. {k \in Keys : ui.rows[k].expansion # AutoState} = {}
    BY <1>5, <1>7
  <2>2. IsFiniteSet({})
    BY FS_EmptySet
  <2> QED BY <1>7, <2>1, <2>2 DEF UiOK
<1>13. SurfaceOK(timeline, ui, surface)
  <2>1. NoReset(timeline, 0, 0)
    BY <1>4, <1>11 DEF NoReset
  <2>2. \A i \in Items : Fresh(timeline, i, 0, 0)
    BY <1>9 DEF Fresh
  <2> QED BY <1>5, <1>6, <1>7, <1>8, <1>11, <2>1, <2>2 DEF SurfaceOK
<1>14. StreamOK(stream) /\ stream.pc = "closed" /\ Len(stream.entries) = 0
  BY <1>1, NoStreamIs
<1>15. /\ BarrierOK(timeline, ui, stream) /\ EntriesOK(timeline, stream, surface)
       /\ FramesOK(stream) /\ QueueOK(timeline, ui, stream, surface)
  BY <1>4, <1>14 DEF BarrierOK, EntriesOK, FramesOK, QueueOK
<1> QED BY <1>10, <1>11, <1>12, <1>13, <1>14, <1>15 DEF Inv, FeedInv

LEMMA NextInv == Inv /\ [FeedNext]_fvars => Inv'
<1> SUFFICES ASSUME Inv, [FeedNext]_fvars PROVE Inv'
  OBVIOUS
<1>1. CASE UNCHANGED fvars
  BY <1>1 DEF fvars, Inv
<1>2. ASSUME NEW i \in Items, WriteItem(i) PROVE Inv'
  <2>1. timeline.generation \in Generation /\ timeline.generation <= timeline.generation
    BY InvIs DEF Records
  <2> QED BY <1>2, <2>1, CommitLogs DEF WriteItem
<1>3. ASSUME NEW i \in Items, SeedPrompt(i) PROVE Inv'
  <2>1. 1 \in Generation /\ 1 <= timeline.generation
    <3>1. timeline.generation \in Generation
      BY InvIs DEF Records
    <3> QED BY <3>1, FeedAssumption DEF Generation
  <2>2. CommitItem(i, 1)
    BY <1>3 DEF SeedPrompt
  <2> DEFINE g == 1
  <2>3. g \in Generation /\ g <= timeline.generation /\ CommitItem(i, g)
    BY <2>1, <2>2
  <2> HIDE DEF g
  <2> QED BY <2>3, CommitLogs
<1>4. CASE ResetTimeline
  BY <1>4, ResetLogs
<1>5. ASSUME NEW k \in Keys, NEW x \in Expansions, SetExpansion(k, x) PROVE Inv'
  BY <1>5, SetKeeps
<1>6. CASE CaptureBarrier
  BY <1>6, CaptureKeeps
<1>7. ASSUME NEW resume \in BOOLEAN, ChooseMode(resume) PROVE Inv'
  BY <1>7, ChooseKeeps
<1>8. CASE ReadUiRows
  BY <1>8, ReadKeeps
<1>9. CASE ProduceFrames
  BY <1>9, ProduceKeeps
<1>10. CASE CommitSnapshot
  BY <1>10, CommitKeeps
<1>11. CASE DrainLive
  BY <1>11, DrainKeeps
<1>12. CASE CloseStream
  BY <1>12, CloseKeeps
<1> QED BY <1>1, <1>2, <1>3, <1>4, <1>5, <1>6, <1>7, <1>8, <1>9, <1>10, <1>11, <1>12
        DEF FeedNext

(* The invariant holds of every behaviour of a feed.                       *)
THEOREM FeedInvariant == FeedSpec => []Inv
<1>1. FeedInit => Inv
  BY InitInv
<1>2. Inv /\ [FeedNext]_fvars => Inv'
  BY NextInv
<1> QED BY <1>1, <1>2, PTL DEF FeedSpec

-----------------------------------------------------------------------------
LEMMA InvTypes == Inv => FeedTypeOK
<1> SUFFICES ASSUME Inv PROVE FeedTypeOK
  OBVIOUS
<1>1. /\ timeline.mutations \in Seq(Mutation) /\ timeline.generation \in Generation
      /\ ui \in [rows : [Keys -> UiRow], revision : Revision]
  BY InvIs DEF Records, UiStates
<1>2. ASSUME NEW i \in Items
      PROVE  /\ timeline.items[i].first \in 0..timeline.items[i].last
             /\ timeline.items[i].last \in 0..LastSequence
  <2> DEFINE first == timeline.items[i].first
             last == timeline.items[i].last
  <2>1. RowOK(timeline, i) /\ LastSequence \in Nat
    BY InvIs DEF LogOK
  <2>2. CASE timeline.items[i] = NoRow
    <3>1. first = 0 /\ last = 0
      BY <2>2 DEF NoRow
    <3> QED BY <2>1, <3>1
  <2>3. CASE timeline.items[i] # NoRow
    <3>1. /\ first \in Writes(timeline, i) /\ last \in Writes(timeline, i)
          /\ first <= last
      BY <2>1, <2>3 DEF RowOK
    <3>2. first \in 1..LastSequence /\ last \in 1..LastSequence
      BY <3>1 DEF Writes, LastSequence
    <3> HIDE DEF first, last
    <3>3. first \in 0..last /\ last \in 0..LastSequence
      BY <2>1, <3>1, <3>2
    <3> QED BY <3>3 DEF first, last
  <2> QED BY <2>2, <2>3
<1>3. /\ stream.pc \in {"closed", "captured", "mode", "ui", "sent", "live"}
      /\ stream.mode \in {"full", "delta"}
      /\ stream.queue \in Seq(Event) /\ Len(stream.queue) <= BacklogMax
  BY InvIs, StreamIs DEF StreamOK
<1>4. surface.items \in [Items -> Sequence] /\ surface.ui \in [Keys -> Expansions]
  <2>1. surface.items \in [Items -> Nat] /\ surface.ui \in [Keys -> Expansions]
    BY InvIs, SurfaceIs
  <2>2. \A i \in Items : surface.items[i] \in Nat /\ surface.items[i] <= LastSequence
    BY <2>1, InvIs DEF SurfaceOK, LastSequence
  <2>3. \A i \in Items : surface.items[i] \in Sequence
    <3>1. LastSequence \in Nat /\ LastSequence <= MaxMutations /\ MaxMutations \in Nat
      BY InvIs, FeedAssumption
    <3> QED BY <2>2, <3>1 DEF Sequence
  <2> QED BY <2>1, <2>3
<1> QED BY <1>1, <1>2, <1>3, <1>4 DEF FeedTypeOK

(* The feed keeps its types.                                               *)
THEOREM FeedTypes == FeedSpec => []FeedTypeOK
BY FeedInvariant, InvTypes, PTL

LEMMA InvWhole == Inv => SnapshotWhole
BY InvIs DEF FramesOK, SnapshotWhole

(* What the frames of a snapshot carry is what was read, in its order, for
   every way to cut it (chunk_entries, fragment_entry).                    *)
THEOREM SnapshotsWhole == FeedSpec => []SnapshotWhole
BY FeedInvariant, InvWhole, PTL

LEMMA InvConverges == Inv => FeedConverges
<1> SUFFICES ASSUME Inv, stream.pc = "live", stream.queue = <<>>, ~stream.dropped,
                    surface.synced, ~SeedMisfiled
             PROVE  /\ surface.last = LastSequence
                    /\ \A i \in Items : surface.items[i] = timeline.items[i].last
                    /\ \A k \in Keys : surface.ui[k] = ui.rows[k].expansion
  BY DEF FeedConverges
<1>1. Len(stream.queue) = 0 /\ 1..0 = {}
  OBVIOUS
<1>2. /\ Queued(stream.queue, LastSequence, surface.last, ui, surface.revision)
      /\ \A k \in Keys : Silent(stream.queue, 0, k) => surface.ui[k] = ui.rows[k].expansion
  BY InvIs DEF QueueOK, LastSequence
<1>3. surface.last = LastSequence
  <2>1. ~(LastSequence > surface.last)
    BY <1>1, <1>2 DEF Queued
  <2>2. surface.last <= LastSequence
    BY InvIs DEF SurfaceOK, LastSequence
  <2>3. surface.last \in Nat /\ LastSequence \in Nat
    BY InvIs, SurfaceIs
  <2> QED BY <2>1, <2>2, <2>3
<1>4. ~Misfiled(timeline)
  <2>1. DOMAIN timeline.mutations = 1..Len(timeline.mutations)
    BY InvIs, RecordsAre
  <2> QED BY <2>1 DEF SeedMisfiled, Misfiled
<1>5. ASSUME NEW i \in Items PROVE surface.items[i] = timeline.items[i].last
  <2>1. Fresh(timeline, i, surface.items[i], surface.last)
    BY <1>4, InvIs DEF SurfaceOK
  <2>2. RowOK(timeline, i)
    BY InvIs DEF LogOK
  <2>3. Writes(timeline, i) \subseteq 1..LastSequence /\ LastSequence \in Nat
    BY InvIs DEF Writes, LastSequence
  <2>4. CASE Writes(timeline, i) = {} /\ timeline.items[i] = NoRow
    BY <2>1, <2>4 DEF Fresh, NoRow
  <2>5. CASE /\ timeline.items[i].last \in Writes(timeline, i)
             /\ \A n \in Writes(timeline, i) : n <= timeline.items[i].last
    <3> DEFINE x == surface.items[i]
               y == timeline.items[i].last
    <3>1. y <= x /\ y \in 1..LastSequence
      <4>1. y \in 1..LastSequence
        BY <2>3, <2>5
      <4>2. y <= LastSequence
        BY <2>3, <4>1
      <4> QED BY <1>3, <2>1, <2>5, <4>1, <4>2 DEF Fresh
    <3>2. x = 0 \/ (x \in 1..LastSequence /\ x <= y)
      BY <2>1, <2>3, <2>5 DEF Fresh
    <3> HIDE DEF x, y
    <3>3. x = y
      BY <2>3, <3>1, <3>2
    <3> QED BY <3>3 DEF x, y
  <2> QED BY <2>2, <2>4, <2>5 DEF RowOK
<1>6. \A k \in Keys : Silent(stream.queue, 0, k)
  BY <1>1 DEF Silent
<1> QED BY <1>2, <1>3, <1>5, <1>6

(* A surface that applied everything it was sent shows what the tables say,
   for any items, keys and limits: what queues while a snapshot is read, a
   snapshot newer than its barrier, a delta over a stream that broke and a
   full backlog lose and resurrect nothing.                                *)
THEOREM FeedFollows == FeedSpec => []FeedConverges
BY FeedInvariant, InvConverges, PTL
=============================================================================
