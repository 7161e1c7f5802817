--------------------------- MODULE SequenceLemmas ---------------------------
(***************************************************************************)
(* What the other proofs need of natural numbers and sequences: induction   *)
(* over a set of numbers, the ends of a set of positions, prefixes, and     *)
(* what FlattenSeq puts together.                                           *)
(*                                                                         *)
(* The induction theorems of the library speak of an operator P(_), these   *)
(* of the set of numbers for which P holds.                                 *)
(***************************************************************************)
EXTENDS Integers, Sequences, SequencesExt, SequenceTheorems,
        WellFoundedInduction, TLAPS

Smaller == {p \in Nat \X Nat : p[1] < p[2]}

(* The natural numbers are well-founded, as a fact about a relation.       *)
LEMMA SmallerWellFounded == IsWellFoundedOn(Smaller, Nat)
  BY NatLessThanWellFounded DEF Smaller, OpToRel

(* A set of natural numbers that is not empty has a least element.         *)
LEMMA Least ==
  ASSUME NEW T \in SUBSET Nat, T # {}
  PROVE  \E x \in T : \A y \in T : x <= y
<1>1. PICK x \in T : \A y \in T : ~ (<<y, x>> \in Smaller)
  BY SmallerWellFounded, WFMin
<1>2. ASSUME NEW y \in T PROVE x <= y
  <2>1. CASE y < x
    <3>1. <<y, x>> \in Smaller
      BY <2>1 DEF Smaller
    <3> QED BY <3>1, <1>1
  <2> QED BY <2>1
<1> QED BY <1>2

(* Induction: a set that holds 0 and the successor of each of its numbers
   holds all of them.                                                      *)
LEMMA Induction ==
  ASSUME NEW S, 0 \in S, \A n \in Nat : n \in S => n + 1 \in S
  PROVE  \A n \in Nat : n \in S
<1> SUFFICES ASSUME NEW m \in Nat, m \notin S PROVE FALSE
  OBVIOUS
<1> DEFINE T == {n \in Nat : n \notin S}
<1>1. PICK x \in T : \A y \in T : x <= y
  <2>1. T \in SUBSET Nat /\ T # {}
    OBVIOUS
  <2> HIDE DEF T
  <2> QED BY <2>1, Least
<1>2. x - 1 \in Nat /\ x - 1 \notin T
  BY <1>1
<1> QED BY <1>1, <1>2

-----------------------------------------------------------------------------
(* The first and the last of a set of positions.                           *)
LEMMA FirstPosition ==
  ASSUME NEW n \in Nat, NEW I \in SUBSET (1..n), I # {}
  PROVE  Min(I) \in I /\ \A i \in I : Min(I) <= i
<1>1. \E x \in I : \A y \in I : x <= y
  BY Least
<1> QED BY <1>1 DEF Min

LEMMA LastPosition ==
  ASSUME NEW n \in Nat, NEW I \in SUBSET (1..n), I # {}
  PROVE  Max(I) \in I /\ \A i \in I : i <= Max(I)
<1> DEFINE J == {n - i : i \in I}
<1>1. PICK x \in J : \A y \in J : x <= y
  <2>1. \A i \in I : i \in 1..n
    OBVIOUS
  <2>2. \A i \in I : n - i \in Nat
    BY <2>1
  <2>3. J \in SUBSET Nat /\ J # {}
    BY <2>2
  <2> HIDE DEF J
  <2> QED BY <2>3, Least
<1>2. \E z \in I : \A y \in I : z >= y
  BY <1>1
<1> QED BY <1>2 DEF Max

-----------------------------------------------------------------------------
(* Prefixes.                                                               *)
LEMMA PrefixByElements ==
  ASSUME NEW S, NEW s \in Seq(S), NEW t \in Seq(S)
  PROVE  IsPrefix(s, t) <=> Len(s) <= Len(t) /\ \A i \in 1..Len(s) : s[i] = t[i]
<1>1. CASE Len(s) <= Len(t)
  <2>1. SubSeq(s, 1, Len(s)) \in Seq(S) /\ SubSeq(t, 1, Len(s)) \in Seq(S)
    BY <1>1, SubSeqProperties
  <2>2. /\ Len(SubSeq(s, 1, Len(s))) = Len(s) /\ Len(SubSeq(t, 1, Len(s))) = Len(s)
        /\ \A i \in 1..Len(s) : /\ SubSeq(s, 1, Len(s))[i] = s[i]
                                /\ SubSeq(t, 1, Len(s))[i] = t[i]
    BY <1>1
  <2> QED BY <1>1, <2>1, <2>2, SeqEqual DEF IsPrefix
<1> QED BY <1>1 DEF IsPrefix

LEMMA PrefixSelf ==
  ASSUME NEW S, NEW s \in Seq(S) PROVE IsPrefix(s, s)
BY PrefixByElements

LEMMA PrefixAppend ==
  ASSUME NEW S, NEW s \in Seq(S), NEW e \in S PROVE IsPrefix(s, Append(s, e))
<1> DEFINE t == Append(s, e)
<1>1. t \in Seq(S) /\ Len(s) <= Len(t) /\ \A i \in 1..Len(s) : s[i] = t[i]
  OBVIOUS
<1> HIDE DEF t
<1>2. IsPrefix(s, t)
  BY <1>1, PrefixByElements
<1> QED BY <1>2 DEF t

LEMMA PrefixTransitive ==
  ASSUME NEW S, NEW s \in Seq(S), NEW t \in Seq(S), NEW u \in Seq(S),
         IsPrefix(s, t), IsPrefix(t, u)
  PROVE  IsPrefix(s, u)
<1>1. /\ Len(s) <= Len(t) /\ \A i \in 1..Len(s) : s[i] = t[i]
      /\ Len(t) <= Len(u) /\ \A i \in 1..Len(t) : t[i] = u[i]
  BY PrefixByElements
<1>2. Len(s) <= Len(u) /\ \A i \in 1..Len(s) : s[i] = u[i]
  BY <1>1
<1> QED BY <1>2, PrefixByElements

-----------------------------------------------------------------------------
(* Sequences changed at one place.                                         *)
LEMMA ConcatAppend ==
  ASSUME NEW S, NEW s \in Seq(S), NEW t \in Seq(S), NEW e \in S
  PROVE  s \o Append(t, e) = Append(s \o t, e)
OBVIOUS

LEMMA ReplaceElement ==
  ASSUME NEW S, NEW s \in Seq(S), NEW p, NEW e \in S
  PROVE  LET t == [s EXCEPT ![p] = e] IN
         /\ t \in Seq(S) /\ Len(t) = Len(s)
         /\ \A k \in 1..Len(s) : t[k] = IF k = p THEN e ELSE s[k]
<1> DEFINE t == [s EXCEPT ![p] = e]
<1>1. DOMAIN s = 1..Len(s) /\ Len(s) \in Nat /\ \A k \in 1..Len(s) : s[k] \in S
  OBVIOUS
<1>2. t = [k \in 1..Len(s) |-> IF k = p THEN e ELSE s[k]]
  BY <1>1
<1> DEFINE n == Len(s)
           f == [k \in 1..n |-> IF k = p THEN e ELSE s[k]]
<1>3. f \in Seq(S) /\ Len(f) = n
  <2>1. \A k \in 1..n : (IF k = p THEN e ELSE s[k]) \in S
    BY <1>1
  <2>2. n \in Nat
    BY <1>1
  <2> HIDE DEF n
  <2> QED BY <2>1, <2>2
<1>4. \A k \in 1..n : f[k] = IF k = p THEN e ELSE s[k]
  OBVIOUS
<1> QED BY <1>2, <1>3, <1>4

-----------------------------------------------------------------------------
(* FlattenSeq.  Joined(ss, n, g): g[k] is the first k sequences of ss, put
   together.                                                               *)
Cat(s, t) == s \o t
HasLen(s, n) == n = Len(s)

Joined(ss, n, g) == g = [k \in 1..n |-> IF k = 1 THEN ss[k] ELSE Cat(g[k - 1], ss[k])]

LEMMA JoinedStep ==
  ASSUME NEW ss, NEW n, NEW g, Joined(ss, n, g), NEW k \in 1..n
  PROVE  g[k] = IF k = 1 THEN ss[k] ELSE Cat(g[k - 1], ss[k])
BY DEF Joined

LEMMA JoinedExists ==
  ASSUME NEW ss PROVE \A n \in Nat : \E g : Joined(ss, n, g)
<1> DEFINE S == {n \in Nat : \E g : Joined(ss, n, g)}
<1>1. 0 \in S
  <2>1. Joined(ss, 0, [k \in 1..0 |-> <<>>])
    BY DEF Joined
  <2> QED BY <2>1
<1>2. ASSUME NEW n \in Nat, n \in S PROVE n + 1 \in S
  <2>1. PICK g : Joined(ss, n, g)
    BY <1>2
  <2> DEFINE h == [k \in 1..(n + 1) |-> IF k # n + 1 THEN g[k]
                                        ELSE IF k = 1 THEN ss[k] ELSE Cat(g[n], ss[k])]
  <2>2. ASSUME NEW k \in 1..(n + 1)
        PROVE h[k] = IF k = 1 THEN ss[k] ELSE Cat(h[k - 1], ss[k])
    <3>1. CASE k = n + 1
      BY <3>1
    <3>2. CASE k # n + 1
      <4>1. k \in 1..n /\ h[k] = g[k] /\ (k # 1 => k - 1 \in 1..n /\ h[k - 1] = g[k - 1])
        BY <3>2
      <4>2. g[k] = IF k = 1 THEN ss[k] ELSE Cat(g[k - 1], ss[k])
        BY <2>1, <4>1 DEF Joined
      <4> QED BY <4>1, <4>2
    <3> QED BY <3>1, <3>2
  <2>3. Joined(ss, n + 1, h)
    BY <2>2 DEF Joined
  <2> QED BY <2>3
<1>3. \A n \in Nat : n \in S
  <2> HIDE DEF S
  <2> QED BY <1>1, <1>2, Induction
<1> QED BY <1>3

(* Functions that agree on what they put together agree.                   *)
LEMMA JoinedAgree ==
  ASSUME NEW ss, NEW tt, NEW n \in Nat, NEW m \in Nat, n <= m, NEW g, NEW h,
         Joined(ss, n, g), Joined(tt, m, h), \A k \in 1..n : ss[k] = tt[k]
  PROVE  \A k \in 1..n : g[k] = h[k]
<1> DEFINE S == {k \in Nat : k \in 1..n => g[k] = h[k]}
<1>1. 0 \in S
  OBVIOUS
<1>2. ASSUME NEW k \in Nat, k \in S PROVE k + 1 \in S
  <2> SUFFICES ASSUME k + 1 \in 1..n PROVE g[k + 1] = h[k + 1]
    OBVIOUS
  <2> DEFINE j == k + 1
  <2>1. /\ g[j] = IF j = 1 THEN ss[j] ELSE Cat(g[j - 1], ss[j])
        /\ h[j] = IF j = 1 THEN tt[j] ELSE Cat(h[j - 1], tt[j])
    <3>1. j \in 1..n /\ j \in 1..m
      OBVIOUS
    <3> HIDE DEF j
    <3> QED BY <3>1 DEF Joined
  <2>2. ss[j] = tt[j] /\ (j # 1 => j - 1 = k /\ g[k] = h[k])
    BY <1>2
  <2> HIDE DEF j
  <2>3. g[j] = h[j]
    BY <2>1, <2>2
  <2> QED BY <2>3 DEF j
<1>3. \A k \in Nat : k \in S
  <2> HIDE DEF S
  <2> QED BY <1>1, <1>2, Induction
<1> QED BY <1>3

LEMMA FlattenIsJoined ==
  ASSUME NEW ss, NEW n \in Nat, HasLen(ss, n), n # 0
  PROVE  \E g : Joined(ss, n, g) /\ FlattenSeq(ss) = g[n]
<1> DEFINE u == CHOOSE g : Joined(ss, n, g)
<1>1. Joined(ss, n, u)
  <2>1. \E g : Joined(ss, n, g)
    BY JoinedExists
  <2> QED BY <2>1
<1>2. FlattenSeq(ss) = u[n]
  BY DEF FlattenSeq, Joined, Cat, HasLen
<1> QED BY <1>1, <1>2

LEMMA FlattenEmpty == FlattenSeq(<<>>) = <<>>
BY DEF FlattenSeq

(* One more sequence is put at the end.                                    *)
LEMMA FlattenLast ==
  ASSUME NEW ss, NEW tt, NEW n \in Nat, NEW m \in Nat, m = n + 1,
         HasLen(ss, n), HasLen(tt, m), n # 0, \A k \in 1..n : ss[k] = tt[k]
  PROVE  FlattenSeq(tt) = Cat(FlattenSeq(ss), tt[m])
<1>1. PICK g : Joined(ss, n, g) /\ FlattenSeq(ss) = g[n]
  BY FlattenIsJoined
<1>2. PICK h : Joined(tt, m, h) /\ FlattenSeq(tt) = h[m]
  <2>1. m # 0
    OBVIOUS
  <2> QED BY <2>1, FlattenIsJoined
<1>3. m \in 1..m /\ m - 1 = n /\ n \in 1..n /\ n <= m /\ m # 1
  OBVIOUS
<1>4. h[m] = Cat(h[n], tt[m])
  <2>1. h[m] = IF m = 1 THEN tt[m] ELSE Cat(h[m - 1], tt[m])
    BY <1>2, <1>3, JoinedStep
  <2> QED BY <1>3, <2>1
<1>5. g[n] = h[n]
  <2>1. \A k \in 1..n : g[k] = h[k]
    BY <1>1, <1>2, <1>3, JoinedAgree
  <2> QED BY <1>3, <2>1
<1> QED BY <1>1, <1>2, <1>4, <1>5

LEMMA FlattenOne ==
  ASSUME NEW tt, NEW n \in Nat, n = 1, HasLen(tt, n) PROVE FlattenSeq(tt) = tt[n]
<1>1. n # 0 /\ n \in 1..n
  OBVIOUS
<1>2. PICK h : Joined(tt, n, h) /\ FlattenSeq(tt) = h[n]
  BY <1>1, FlattenIsJoined
<1>3. h[n] = IF n = 1 THEN tt[n] ELSE Cat(h[n - 1], tt[n])
  BY <1>1, <1>2, JoinedStep
<1> QED BY <1>2, <1>3

LEMMA FlattenAppend ==
  ASSUME NEW S, NEW ss \in Seq(Seq(S)), NEW s \in Seq(S)
  PROVE  FlattenSeq(Append(ss, s)) = FlattenSeq(ss) \o s
<1> DEFINE n  == Len(ss)
           m  == Len(ss) + 1
           tt == Append(ss, s)
<1>1. /\ n \in Nat /\ m \in Nat /\ HasLen(ss, n) /\ HasLen(tt, m) /\ m = n + 1 /\ tt[m] = s
      /\ \A k \in 1..n : ss[k] = tt[k]
  BY DEF HasLen
<1>2. CASE ss = <<>>
  <2>1. FlattenSeq(tt) = s
    <3>1. m = 1
      BY <1>2
    <3> HIDE DEF m, n, tt
    <3> QED BY <1>1, <3>1, FlattenOne
  <2> QED BY <1>2, <2>1, FlattenEmpty, ConcatEmptySeq
<1>3. CASE ss # <<>>
  <2>1. n # 0
    BY <1>3
  <2>2. FlattenSeq(tt) = Cat(FlattenSeq(ss), tt[m])
    <3> HIDE DEF n, m, tt
    <3> QED BY <1>1, <2>1, FlattenLast
  <2> QED BY <1>1, <2>2 DEF Cat
<1> QED BY <1>2, <1>3

(* The flattened sequence is made of the elements of the sequences.        *)
FlattenOK(S, ss) ==
  /\ FlattenSeq(ss) \in Seq(S)
  /\ \A k \in 1..Len(ss) : \A i \in 1..Len(ss[k]) :
        \E j \in 1..Len(FlattenSeq(ss)) : FlattenSeq(ss)[j] = ss[k][i]
  /\ \A j \in 1..Len(FlattenSeq(ss)) :
        \E k \in 1..Len(ss) : \E i \in 1..Len(ss[k]) : FlattenSeq(ss)[j] = ss[k][i]

LEMMA FlattenElements ==
  ASSUME NEW S, NEW ss \in Seq(Seq(S))
  PROVE  FlattenOK(S, ss)
<1> DEFINE P == {n \in Nat : \A tt \in Seq(Seq(S)) : Len(tt) = n => FlattenOK(S, tt)}
<1>1. 0 \in P
  <2> SUFFICES ASSUME NEW tt \in Seq(Seq(S)), Len(tt) = 0 PROVE FlattenOK(S, tt)
    OBVIOUS
  <2>1. tt = <<>>
    OBVIOUS
  <2>2. FlattenSeq(tt) = <<>> /\ Len(FlattenSeq(tt)) = 0 /\ <<>> \in Seq(S)
    BY <2>1, FlattenEmpty
  <2> QED BY <2>2 DEF FlattenOK
<1>2. ASSUME NEW n \in Nat, n \in P PROVE n + 1 \in P
  <2> SUFFICES ASSUME NEW tt \in Seq(Seq(S)), Len(tt) = n + 1 PROVE FlattenOK(S, tt)
    OBVIOUS
  <2>1. PICK uu \in Seq(Seq(S)), s \in Seq(S) : tt = Append(uu, s)
    <3>1. tt # <<>>
      OBVIOUS
    <3> QED BY <3>1, SequenceEmptyOrAppend
  <2>2. Len(uu) = n /\ tt[n + 1] = s /\ \A k \in 1..n : tt[k] = uu[k]
    BY <2>1
  <2>3. FlattenOK(S, uu)
    BY <1>2, <2>2
  <2> DEFINE f == FlattenSeq(uu)
  <2>4. FlattenSeq(tt) = f \o s
    BY <2>1, FlattenAppend
  <2>5. f \in Seq(S)
    BY <2>3 DEF FlattenOK
  <2>6. /\ f \o s \in Seq(S) /\ Len(f \o s) = Len(f) + Len(s)
        /\ \A j \in 1..Len(f) : (f \o s)[j] = f[j]
        /\ \A j \in 1..Len(s) : Len(f) + j \in 1..Len(f \o s) /\ (f \o s)[Len(f) + j] = s[j]
        /\ \A j \in 1..Len(f \o s) :
              j \in 1..Len(f) \/ (j - Len(f) \in 1..Len(s) /\ (f \o s)[j] = s[j - Len(f)])
    <3> HIDE DEF f
    <3> QED BY <2>5, ConcatProperties
  <2> HIDE DEF f
  <2>7. ASSUME NEW k \in 1..(n + 1), NEW i \in 1..Len(tt[k])
        PROVE  \E j \in 1..Len(f \o s) : (f \o s)[j] = tt[k][i]
    <3>1. CASE k = n + 1
      BY <2>2, <2>6, <3>1
    <3>2. CASE k # n + 1
      <4>1. k \in 1..Len(uu) /\ tt[k] = uu[k]
        BY <2>2, <3>2
      <4>2. PICK j \in 1..Len(f) : f[j] = uu[k][i]
        BY <2>3, <4>1 DEF FlattenOK, f
      <4> QED BY <2>5, <2>6, <4>1, <4>2
    <3> QED BY <3>1, <3>2
  <2>8. ASSUME NEW j \in 1..Len(f \o s)
        PROVE  \E k \in 1..(n + 1) : \E i \in 1..Len(tt[k]) : (f \o s)[j] = tt[k][i]
    <3>1. CASE j \in 1..Len(f)
      <4>1. PICK k \in 1..Len(uu) : \E i \in 1..Len(uu[k]) : f[j] = uu[k][i]
        BY <2>3, <3>1 DEF FlattenOK, f
      <4> QED BY <2>2, <2>6, <3>1, <4>1
    <3>2. CASE j - Len(f) \in 1..Len(s) /\ (f \o s)[j] = s[j - Len(f)]
      <4>1. n + 1 \in 1..(n + 1)
        OBVIOUS
      <4> QED BY <2>2, <3>2, <4>1
    <3> QED BY <2>6, <3>1, <3>2
  <2> DEFINE r == f \o s
  <2>9. FlattenSeq(tt) = r /\ r \in Seq(S)
    BY <2>4, <2>6
  <2>10. /\ \A k \in 1..Len(tt) : \A i \in 1..Len(tt[k]) : \E j \in 1..Len(r) : r[j] = tt[k][i]
         /\ \A j \in 1..Len(r) : \E k \in 1..Len(tt) : \E i \in 1..Len(tt[k]) : r[j] = tt[k][i]
    BY <2>7, <2>8
  <2> HIDE DEF r
  <2> QED BY <2>9, <2>10 DEF FlattenOK
<1>3. \A n \in Nat : n \in P
  <2> HIDE DEF P
  <2> QED BY <1>1, <1>2, Induction
<1>4. Len(ss) \in Nat
  OBVIOUS
<1> QED BY <1>3, <1>4
-----------------------------------------------------------------------------
(***************************************************************************)
(* Folds.  FoldLeft chooses a function on the sets of positions that        *)
(* satisfies an equation; there is one, and on the sets 1..k it runs        *)
(* through the folds of the prefixes.                                      *)
(***************************************************************************)

LEMMA LargestOf ==
  ASSUME NEW n \in Nat, NEW s \in SUBSET (1..(n + 1)), n + 1 \in s
  PROVE  Max(s) = n + 1
<1>1. s \in SUBSET (1..(n + 1)) /\ s # {} /\ n + 1 \in Nat
  OBVIOUS
<1>2. Max(s) \in s /\ \A i \in s : i <= Max(s)
  BY <1>1, LastPosition
<1>3. Max(s) \in 1..(n + 1) /\ n + 1 <= Max(s)
  BY <1>2
<1> QED BY <1>3

(* The largest position of a prefix, and the prefix without it.            *)
LEMMA PrefixPositions ==
  ASSUME NEW k \in Nat \ {0}
  PROVE  1..k # {} /\ Max(1..k) = k /\ (1..k) \ {k} = 1..(k - 1)
<1> DEFINE n == k - 1
<1>1. n \in Nat /\ k = n + 1
  OBVIOUS
<1>2. 1..k \in SUBSET (1..(n + 1)) /\ n + 1 \in 1..k
  BY <1>1
<1> HIDE DEF n
<1>3. Max(1..k) = n + 1
  BY <1>1, <1>2, LargestOf
<1>4. 1..k # {} /\ (1..k) \ {k} = 1..(k - 1)
  OBVIOUS
<1> QED BY <1>1, <1>3, <1>4

(* The folds of the subsets of 1..n, when K[k] is what position k does.     *)
Folds(g, n, base, K) ==
  \A s \in SUBSET (1..n) :
     g[s] = IF s = {} THEN base ELSE K[Max(s)][g[s \ {Max(s)}]]

LEMMA FoldExists ==
  ASSUME NEW n \in Nat, NEW V, NEW base \in V, NEW K,
         \A k \in 1..n : \A x \in V : K[k][x] \in V
  PROVE  \E g \in [SUBSET (1..n) -> V] : Folds(g, n, base, K)
<1> DEFINE P == {m \in Nat : m <= n => \E g \in [SUBSET (1..m) -> V] : Folds(g, m, base, K)}
<1>1. 0 \in P
  <2>1. 1..0 = {}
    OBVIOUS
  <2>2. Folds([s \in SUBSET (1..0) |-> base], 0, base, K)
    BY <2>1 DEF Folds
  <2> QED BY <2>2
<1>2. ASSUME NEW m \in Nat, m \in P PROVE m + 1 \in P
  <2> SUFFICES ASSUME m + 1 <= n
               PROVE  \E g \in [SUBSET (1..(m + 1)) -> V] : Folds(g, m + 1, base, K)
    <3>1. m + 1 \in Nat
      OBVIOUS
    <3> QED BY <3>1
  <2>1. m <= n
    OBVIOUS
  <2>2. PICK h \in [SUBSET (1..m) -> V] : Folds(h, m, base, K)
    BY <1>2, <2>1
  <2> DEFINE g == [s \in SUBSET (1..(m + 1)) |->
                     IF m + 1 \in s THEN K[m + 1][h[s \ {m + 1}]] ELSE h[s]]
  <2>3. \A s \in SUBSET (1..(m + 1)) : s \ {m + 1} \in SUBSET (1..m)
    <3>1. \A i \in 1..(m + 1) : i # m + 1 => i \in 1..m
      OBVIOUS
    <3> QED BY ONLY <3>1
  <2>4. \A s \in SUBSET (1..(m + 1)) : m + 1 \notin s => s \in SUBSET (1..m)
    BY <2>3
  <2>5. g \in [SUBSET (1..(m + 1)) -> V]
    <3>1. m + 1 \in 1..n
      OBVIOUS
    <3> QED BY <2>3, <2>4, <3>1
  <2>6. \A s \in SUBSET (1..m) : s \in SUBSET (1..(m + 1)) /\ m + 1 \notin s
    OBVIOUS
  <2>7. \A s \in SUBSET (1..m) : g[s] = h[s]
    BY <2>6
  <2>8. \A s \in SUBSET (1..(m + 1)) : m + 1 \in s => g[s] = K[m + 1][h[s \ {m + 1}]]
    OBVIOUS
  <2> HIDE DEF g
  <2>9. ASSUME NEW s \in SUBSET (1..(m + 1))
        PROVE  g[s] = IF s = {} THEN base ELSE K[Max(s)][g[s \ {Max(s)}]]
    <3>1. CASE m + 1 \in s
      <4>1. Max(s) = m + 1
        BY <3>1, LargestOf
      <4>2. g[s \ {m + 1}] = h[s \ {m + 1}]
        BY <2>3, <2>7
      <4> QED BY <2>8, <3>1, <4>1, <4>2
    <3>2. CASE m + 1 \notin s
      <4>1. s \in SUBSET (1..m) /\ s \ {Max(s)} \in SUBSET (1..m)
        BY <2>4, <3>2
      <4>2. h[s] = IF s = {} THEN base ELSE K[Max(s)][h[s \ {Max(s)}]]
        BY <2>2, <4>1 DEF Folds
      <4> QED BY <2>7, <4>1, <4>2
    <3> QED BY <3>1, <3>2
  <2>10. Folds(g, m + 1, base, K)
    BY <2>9 DEF Folds
  <2> QED BY <2>5, <2>10
<1> HIDE DEF P
<1>3. n \in P
  BY <1>1, <1>2, Induction
<1>4. n <= n => \E g \in [SUBSET (1..n) -> V] : Folds(g, n, base, K)
  BY ONLY <1>3 DEF P
<1>5. n <= n
  OBVIOUS
<1> QED BY ONLY <1>4, <1>5

(* The flattened concatenation is the concatenation of the flattened.      *)
LEMMA FlattenConcat ==
  ASSUME NEW S, NEW ss \in Seq(Seq(S)), NEW tt \in Seq(Seq(S))
  PROVE  FlattenSeq(ss \o tt) = FlattenSeq(ss) \o FlattenSeq(tt)
<1> DEFINE P == {n \in Nat : \A uu \in Seq(Seq(S)) : Len(uu) = n =>
                    FlattenSeq(ss \o uu) = FlattenSeq(ss) \o FlattenSeq(uu)}
<1>0. \A uu \in Seq(Seq(S)) : FlattenSeq(uu) \in Seq(S)
  BY FlattenElements DEF FlattenOK
<1>1. 0 \in P
  <2> SUFFICES ASSUME NEW uu \in Seq(Seq(S)), Len(uu) = 0
               PROVE  FlattenSeq(ss \o uu) = FlattenSeq(ss) \o FlattenSeq(uu)
    OBVIOUS
  <2>1. uu = <<>> /\ ss \o uu = ss
    OBVIOUS
  <2>2. FlattenSeq(uu) = <<>>
    BY <2>1, FlattenEmpty
  <2>3. FlattenSeq(ss) \in Seq(S)
    BY <1>0
  <2>4. FlattenSeq(ss) \o <<>> = FlattenSeq(ss)
    BY <2>3, ConcatEmptySeq
  <2> QED BY <2>1, <2>2, <2>4
<1>2. ASSUME NEW n \in Nat, n \in P PROVE n + 1 \in P
  <2> SUFFICES ASSUME NEW uu \in Seq(Seq(S)), Len(uu) = n + 1
               PROVE  FlattenSeq(ss \o uu) = FlattenSeq(ss) \o FlattenSeq(uu)
    OBVIOUS
  <2>1. PICK vv \in Seq(Seq(S)), s \in Seq(S) : uu = Append(vv, s)
    <3>1. uu # <<>>
      OBVIOUS
    <3> QED BY <3>1, SequenceEmptyOrAppend
  <2>2. Len(vv) = n
    BY <2>1
  <2>3. FlattenSeq(ss \o vv) = FlattenSeq(ss) \o FlattenSeq(vv)
    BY <1>2, <2>2
  <2>4. ss \o vv \in Seq(Seq(S)) /\ ss \o uu = Append(ss \o vv, s)
    BY <2>1, ConcatAppend
  <2> DEFINE ww == ss \o vv
  <2>5. FlattenSeq(Append(ww, s)) = FlattenSeq(ww) \o s
    <3>1. ww \in Seq(Seq(S))
      BY <2>4
    <3> HIDE DEF ww
    <3> QED BY <3>1, FlattenAppend
  <2>6. FlattenSeq(uu) = FlattenSeq(vv) \o s
    BY <2>1, FlattenAppend
  <2>7. FlattenSeq(ss) \in Seq(S) /\ FlattenSeq(vv) \in Seq(S)
    BY <1>0
  <2> DEFINE x == FlattenSeq(ss)
             y == FlattenSeq(vv)
  <2>8. (x \o y) \o s = x \o (y \o s)
    <3>1. x \in Seq(S) /\ y \in Seq(S) /\ s \in Seq(S)
      BY <2>7
    <3> HIDE DEF x, y
    <3> QED BY ONLY <3>1, ConcatAssociative
  <2> QED BY <2>3, <2>4, <2>5, <2>6, <2>8
<1>3. \A n \in Nat : n \in P
  <2> HIDE DEF P
  <2> QED BY <1>1, <1>2, Induction
<1>4. Len(tt) \in Nat
  OBVIOUS
<1> QED BY <1>3, <1>4
=============================================================================
