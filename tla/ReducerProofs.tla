---------------------------- MODULE ReducerProofs ----------------------------
(***************************************************************************)
(* What a commit of mutations leaves in the rows, and what the reducer of a  *)
(* turn keeps through every update, whatever the agent sends: types, ids,    *)
(* the order of the text and the trail of its mutations.                     *)
(***************************************************************************)
EXTENDS TurnTimeline, SequenceLemmas

-----------------------------------------------------------------------------
(* UpsertAll, one mutation after the other.                                *)
Upserted(table, batch, base, n, g) ==
  g = [k \in 0..n |-> IF k = 0 THEN table ELSE Upsert(g[k - 1], batch[k], base + k)]

LEMMA UpsertedExists ==
  ASSUME NEW table, NEW batch, NEW base \in Nat
  PROVE  \A n \in Nat : \E g : Upserted(table, batch, base, n, g)
<1> DEFINE S == {n \in Nat : \E g : Upserted(table, batch, base, n, g)}
<1>1. 0 \in S
  <2>1. Upserted(table, batch, base, 0, [k \in 0..0 |-> table])
    BY DEF Upserted
  <2> QED BY <2>1
<1>2. ASSUME NEW n \in Nat, n \in S PROVE n + 1 \in S
  <2>1. PICK g : Upserted(table, batch, base, n, g)
    BY <1>2
  <2> DEFINE h == [k \in 0..(n + 1) |->
                      IF k = n + 1 THEN Upsert(g[n], batch[n + 1], base + n + 1) ELSE g[k]]
  <2>2. ASSUME NEW k \in 0..(n + 1)
        PROVE  h[k] = IF k = 0 THEN table ELSE Upsert(h[k - 1], batch[k], base + k)
    <3>1. CASE k = n + 1
      <4>1. h[k] = Upsert(g[n], batch[n + 1], base + n + 1)
        BY <3>1
      <4>2. h[k - 1] = g[n] /\ k # 0 /\ base + k = base + n + 1
        BY <3>1
      <4> QED BY <3>1, <4>1, <4>2
    <3>2. CASE k # n + 1
      <4>1. k \in 0..n /\ h[k] = g[k] /\ (k # 0 => k - 1 \in 0..n /\ h[k - 1] = g[k - 1])
        BY <3>2
      <4>2. g[k] = IF k = 0 THEN table ELSE Upsert(g[k - 1], batch[k], base + k)
        BY <2>1, <4>1 DEF Upserted
      <4> QED BY <4>1, <4>2
    <3> QED BY <3>1, <3>2
  <2>3. Upserted(table, batch, base, n + 1, h)
    BY <2>2 DEF Upserted
  <2> QED BY <2>3
<1>3. \A n \in Nat : n \in S
  <2> HIDE DEF S
  <2> QED BY <1>1, <1>2, Induction
<1> QED BY <1>3

LEMMA UpsertedStep ==
  ASSUME NEW table, NEW batch, NEW base, NEW n \in Nat, NEW g,
         Upserted(table, batch, base, n, g)
  PROVE  /\ g[0] = table
         /\ \A k \in 1..n : g[k] = Upsert(g[k - 1], batch[k], base + k)
BY DEF Upserted

SameUpTo(a, b, n) == \A k \in 1..n : a[k] = b[k]

(* Batches that agree as far as they go leave the same rows so far.        *)
LEMMA UpsertedAgree ==
  ASSUME NEW table, NEW a, NEW b, NEW base, NEW n \in Nat, NEW m \in Nat, n <= m,
         NEW g, NEW h, Upserted(table, a, base, n, g), Upserted(table, b, base, m, h),
         SameUpTo(a, b, n)
  PROVE  \A k \in 0..n : g[k] = h[k]
<1> DEFINE S == {k \in Nat : k \in 0..n => g[k] = h[k]}
<1>1. /\ g[0] = table /\ \A k \in 1..n : g[k] = Upsert(g[k - 1], a[k], base + k)
      /\ h[0] = table /\ \A k \in 1..m : h[k] = Upsert(h[k - 1], b[k], base + k)
  BY UpsertedStep
<1>2. 0 \in S
  BY <1>1
<1>3. ASSUME NEW k \in Nat, k \in S PROVE k + 1 \in S
  <2> SUFFICES ASSUME k + 1 \in 0..n PROVE g[k + 1] = h[k + 1]
    OBVIOUS
  <2>1. /\ k + 1 \in 1..n /\ k + 1 \in 1..m /\ (k + 1) - 1 = k
        /\ g[k] = h[k] /\ a[k + 1] = b[k + 1]
    BY <1>3 DEF SameUpTo
  <2> QED BY <1>1, <2>1
<1>4. \A k \in Nat : k \in S
  <2> HIDE DEF S
  <2> QED BY <1>2, <1>3, Induction
<1> QED BY <1>4

LEMMA UpsertAllIs ==
  ASSUME NEW table, NEW batch, NEW base \in Nat, NEW n \in Nat, HasLen(batch, n)
  PROVE  \E g : Upserted(table, batch, base, n, g) /\ UpsertAll(table, batch, base) = g[n]
<1> DEFINE u == CHOOSE g : Upserted(table, batch, base, n, g)
<1>1. Upserted(table, batch, base, n, u)
  BY UpsertedExists
<1>2. UpsertAll(table, batch, base) = u[n]
  BY DEF UpsertAll, Upserted, HasLen
<1> QED BY <1>1, <1>2

LEMMA UpsertAllEmpty ==
  ASSUME NEW table, NEW base \in Nat PROVE UpsertAll(table, <<>>, base) = table
<1>1. HasLen(<<>>, 0)
  BY DEF HasLen
<1>2. PICK g : Upserted(table, <<>>, base, 0, g) /\ UpsertAll(table, <<>>, base) = g[0]
  BY <1>1, UpsertAllIs
<1> QED BY <1>2, UpsertedStep

LEMMA UpsertAllAppend ==
  ASSUME NEW S, NEW batch \in Seq(S), NEW m \in S, NEW table, NEW base \in Nat
  PROVE  UpsertAll(table, Append(batch, m), base)
           = Upsert(UpsertAll(table, batch, base), m, base + (Len(batch) + 1))
<1> DEFINE n == Len(batch)
           k == Len(batch) + 1
           b == Append(batch, m)
<1>1. /\ n \in Nat /\ k \in Nat /\ HasLen(batch, n) /\ HasLen(b, k) /\ b[k] = m
      /\ k \in 1..k /\ k - 1 = n /\ n <= k /\ n \in 0..n
      /\ \A i \in 1..n : batch[i] = b[i]
  BY DEF HasLen
<1> HIDE DEF n, k, b
<1>2. PICK g : Upserted(table, batch, base, n, g) /\ UpsertAll(table, batch, base) = g[n]
  BY <1>1, UpsertAllIs
<1>3. PICK h : Upserted(table, b, base, k, h) /\ UpsertAll(table, b, base) = h[k]
  BY <1>1, UpsertAllIs
<1>4. h[k] = Upsert(h[k - 1], b[k], base + k)
  <2>1. \A i \in 1..k : h[i] = Upsert(h[i - 1], b[i], base + i)
    <3>1. k \in Nat
      BY <1>1
    <3> QED BY <1>3, <3>1, UpsertedStep
  <2> QED BY <1>1, <2>1
<1>5. g[n] = h[n]
  <2>1. \A i \in 0..n : g[i] = h[i]
    <3>1. n \in Nat /\ k \in Nat /\ n <= k /\ SameUpTo(batch, b, n)
      BY <1>1 DEF SameUpTo
    <3> QED BY <1>2, <1>3, <3>1, UpsertedAgree
  <2> QED BY <1>1, <2>1
<1>6. UpsertAll(table, b, base) = Upsert(UpsertAll(table, batch, base), m, base + k)
  BY <1>1, <1>2, <1>3, <1>4, <1>5
<1> QED BY <1>6 DEF b, k

(* What holds of the empty batch, and of a batch with one more mutation, is
   shown of every batch: the form in which Induction is used here.         *)
LEMMA BatchInduction ==
  ASSUME NEW S, NEW T \in SUBSET Seq(S), <<>> \in T,
         \A b \in T, m \in S : Append(b, m) \in T
  PROVE  Seq(S) \subseteq T
<1> DEFINE P == {n \in Nat : \A b \in Seq(S) : Len(b) = n => b \in T}
<1>1. 0 \in P
  OBVIOUS
<1>2. ASSUME NEW n \in Nat, n \in P PROVE n + 1 \in P
  <2> SUFFICES ASSUME NEW b \in Seq(S), Len(b) = n + 1 PROVE b \in T
    OBVIOUS
  <2>1. b # <<>>
    OBVIOUS
  <2>2. PICK c \in Seq(S), m \in S : b = Append(c, m)
    BY <2>1, SequenceEmptyOrAppend
  <2>3. Len(c) = n
    BY <2>2
  <2>4. c \in T
    BY <1>2, <2>3
  <2> QED BY <2>2, <2>4
<1>3. \A n \in Nat : n \in P
  <2> HIDE DEF P
  <2> QED BY <1>1, <1>2, Induction
<1> QED BY <1>3

LEMMA UpsertAllConcat ==
  ASSUME NEW S, NEW a \in Seq(S), NEW b \in Seq(S), NEW table, NEW base \in Nat
  PROVE  UpsertAll(table, a \o b, base)
           = UpsertAll(UpsertAll(table, a, base), b, base + Len(a))
<1> DEFINE u == UpsertAll(table, a, base)
           T == {c \in Seq(S) : UpsertAll(table, a \o c, base) = UpsertAll(u, c, base + Len(a))}
<1>1. <<>> \in T
  <2>1. a \o <<>> = a /\ base + Len(a) \in Nat /\ <<>> \in Seq(S)
    OBVIOUS
  <2> HIDE DEF u
  <2>2. UpsertAll(u, <<>>, base + Len(a)) = u
    BY <2>1, UpsertAllEmpty
  <2> QED BY <2>1, <2>2 DEF u
<1>2. ASSUME NEW c \in T, NEW m \in S PROVE Append(c, m) \in T
  <2> DEFINE k == Len(c) + 1
  <2>1. /\ c \in Seq(S) /\ Append(c, m) \in Seq(S) /\ a \o c \in Seq(S) /\ base + Len(a) \in Nat
        /\ a \o Append(c, m) = Append(a \o c, m)
        /\ base + (Len(a \o c) + 1) = (base + Len(a)) + (Len(c) + 1)
    OBVIOUS
  <2>2. UpsertAll(table, Append(a \o c, m), base)
          = Upsert(UpsertAll(table, a \o c, base), m, base + (Len(a \o c) + 1))
    BY <2>1, UpsertAllAppend
  <2>3. UpsertAll(u, Append(c, m), base + Len(a))
          = Upsert(UpsertAll(u, c, base + Len(a)), m, (base + Len(a)) + (Len(c) + 1))
    <3> HIDE DEF u
    <3> QED BY <2>1, UpsertAllAppend
  <2>4. UpsertAll(table, a \o c, base) = UpsertAll(u, c, base + Len(a))
    OBVIOUS
  <2> HIDE DEF u
  <2> QED BY <2>1, <2>2, <2>3, <2>4
<1>3. b \in T
  <2>1. T \in SUBSET Seq(S)
    OBVIOUS
  <2> HIDE DEF T
  <2> QED BY <1>1, <1>2, <2>1, BatchInduction
<1> HIDE DEF u
<1> QED BY <1>3 DEF u

-----------------------------------------------------------------------------
(* What a batch b leaves of a table t in v: the other rows, every first
   sequence, and in a row that the batch names one of the items it names.  *)
Named(b, i) == \E k \in 1..Len(b) : b[k].item.id = i

Replaced(t, b, base, v) ==
  /\ \A i : i \in DOMAIN v <=> i \in DOMAIN t \/ Named(b, i)
  /\ \A i \in DOMAIN t : v[i].first = t[i].first /\ (Named(b, i) \/ v[i] = t[i])
  /\ \A i \in DOMAIN v : i \notin DOMAIN t => v[i].first \in (base + 1)..(base + Len(b))
  /\ \A i \in DOMAIN v : Named(b, i) =>
        \E k \in 1..Len(b) : b[k].item.id = i /\ v[i].item = b[k].item

LEMMA UpsertFields ==
  ASSUME NEW t, NEW m, NEW n
  PROVE  LET v == Upsert(t, m, n) IN
         /\ \A i : i \in DOMAIN v <=> i \in DOMAIN t \/ i = m.item.id
         /\ \A i \in DOMAIN t : i # m.item.id => v[i] = t[i]
         /\ LET i == m.item.id
            IN  /\ v[i].first = IF i \in DOMAIN t THEN t[i].first ELSE n
                /\ v[i].last = n
                /\ v[i].item = m.item
BY DEF Upsert

LEMMA ReplacedStep ==
  ASSUME NEW S, NEW b \in Seq(S), NEW m \in S, NEW t, NEW base \in Nat, NEW v,
         Replaced(t, b, base, v)
  PROVE  Replaced(t, Append(b, m), base, Upsert(v, m, base + (Len(b) + 1)))
<1> DEFINE c == Append(b, m)
           w == Upsert(v, m, base + (Len(b) + 1))
<1>1. /\ Len(c) = Len(b) + 1 /\ Len(b) \in Nat /\ c[Len(c)] = m
      /\ \A k \in 1..Len(b) : c[k] = b[k] /\ k \in 1..Len(c)
      /\ \A k \in 1..Len(c) : k \in 1..Len(b) \/ k = Len(c)
      /\ Len(c) \in 1..Len(c)
  OBVIOUS
<1> HIDE DEF c
<1>2. \A i : Named(c, i) <=> Named(b, i) \/ i = m.item.id
  BY <1>1 DEF Named
<1>3. /\ \A i : i \in DOMAIN w <=> i \in DOMAIN v \/ i = m.item.id
      /\ \A i \in DOMAIN v : i # m.item.id => w[i] = v[i]
      /\ w[m.item.id].first = IF m.item.id \in DOMAIN v THEN v[m.item.id].first
                              ELSE base + (Len(b) + 1)
      /\ w[m.item.id].item = m.item
  BY UpsertFields
<1> HIDE DEF w
<1>4. \A i : i \in DOMAIN w <=> i \in DOMAIN t \/ Named(c, i)
  BY <1>2, <1>3 DEF Replaced
<1>5. ASSUME NEW i \in DOMAIN t PROVE w[i].first = t[i].first /\ (Named(c, i) \/ w[i] = t[i])
  BY <1>2, <1>3 DEF Replaced
<1>6. ASSUME NEW i \in DOMAIN w, i \notin DOMAIN t
      PROVE  w[i].first \in (base + 1)..(base + Len(c))
  <2>1. i \in DOMAIN v => v[i].first \in (base + 1)..(base + Len(b))
    BY <1>6 DEF Replaced
  <2>2. (base + 1)..(base + Len(b)) \subseteq (base + 1)..(base + Len(c))
        /\ base + (Len(b) + 1) \in (base + 1)..(base + Len(c))
    BY <1>1
  <2> QED BY <1>3, <2>1, <2>2
<1>7. ASSUME NEW i \in DOMAIN w, Named(c, i)
      PROVE  \E k \in 1..Len(c) : c[k].item.id = i /\ w[i].item = c[k].item
  <2>1. CASE i = m.item.id
    BY <1>1, <1>3, <2>1
  <2>2. CASE i # m.item.id
    <3>1. i \in DOMAIN v /\ Named(b, i) /\ w[i] = v[i]
      BY <1>2, <1>3, <1>7, <2>2
    <3>2. PICK k \in 1..Len(b) : b[k].item.id = i /\ v[i].item = b[k].item
      BY <3>1 DEF Replaced
    <3> QED BY <1>1, <3>1, <3>2
  <2> QED BY <2>1, <2>2
<1>8. Replaced(t, c, base, w)
  BY <1>4, <1>5, <1>6, <1>7 DEF Replaced
<1> QED BY <1>8 DEF c, w

LEMMA UpsertAllReplaced ==
  ASSUME NEW S, NEW b \in Seq(S), NEW t, NEW base \in Nat
  PROVE  Replaced(t, b, base, UpsertAll(t, b, base))
<1> DEFINE T == {c \in Seq(S) : Replaced(t, c, base, UpsertAll(t, c, base))}
<1>1. <<>> \in T
  <2>1. \A i : ~Named(<<>>, i)
    BY DEF Named
  <2>2. UpsertAll(t, <<>>, base) = t
    BY UpsertAllEmpty
  <2>3. Replaced(t, <<>>, base, t)
    BY <2>1 DEF Replaced
  <2> QED BY <2>2, <2>3
<1>2. ASSUME NEW c \in T, NEW m \in S PROVE Append(c, m) \in T
  <2>1. c \in Seq(S) /\ Append(c, m) \in Seq(S) /\ Replaced(t, c, base, UpsertAll(t, c, base))
    OBVIOUS
  <2>2. UpsertAll(t, Append(c, m), base) = Upsert(UpsertAll(t, c, base), m, base + (Len(c) + 1))
    BY <2>1, UpsertAllAppend
  <2>3. Replaced(t, Append(c, m), base, Upsert(UpsertAll(t, c, base), m, base + (Len(c) + 1)))
    BY <2>1, ReplacedStep
  <2> QED BY <2>1, <2>2, <2>3
<1>3. b \in T
  <2>1. T \in SUBSET Seq(S)
    OBVIOUS
  <2> HIDE DEF T
  <2> QED BY <1>1, <1>2, <2>1, BatchInduction
<1> QED BY <1>3

-----------------------------------------------------------------------------
(* The table t is what replaying the sequence of mutations l gives.        *)
Replays(l, t) ==
  /\ \A i : i \in DOMAIN t <=> Named(l, i)
  /\ \A i \in DOMAIN t :
        /\ t[i].first \in 1..Len(l) /\ l[t[i].first].item.id = i
        /\ t[i].last \in 1..Len(l) /\ l[t[i].last].item.id = i
        /\ \A n \in 1..Len(l) : l[n].item.id = i => t[i].first <= n /\ n <= t[i].last
        /\ t[i].item = l[t[i].last].item

LEMMA ReplaysStep ==
  ASSUME NEW S, NEW l \in Seq(S), NEW m \in S, NEW t, Replays(l, t)
  PROVE  Replays(Append(l, m), Upsert(t, m, Len(l) + 1))
<1> DEFINE c == Append(l, m)
           n == Len(l) + 1
           w == Upsert(t, m, n)
<1>1. /\ Len(c) = n /\ n \in Nat /\ c[n] = m /\ n \in 1..n
      /\ \A k \in 1..Len(l) : c[k] = l[k] /\ k \in 1..n /\ k <= n
      /\ \A k \in 1..n : k \in 1..Len(l) \/ k = n
  OBVIOUS
<1> HIDE DEF c
<1>2. \A i : Named(c, i) <=> Named(l, i) \/ i = m.item.id
  BY <1>1 DEF Named
<1>3. /\ \A i : i \in DOMAIN w <=> i \in DOMAIN t \/ i = m.item.id
      /\ \A i \in DOMAIN t : i # m.item.id => w[i] = t[i]
      /\ w[m.item.id].first = IF m.item.id \in DOMAIN t THEN t[m.item.id].first ELSE n
      /\ w[m.item.id].last = n
      /\ w[m.item.id].item = m.item
  BY UpsertFields
<1> HIDE DEF w
<1>4. \A i : i \in DOMAIN w <=> Named(c, i)
  BY <1>2, <1>3 DEF Replays
<1>5. ASSUME NEW i \in DOMAIN w
      PROVE  /\ w[i].first \in 1..Len(c) /\ c[w[i].first].item.id = i
             /\ w[i].last \in 1..Len(c) /\ c[w[i].last].item.id = i
             /\ \A k \in 1..Len(c) : c[k].item.id = i => w[i].first <= k /\ k <= w[i].last
             /\ w[i].item = c[w[i].last].item
  <2>1. CASE i # m.item.id
    <3>1. i \in DOMAIN t /\ w[i] = t[i]
      BY <1>3, <2>1
    <3>2. /\ t[i].first \in 1..Len(l) /\ l[t[i].first].item.id = i
          /\ t[i].last \in 1..Len(l) /\ l[t[i].last].item.id = i
          /\ \A k \in 1..Len(l) : l[k].item.id = i => t[i].first <= k /\ k <= t[i].last
          /\ t[i].item = l[t[i].last].item
      BY <3>1 DEF Replays
    <3> HIDE DEF n
    <3> QED BY <1>1, <2>1, <3>1, <3>2
  <2>2. CASE i = m.item.id /\ i \in DOMAIN t
    <3>1. w[i].first = t[i].first /\ w[i].last = n /\ w[i].item = m.item
      BY <1>3, <2>2
    <3>2. /\ t[i].first \in 1..Len(l) /\ l[t[i].first].item.id = i
          /\ \A k \in 1..Len(l) : l[k].item.id = i => t[i].first <= k
      BY <2>2 DEF Replays
    <3> HIDE DEF n
    <3> QED BY <1>1, <2>2, <3>1, <3>2
  <2>3. CASE i = m.item.id /\ i \notin DOMAIN t
    <3>1. w[i].first = n /\ w[i].last = n /\ w[i].item = m.item
      BY <1>3, <2>3
    <3>2. \A k \in 1..Len(l) : l[k].item.id # i
      BY <2>3 DEF Replays, Named
    <3> HIDE DEF n
    <3> QED BY <1>1, <2>3, <3>1, <3>2
  <2> QED BY <2>1, <2>2, <2>3
<1>6. Replays(c, w)
  BY <1>4, <1>5 DEF Replays
<1> QED BY <1>6 DEF c, w

LEMMA ReplaysBatch ==
  ASSUME NEW S, NEW l \in Seq(S), NEW b \in Seq(S), NEW t, Replays(l, t)
  PROVE  Replays(l \o b, UpsertAll(t, b, Len(l)))
<1> DEFINE T == {c \in Seq(S) : Replays(l \o c, UpsertAll(t, c, Len(l)))}
<1>1. <<>> \in T
  <2>1. l \o <<>> = l /\ Len(l) \in Nat /\ <<>> \in Seq(S)
    OBVIOUS
  <2>2. UpsertAll(t, <<>>, Len(l)) = t
    BY <2>1, UpsertAllEmpty
  <2> QED BY <2>1, <2>2
<1>2. ASSUME NEW c \in T, NEW m \in S PROVE Append(c, m) \in T
  <2>1. /\ c \in Seq(S) /\ Append(c, m) \in Seq(S) /\ l \o c \in Seq(S) /\ Len(l) \in Nat
        /\ l \o Append(c, m) = Append(l \o c, m) /\ Len(l) + (Len(c) + 1) = Len(l \o c) + 1
        /\ Replays(l \o c, UpsertAll(t, c, Len(l)))
    OBVIOUS
  <2>2. UpsertAll(t, Append(c, m), Len(l))
          = Upsert(UpsertAll(t, c, Len(l)), m, Len(l) + (Len(c) + 1))
    BY <2>1, UpsertAllAppend
  <2>3. Replays(Append(l \o c, m), Upsert(UpsertAll(t, c, Len(l)), m, Len(l \o c) + 1))
    BY <2>1, ReplaysStep
  <2> QED BY <2>1, <2>2, <2>3
<1>3. b \in T
  <2>1. T \in SUBSET Seq(S)
    OBVIOUS
  <2> HIDE DEF T
  <2> QED BY <1>1, <1>2, <2>1, BatchInduction
<1> QED BY <1>3

(* The strengthening of RowsReplayLog: the log is a sequence of S.          *)
LogOf(S) == log \in Seq(S) /\ last = Len(log) /\ Replays(log, rows)

LEMMA LogOfReplays ==
  ASSUME NEW S, LogOf(S) PROVE RowsReplayLog /\ last \in Nat
<1>1. DOMAIN log = 1..last /\ last \in Nat /\ Len(log) = last
  BY DEF LogOf
<1>2. DOMAIN rows = {log[n].item.id : n \in DOMAIN log}
  <2>1. \A i : i \in DOMAIN rows <=> Named(log, i)
    BY DEF LogOf, Replays
  <2>2. \A i : Named(log, i) <=> \E n \in DOMAIN log : log[n].item.id = i
    BY <1>1 DEF Named
  <2> QED BY <2>1, <2>2
<1>3. ASSUME NEW i \in DOMAIN rows
      PROVE  /\ {rows[i].first, rows[i].last} \subseteq Mutations(i)
             /\ \A n \in Mutations(i) : n \in rows[i].first..rows[i].last
             /\ rows[i].item = log[rows[i].last].item
  <2>1. /\ rows[i].first \in 1..last /\ log[rows[i].first].item.id = i
        /\ rows[i].last \in 1..last /\ log[rows[i].last].item.id = i
        /\ \A n \in 1..last : log[n].item.id = i => rows[i].first <= n /\ n <= rows[i].last
        /\ rows[i].item = log[rows[i].last].item
    BY <1>1 DEF LogOf, Replays
  <2>2. rows[i].first \in Mutations(i) /\ rows[i].last \in Mutations(i)
    BY <1>1, <2>1 DEF Mutations
  <2>3. ASSUME NEW n \in Mutations(i) PROVE n \in rows[i].first..rows[i].last
    <3>1. n \in 1..last /\ log[n].item.id = i
      BY <1>1, <2>3 DEF Mutations
    <3> QED BY <2>1, <3>1
  <2> QED BY <2>1, <2>2, <2>3
<1> QED BY <1>1, <1>2, <1>3 DEF RowsReplayLog

LEMMA LogOfInit == ASSUME NEW S, TablesInit PROVE LogOf(S)
<1>1. log \in Seq(S) /\ last = Len(log) /\ DOMAIN rows = {} /\ Len(log) = 0
  BY DEF TablesInit
<1>2. \A i : ~Named(log, i)
  BY <1>1 DEF Named
<1> QED BY <1>1, <1>2 DEF LogOf, Replays

(* A commit is refused when another one came before it, and puts its batch
   at the end of the log otherwise.                                        *)
Refused(base) == base < last /\ UNCHANGED tables

Committed(b) ==
  /\ rows' = UpsertAll(rows, b, last)
  /\ last' = last + Len(b)

LEMMA CommitOf ==
  ASSUME NEW S, LogOf(S), NEW b \in Seq(S), NEW base \in Nat, base <= last, b # <<>>,
         CommitBatch(b, base)
  PROVE  /\ LogOf(S)'
         /\ Taken(b, base) <=> base < last
         /\ base < last => Refused(base)
         /\ base = last => Committed(b)
<1>1. /\ log \in Seq(S) /\ DOMAIN log = 1..last /\ last \in Nat /\ Len(log) = last
      /\ Len(b) \in Nat /\ Len(b) >= 1
  BY EmptySeq DEF LogOf
<1>2. Taken(b, base) <=> base < last
  <2>1. ASSUME base < last PROVE base + 1 \in Numbers(b, base) \cap DOMAIN log
    BY <1>1, <2>1 DEF Numbers
  <2>2. ASSUME base = last PROVE Numbers(b, base) \cap DOMAIN log = {}
    BY <1>1, <2>2 DEF Numbers
  <2> QED BY <2>1, <2>2, <1>1 DEF Taken
<1>3. CASE base < last
  <2>1. UNCHANGED tables
    BY <1>2, <1>3 DEF CommitBatch
  <2>2. LogOf(S)'
    BY <2>1 DEF LogOf, tables
  <2> QED BY <1>1, <1>2, <1>3, <2>1, <2>2 DEF Refused
<1>4. CASE base = last
  <2>1. /\ rows' = UpsertAll(rows, b, last) /\ log' = InsertAll(b, last)
        /\ last' = last + Len(b)
    BY <1>1, <1>2, <1>4 DEF CommitBatch
  <2>2. log' = log \o b
    <3> DEFINE n == last + Len(b)
    <3>1. DOMAIN log \cup Numbers(b, last) = 1..n
      BY <1>1 DEF Numbers
    <3>2. InsertAll(b, last) = [k \in 1..n |-> IF k \in 1..last THEN log[k] ELSE b[k - last]]
      BY <1>1, <3>1 DEF InsertAll
    <3> DEFINE f == [k \in 1..n |-> IF k \in 1..last THEN log[k] ELSE b[k - last]]
    <3>3. ASSUME NEW k \in 1..n PROVE f[k] \in S /\ f[k] = (log \o b)[k]
      <4>1. k \notin 1..last => k - last \in 1..Len(b)
        BY <1>1
      <4> QED BY <1>1, <4>1
    <3>4. f \in Seq(S) /\ Len(f) = n
      <4>1. n \in Nat /\ \A k \in 1..n : f[k] \in S
        BY <1>1, <3>3
      <4> QED BY <4>1
    <3>5. log \o b \in Seq(S) /\ Len(log \o b) = n
      BY <1>1
    <3>6. f = log \o b
      <4> HIDE DEF f, n
      <4> QED BY <3>3, <3>4, <3>5, SeqEqual
    <3> QED BY <2>1, <3>2, <3>6
  <2>3. Replays(log', rows')
    <3>1. Replays(log, rows)
      BY DEF LogOf
    <3>2. Replays(log \o b, UpsertAll(rows, b, Len(log)))
      BY <1>1, <3>1, ReplaysBatch
    <3> QED BY <1>1, <2>1, <2>2, <3>2
  <2>4. log' \in Seq(S) /\ Len(log') = last'
    BY <1>1, <2>1, <2>2
  <2> QED BY <1>1, <1>2, <1>4, <2>1, <2>3, <2>4 DEF LogOf, Committed
<1> QED BY <1>1, <1>3, <1>4

-----------------------------------------------------------------------------
(* Types.                                                                  *)
Kinds == {"reasoning", "assistant", "user", "tool", "plan", "plan_snapshot", "permission"}
Marks == {None, "finalAnswer", "partialAnswer"}
AllLines == UNION {Lines[u] : u \in Turns}
Keys == {Unknown, None} \cup {l.key : l \in AllLines}
Statuses ==
  {None, "pending", "active_hidden", "completed_visible", "requesting", "approved", "unknown"}
    \cup {l.status : l \in AllLines}

Ids == [space: {"seg", "msg", "tool", "plan", "permission"}, of: Turns \cup {Session},
        key: Nat \cup Keys, kind: Kinds]

Fields == [id: Ids, turn: Turns, kind: Kinds, text: Seq(Nat), status: Statuses,
           streaming: BOOLEAN, mark: Marks]

(* What the id of a card says about it.                                    *)
Shape(i) ==
  /\ i.status # None <=> i.kind \notin Text \cup {"user"}
  /\ i.id.kind = IF i.kind = "plan_snapshot" THEN "plan" ELSE i.kind
  /\ i.id.kind = "plan" => i.id = PlanId(i.turn)
  /\ i.id.space = "seg" => i.id.of = i.turn /\ i.id.key \in Nat
  /\ i.streaming => i.kind \in Text \cup {"tool"}
  /\ i.mark # None => i.kind = "assistant"

Items == {i \in Fields : Shape(i)}
Ops == {"add", "update", "plan", "plan_finalize"}
Muts == [op: Ops, item: Items]

Reducers == [items: Seq(Items), open: Seq(Ids), ordinal: Nat, pending: Seq(Muts)]

Positions(r) == 1..Len(r.items)

LEMMA ItemFields ==
  ASSUME NEW i \in Items
  PROVE  /\ i.id \in Ids /\ i.turn \in Turns /\ i.kind \in Kinds /\ i.text \in Seq(Nat)
         /\ i.status \in Statuses /\ i.streaming \in BOOLEAN /\ i.mark \in Marks
         /\ Shape(i)
BY DEF Items, Fields

LEMMA ReducerFields ==
  ASSUME NEW r \in Reducers
  PROVE  /\ r.items \in Seq(Items) /\ r.open \in Seq(Ids) /\ r.ordinal \in Nat
         /\ r.pending \in Seq(Muts) /\ Len(r.items) \in Nat
         /\ \A k \in Positions(r) : r.items[k] \in Items
BY DEF Reducers, Positions

-----------------------------------------------------------------------------
(* Where an item is found.                                                 *)
LEMMA PositionFinds ==
  ASSUME NEW r \in Reducers, NEW id
  PROVE  LET p == Position(r, id) IN
         /\ p = 0 => \A k \in Positions(r) : r.items[k].id # id
         /\ p # 0 => /\ p \in Positions(r) /\ r.items[p].id = id
                     /\ \A k \in Positions(r) : r.items[k].id = id => p <= k
<1> DEFINE I == {k \in 1..Len(r.items) : r.items[k].id = id}
<1>1. Position(r, id) = IF I # {} THEN Min(I) ELSE 0
  BY DEF Position, SelectInSeq
<1>2. Len(r.items) \in Nat
  BY ReducerFields
<1>3. CASE I = {}
  BY <1>1, <1>3 DEF Positions
<1>4. CASE I # {}
  <2>1. Min(I) \in I /\ \A i \in I : Min(I) <= i
    <3>1. I \in SUBSET (1..Len(r.items))
      OBVIOUS
    <3> HIDE DEF I
    <3> QED BY <1>2, <1>4, <3>1, FirstPosition
  <2>2. Position(r, id) = Min(I) /\ Position(r, id) # 0
    BY <1>1, <1>4, <2>1
  <2> QED BY <2>1, <2>2 DEF Positions
<1> QED BY <1>3, <1>4

LEMMA LastOfFinds ==
  ASSUME NEW r \in Reducers, NEW kind
  PROVE  LET p == LastOf(r, kind) IN
         /\ p = 0 => \A k \in Positions(r) : r.items[k].kind # kind
         /\ p # 0 => /\ p \in Positions(r) /\ r.items[p].kind = kind
                     /\ \A k \in Positions(r) : r.items[k].kind = kind => k <= p
<1> DEFINE I == {k \in 1..Len(r.items) : r.items[k].kind = kind}
<1>1. LastOf(r, kind) = IF I # {} THEN Max(I) ELSE 0
  BY DEF LastOf, SelectLastInSeq
<1>2. Len(r.items) \in Nat
  BY ReducerFields
<1>3. CASE I = {}
  BY <1>1, <1>3 DEF Positions
<1>4. CASE I # {}
  <2>1. Max(I) \in I /\ \A i \in I : i <= Max(I)
    <3>1. I \in SUBSET (1..Len(r.items))
      OBVIOUS
    <3> HIDE DEF I
    <3> QED BY <1>2, <1>4, <3>1, LastPosition
  <2>2. LastOf(r, kind) = Max(I) /\ LastOf(r, kind) # 0
    BY <1>1, <1>4, <2>1
  <2> QED BY <2>1, <2>2 DEF Positions
<1> QED BY <1>3, <1>4

-----------------------------------------------------------------------------
(* The rows v mirror the items of a reducer, up to the sequence top, F
   being the ids of the other turns: every item has a row, and an item that
   has its id for itself is stored as it is, behind those before it.       *)
Own(items, k, F) ==
  /\ items[k].id \notin F
  /\ \A j \in 1..Len(items) : items[j].id = items[k].id => j = k

Mirror(items, v, top, F) ==
  /\ \A i \in DOMAIN v : /\ i \in F \/ \E k \in 1..Len(items) : items[k].id = i
                         /\ v[i].first \in 1..top
  /\ \A k \in 1..Len(items) :
        /\ items[k].id \in DOMAIN v
        /\ Own(items, k, F) =>
              /\ v[items[k].id].item = items[k]
              /\ \A j \in 1..Len(items) :
                    j < k => v[items[j].id].first < v[items[k].id].first

(* From r to rr, the changes are recorded in q: at most one item is new, at
   the end, and q holds every item that is new or changed, as it is in rr. *)
Recorded(r, rr, q) ==
  /\ q \in Seq(Muts)
  /\ rr.pending = r.pending \o q
  /\ Len(rr.items) = Len(r.items) \/ Len(rr.items) = Len(r.items) + 1
  /\ \A k \in Positions(r) :
        /\ rr.items[k].id = r.items[k].id
        /\ rr.items[k].turn = r.items[k].turn
        /\ rr.items[k] = r.items[k] \/ \E p \in 1..Len(q) : q[p].item = rr.items[k]
  /\ \A k \in Positions(rr) :
        k \notin Positions(r) => \E p \in 1..Len(q) : q[p].item = rr.items[k]
  /\ \A p \in 1..Len(q) : \E k \in Positions(rr) : q[p].item = rr.items[k]

LEMMA MirrorStep ==
  ASSUME NEW r \in Reducers, NEW rr \in Reducers, NEW q, Recorded(r, rr, q),
         NEW v, NEW top \in Nat, NEW F, Mirror(r.items, v, top, F)
  PROVE  Mirror(rr.items, UpsertAll(v, q, top), top + Len(q), F)
<1> DEFINE w == UpsertAll(v, q, top)
           n == Len(r.items)
           m == Len(rr.items)
<1>1. /\ n \in Nat /\ m \in Nat /\ (m = n \/ m = n + 1) /\ Len(q) \in Nat
      /\ 1..n \subseteq 1..m
      /\ \A k \in 1..m : k \notin 1..n => k = n + 1
  BY ReducerFields DEF Recorded
<1>2. /\ \A k \in 1..n : /\ rr.items[k].id = r.items[k].id
                         /\ rr.items[k] = r.items[k] \/ \E p \in 1..Len(q) : q[p].item = rr.items[k]
      /\ \A k \in 1..m : k \notin 1..n => \E p \in 1..Len(q) : q[p].item = rr.items[k]
      /\ \A p \in 1..Len(q) : \E k \in 1..m : q[p].item = rr.items[k]
  BY DEF Recorded, Positions
<1>3. Replaced(v, q, top, w)
  BY UpsertAllReplaced DEF Recorded
<1>4. /\ \A i \in DOMAIN v : /\ i \in F \/ \E k \in 1..n : r.items[k].id = i
                             /\ v[i].first \in 1..top
      /\ \A k \in 1..n : r.items[k].id \in DOMAIN v
      /\ \A k \in 1..n : Own(r.items, k, F) =>
            /\ v[r.items[k].id].item = r.items[k]
            /\ \A j \in 1..n : j < k => v[r.items[j].id].first < v[r.items[k].id].first
  BY DEF Mirror
<1>5. \A k \in 1..n : Own(rr.items, k, F) => Own(r.items, k, F)
  BY <1>1, <1>2 DEF Own
<1>6. \A k, j \in 1..m : Own(rr.items, k, F) /\ rr.items[j].id = rr.items[k].id => j = k
  BY DEF Own
<1>7. \A k \in 1..m : Own(rr.items, k, F) => rr.items[k].id \notin F
  BY DEF Own
<1> HIDE DEF w, n, m
<1>8. /\ \A i : i \in DOMAIN w <=> i \in DOMAIN v \/ Named(q, i)
      /\ \A i \in DOMAIN v : w[i].first = v[i].first /\ (Named(q, i) \/ w[i] = v[i])
      /\ \A i \in DOMAIN w : i \notin DOMAIN v => w[i].first \in (top + 1)..(top + Len(q))
      /\ \A i \in DOMAIN w : Named(q, i) =>
            \E k \in 1..Len(q) : q[k].item.id = i /\ w[i].item = q[k].item
  BY <1>3 DEF Replaced
(* Whatever q names is an item of rr, and what is new in rr is named.      *)
<1>9. /\ \A i : Named(q, i) => \E k \in 1..m : rr.items[k].id = i
      /\ \A k \in 1..m : k \notin 1..n => Named(q, rr.items[k].id)
      /\ \A k \in 1..n : Named(q, rr.items[k].id) \/ rr.items[k] = r.items[k]
  BY <1>2 DEF Named
<1>10. ASSUME NEW i \in DOMAIN w
       PROVE  /\ i \in F \/ \E k \in 1..m : rr.items[k].id = i
              /\ w[i].first \in 1..(top + Len(q))
  <2>1. i \in F \/ \E k \in 1..m : rr.items[k].id = i
    <3>1. CASE Named(q, i)
      BY <1>9, <3>1
    <3>2. CASE ~Named(q, i)
      <4>1. i \in DOMAIN v
        BY <1>8, <3>2
      <4>2. i \in F \/ \E k \in 1..n : r.items[k].id = i
        BY <1>4, <4>1
      <4>3. \A k \in 1..n : k \in 1..m /\ rr.items[k].id = r.items[k].id
        BY <1>1, <1>2
      <4> QED BY <4>2, <4>3
    <3> QED BY <3>1, <3>2
  <2>2. CASE i \in DOMAIN v
    <3>1. v[i].first \in 1..top /\ w[i].first = v[i].first
      BY <1>4, <1>8, <2>2
    <3> QED BY <1>1, <2>1, <3>1
  <2>3. CASE i \notin DOMAIN v
    <3>1. w[i].first \in (top + 1)..(top + Len(q))
      BY <1>8, <2>3
    <3> QED BY <1>1, <2>1, <3>1
  <2> QED BY <2>2, <2>3
<1>11. ASSUME NEW k \in 1..m PROVE rr.items[k].id \in DOMAIN w
  BY <1>2, <1>4, <1>8, <1>9
<1>12. ASSUME NEW k \in 1..m, Own(rr.items, k, F)
       PROVE  w[rr.items[k].id].item = rr.items[k]
  <2>1. CASE Named(q, rr.items[k].id)
    <3>1. PICK p \in 1..Len(q) : /\ q[p].item.id = rr.items[k].id
                                 /\ w[rr.items[k].id].item = q[p].item
      BY <1>8, <1>11, <2>1
    <3>2. PICK j \in 1..m : q[p].item = rr.items[j]
      BY <1>2
    <3>3. j = k
      BY <1>6, <1>12, <3>1, <3>2
    <3> QED BY <3>1, <3>2, <3>3
  <2>2. CASE ~Named(q, rr.items[k].id)
    <3>1. k \in 1..n /\ rr.items[k] = r.items[k]
      BY <1>9, <2>2
    <3>2. v[r.items[k].id].item = r.items[k] /\ w[r.items[k].id] = v[r.items[k].id]
      BY <1>4, <1>5, <1>8, <1>12, <2>2, <3>1
    <3> QED BY <3>1, <3>2
  <2> QED BY <2>1, <2>2
<1>13. ASSUME NEW k \in 1..m, Own(rr.items, k, F), NEW j \in 1..m, j < k
       PROVE  w[rr.items[j].id].first < w[rr.items[k].id].first
  <2>1. j \in 1..n
    BY <1>1, <1>13
  <2>2. /\ rr.items[j].id = r.items[j].id /\ r.items[j].id \in DOMAIN v
        /\ w[rr.items[j].id].first = v[r.items[j].id].first
        /\ v[r.items[j].id].first \in 1..top
    BY <1>2, <1>4, <1>8, <2>1
  <2>3. CASE k \in 1..n
    <3>1. v[r.items[j].id].first < v[r.items[k].id].first
      BY <1>4, <1>5, <1>13, <2>1, <2>3
    <3>2. w[rr.items[k].id].first = v[r.items[k].id].first
      BY <1>2, <1>4, <1>8, <2>3
    <3> QED BY <2>2, <3>1, <3>2
  <2>4. CASE k \notin 1..n
    <3>1. rr.items[k].id \notin DOMAIN v
      <4> SUFFICES ASSUME rr.items[k].id \in DOMAIN v PROVE FALSE
        OBVIOUS
      <4>1. PICK i \in 1..n : r.items[i].id = rr.items[k].id
        BY <1>4, <1>7, <1>13
      <4>2. i = k
        BY <1>1, <1>2, <1>6, <1>13, <4>1
      <4> QED BY <2>4, <4>2
    <3>2. w[rr.items[k].id].first \in (top + 1)..(top + Len(q))
      BY <1>8, <1>11, <3>1
    <3> QED BY <1>1, <2>2, <3>2
  <2> QED BY <2>3, <2>4
<1>14. /\ \A i \in DOMAIN w : /\ i \in F \/ \E k \in 1..Len(rr.items) : rr.items[k].id = i
                              /\ w[i].first \in 1..(top + Len(q))
       /\ \A k \in 1..Len(rr.items) :
             /\ rr.items[k].id \in DOMAIN w
             /\ Own(rr.items, k, F) =>
                   /\ w[rr.items[k].id].item = rr.items[k]
                   /\ \A j \in 1..Len(rr.items) :
                         j < k => w[rr.items[j].id].first < w[rr.items[k].id].first
  BY <1>10, <1>11, <1>12, <1>13 DEF m
<1> QED BY <1>14 DEF Mirror, w

-----------------------------------------------------------------------------
(* From the items a to the items b: no item goes, and the text of a segment
   only grows, and only that of the last one.                              *)
Grown(a, b) ==
  /\ Len(a) <= Len(b)
  /\ \A k \in 1..Len(a) :
        /\ b[k].id = a[k].id
        /\ b[k].turn = a[k].turn
        /\ a[k].id.space = "seg" => /\ IsPrefix(a[k].text, b[k].text)
                                    /\ b[k].text # a[k].text => k = Len(a)

(* A mutation m of a batch that led from a to b: it is of an item of b, and
   its text is on the way.                                                 *)
Between(a, b, m) ==
  \E k \in 1..Len(b) :
     /\ b[k].id = m.item.id
     /\ b[k].turn = m.item.turn
     /\ b[k].id.space = "seg" =>
           /\ IsPrefix(m.item.text, b[k].text)
           /\ k <= Len(a) => /\ IsPrefix(a[k].text, m.item.text)
                             /\ m.item.text # a[k].text => k = Len(a)

Mirrors(a, r) ==
  \A t, F : \A b \in Nat :
     Mirror(a, t, b, F) =>
         Mirror(r.items, UpsertAll(t, r.pending, b), b + Len(r.pending), F)

(* What the updates of a reducer do to items and pending mutations together,
   a being the items when pending was empty.                               *)
Tracks(a, r) ==
  /\ Grown(a, r.items)
  /\ \A p \in 1..Len(r.pending) : Between(a, r.items, r.pending[p])
  /\ Mirrors(a, r)

LEMMA GrownSelf == ASSUME NEW a \in Seq(Items) PROVE Grown(a, a)
<1>1. \A k \in 1..Len(a) : a[k].text \in Seq(Nat)
  BY ItemFields
<1>2. \A k \in 1..Len(a) : IsPrefix(a[k].text, a[k].text)
  BY <1>1, PrefixSelf
<1> QED BY <1>2 DEF Grown

LEMMA TracksSelf ==
  ASSUME NEW r \in Reducers, r.pending = <<>> PROVE Tracks(r.items, r)
<1>1. Grown(r.items, r.items)
  BY GrownSelf, ReducerFields
<1>2. Mirrors(r.items, r)
  <2> SUFFICES ASSUME NEW t, NEW F, NEW b \in Nat, Mirror(r.items, t, b, F)
               PROVE  Mirror(r.items, UpsertAll(t, <<>>, b), b + Len(<<>>), F)
    BY DEF Mirrors
  <2>1. UpsertAll(t, <<>>, b) = t /\ b + Len(<<>>) = b
    BY UpsertAllEmpty
  <2> QED BY <2>1
<1> QED BY <1>1, <1>2 DEF Tracks

LEMMA GrownStep ==
  ASSUME NEW a \in Seq(Items), NEW b \in Seq(Items), NEW c \in Seq(Items),
         Grown(a, b), Grown(b, c)
  PROVE  Grown(a, c)
<1>1. /\ Len(a) \in Nat /\ Len(b) \in Nat /\ Len(c) \in Nat
      /\ Len(a) <= Len(b) /\ Len(b) <= Len(c)
  BY DEF Grown
<1>2. ASSUME NEW k \in 1..Len(a)
      PROVE  /\ c[k].id = a[k].id /\ c[k].turn = a[k].turn
             /\ a[k].id.space = "seg" => /\ IsPrefix(a[k].text, c[k].text)
                                         /\ c[k].text # a[k].text => k = Len(a)
  <2>1. k \in 1..Len(b) /\ k \in 1..Len(c)
    BY <1>1
  <2>2. /\ b[k].id = a[k].id /\ b[k].turn = a[k].turn /\ c[k].id = b[k].id /\ c[k].turn = b[k].turn
        /\ a[k].id.space = "seg" => /\ IsPrefix(a[k].text, b[k].text)
                                    /\ IsPrefix(b[k].text, c[k].text)
                                    /\ b[k].text # a[k].text => k = Len(a)
                                    /\ c[k].text # b[k].text => k = Len(b)
    BY <2>1 DEF Grown
  <2>3. a[k].text \in Seq(Nat) /\ b[k].text \in Seq(Nat) /\ c[k].text \in Seq(Nat)
    BY <2>1, ItemFields
  <2>4. a[k].id.space = "seg" => IsPrefix(a[k].text, c[k].text)
    BY <2>2, <2>3, PrefixTransitive
  <2>5. a[k].id.space = "seg" /\ c[k].text # a[k].text => k = Len(a)
    BY <1>1, <2>2
  <2> QED BY <2>2, <2>4, <2>5
<1> QED BY <1>1, <1>2 DEF Grown

(* A mutation on the way from a to b is on the way to what b grows to.     *)
LEMMA BetweenGrown ==
  ASSUME NEW a \in Seq(Items), NEW b \in Seq(Items), NEW c \in Seq(Items),
         NEW m \in Muts, Between(a, b, m), Grown(b, c)
  PROVE  Between(a, c, m)
<1>1. PICK k \in 1..Len(b) :
         /\ b[k].id = m.item.id /\ b[k].turn = m.item.turn
         /\ b[k].id.space = "seg" =>
               /\ IsPrefix(m.item.text, b[k].text)
               /\ k <= Len(a) => /\ IsPrefix(a[k].text, m.item.text)
                                 /\ m.item.text # a[k].text => k = Len(a)
  BY DEF Between
<1>2. /\ k \in 1..Len(c) /\ c[k].id = b[k].id /\ c[k].turn = b[k].turn
      /\ b[k].id.space = "seg" => IsPrefix(b[k].text, c[k].text)
  BY DEF Grown
<1>3. b[k].text \in Seq(Nat) /\ c[k].text \in Seq(Nat) /\ m.item.text \in Seq(Nat)
  BY <1>2, ItemFields DEF Muts
<1>4. b[k].id.space = "seg" => IsPrefix(m.item.text, c[k].text)
  BY <1>1, <1>2, <1>3, PrefixTransitive
<1> QED BY <1>1, <1>2, <1>4 DEF Between

(* A mutation that holds an item of c, which b grew to.                    *)
LEMMA BetweenNew ==
  ASSUME NEW a \in Seq(Items), NEW b \in Seq(Items), NEW c \in Seq(Items),
         Grown(a, b), Grown(b, c), NEW m, NEW k \in 1..Len(c), m.item = c[k]
  PROVE  Between(a, c, m)
<1>1. Grown(a, c)
  BY GrownStep
<1>2. c[k].text \in Seq(Nat)
  BY ItemFields
<1>3. IsPrefix(c[k].text, c[k].text)
  BY <1>2, PrefixSelf
<1>4. Len(a) \in Nat /\ k \in Nat /\ (k <= Len(a) => k \in 1..Len(a))
  OBVIOUS
<1>5. k \in 1..Len(a) /\ c[k].id.space = "seg" =>
         /\ IsPrefix(a[k].text, c[k].text)
         /\ c[k].text # a[k].text => k = Len(a)
  BY <1>1 DEF Grown
<1> QED BY <1>3, <1>4, <1>5 DEF Between

LEMMA TracksStep ==
  ASSUME NEW a \in Seq(Items), NEW r \in Reducers, NEW rr \in Reducers, NEW q,
         Tracks(a, r), Recorded(r, rr, q), Grown(r.items, rr.items)
  PROVE  Tracks(a, rr)
<1>0. /\ r.items \in Seq(Items) /\ rr.items \in Seq(Items) /\ r.pending \in Seq(Muts)
      /\ rr.pending \in Seq(Muts) /\ q \in Seq(Muts) /\ rr.pending = r.pending \o q
  BY ReducerFields DEF Recorded
<1>1. Grown(a, rr.items)
  BY <1>0, GrownStep DEF Tracks
<1>2. ASSUME NEW p \in 1..Len(rr.pending) PROVE Between(a, rr.items, rr.pending[p])
  <2>1. CASE p \in 1..Len(r.pending)
    <3>1. rr.pending[p] = r.pending[p] /\ r.pending[p] \in Muts
      BY <1>0, <2>1
    <3>2. Between(a, r.items, r.pending[p])
      BY <2>1 DEF Tracks
    <3> QED BY <1>0, <3>1, <3>2, BetweenGrown
  <2>2. CASE p \notin 1..Len(r.pending)
    <3>1. p - Len(r.pending) \in 1..Len(q) /\ rr.pending[p] = q[p - Len(r.pending)]
      BY <1>0, <2>2
    <3>2. PICK k \in 1..Len(rr.items) : rr.pending[p].item = rr.items[k]
      BY <3>1 DEF Recorded, Positions
    <3>3. Grown(a, r.items)
      BY DEF Tracks
    <3> QED BY <1>0, <3>2, <3>3, BetweenNew
  <2> QED BY <2>1, <2>2
<1>3. Mirrors(a, rr)
  <2> SUFFICES ASSUME NEW t, NEW F, NEW b \in Nat, Mirror(a, t, b, F)
               PROVE  Mirror(rr.items, UpsertAll(t, rr.pending, b), b + Len(rr.pending), F)
    BY DEF Mirrors
  <2> DEFINE v == UpsertAll(t, r.pending, b)
             top == b + Len(r.pending)
  <2>1. top \in Nat /\ top + Len(q) = b + Len(rr.pending)
    BY <1>0
  <2>2. Mirror(r.items, v, top, F)
    BY DEF Tracks, Mirrors
  <2>3. UpsertAll(t, rr.pending, b) = UpsertAll(v, q, top)
    <3>1. UpsertAll(t, r.pending \o q, b) = UpsertAll(UpsertAll(t, r.pending, b), q, b + Len(r.pending))
      <4>1. r.pending \in Seq(Muts) /\ q \in Seq(Muts) /\ b \in Nat
        BY <1>0
      <4> QED BY ONLY <4>1, UpsertAllConcat, Zenon
    <3> QED BY <1>0, <3>1
  <2> HIDE DEF v, top
  <2>4. Mirror(rr.items, UpsertAll(v, q, top), top + Len(q), F)
    BY <2>1, <2>2, MirrorStep
  <2> QED BY <2>1, <2>3, <2>4
<1> QED BY <1>1, <1>2, <1>3 DEF Tracks

-----------------------------------------------------------------------------
(* TextOf, item by item.                                                   *)
Piece(i, kinds) == IF i.kind \in kinds THEN i.text ELSE <<>>

LEMMA TextOfPieces ==
  ASSUME NEW items \in Seq(Items), NEW kinds
  PROVE  LET ss == [k \in 1..Len(items) |-> Piece(items[k], kinds)] IN
         /\ ss \in Seq(Seq(Nat)) /\ Len(ss) = Len(items)
         /\ TextOf(items, kinds) = FlattenSeq(ss)
<1> DEFINE ss == [k \in 1..Len(items) |-> Piece(items[k], kinds)]
<1>1. ASSUME NEW k \in 1..Len(items) PROVE Piece(items[k], kinds) \in Seq(Nat)
  BY ItemFields DEF Piece
<1>2. ss \in Seq(Seq(Nat)) /\ Len(ss) = Len(items)
  BY <1>1
<1>3. TextOf(items, kinds) = FlattenSeq(ss)
  <2>1. DOMAIN items = 1..Len(items)
    OBVIOUS
  <2> QED BY <2>1 DEF TextOf, Piece
<1> QED BY <1>2, <1>3

LEMMA TextOfAppend ==
  ASSUME NEW items \in Seq(Items), NEW item \in Items, NEW kinds
  PROVE  /\ TextOf(items, kinds) \in Seq(Nat)
         /\ TextOf(Append(items, item), kinds) = TextOf(items, kinds) \o Piece(item, kinds)
<1> DEFINE b  == Append(items, item)
           ss == [k \in 1..Len(items) |-> Piece(items[k], kinds)]
           tt == [k \in 1..Len(b) |-> Piece(b[k], kinds)]
           x  == Piece(item, kinds)
<1>1. b \in Seq(Items) /\ Len(b) = Len(items) + 1 /\ b[Len(items) + 1] = item
      /\ \A k \in 1..Len(items) : b[k] = items[k]
  OBVIOUS
<1>2. /\ ss \in Seq(Seq(Nat)) /\ Len(ss) = Len(items) /\ TextOf(items, kinds) = FlattenSeq(ss)
      /\ tt \in Seq(Seq(Nat)) /\ Len(tt) = Len(b) /\ TextOf(b, kinds) = FlattenSeq(tt)
  <2> HIDE DEF b
  <2> QED BY <1>1, TextOfPieces
<1>3. x \in Seq(Nat)
  BY ItemFields DEF Piece
<1>4. tt = Append(ss, x)
  <2>1. Append(ss, x) \in Seq(Seq(Nat)) /\ Len(Append(ss, x)) = Len(b)
    BY <1>1, <1>2, <1>3
  <2>2. ASSUME NEW k \in 1..Len(b) PROVE tt[k] = Append(ss, x)[k]
    <3> HIDE DEF x
    <3> QED BY <1>1, <1>2, <1>3 DEF x
  <2> HIDE DEF tt, ss, x
  <2> QED BY <1>2, <2>1, <2>2, SeqEqual
<1>5. FlattenSeq(Append(ss, x)) = FlattenSeq(ss) \o x
  <2> HIDE DEF ss, x
  <2> QED BY <1>2, <1>3, FlattenAppend
<1>6. FlattenSeq(ss) \in Seq(Nat)
  <2> HIDE DEF ss
  <2> QED BY <1>2, FlattenElements DEF FlattenOK
<1> QED BY <1>2, <1>4, <1>5, <1>6

LEMMA TextOfSame ==
  ASSUME NEW a \in Seq(Items), NEW b \in Seq(Items), NEW kinds, Len(a) = Len(b),
         \A k \in 1..Len(a) : Piece(a[k], kinds) = Piece(b[k], kinds)
  PROVE  TextOf(a, kinds) = TextOf(b, kinds)
<1>1. [k \in 1..Len(a) |-> Piece(a[k], kinds)] = [k \in 1..Len(b) |-> Piece(b[k], kinds)]
  OBVIOUS
<1>2. /\ TextOf(a, kinds) = FlattenSeq([k \in 1..Len(a) |-> Piece(a[k], kinds)])
      /\ TextOf(b, kinds) = FlattenSeq([k \in 1..Len(b) |-> Piece(b[k], kinds)])
  BY TextOfPieces
<1> QED BY <1>1, <1>2

(* The text of the last item gets one chunk more.                          *)
LEMMA TextOfLonger ==
  ASSUME NEW a \in Seq(Items), NEW item \in Items, NEW kinds, NEW n \in Nat, a # <<>>,
         item.kind \in kinds, a[Len(a)].kind \in kinds,
         item.text = Append(a[Len(a)].text, n)
  PROVE  TextOf([a EXCEPT ![Len(a)] = item], kinds) = Append(TextOf(a, kinds), n)
<1>1. PICK f \in Seq(Items), x \in Items : a = Append(f, x)
  BY SequenceEmptyOrAppend
<1>2. Len(a) = Len(f) + 1 /\ a[Len(a)] = x
  BY <1>1
<1>3. [a EXCEPT ![Len(a)] = item] = Append(f, item)
  <2> DEFINE g == [a EXCEPT ![Len(a)] = item]
  <2>1. g \in Seq(Items) /\ Len(g) = Len(a) /\ Append(f, item) \in Seq(Items)
        /\ Len(Append(f, item)) = Len(a) /\ \A k \in 1..Len(a) : g[k] = Append(f, item)[k]
    <3>1. /\ g \in Seq(Items) /\ Len(g) = Len(a)
          /\ \A k \in 1..Len(a) : g[k] = IF k = Len(a) THEN item ELSE a[k]
      BY ReplaceElement
    <3>2. /\ Append(f, item) \in Seq(Items) /\ Len(Append(f, item)) = Len(f) + 1
          /\ \A k \in 1..(Len(f) + 1) : Append(f, item)[k] = IF k = Len(f) + 1 THEN item ELSE f[k]
      OBVIOUS
    <3>3. \A k \in 1..Len(a) : k # Len(a) => a[k] = f[k]
      BY <1>1, <1>2
    <3> HIDE DEF g
    <3> QED BY <1>2, <3>1, <3>2, <3>3
  <2> HIDE DEF g
  <2>2. g = Append(f, item)
    BY <2>1, SeqEqual
  <2> QED BY <2>2 DEF g
<1>4. /\ TextOf(f, kinds) \in Seq(Nat)
      /\ TextOf(a, kinds) = TextOf(f, kinds) \o x.text
      /\ TextOf(Append(f, item), kinds) = TextOf(f, kinds) \o item.text
  BY <1>1, <1>2, TextOfAppend DEF Piece
<1>5. x.text \in Seq(Nat) /\ item.text = Append(x.text, n)
  BY <1>2, ItemFields
<1>6. TextOf(f, kinds) \o Append(x.text, n) = Append(TextOf(f, kinds) \o x.text, n)
  <2>1. TextOf(f, kinds) \in Seq(Nat) /\ x.text \in Seq(Nat)
    BY <1>4, <1>5
  <2> QED BY ONLY <2>1, n \in Nat, ConcatAppend
<1> QED BY <1>3, <1>4, <1>5, <1>6

-----------------------------------------------------------------------------
(* The invariant of the reducer r of turn u.                               *)
AllOnce(items) == \A j, k \in 1..Len(items) : items[j].id = items[k].id => j = k

(* The open segment is the last item.                                      *)
OpenIsLast(r) ==
  \/ r.open = <<>>
  \/ /\ r.items # <<>>
     /\ r.open = <<r.items[Len(r.items)].id>>
     /\ r.items[Len(r.items)].kind \in Text
     /\ r.items[Len(r.items)].streaming

Sound(u, r) ==
  /\ r \in Reducers
  /\ \A k \in Positions(r) :
        /\ r.items[k].turn = u
        /\ r.items[k].id.space = "seg" => r.items[k].id.key <= r.ordinal
  /\ \A j, k \in Positions(r) :
        r.items[j].id.space = "seg" /\ r.items[j].id = r.items[k].id => j = k
  /\ OpenIsLast(r)

(* Only the open segment and tools stream.                                 *)
Streams(r) ==
  AllOnce(r.items) =>
     \A k \in Positions(r) : r.items[k].streaming =>
        r.items[k].kind = "tool" \/ (r.open # <<>> /\ k = Len(r.items))

(* Only the item at z is marked, and no reply follows it; z = 0: none is.  *)
Marked(r, z) ==
  \A k \in Positions(r) : r.items[k].mark # None =>
     k = z /\ \A j \in Positions(r) : j > k => r.items[j].kind # "assistant"

Hears(r, h) == AllOnce(r.items) => TextOf(r.items, Text) = h

Good(u, a, r, h, z) ==
  Sound(u, r) /\ Tracks(a, r) /\ Streams(r) /\ Marked(r, z) /\ Hears(r, h)

(* A step that changes the item at p to item: what is asked of it.         *)
Changed(u, r, rr, p, op, item) ==
  /\ r \in Reducers /\ rr \in Reducers
  /\ p \in Positions(r) /\ item \in Items
  /\ op \in Ops
  /\ rr.items = [r.items EXCEPT ![p] = item]
  /\ rr.pending = Append(r.pending, [op |-> op, item |-> item])
  /\ rr.ordinal = r.ordinal
  /\ item.id = r.items[p].id /\ item.turn = u

LEMMA ChangedItems ==
  ASSUME NEW u, NEW r, NEW rr, NEW p, NEW op, NEW item, Changed(u, r, rr, p, op, item)
  PROVE  /\ r.items \in Seq(Items) /\ rr.items \in Seq(Items) /\ Len(rr.items) = Len(r.items)
         /\ Len(r.items) \in Nat /\ Positions(rr) = Positions(r)
         /\ \A k \in Positions(r) : rr.items[k] = IF k = p THEN item ELSE r.items[k]
         /\ \A k \in Positions(r) : rr.items[k].id = r.items[k].id
         /\ AllOnce(rr.items) <=> AllOnce(r.items)
<1>1. r.items \in Seq(Items) /\ rr.items = [r.items EXCEPT ![p] = item] /\ item \in Items
  BY ReducerFields DEF Changed
<1>2. /\ rr.items \in Seq(Items) /\ Len(rr.items) = Len(r.items)
      /\ \A k \in 1..Len(r.items) : rr.items[k] = IF k = p THEN item ELSE r.items[k]
  <2> DEFINE g == [r.items EXCEPT ![p] = item]
  <2>1. /\ g \in Seq(Items) /\ Len(g) = Len(r.items)
        /\ \A k \in 1..Len(r.items) : g[k] = IF k = p THEN item ELSE r.items[k]
    <3>1. r.items \in Seq(Items) /\ item \in Items
      BY <1>1
    <3> QED BY ONLY <3>1, ReplaceElement
  <2> HIDE DEF g
  <2>2. rr.items = g
    BY <1>1 DEF g
  <2> QED BY <2>1, <2>2
<1>3. item.id = r.items[p].id
  BY DEF Changed
<1>4. \A k \in 1..Len(r.items) : rr.items[k].id = r.items[k].id
  BY <1>2, <1>3
<1>5. AllOnce(rr.items) <=> AllOnce(r.items)
  BY <1>2, <1>4 DEF AllOnce
<1> QED BY <1>1, <1>2, <1>4, <1>5 DEF Positions

LEMMA ChangedRecorded ==
  ASSUME NEW u, NEW r, NEW rr, NEW p, NEW op, NEW item, Changed(u, r, rr, p, op, item),
         r.items[p].turn = u
  PROVE  Recorded(r, rr, <<[op |-> op, item |-> item]>>)
<1> DEFINE m == [op |-> op, item |-> item]
           q == <<m>>
<1>1. m \in Muts /\ m.item = item
  BY DEF Changed, Muts
<1>2. q \in Seq(Muts) /\ Len(q) = 1 /\ q[1] = m /\ 1 \in 1..Len(q)
      /\ \A i \in 1..Len(q) : q[i] = m
  <2> HIDE DEF m
  <2> QED BY <1>1
<1>3. rr.pending = r.pending \o q
  <2>1. r.pending \in Seq(Muts) /\ rr.pending = Append(r.pending, m)
    BY ReducerFields DEF Changed
  <2> HIDE DEF m
  <2> QED BY <1>1, <2>1
<1> HIDE DEF q, m
<1>4. /\ Positions(rr) = Positions(r) /\ Len(rr.items) = Len(r.items) /\ p \in Positions(r)
      /\ \A k \in Positions(r) : rr.items[k] = IF k = p THEN item ELSE r.items[k]
      /\ \A k \in Positions(r) : rr.items[k].id = r.items[k].id
      /\ item.turn = r.items[p].turn
  <2>1. /\ Positions(rr) = Positions(r) /\ Len(rr.items) = Len(r.items)
        /\ \A k \in Positions(r) : rr.items[k] = IF k = p THEN item ELSE r.items[k]
        /\ \A k \in Positions(r) : rr.items[k].id = r.items[k].id
    BY ChangedItems
  <2>2. p \in Positions(r) /\ item.turn = u
    BY DEF Changed
  <2> QED BY <2>1, <2>2
<1>5. ASSUME NEW k \in Positions(r)
      PROVE  /\ rr.items[k].turn = r.items[k].turn
             /\ rr.items[k] = r.items[k] \/ \E i \in 1..Len(q) : q[i].item = rr.items[k]
  BY <1>1, <1>2, <1>4
<1>6. \A i \in 1..Len(q) : \E k \in Positions(rr) : q[i].item = rr.items[k]
  BY <1>1, <1>2, <1>4
<1>7. Recorded(r, rr, q)
  BY <1>2, <1>3, <1>4, <1>5, <1>6 DEF Recorded
<1> QED BY <1>7 DEF q, m

(* ChangeStep: a change keeps the invariant when ...                       *)
LEMMA ChangeStep ==
  ASSUME NEW u, NEW a \in Seq(Items), NEW r, NEW rr, NEW h, NEW hh, NEW z, NEW y,
         NEW p, NEW op, NEW item, Good(u, a, r, h, z), Changed(u, r, rr, p, op, item),
         (* ... the text of a segment only grows, and at the end, ...     *)
         item.id.space = "seg" =>
            IsPrefix(r.items[p].text, item.text)
              /\ (item.text # r.items[p].text => p = Len(r.items)),
         (* ... an open segment is closed or stays what it is, ...        *)
         rr.open = <<>> \/ (rr.open = r.open /\ (p = Len(r.items) =>
                               item.kind \in Text /\ item.streaming)),
         AllOnce(r.items) =>
            /\ item.streaming => item.kind = "tool" \/ (rr.open # <<>> /\ p = Len(r.items))
            /\ r.open # <<>> /\ rr.open = <<>> => p = Len(r.items),
         (* ... the marks are those of y, ...                             *)
         z = 0 \/ z = y,
         item.mark # None => p = y /\ \A j \in Positions(r) : j > p => r.items[j].kind # "assistant",
         item.kind = "assistant" => r.items[p].kind = "assistant",
         (* ... and the text is the one of hh.                            *)
         Hears(rr, hh)
  PROVE  Good(u, a, rr, hh, y)
<1>0. /\ r.items \in Seq(Items) /\ rr.items \in Seq(Items) /\ Len(rr.items) = Len(r.items)
      /\ Len(r.items) \in Nat /\ Positions(rr) = Positions(r) /\ Positions(r) = 1..Len(r.items)
      /\ \A k \in Positions(r) : rr.items[k] = IF k = p THEN item ELSE r.items[k]
      /\ \A k \in Positions(r) : rr.items[k].id = r.items[k].id
      /\ AllOnce(rr.items) <=> AllOnce(r.items)
  BY ChangedItems DEF Positions
<1>1. /\ r \in Reducers /\ rr \in Reducers /\ rr.ordinal = r.ordinal /\ p \in Positions(r)
      /\ item.id = r.items[p].id /\ item.turn = u
  BY DEF Changed
<1>2. /\ \A k \in Positions(r) : /\ r.items[k].turn = u
                                 /\ r.items[k].id.space = "seg" => r.items[k].id.key <= r.ordinal
      /\ \A j, k \in Positions(r) :
            r.items[j].id.space = "seg" /\ r.items[j].id = r.items[k].id => j = k
      /\ OpenIsLast(r)
  BY DEF Good, Sound
<1>3. OpenIsLast(rr)
  BY <1>0, <1>1, <1>2 DEF OpenIsLast
<1>4. Sound(u, rr)
  BY <1>0, <1>1, <1>2, <1>3 DEF Sound
<1>5. Grown(r.items, rr.items)
  <2>1. ASSUME NEW k \in 1..Len(r.items)
        PROVE  /\ rr.items[k].id = r.items[k].id /\ rr.items[k].turn = r.items[k].turn
               /\ r.items[k].id.space = "seg" =>
                     /\ IsPrefix(r.items[k].text, rr.items[k].text)
                     /\ rr.items[k].text # r.items[k].text => k = Len(r.items)
    <3>1. CASE k = p
      BY <1>0, <1>1, <1>2, <3>1
    <3>2. CASE k # p
      <4>1. rr.items[k] = r.items[k]
        BY <1>0, <3>2
      <4>2. r.items[k].text \in Seq(Nat)
        <5>1. r.items[k] \in Items
          BY <1>1, ReducerFields DEF Positions
        <5> QED BY <5>1, ItemFields
      <4> QED BY <4>1, <4>2, PrefixSelf
    <3> QED BY <3>1, <3>2
  <2> QED BY <1>0, <2>1 DEF Grown
<1>6. Tracks(a, rr)
  <2>1. Recorded(r, rr, <<[op |-> op, item |-> item]>>)
    BY <1>1, <1>2, ChangedRecorded
  <2>2. Tracks(a, r)
    BY DEF Good
  <2> QED BY <1>1, <1>5, <2>1, <2>2, TracksStep
<1>7. Streams(rr)
  <2> SUFFICES ASSUME AllOnce(rr.items), NEW k \in Positions(rr), rr.items[k].streaming
               PROVE  rr.items[k].kind = "tool" \/ (rr.open # <<>> /\ k = Len(rr.items))
    BY DEF Streams
  <2>1. CASE k = p
    BY <1>0, <2>1
  <2>2. CASE k # p
    <3>1. rr.items[k] = r.items[k] /\ k \in Positions(r)
      BY <1>0, <2>2
    <3>2. r.items[k].kind = "tool" \/ (r.open # <<>> /\ k = Len(r.items))
      BY <1>0, <3>1 DEF Good, Streams
    <3> QED BY <1>0, <2>2, <3>1, <3>2
  <2> QED BY <2>1, <2>2
<1>8. Marked(rr, y)
  <2>1. \A k \in Positions(r) : rr.items[k].kind = "assistant" => r.items[k].kind = "assistant"
    BY <1>0
  <2> SUFFICES ASSUME NEW k \in Positions(r), rr.items[k].mark # None
               PROVE  k = y /\ \A j \in Positions(r) : j > k => r.items[j].kind # "assistant"
    BY <1>0, <2>1 DEF Marked
  <2>2. CASE k = p
    BY <1>0, <2>2
  <2>3. CASE k # p
    <3>1. r.items[k].mark # None
      BY <1>0, <2>3
    <3>2. k = z /\ \A j \in Positions(r) : j > k => r.items[j].kind # "assistant"
      BY <3>1 DEF Good, Marked
    <3> QED BY <1>0, <3>2
  <2> QED BY <2>2, <2>3
<1> QED BY <1>4, <1>6, <1>7, <1>8 DEF Good

(* A step that puts an item at the end.                                    *)
Pushed(u, r, rr, op, item) ==
  /\ r \in Reducers /\ rr \in Reducers
  /\ item \in Items /\ item.turn = u /\ item.mark = None
  /\ op \in Ops
  /\ rr.items = Append(r.items, item)
  /\ rr.pending = Append(r.pending, [op |-> op, item |-> item])
  /\ r.ordinal <= rr.ordinal
  /\ item.id.space = "seg" => r.ordinal < item.id.key /\ item.id.key <= rr.ordinal

LEMMA PushedItems ==
  ASSUME NEW u, NEW r, NEW rr, NEW op, NEW item, Pushed(u, r, rr, op, item)
  PROVE  /\ r.items \in Seq(Items) /\ rr.items \in Seq(Items)
         /\ Len(r.items) \in Nat /\ Len(rr.items) = Len(r.items) + 1
         /\ Positions(r) \subseteq Positions(rr)
         /\ \A k \in Positions(r) : rr.items[k] = r.items[k] /\ k < Len(rr.items)
         /\ \A k \in Positions(rr) : k \in Positions(r) \/ k = Len(rr.items)
         /\ rr.items[Len(rr.items)] = item /\ Len(rr.items) \in Positions(rr)
         /\ AllOnce(rr.items) => AllOnce(r.items)
<1>1. r.items \in Seq(Items) /\ item \in Items /\ rr.items = Append(r.items, item)
  BY ReducerFields DEF Pushed
<1> DEFINE g == Append(r.items, item)
<1>2. /\ g \in Seq(Items) /\ Len(r.items) \in Nat /\ Len(g) = Len(r.items) + 1
      /\ \A k \in 1..Len(r.items) : g[k] = r.items[k] /\ k < Len(g) /\ k \in 1..Len(g)
      /\ \A k \in 1..Len(g) : k \in 1..Len(r.items) \/ k = Len(g)
      /\ g[Len(g)] = item /\ Len(g) \in 1..Len(g)
  BY <1>1
<1>3. rr.items = g
  BY <1>1
<1> HIDE DEF g
<1>4. AllOnce(g) => AllOnce(r.items)
  BY <1>2 DEF AllOnce
<1> QED BY <1>1, <1>2, <1>3, <1>4 DEF Positions

LEMMA PushedRecorded ==
  ASSUME NEW u, NEW r, NEW rr, NEW op, NEW item, Pushed(u, r, rr, op, item)
  PROVE  Recorded(r, rr, <<[op |-> op, item |-> item]>>)
<1> DEFINE m == [op |-> op, item |-> item]
           q == <<m>>
<1>1. m \in Muts /\ m.item = item
  BY DEF Pushed, Muts
<1>2. q \in Seq(Muts) /\ Len(q) = 1 /\ q[1] = m /\ 1 \in 1..Len(q)
      /\ \A i \in 1..Len(q) : q[i] = m
  <2> HIDE DEF m
  <2> QED BY <1>1
<1>3. rr.pending = r.pending \o q
  <2>1. r.pending \in Seq(Muts) /\ rr.pending = Append(r.pending, m)
    BY ReducerFields DEF Pushed
  <2> HIDE DEF m
  <2> QED BY <1>1, <2>1
<1> HIDE DEF q, m
<1>4. /\ Len(rr.items) = Len(r.items) + 1
      /\ \A k \in Positions(r) : rr.items[k] = r.items[k]
      /\ \A k \in Positions(rr) : k \in Positions(r) \/ k = Len(rr.items)
      /\ rr.items[Len(rr.items)] = item /\ Len(rr.items) \in Positions(rr)
  BY PushedItems
<1>5. ASSUME NEW k \in Positions(rr), k \notin Positions(r)
      PROVE  \E i \in 1..Len(q) : q[i].item = rr.items[k]
  BY <1>1, <1>2, <1>4, <1>5
<1>6. \A i \in 1..Len(q) : \E k \in Positions(rr) : q[i].item = rr.items[k]
  BY <1>1, <1>2, <1>4
<1>7. Recorded(r, rr, q)
  BY <1>2, <1>3, <1>4, <1>5, <1>6 DEF Recorded
<1> QED BY <1>7 DEF q, m

(* PushStep: a new item keeps the invariant when nothing is open or marked.*)
LEMMA PushStep ==
  ASSUME NEW u, NEW a \in Seq(Items), NEW r, NEW rr, NEW h \in Seq(Nat),
         NEW op, NEW item, Good(u, a, r, h, 0), Pushed(u, r, rr, op, item),
         r.open = <<>>,
         rr.open = <<>> \/ (rr.open = <<item.id>> /\ item.kind \in Text /\ item.streaming),
         item.streaming => item.kind = "tool" \/ rr.open # <<>>
  PROVE  Good(u, a, rr, h \o Piece(item, Text), 0)
<1>0. /\ r.items \in Seq(Items) /\ rr.items \in Seq(Items)
      /\ Len(r.items) \in Nat /\ Len(rr.items) = Len(r.items) + 1
      /\ Positions(r) \subseteq Positions(rr)
      /\ \A k \in Positions(r) : rr.items[k] = r.items[k] /\ k < Len(rr.items)
      /\ \A k \in Positions(rr) : k \in Positions(r) \/ k = Len(rr.items)
      /\ rr.items[Len(rr.items)] = item /\ Len(rr.items) \in Positions(rr)
      /\ AllOnce(rr.items) => AllOnce(r.items)
  BY PushedItems
<1>1. /\ r \in Reducers /\ rr \in Reducers /\ item \in Items /\ item.turn = u /\ item.mark = None
      /\ r.ordinal \in Nat /\ rr.ordinal \in Nat /\ r.ordinal <= rr.ordinal
      /\ rr.items = Append(r.items, item)
      /\ item.id.space = "seg" => item.id.key \in Nat /\ r.ordinal < item.id.key
                                                     /\ item.id.key <= rr.ordinal
  BY ReducerFields, ItemFields DEF Pushed, Shape
<1>2. /\ \A k \in Positions(r) : /\ r.items[k].turn = u
                                 /\ r.items[k].id.space = "seg" =>
                                       r.items[k].id.key \in Nat /\ r.items[k].id.key <= r.ordinal
      /\ \A j, k \in Positions(r) :
            r.items[j].id.space = "seg" /\ r.items[j].id = r.items[k].id => j = k
  <2>1. \A k \in Positions(r) : r.items[k].id.space = "seg" => r.items[k].id.key \in Nat
    BY <1>1, ReducerFields, ItemFields DEF Shape
  <2> QED BY <2>1 DEF Good, Sound
<1>3. OpenIsLast(rr)
  <2>1. rr.items # <<>>
    BY <1>0
  <2> QED BY <1>0, <2>1 DEF OpenIsLast
<1>4. ASSUME NEW k \in Positions(rr)
      PROVE  rr.items[k].turn = u /\ (rr.items[k].id.space = "seg" => rr.items[k].id.key <= rr.ordinal)
  <2>1. CASE k \in Positions(r)
    <3>1. rr.items[k] = r.items[k]
      BY <1>0, <2>1
    <3>2. r.items[k].turn = u /\ (r.items[k].id.space = "seg" => r.items[k].id.key \in Nat
                                                              /\ r.items[k].id.key <= r.ordinal)
      BY <1>2, <2>1
    <3> QED BY <1>1, <3>1, <3>2
  <2>2. CASE k \notin Positions(r)
    <3>1. rr.items[k] = item
      BY <1>0, <2>2
    <3> QED BY <1>1, <3>1
  <2> QED BY <2>1, <2>2
<1>5. ASSUME NEW j \in Positions(rr), NEW k \in Positions(rr),
             rr.items[j].id.space = "seg", rr.items[j].id = rr.items[k].id
      PROVE  j = k
  <2>1. CASE j \in Positions(r) /\ k \in Positions(r)
    BY <1>0, <1>2, <1>5, <2>1
  <2>2. CASE j \in Positions(r) /\ k \notin Positions(r)
    <3>1. k = Len(rr.items) /\ r.items[j].id = item.id /\ item.id.space = "seg"
      BY <1>0, <1>5, <2>2
    <3>2. item.id.key <= r.ordinal /\ r.ordinal < item.id.key /\ item.id.key \in Nat
      BY <1>1, <1>2, <2>2, <3>1
    <3> QED BY <1>1, <3>2
  <2>3. CASE j \notin Positions(r) /\ k \in Positions(r)
    <3>1. j = Len(rr.items) /\ r.items[k].id = item.id /\ item.id.space = "seg"
      BY <1>0, <1>5, <2>3
    <3>2. item.id.key <= r.ordinal /\ r.ordinal < item.id.key /\ item.id.key \in Nat
      BY <1>1, <1>2, <2>3, <3>1
    <3> QED BY <1>1, <3>2
  <2>4. CASE j \notin Positions(r) /\ k \notin Positions(r)
    BY <1>0, <2>4
  <2> QED BY <2>1, <2>2, <2>3, <2>4
<1>6. Sound(u, rr)
  BY <1>1, <1>3, <1>4, <1>5 DEF Sound
<1>7. Grown(r.items, rr.items)
  <2>1. \A k \in 1..Len(r.items) : rr.items[k] = r.items[k]
    BY <1>0 DEF Positions
  <2>2. \A k \in 1..Len(r.items) : IsPrefix(r.items[k].text, r.items[k].text)
    BY <1>0, ItemFields, PrefixSelf
  <2>3. Len(r.items) <= Len(rr.items)
    BY <1>0
  <2> QED BY <2>1, <2>2, <2>3 DEF Grown
<1>8. Tracks(a, rr)
  <2>1. Recorded(r, rr, <<[op |-> op, item |-> item]>>)
    BY PushedRecorded
  <2>2. Tracks(a, r)
    BY DEF Good
  <2> QED BY <1>1, <1>7, <2>1, <2>2, TracksStep
<1>9. Streams(rr)
  <2> SUFFICES ASSUME AllOnce(rr.items), NEW k \in Positions(rr), rr.items[k].streaming
               PROVE  rr.items[k].kind = "tool" \/ (rr.open # <<>> /\ k = Len(rr.items))
    BY DEF Streams
  <2>1. CASE k \in Positions(r)
    BY <1>0, <2>1 DEF Good, Streams
  <2>2. CASE k \notin Positions(r)
    BY <1>0, <2>2
  <2> QED BY <2>1, <2>2
<1>10. Marked(rr, 0)
  <2>1. ASSUME NEW k \in Positions(rr) PROVE rr.items[k].mark = None
    <3>1. CASE k \in Positions(r)
      <4>1. r.items[k].mark # None => k = 0
        BY <3>1 DEF Good, Marked
      <4>2. k # 0
        BY <1>0, <3>1 DEF Positions
      <4> QED BY <1>0, <3>1, <4>1, <4>2
    <3>2. CASE k \notin Positions(r)
      BY <1>0, <1>1, <3>2
    <3> QED BY <3>1, <3>2
  <2> QED BY <2>1 DEF Marked
<1>11. Hears(rr, h \o Piece(item, Text))
  <2> SUFFICES ASSUME AllOnce(rr.items) PROVE TextOf(rr.items, Text) = h \o Piece(item, Text)
    BY DEF Hears
  <2>1. TextOf(r.items, Text) = h
    BY <1>0 DEF Good, Hears
  <2>2. TextOf(Append(r.items, item), Text) = TextOf(r.items, Text) \o Piece(item, Text)
    <3>1. r.items \in Seq(Items) /\ item \in Items
      BY <1>0, <1>1
    <3> QED BY ONLY <3>1, TextOfAppend
  <2> QED BY <1>1, <2>1, <2>2
<1> QED BY <1>6, <1>8, <1>9, <1>10, <1>11 DEF Good

-----------------------------------------------------------------------------
(* The steps of the reducer's operations.                                  *)
LEMMA OpenIs ==
  ASSUME NEW r \in Reducers, NEW n \in Nat, NEW o \in Seq(Ids)
  PROVE  LET c == [r EXCEPT !.ordinal = n, !.open = o] IN
         /\ c \in Reducers /\ c.items = r.items /\ c.pending = r.pending
         /\ c.ordinal = n /\ c.open = o
BY DEF Reducers

Replaces(r, rr, p, op, item) ==
  /\ rr \in Reducers
  /\ rr.items = [r.items EXCEPT ![p] = item]
  /\ rr.pending = Append(r.pending, [op |-> op, item |-> item])
  /\ rr.ordinal = r.ordinal /\ rr.open = r.open

Appends(r, rr, op, item) ==
  /\ rr \in Reducers
  /\ rr.items = Append(r.items, item)
  /\ rr.pending = Append(r.pending, [op |-> op, item |-> item])
  /\ rr.ordinal = r.ordinal /\ rr.open = r.open

LEMMA ChangeIs ==
  ASSUME NEW r \in Reducers, NEW p \in Positions(r), NEW item \in Items,
         NEW op \in Ops,
         NEW rr, rr = Change(r, p, op, item)
  PROVE  Replaces(r, rr, p, op, item)
<1> DEFINE g == [r.items EXCEPT ![p] = item]
           m == [op |-> op, item |-> item]
           b == Append(r.pending, m)
<1>1. g \in Seq(Items)
  <2>1. r.items \in Seq(Items)
    BY ReducerFields
  <2> QED BY ONLY <2>1, item \in Items, ReplaceElement
<1>2. b \in Seq(Muts)
  <2>1. m \in Muts
    BY DEF Muts
  <2>2. r.pending \in Seq(Muts)
    BY ReducerFields
  <2> HIDE DEF m
  <2> QED BY <2>1, <2>2
<1>3. Change(r, p, op, item) = [r EXCEPT !.items = g, !.pending = b]
  BY DEF Change, PushMutation, Reducers
<1> HIDE DEF g, b
<1> QED BY <1>1, <1>2, <1>3 DEF Reducers, Replaces, g, b, m

LEMMA PushIs ==
  ASSUME NEW r \in Reducers, NEW item \in Items,
         NEW op \in Ops,
         NEW rr, rr = PushMutation([r EXCEPT !.items = Append(@, item)], op, item)
  PROVE  Appends(r, rr, op, item)
<1> DEFINE g == Append(r.items, item)
           m == [op |-> op, item |-> item]
           b == Append(r.pending, m)
<1>1. g \in Seq(Items)
  <2>1. r.items \in Seq(Items)
    BY ReducerFields
  <2> QED BY <2>1
<1>2. b \in Seq(Muts)
  <2>1. m \in Muts
    BY DEF Muts
  <2>2. r.pending \in Seq(Muts)
    BY ReducerFields
  <2> HIDE DEF m
  <2> QED BY <2>1, <2>2
<1>3. PushMutation([r EXCEPT !.items = Append(@, item)], op, item)
        = [r EXCEPT !.items = g, !.pending = b]
  BY DEF PushMutation, Reducers
<1> HIDE DEF g, b
<1> QED BY <1>1, <1>2, <1>3 DEF Reducers, Appends, g, b, m

LEMMA ChangedHears ==
  ASSUME NEW u, NEW r, NEW rr, NEW p, NEW op, NEW item, NEW h,
         Changed(u, r, rr, p, op, item), Hears(r, h), Piece(item, Text) = Piece(r.items[p], Text)
  PROVE  Hears(rr, h)
<1>1. /\ r.items \in Seq(Items) /\ rr.items \in Seq(Items) /\ Len(rr.items) = Len(r.items)
      /\ \A k \in 1..Len(r.items) : rr.items[k] = IF k = p THEN item ELSE r.items[k]
      /\ AllOnce(rr.items) <=> AllOnce(r.items)
  BY ChangedItems DEF Positions
<1>2. \A k \in 1..Len(r.items) : Piece(r.items[k], Text) = Piece(rr.items[k], Text)
  BY <1>1
<1>3. TextOf(r.items, Text) = TextOf(rr.items, Text)
  BY <1>1, <1>2, TextOfSame
<1> QED BY <1>1, <1>3 DEF Hears

(* The item of the open segment is found, and is the last one when no id is
   used twice.                                                             *)
LEMMA OpenFound ==
  ASSUME NEW u, NEW r, Sound(u, r), r.open # <<>>
  PROVE  LET p == Position(r, r.open[1]) IN
         /\ r.items[Len(r.items)] \in Items /\ Len(r.items) \in Positions(r)
         /\ r.open[1] = r.items[Len(r.items)].id
         /\ r.open[1].kind = r.items[Len(r.items)].kind /\ r.items[Len(r.items)].kind \in Text
         /\ p \in Positions(r) /\ r.items[p] \in Items /\ r.items[p].turn = u
         /\ r.items[p].id = r.open[1] /\ r.items[p].kind = r.open[1].kind
         /\ AllOnce(r.items) \/ r.open[1].space = "seg" => p = Len(r.items)
<1> DEFINE L == Len(r.items)
           p == Position(r, r.open[1])
<1>1. /\ r \in Reducers /\ r.items # <<>> /\ r.open = <<r.items[L].id>>
      /\ r.items[L].kind \in Text
  BY DEF Sound, OpenIsLast
<1>2. L \in Positions(r) /\ r.items[L] \in Items /\ r.open[1] = r.items[L].id
  BY <1>1, ReducerFields DEF Positions
<1>3. p \in Positions(r) /\ r.items[p].id = r.open[1]
  BY <1>1, <1>2, PositionFinds
<1>4. r.items[p] \in Items /\ r.items[p].turn = u
  BY <1>1, <1>3, ReducerFields DEF Sound
<1>5. r.open[1].kind = r.items[L].kind
  BY <1>1, <1>2, ItemFields DEF Shape, Text
<1>6. r.items[p].kind = r.open[1].kind
  <2>1. r.items[p].id.kind \in Text
    BY <1>1, <1>3, <1>5
  <2> QED BY <1>3, <1>4, <2>1, ItemFields DEF Shape, Text
<1>7. AllOnce(r.items) \/ r.open[1].space = "seg" => p = L
  BY <1>2, <1>3 DEF AllOnce, Sound, Positions
<1> QED BY <1>1, <1>2, <1>3, <1>4, <1>5, <1>6, <1>7

LEMMA StreamingItem ==
  ASSUME NEW i \in Items
  PROVE  LET j == [i EXCEPT !.streaming = FALSE] IN
         /\ j \in Items /\ j.streaming = FALSE /\ j.id = i.id /\ j.turn = i.turn /\ j.kind = i.kind
         /\ j.text = i.text /\ j.status = i.status /\ j.mark = i.mark
BY DEF Items, Fields, Shape

(* flush_open.                                                             *)
LEMMA FlushGood ==
  ASSUME NEW u, NEW a \in Seq(Items), NEW r, NEW h, Good(u, a, r, h, 0)
  PROVE  LET f == FlushOpen(r) IN
         /\ Good(u, a, f, h, 0) /\ f.open = <<>> /\ f.ordinal = r.ordinal
         /\ Len(f.items) = Len(r.items) /\ f \in Reducers
<1>1. CASE r.open = <<>>
  BY <1>1 DEF FlushOpen, Good, Sound
<1>2. CASE r.open # <<>>
  <2> DEFINE p == Position(r, r.open[1])
             item == [r.items[p] EXCEPT !.streaming = FALSE]
             c == [r EXCEPT !.open = <<>>]
             f == FlushOpen(r)
  <2>1. Sound(u, r) /\ r \in Reducers
    BY DEF Good, Sound
  <2>2. /\ p \in Positions(r) /\ r.items[p] \in Items /\ r.items[p].turn = u
        /\ r.items[p].kind \in Text
        /\ AllOnce(r.items) => p = Len(r.items)
    BY <1>2, <2>1, OpenFound
  <2>3. /\ item \in Items /\ item.streaming = FALSE /\ item.id = r.items[p].id /\ item.turn = u
        /\ item.kind = r.items[p].kind /\ item.text = r.items[p].text /\ item.mark = r.items[p].mark
    BY <2>2, StreamingItem
  <2>4. /\ c \in Reducers /\ c.items = r.items /\ c.pending = r.pending /\ c.ordinal = r.ordinal
        /\ c.open = <<>> /\ p \in Positions(c)
    <3>1. <<>> \in Seq(Ids)
      OBVIOUS
    <3>2. /\ c \in Reducers /\ c.items = r.items /\ c.pending = r.pending
          /\ c.ordinal = r.ordinal /\ c.open = <<>>
      BY <2>1, <3>1 DEF Reducers
    <3> QED BY <2>2, <3>2 DEF Positions
  <2>5. f = Change(c, p, "update", item)
    BY <1>2 DEF FlushOpen
  <2> HIDE DEF c, item, p, f
  <2>6. /\ f \in Reducers /\ f.items = [r.items EXCEPT ![p] = item]
        /\ f.pending = Append(r.pending, [op |-> "update", item |-> item])
        /\ f.ordinal = r.ordinal /\ f.open = <<>>
    <3>1. c \in Reducers /\ p \in Positions(c) /\ item \in Items
      BY <2>3, <2>4
    <3>2. "update" \in Ops
      BY DEF Ops
    <3>3. Replaces(c, f, p, "update", item)
      BY ONLY <2>5, <3>1, <3>2, ChangeIs
    <3> QED BY <2>4, <3>3 DEF Replaces
  <2>7. Changed(u, r, f, p, "update", item)
    BY <2>1, <2>2, <2>3, <2>6 DEF Changed, Ops
  <2>8. Hears(f, h)
    BY <2>3, <2>7, ChangedHears DEF Good, Piece
  <2>9. item.mark = None
    <3>1. p # 0
      BY <2>1, <2>2, ReducerFields DEF Positions
    <3> QED BY <2>2, <2>3, <3>1 DEF Good, Marked
  <2>10. IsPrefix(r.items[p].text, item.text)
    BY <2>2, <2>3, ItemFields, PrefixSelf
  <2>11. Good(u, a, f, h, 0)
    BY <2>2, <2>3, <2>6, <2>7, <2>8, <2>9, <2>10, ChangeStep
  <2>12. Len(f.items) = Len(r.items)
    BY <2>7, ChangedItems
  <2> QED BY <2>6, <2>11, <2>12 DEF f
<1> QED BY <1>1, <1>2

Changing(u, r, p, op, item) ==
  /\ r \in Reducers /\ p \in Positions(r)
  /\ item \in Items /\ op \in Ops
  /\ item.id = r.items[p].id /\ item.turn = u

LEMMA ChangeMakes ==
  ASSUME NEW u, NEW r, NEW p, NEW op, NEW item, Changing(u, r, p, op, item),
         NEW rr, rr = Change(r, p, op, item)
  PROVE  Changed(u, r, rr, p, op, item) /\ rr.open = r.open
<1>1. /\ r \in Reducers /\ p \in Positions(r) /\ item \in Items /\ op \in Ops
      /\ item.id = r.items[p].id /\ item.turn = u
  BY DEF Changing
<1>2. Replaces(r, rr, p, op, item)
  BY <1>1, ChangeIs
<1> QED BY <1>1, <1>2 DEF Replaces, Changed

(* Item makes an item when the id is one of its kind.                      *)
Fits(id, u, kind, status) ==
  /\ id \in Ids /\ u \in Turns /\ kind \in Kinds /\ status \in Statuses
  /\ status # None <=> kind \notin Text \cup {"user"}
  /\ kind # "plan_snapshot" /\ id.kind = kind
  /\ kind = "plan" => id = PlanId(u)
  /\ id.space = "seg" => id.of = u /\ id.key \in Nat

LEMMA SegmentIds ==
  ASSUME NEW u \in Turns, NEW n \in Nat, NEW kind \in Kinds
  PROVE  LET id == SegmentId(u, n, kind) IN
         id \in Ids /\ id.space = "seg" /\ id.of = u /\ id.key = n /\ id.kind = kind
BY DEF SegmentId, Id, Ids

LEMMA MessageIds ==
  ASSUME NEW m \in Keys, NEW kind \in Kinds
  PROVE  LET id == MessageId(m, kind) IN id \in Ids /\ id.space = "msg" /\ id.kind = kind
BY DEF MessageId, Id, Ids

LEMMA LongerItem ==
  ASSUME NEW i \in Items, i.kind \in Text, NEW n \in Nat
  PROVE  LET j == [i EXCEPT !.text = Append(@, n), !.streaming = TRUE] IN
         /\ j \in Items /\ j.streaming = TRUE /\ j.id = i.id /\ j.turn = i.turn
         /\ j.kind = i.kind /\ j.text = Append(i.text, n) /\ j.mark = i.mark
<1>1. i.text \in Seq(Nat)
  BY ItemFields
<1>2. Append(i.text, n) \in Seq(Nat)
  BY <1>1
<1> QED BY <1>2 DEF Items, Fields, Shape

(* append_text, when the open segment is of the kind.                      *)
LEMMA AppendOpenGood ==
  ASSUME NEW u \in Turns, NEW a \in Seq(Items), NEW r, NEW h \in Seq(Nat), Good(u, a, r, h, 0),
         NEW kind \in Text, NEW m, NEW n \in Nat, IsOpen(r, kind)
  PROVE  LET rr == AppendText(r, u, kind, m, n) IN
         Good(u, a, rr, Append(h, n), 0) /\ rr.ordinal = r.ordinal
<1> DEFINE p == Position(r, r.open[1])
           item == [r.items[p] EXCEPT !.text = Append(@, n), !.streaming = TRUE]
           rr == AppendText(r, u, kind, m, n)
<1>1. rr = Change(r, p, "update", item)
  BY DEF AppendText
<1>2. Sound(u, r) /\ r \in Reducers /\ r.open # <<>> /\ "update" \in Ops
  BY DEF Good, Sound, IsOpen, Ops
<1>3. /\ p \in Positions(r) /\ r.items[p] \in Items /\ r.items[p].turn = u
      /\ r.items[p].kind \in Text /\ r.items[p].id = r.open[1]
      /\ AllOnce(r.items) \/ r.items[p].id.space = "seg" => p = Len(r.items)
  BY <1>2, OpenFound
<1>4. /\ item \in Items /\ item.streaming = TRUE /\ item.id = r.items[p].id /\ item.turn = u
      /\ item.kind = r.items[p].kind /\ item.text = Append(r.items[p].text, n)
      /\ item.mark = r.items[p].mark
  BY <1>3, LongerItem
<1> HIDE DEF item, p, rr
<1>5. Changed(u, r, rr, p, "update", item) /\ rr.open = r.open
  <2>1. Changing(u, r, p, "update", item)
    BY <1>2, <1>3, <1>4 DEF Changing
  <2> QED BY <1>1, <2>1, ChangeMakes
<1>6. item.mark = None
  <2>1. p # 0
    BY <1>2, <1>3, ReducerFields DEF Positions
  <2> QED BY <1>3, <1>4, <2>1 DEF Good, Marked
<1>7. IsPrefix(r.items[p].text, item.text)
  BY <1>3, <1>4, ItemFields, PrefixAppend
<1>8. Hears(rr, Append(h, n))
  <2> SUFFICES ASSUME AllOnce(rr.items) PROVE TextOf(rr.items, Text) = Append(h, n)
    BY DEF Hears
  <2>1. AllOnce(r.items) /\ rr.items = [r.items EXCEPT ![p] = item]
    <3>1. AllOnce(r.items)
      BY <1>5, ChangedItems
    <3> QED BY <1>5, <3>1 DEF Changed
  <2>2. p = Len(r.items) /\ r.items # <<>> /\ r.items \in Seq(Items)
    BY <1>2, <1>3, <2>1, ReducerFields DEF Sound, OpenIsLast
  <2>3. TextOf(r.items, Text) = h
    BY <2>1 DEF Good, Hears
  <2>4. TextOf([r.items EXCEPT ![Len(r.items)] = item], Text) = Append(TextOf(r.items, Text), n)
    BY <1>3, <1>4, <2>2, TextOfLonger
  <2> QED BY <2>1, <2>2, <2>3, <2>4
<1>9. Good(u, a, rr, Append(h, n), 0)
  BY <1>2, <1>3, <1>4, <1>5, <1>6, <1>7, <1>8, ChangeStep
<1> QED BY <1>5, <1>9 DEF Changed, rr

(* append_text, when it opens a segment.                                   *)
LEMMA AppendNewGood ==
  ASSUME NEW u \in Turns, NEW a \in Seq(Items), NEW r, NEW h \in Seq(Nat), Good(u, a, r, h, 0),
         NEW kind \in Text, NEW m \in Keys, NEW n \in Nat, ~IsOpen(r, kind),
         NEW rr, rr = AppendText(r, u, kind, m, n)
  PROVE  Good(u, a, rr, Append(h, n), 0) /\ rr.ordinal = r.ordinal + 1
<1> DEFINE f == FlushOpen(r)
           id == IF m = None THEN SegmentId(u, f.ordinal + 1, kind) ELSE MessageId(m, kind)
           text == <<n>>
           item == Item(id, u, kind, text, None, TRUE)
           c == [f EXCEPT !.ordinal = @ + 1, !.open = <<id>>]
<1>1. rr = PushMutation([c EXCEPT !.items = Append(@, item)], "add", item)
  BY DEF AppendText, PushAdd
<1>2. /\ Good(u, a, f, h, 0) /\ f.open = <<>> /\ f.ordinal = r.ordinal /\ f \in Reducers
      /\ f.ordinal \in Nat /\ f.ordinal + 1 \in Nat
  <2>1. Good(u, a, f, h, 0) /\ f.open = <<>> /\ f.ordinal = r.ordinal /\ f \in Reducers
    BY FlushGood
  <2>2. f.ordinal \in Nat
    BY <2>1, ReducerFields
  <2> QED BY <2>1, <2>2
<1>3. kind \in Kinds /\ None \in Statuses /\ "add" \in Ops
  BY DEF Text, Kinds, Statuses, Ops
<1>4. /\ id \in Ids /\ id.kind = kind
      /\ id.space = "seg" => id.of = u /\ id.key = f.ordinal + 1
  <2>1. CASE m = None
    BY <1>2, <1>3, <2>1, SegmentIds
  <2>2. CASE m # None
    BY <1>3, <2>2, MessageIds
  <2> QED BY <2>1, <2>2
<1> HIDE DEF id, f, text
<1>5. /\ item \in Items /\ item.id = id /\ item.turn = u /\ item.kind = kind
      /\ item.text = text /\ item.streaming = TRUE /\ item.mark = None
  <2>1. text \in Seq(Nat) /\ TRUE \in BOOLEAN
    BY DEF text
  <2>2. Fits(id, u, kind, None)
    BY <1>2, <1>3, <1>4 DEF Fits, Text
  <2> QED BY <2>1, <2>2 DEF Fits, Item, Items, Fields, Shape, Marks
<1> HIDE DEF item
<1>6. /\ c \in Reducers /\ c.items = f.items /\ c.pending = f.pending
      /\ c.ordinal = f.ordinal + 1 /\ c.open = <<id>>
  <2>1. <<id>> \in Seq(Ids)
    BY <1>4
  <2> HIDE DEF id
  <2> QED BY <1>2, <2>1 DEF Reducers
<1> HIDE DEF c
<1>7. Appends(c, rr, "add", item)
  BY <1>1, <1>3, <1>5, <1>6, PushIs
<1>8. /\ rr \in Reducers /\ rr.items = Append(f.items, item)
      /\ rr.pending = Append(f.pending, [op |-> "add", item |-> item])
      /\ rr.ordinal = f.ordinal + 1 /\ rr.open = <<item.id>>
  BY <1>5, <1>6, <1>7 DEF Appends
<1>9. Pushed(u, f, rr, "add", item)
  BY <1>2, <1>3, <1>4, <1>5, <1>8 DEF Pushed
<1>10. Good(u, a, rr, h \o Piece(item, Text), 0)
  <2>1. rr.open = <<item.id>> /\ item.kind \in Text /\ item.streaming
    BY <1>5, <1>8
  <2>2. Good(u, a, f, h, 0) /\ f.open = <<>>
    BY <1>2
  <2>3. rr.open # <<>>
    BY <2>1
  <2> QED BY ONLY a \in Seq(Items), h \in Seq(Nat), <1>9, <2>1, <2>2, <2>3, PushStep
<1>11. h \o Piece(item, Text) = Append(h, n)
  BY <1>5 DEF Piece, text
<1> QED BY <1>2, <1>8, <1>10, <1>11

LEMMA OrdinalGood ==
  ASSUME NEW u, NEW a, NEW r, NEW h, NEW z, Good(u, a, r, h, z), NEW n \in Nat, r.ordinal <= n,
         NEW c, c = [r EXCEPT !.ordinal = n]
  PROVE  /\ Good(u, a, c, h, z) /\ c \in Reducers /\ c.items = r.items /\ c.pending = r.pending
         /\ c.ordinal = n /\ c.open = r.open
<1>1. r \in Reducers
  BY DEF Good, Sound
<1>2. /\ c \in Reducers /\ c.items = r.items /\ c.pending = r.pending
      /\ c.ordinal = n /\ c.open = r.open
  BY <1>1 DEF Reducers
<1>3. Sound(u, c)
  <2>1. ASSUME NEW k \in Positions(r), r.items[k].id.space = "seg" PROVE r.items[k].id.key <= n
    <3>1. r.items[k].id.key <= r.ordinal
      BY <2>1 DEF Good, Sound
    <3>2. r.items[k].id.key \in Nat
      BY <1>1, <2>1, ReducerFields, ItemFields DEF Shape
    <3>3. r.ordinal \in Nat
      BY <1>1, ReducerFields
    <3> QED BY <3>1, <3>2, <3>3
  <2> QED BY <1>2, <2>1 DEF Good, Sound, OpenIsLast, Positions
<1>4. Tracks(a, c)
  BY <1>2 DEF Good, Tracks, Mirrors
<1>5. Streams(c) /\ Marked(c, z) /\ Hears(c, h)
  BY <1>2 DEF Good, Streams, Marked, Hears, Positions
<1> QED BY <1>2, <1>3, <1>4, <1>5 DEF Good

(* A new card that is not text of the agent.                               *)
PlainPush(u, r, rr, op, item) ==
  /\ Pushed(u, r, rr, op, item)
  /\ r.open = <<>> /\ rr.open = <<>>
  /\ item.kind \notin Text
  /\ item.streaming => item.kind = "tool"

LEMMA PushGood ==
  ASSUME NEW u, NEW a \in Seq(Items), NEW r, NEW h \in Seq(Nat), Good(u, a, r, h, 0),
         NEW rr, NEW op, NEW item, PlainPush(u, r, rr, op, item)
  PROVE  Good(u, a, rr, h, 0)
<1>1. Good(u, a, rr, h \o Piece(item, Text), 0)
  <2>1. Good(u, a, r, h, 0) /\ r.open = <<>> /\ Pushed(u, r, rr, op, item)
    BY DEF PlainPush
  <2>2. rr.open = <<>>
    BY DEF PlainPush
  <2>3. item.streaming => item.kind = "tool"
    BY DEF PlainPush
  <2> QED BY ONLY a \in Seq(Items), h \in Seq(Nat), <2>1, <2>2, <2>3, PushStep
<1>2. h \o Piece(item, Text) = h
  BY DEF Piece, PlainPush
<1> QED BY <1>1, <1>2

(* A changed card that is not text of the agent.                           *)
PlainChange(u, r, rr, p, op, item) ==
  /\ Changed(u, r, rr, p, op, item)
  /\ rr.open = r.open
  /\ item.mark = r.items[p].mark
  /\ item.id.space # "seg"
  /\ r.items[p].kind \notin Text /\ item.kind \notin Text
  /\ item.streaming => item.kind = "tool"

LEMMA ChangeGood ==
  ASSUME NEW u, NEW a \in Seq(Items), NEW r, NEW h, NEW z, Good(u, a, r, h, z),
         NEW rr, NEW p, NEW op, NEW item, PlainChange(u, r, rr, p, op, item)
  PROVE  Good(u, a, rr, h, z)
<1>1. Sound(u, r) /\ r \in Reducers
  BY DEF Good, Sound
<1>2. /\ Changed(u, r, rr, p, op, item) /\ rr.open = r.open
      /\ item.mark = r.items[p].mark /\ item.id.space # "seg"
      /\ r.items[p].kind \notin Text /\ item.kind \notin Text
      /\ item.streaming => item.kind = "tool"
  BY DEF PlainChange
<1>3. Hears(rr, h)
  BY <1>2, ChangedHears DEF Good, Piece
<1>4. rr.open = <<>> \/ (rr.open = r.open /\ (p = Len(r.items) =>
                            item.kind \in Text /\ item.streaming))
  BY <1>1, <1>2 DEF Sound, OpenIsLast
<1>5. item.mark # None => p = z /\ \A j \in Positions(r) : j > p => r.items[j].kind # "assistant"
  <2>1. p \in Positions(r)
    BY <1>2 DEF Changed
  <2> QED BY <1>2, <2>1 DEF Good, Marked
<1>6. item.kind # "assistant"
  BY <1>2 DEF Text
<1>7. (z = 0 \/ z = z) /\ (r.open # <<>> /\ rr.open = <<>> => p = Len(r.items))
  BY <1>2
<1> QED BY <1>2, <1>3, <1>4, <1>5, <1>6, <1>7, ChangeStep

(* The user messages the agent sends.                                      *)
LEMMA UserTextGood ==
  ASSUME NEW u \in Turns, NEW a \in Seq(Items), NEW r, NEW h \in Seq(Nat), Good(u, a, r, h, 0),
         NEW upd, upd.key \in Keys, NEW n \in Nat, NEW rr, rr = UserText(r, u, upd, n)
  PROVE  Good(u, a, rr, h, 0) /\ rr.ordinal \in {r.ordinal, r.ordinal + 1}
<1> DEFINE f    == FlushOpen(r)
           o    == IF upd.key = None THEN f.ordinal + 1 ELSE f.ordinal
           id   == IF upd.key = None THEN SegmentId(u, o, "user") ELSE MessageId(upd.key, "user")
           text == IF upd.status = "echo" THEN Prompt ELSE <<n>>
           item == Item(id, u, "user", text, None, FALSE)
           g    == [f EXCEPT !.ordinal = o]
<1>1. rr = g \/ rr = PushMutation([g EXCEPT !.items = Append(@, item)], "add", item)
  BY DEF UserText, PushAdd
<1>2. /\ Good(u, a, f, h, 0) /\ f.open = <<>> /\ f.ordinal = r.ordinal /\ f.ordinal \in Nat
  <2>1. Good(u, a, f, h, 0) /\ f.open = <<>> /\ f.ordinal = r.ordinal /\ f \in Reducers
    BY FlushGood
  <2> QED BY <2>1, ReducerFields
<1> HIDE DEF f
<1>3. /\ o \in Nat /\ f.ordinal <= o /\ o \in {f.ordinal, f.ordinal + 1}
      /\ upd.key = None => f.ordinal < o
  BY <1>2
<1> HIDE DEF o
<1>4. /\ id \in Ids /\ id.kind = "user"
      /\ id.space = "seg" => id.of = u /\ id.key = o /\ f.ordinal < o
  <2>1. "user" \in Kinds
    BY DEF Kinds
  <2>2. CASE upd.key = None
    BY <1>3, <2>1, <2>2, SegmentIds
  <2>3. CASE upd.key # None
    BY <2>1, <2>3, MessageIds
  <2> QED BY <2>2, <2>3
<1>5. text \in Seq(Nat)
  BY DEF Prompt
<1> HIDE DEF id, text
<1>6. /\ item \in Items /\ item.id = id /\ item.turn = u /\ item.kind = "user"
      /\ item.streaming = FALSE /\ item.mark = None
  <2>1. Fits(id, u, "user", None)
    BY <1>3, <1>4 DEF Fits, Kinds, Statuses, Text
  <2> QED BY <1>5, <2>1 DEF Fits, Item, Items, Fields, Shape, Marks
<1> HIDE DEF item
<1>7. CASE rr = g
  BY <1>2, <1>3, <1>7, OrdinalGood
<1>8. CASE rr = PushMutation([g EXCEPT !.items = Append(@, item)], "add", item)
  <2>1. /\ f \in Reducers /\ g \in Reducers /\ g.items = f.items /\ g.pending = f.pending
        /\ g.ordinal = o /\ g.open = f.open
    <3>1. f \in Reducers
      BY <1>2 DEF Good, Sound
    <3> QED BY <1>2, <1>3, <3>1, OrdinalGood
  <2> HIDE DEF g
  <2>2. Appends(g, rr, "add", item) /\ "add" \in Ops
    <3>1. "add" \in Ops
      BY DEF Ops
    <3> QED BY ONLY <1>6, <1>8, <2>1, <3>1, PushIs
  <2>3. PlainPush(u, f, rr, "add", item) /\ rr.ordinal = o
    BY <1>2, <1>3, <1>4, <1>6, <2>1, <2>2 DEF Appends, PlainPush, Pushed, Text
  <2>4. Good(u, a, rr, h, 0)
    BY <1>2, <2>3, PushGood
  <2> QED BY <1>2, <1>3, <2>3, <2>4
<1> QED BY <1>1, <1>7, <1>8

(* upsert_tool.                                                            *)
LEMMA UpsertToolGood ==
  ASSUME NEW u \in Turns, NEW a \in Seq(Items), NEW r, NEW h \in Seq(Nat), Good(u, a, r, h, 0),
         NEW t \in Keys, NEW status \in Statuses, NEW rr, rr = UpsertTool(r, u, t, status)
  PROVE  Good(u, a, rr, h, 0) /\ rr.ordinal = r.ordinal
<1> DEFINE f == FlushOpen(r)
           p == Position(f, ToolId(t))
           s == IF status # None THEN status ELSE IF p # 0 THEN f.items[p].status ELSE "pending"
           new == Item(ToolId(t), u, "tool", <<>>, s, TRUE)
           old == [f.items[p] EXCEPT !.status = s, !.streaming = s \notin Done]
<1>1. Good(u, a, f, h, 0) /\ f.open = <<>> /\ f.ordinal = r.ordinal /\ f \in Reducers
  BY FlushGood
<1>2. rr = IF p = 0 THEN PushMutation([f EXCEPT !.items = Append(@, new)], "add", new)
           ELSE Change(f, p, "update", old)
  BY DEF UpsertTool, PushAdd
<1> HIDE DEF f
<1>3. /\ p # 0 => p \in Positions(f) /\ f.items[p].id = ToolId(t)
      /\ p # 0 => f.items[p] \in Items /\ f.items[p].turn = u
  <2>1. p # 0 => p \in Positions(f) /\ f.items[p].id = ToolId(t)
    BY <1>1, PositionFinds
  <2> HIDE DEF p
  <2> QED BY <1>1, <2>1, ReducerFields DEF Good, Sound
<1> HIDE DEF p
<1>4. ToolId(t) \in Ids /\ ToolId(t).kind = "tool" /\ ToolId(t).space = "tool"
  BY DEF ToolId, Id, Ids, Kinds
<1>5. p # 0 => f.items[p].kind = "tool" /\ f.items[p].status # None
  <2>1. p # 0 => Shape(f.items[p])
    BY <1>3, ItemFields
  <2> QED BY <1>3, <1>4, <2>1 DEF Shape, Text
<1>6. s \in Statuses /\ s # None
  <2>1. "pending" \in Statuses /\ "pending" # None
    BY DEF Statuses, None
  <2> QED BY <1>3, <1>5, <2>1, ItemFields
<1> HIDE DEF s
<1>7. "add" \in Ops /\ "update" \in Ops /\ "tool" \notin Text
  BY DEF Ops, Text
<1>8. CASE p = 0
  <2>1. /\ new \in Items /\ new.id = ToolId(t) /\ new.turn = u /\ new.kind = "tool"
        /\ new.mark = None
    <3>1. Fits(ToolId(t), u, "tool", s)
      BY <1>4, <1>6 DEF Fits, Kinds, Text
    <3> QED BY <3>1 DEF Fits, Item, Items, Fields, Shape, Marks
  <2> HIDE DEF new
  <2>2. rr = PushMutation([f EXCEPT !.items = Append(@, new)], "add", new)
    BY <1>2, <1>8
  <2>3. Appends(f, rr, "add", new)
    BY ONLY <1>1, <1>7, <2>1, <2>2, PushIs
  <2>4. PlainPush(u, f, rr, "add", new) /\ rr.ordinal = f.ordinal
    BY <1>1, <1>4, <1>7, <2>1, <2>3, ReducerFields DEF Appends, PlainPush, Pushed
  <2>5. Good(u, a, rr, h, 0)
    BY <1>1, <2>4, PushGood
  <2> QED BY <1>1, <2>4, <2>5
<1>9. CASE p # 0
  <2>1. /\ old \in Items /\ old.id = f.items[p].id /\ old.turn = u /\ old.kind = "tool"
        /\ old.mark = f.items[p].mark
    <3>1. f.items[p] \in Items /\ f.items[p].kind = "tool" /\ f.items[p].turn = u
      BY <1>3, <1>5, <1>9
    <3>2. (s \notin Done) \in BOOLEAN
      OBVIOUS
    <3> QED BY <1>6, <3>1, <3>2 DEF Items, Fields, Shape, Text
  <2> HIDE DEF old
  <2>2. p \in Positions(f) /\ rr = Change(f, p, "update", old)
    BY <1>2, <1>3, <1>9
  <2>3. Changed(u, f, rr, p, "update", old) /\ rr.open = f.open
    <3>1. Changing(u, f, p, "update", old)
      BY <1>1, <1>7, <2>1, <2>2 DEF Changing
    <3> QED BY <2>2, <3>1, ChangeMakes
  <2>4. PlainChange(u, f, rr, p, "update", old) /\ rr.ordinal = f.ordinal
    BY <1>3, <1>4, <1>5, <1>7, <1>9, <2>1, <2>3 DEF PlainChange, Changed
  <2>5. Good(u, a, rr, h, 0)
    BY <1>1, <2>4, ChangeGood
  <2> QED BY <1>1, <2>4, <2>5
<1> QED BY <1>8, <1>9

(* A plan update.                                                          *)
LEMMA ReplacePlanGood ==
  ASSUME NEW u \in Turns, NEW a \in Seq(Items), NEW r, NEW h \in Seq(Nat), Good(u, a, r, h, 0),
         NEW rr, rr = ReplacePlan(r, u)
  PROVE  Good(u, a, rr, h, 0) /\ rr.ordinal = r.ordinal
<1> DEFINE f == FlushOpen(r)
           p == Position(f, PlanId(u))
           item == Item(PlanId(u), u, "plan", <<>>, "active_hidden", FALSE)
<1>1. Good(u, a, f, h, 0) /\ f.open = <<>> /\ f.ordinal = r.ordinal /\ f \in Reducers
  BY FlushGood
<1>2. rr = IF p # 0 THEN Change(f, p, "plan", item)
           ELSE PushMutation([f EXCEPT !.items = Append(@, item)], "plan", item)
  BY DEF ReplacePlan
<1> HIDE DEF f
<1>3. p # 0 => p \in Positions(f) /\ f.items[p].id = PlanId(u)
  BY <1>1, PositionFinds
<1> HIDE DEF p
<1>4. p # 0 => f.items[p] \in Items /\ f.items[p].turn = u
  BY <1>1, <1>3, ReducerFields DEF Good, Sound
<1>5. PlanId(u) \in Ids /\ PlanId(u).kind = "plan" /\ PlanId(u).space = "plan"
  BY DEF PlanId, Id, Ids, Kinds
<1>6. p # 0 => f.items[p].kind \notin Text /\ f.items[p].mark = None
  <2>1. p # 0 => Shape(f.items[p])
    BY <1>4, ItemFields
  <2>2. p # 0 => f.items[p].kind \notin Text
    BY <1>3, <1>5, <2>1 DEF Shape, Text
  <2>3. p # 0 => f.items[p].mark = None
    BY <1>1, <1>3 DEF Good, Marked
  <2> QED BY <2>2, <2>3
<1>7. "plan" \in Ops /\ "plan" \notin Text
  BY DEF Ops, Text
<1>8. /\ item \in Items /\ item.id = PlanId(u) /\ item.turn = u /\ item.kind = "plan"
      /\ item.mark = None /\ item.streaming = FALSE
  <2>1. Fits(PlanId(u), u, "plan", "active_hidden")
    BY <1>5 DEF Fits, Kinds, Statuses, Text, None
  <2> QED BY <2>1 DEF Fits, Item, Items, Fields, Shape, Marks
<1> HIDE DEF item
<1>9. CASE p = 0
  <2>1. rr = PushMutation([f EXCEPT !.items = Append(@, item)], "plan", item)
    BY <1>2, <1>9
  <2>2. Appends(f, rr, "plan", item)
    BY ONLY <1>1, <1>7, <1>8, <2>1, PushIs
  <2>3. PlainPush(u, f, rr, "plan", item) /\ rr.ordinal = f.ordinal
    BY <1>1, <1>5, <1>7, <1>8, <2>2, ReducerFields DEF Appends, PlainPush, Pushed
  <2>4. Good(u, a, rr, h, 0)
    BY <1>1, <2>3, PushGood
  <2> QED BY <1>1, <2>3, <2>4
<1>10. CASE p # 0
  <2>1. p \in Positions(f) /\ rr = Change(f, p, "plan", item)
    BY <1>2, <1>3, <1>10
  <2>2. Changed(u, f, rr, p, "plan", item) /\ rr.open = f.open
    <3>1. Changing(u, f, p, "plan", item)
      BY <1>1, <1>3, <1>7, <1>8, <1>10, <2>1 DEF Changing
    <3> QED BY <2>1, <3>1, ChangeMakes
  <2>3. PlainChange(u, f, rr, p, "plan", item) /\ rr.ordinal = f.ordinal
    BY <1>5, <1>6, <1>7, <1>8, <1>10, <2>2 DEF PlainChange, Changed
  <2>4. Good(u, a, rr, h, 0)
    BY <1>1, <2>3, ChangeGood
  <2> QED BY <1>1, <2>3, <2>4
<1> QED BY <1>9, <1>10

(* A permission request ...                                                *)
LEMMA AskPermissionGood ==
  ASSUME NEW u \in Turns, NEW a \in Seq(Items), NEW r, NEW h \in Seq(Nat), Good(u, a, r, h, 0),
         NEW request \in Keys, NEW rr, rr = AskPermission(r, u, request)
  PROVE  Good(u, a, rr, h, 0) /\ rr.ordinal = r.ordinal
<1> DEFINE f == FlushOpen(r)
           id == PermissionId(u, request)
           item == Item(id, u, "permission", <<>>, "requesting", FALSE)
<1>1. Good(u, a, f, h, 0) /\ f.open = <<>> /\ f.ordinal = r.ordinal /\ f \in Reducers
  BY FlushGood
<1>2. rr = PushMutation([f EXCEPT !.items = Append(@, item)], "add", item)
  BY DEF AskPermission, PushAdd
<1> HIDE DEF f
<1>3. id \in Ids /\ id.kind = "permission" /\ id.space = "permission"
  BY DEF PermissionId, Id, Ids, Kinds
<1> HIDE DEF id
<1>4. "add" \in Ops /\ "permission" \notin Text
  BY DEF Ops, Text
<1>5. /\ item \in Items /\ item.id = id /\ item.turn = u /\ item.kind = "permission"
      /\ item.mark = None /\ item.streaming = FALSE
  <2>1. Fits(id, u, "permission", "requesting")
    BY <1>3 DEF Fits, Kinds, Statuses, Text, None
  <2> QED BY <2>1 DEF Fits, Item, Items, Fields, Shape, Marks
<1> HIDE DEF item
<1>6. Appends(f, rr, "add", item)
  BY ONLY <1>1, <1>2, <1>4, <1>5, PushIs
<1>7. PlainPush(u, f, rr, "add", item) /\ rr.ordinal = f.ordinal
  BY <1>1, <1>3, <1>4, <1>5, <1>6, ReducerFields DEF Appends, PlainPush, Pushed
<1>8. Good(u, a, rr, h, 0)
  BY <1>1, <1>7, PushGood
<1> QED BY <1>1, <1>7, <1>8

(* ... and the decision about it.                                          *)
LEMMA DecidePermissionGood ==
  ASSUME NEW u \in Turns, NEW a \in Seq(Items), NEW r, NEW h \in Seq(Nat), Good(u, a, r, h, 0),
         NEW request \in Keys, NEW status \in Statuses \ {None},
         NEW rr, rr = DecidePermission(r, u, request, status)
  PROVE  Good(u, a, rr, h, 0) /\ rr.ordinal = r.ordinal
<1> DEFINE id == PermissionId(u, request)
           p == Position(r, id)
           item == [r.items[p] EXCEPT !.status = status]
<1>1. rr = IF p = 0 THEN r ELSE Change(r, p, "update", item)
  BY DEF DecidePermission
<1>2. r \in Reducers
  BY DEF Good, Sound
<1>3. id.kind = "permission" /\ id.space = "permission"
  BY DEF PermissionId, Id
<1>4. p # 0 => p \in Positions(r) /\ r.items[p].id = id
  BY <1>2, PositionFinds
<1> HIDE DEF p, id
<1>5. CASE p = 0
  BY <1>1, <1>5
<1>6. CASE p # 0
  <2>1. r.items[p] \in Items /\ r.items[p].turn = u
    BY <1>2, <1>4, <1>6, ReducerFields DEF Good, Sound
  <2>2. r.items[p].kind = "permission" /\ "permission" \notin Text
    <3>1. Shape(r.items[p])
      BY <2>1, ItemFields
    <3> QED BY <1>3, <1>4, <1>6, <3>1 DEF Shape, Text
  <2>3. r.items[p].streaming = FALSE
    <3>1. Shape(r.items[p]) /\ r.items[p].streaming \in BOOLEAN
      BY <2>1, ItemFields
    <3> QED BY <2>2, <3>1 DEF Shape
  <2>4. /\ item \in Items /\ item.id = r.items[p].id /\ item.turn = u
        /\ item.kind = r.items[p].kind /\ item.mark = r.items[p].mark
        /\ item.streaming = FALSE
    BY <2>1, <2>2, <2>3 DEF Items, Fields, Shape, Text
  <2> HIDE DEF item
  <2>5. Changed(u, r, rr, p, "update", item) /\ rr.open = r.open
    <3>1. rr = Change(r, p, "update", item)
      BY <1>1, <1>6
    <3>2. Changing(u, r, p, "update", item)
      BY <1>2, <1>4, <1>6, <2>4 DEF Changing, Ops
    <3> QED BY <3>1, <3>2, ChangeMakes
  <2>6. PlainChange(u, r, rr, p, "update", item) /\ rr.ordinal = r.ordinal
    BY <1>3, <1>4, <1>6, <2>2, <2>4, <2>5 DEF PlainChange, Changed
  <2>7. Good(u, a, rr, h, 0)
    BY <2>6, ChangeGood
  <2> QED BY <2>6, <2>7
<1> QED BY <1>5, <1>6

(* A stage title.                                                          *)
LEMMA SetStageGood ==
  ASSUME NEW u, NEW a \in Seq(Items), NEW r, NEW h, Good(u, a, r, h, 0),
         NEW rr, rr = SetStage(r)
  PROVE  Good(u, a, rr, h, 0) /\ rr.ordinal = r.ordinal
<1> DEFINE p == Position(r, r.open[1])
           item == r.items[p]
<1>1. CASE ~IsOpen(r, "reasoning")
  BY <1>1 DEF SetStage
<1>2. CASE IsOpen(r, "reasoning")
  <2>1. rr = Change(r, p, "update", item)
    BY <1>2 DEF SetStage
  <2>2. Sound(u, r) /\ r \in Reducers /\ r.open # <<>> /\ "update" \in Ops
    BY <1>2 DEF Good, Sound, IsOpen, Ops
  <2>3. /\ p \in Positions(r) /\ item \in Items /\ item.turn = u
        /\ AllOnce(r.items) => p = Len(r.items)
    BY <2>2, OpenFound
  <2> HIDE DEF item, p
  <2>4. item = r.items[p]
    BY DEF item
  <2>5. Changed(u, r, rr, p, "update", item) /\ rr.open = r.open
    <3>1. Changing(u, r, p, "update", item)
      BY <2>2, <2>3, <2>4 DEF Changing
    <3> QED BY <2>1, <3>1, ChangeMakes
  <2>6. item.mark = None
    <3>1. p # 0
      BY <2>2, <2>3, ReducerFields DEF Positions
    <3> QED BY <2>3, <2>4, <3>1 DEF Good, Marked
  <2>7. IsPrefix(r.items[p].text, item.text)
    BY <2>3, <2>4, ItemFields, PrefixSelf
  <2>8. Hears(rr, h)
    BY <2>4, <2>5, ChangedHears DEF Good
  <2>9. p = Len(r.items) => item.kind \in Text /\ item.streaming
    BY <2>2, <2>4 DEF Sound, OpenIsLast
  <2>10. Good(u, a, rr, h, 0)
    <3>1. rr.open = r.open /\ rr.open # <<>>
      BY <2>2, <2>5
    <3> QED BY <2>3, <2>4, <2>5, <2>6, <2>7, <2>8, <2>9, <3>1, ChangeStep
  <2> QED BY <2>5, <2>10 DEF Changed
<1> QED BY <1>1, <1>2

-----------------------------------------------------------------------------
(* What the reducer is given, and TurnReducer::apply.                      *)
GoodUpdate(upd) ==
  upd.key \in Keys /\ (upd.kind = "tool" => upd.status \in Statuses)

LEMMA UpdateGood ==
  ASSUME NEW kind, NEW key \in Keys, NEW status, kind = "tool" => status \in Statuses
  PROVE  GoodUpdate(Update(kind, key, status))
BY DEF GoodUpdate, Update

LEMMA NormalizedGood ==
  ASSUME NEW u \in Turns, NEW l \in Lines[u] PROVE GoodUpdate(Normalized(l))
<1>1. l.key \in Keys /\ l.status \in Statuses /\ None \in Keys /\ Unknown \in Keys
  BY DEF Keys, Statuses, AllLines
<1>2. GoodUpdate(Diagnostic)
  BY <1>1, UpdateGood DEF Diagnostic
<1>3. GoodUpdate(Inferred(l))
  BY <1>1, <1>2, UpdateGood DEF Inferred
<1>4. GoodUpdate(SessionUpdate(l))
  BY <1>1, <1>2, <1>3, UpdateGood DEF SessionUpdate
<1>5. GoodUpdate(Normalized(l))
  BY <1>1, <1>2, <1>4, UpdateGood DEF Normalized
<1> QED BY <1>5

LEMMA ApplyGood ==
  ASSUME NEW u \in Turns, NEW a \in Seq(Items), NEW r, NEW h \in Seq(Nat), Good(u, a, r, h, 0),
         NEW upd, GoodUpdate(upd), NEW n \in Nat, NEW rr, rr = Apply(r, u, upd, n)
  PROVE  /\ Good(u, a, rr, IF upd.kind \in Text THEN Append(h, n) ELSE h, 0)
         /\ rr.ordinal \in {r.ordinal, r.ordinal + 1}
<1>1. CASE upd.kind \in Text
  <2>1. rr = AppendText(r, u, upd.kind, upd.key, n) /\ upd.key \in Keys
    BY <1>1 DEF Apply, GoodUpdate, Text
  <2>2. CASE IsOpen(r, upd.kind)
    BY <1>1, <2>1, <2>2, AppendOpenGood
  <2>3. CASE ~IsOpen(r, upd.kind)
    <3>1. /\ Good(u, a, rr, Append(h, n), 0) /\ rr.ordinal = r.ordinal + 1
      BY <1>1, <2>1, <2>3, AppendNewGood
    <3> QED BY <1>1, <3>1
  <2> QED BY <2>2, <2>3
<1>2. CASE upd.kind \notin Text
  <2>1. upd.key \in Keys
    BY DEF GoodUpdate
  <2>2. CASE upd.kind = "user"
    <3>1. rr = UserText(r, u, upd, n)
      BY <1>2, <2>2 DEF Apply
    <3> QED BY <1>2, <2>1, <3>1, UserTextGood
  <2>3. CASE upd.kind = "tool"
    <3>1. rr = UpsertTool(r, u, upd.key, upd.status) /\ upd.status \in Statuses
      BY <1>2, <2>3 DEF Apply, GoodUpdate
    <3> QED BY <1>2, <2>1, <3>1, UpsertToolGood
  <2>4. CASE upd.kind = "plan"
    <3>1. rr = ReplacePlan(r, u)
      BY <1>2, <2>4 DEF Apply
    <3> QED BY <1>2, <3>1, ReplacePlanGood
  <2>5. CASE upd.kind = "permission"
    <3>1. rr = AskPermission(r, u, upd.key)
      BY <1>2, <2>5 DEF Apply
    <3> QED BY <1>2, <2>1, <3>1, AskPermissionGood
  <2>6. CASE upd.kind = "stage"
    <3>1. rr = SetStage(r)
      BY <1>2, <2>6 DEF Apply
    <3> QED BY <1>2, <3>1, SetStageGood
  <2>7. CASE upd.kind \notin {"user", "tool", "plan", "permission", "stage"}
    <3>1. rr = r
      BY <1>2, <2>7 DEF Apply
    <3> QED BY <1>2, <3>1
  <2> QED BY <2>2, <2>3, <2>4, <2>5, <2>6, <2>7
<1> QED BY <1>1, <1>2

-----------------------------------------------------------------------------
(* finalize_turn.                                                          *)
LEMMA MarkGood ==
  ASSUME NEW u, NEW a \in Seq(Items), NEW r, NEW h, Good(u, a, r, h, 0), r.open = <<>>,
         NEW mark \in Marks, NEW rr, rr = MarkAnswer(r, mark)
  PROVE  (\E z : Good(u, a, rr, h, z)) /\ rr.open = <<>> /\ rr.ordinal = r.ordinal
<1> DEFINE p == LastOf(r, "assistant")
           item == [r.items[p] EXCEPT !.mark = mark, !.streaming = FALSE]
<1>1. rr = IF mark = None \/ p = 0 THEN r ELSE Change(r, p, "update", item)
  BY DEF MarkAnswer
<1>2. r \in Reducers /\ Sound(u, r) /\ "update" \in Ops
  BY DEF Good, Sound, Ops
<1>3. p # 0 => /\ p \in Positions(r) /\ r.items[p].kind = "assistant"
               /\ \A k \in Positions(r) : r.items[k].kind = "assistant" => k <= p
  BY <1>2, LastOfFinds
<1> HIDE DEF p
<1>4. CASE mark = None \/ p = 0
  BY <1>1, <1>4
<1>5. CASE mark # None /\ p # 0
  <2>1. rr = Change(r, p, "update", item)
    BY <1>1, <1>5
  <2>2. p \in Positions(r) /\ r.items[p] \in Items /\ r.items[p].turn = u
    BY <1>2, <1>3, <1>5, ReducerFields DEF Sound
  <2>3. /\ item \in Items /\ item.id = r.items[p].id /\ item.turn = u
        /\ item.kind = r.items[p].kind /\ item.text = r.items[p].text /\ item.streaming = FALSE
    BY <1>3, <1>5, <2>2 DEF Items, Fields, Shape
  <2> HIDE DEF item
  <2>4. Changed(u, r, rr, p, "update", item) /\ rr.open = r.open
    <3>1. Changing(u, r, p, "update", item)
      BY <1>2, <2>2, <2>3 DEF Changing
    <3> QED BY <2>1, <3>1, ChangeMakes
  <2>5. IsPrefix(r.items[p].text, item.text)
    BY <2>2, <2>3, ItemFields, PrefixSelf
  <2>6. Hears(rr, h)
    BY <2>3, <2>4, ChangedHears DEF Good, Piece
  <2>7. \A j \in Positions(r) : j > p => r.items[j].kind # "assistant"
    <3>1. ASSUME NEW j \in Positions(r), j > p, r.items[j].kind = "assistant" PROVE FALSE
      <4>1. j <= p
        BY <1>3, <1>5, <3>1
      <4> QED BY <2>2, <3>1, <4>1, <1>2, ReducerFields DEF Positions
    <3> QED BY <3>1
  <2>8. Good(u, a, rr, h, p)
    BY <1>3, <1>5, <2>3, <2>4, <2>5, <2>6, <2>7, ChangeStep
  <2> QED BY <2>4, <2>8 DEF Changed
<1> QED BY <1>4, <1>5

NoPlan(r) == AllOnce(r.items) => \A k \in Positions(r) : r.items[k].kind # "plan"

LEMMA FinalizePlanGood ==
  ASSUME NEW u \in Turns, NEW a \in Seq(Items), NEW r, NEW h, NEW z, Good(u, a, r, h, z),
         r.open = <<>>, NEW rr, rr = FinalizePlan(r, u)
  PROVE  Good(u, a, rr, h, z) /\ rr.open = <<>> /\ rr.ordinal = r.ordinal /\ NoPlan(rr)
<1> DEFINE p == Position(r, PlanId(u))
           item == [r.items[p] EXCEPT !.kind = "plan_snapshot", !.status = "completed_visible"]
<1>1. rr = IF p = 0 THEN r ELSE Change(r, p, "plan_finalize", item)
  BY DEF FinalizePlan
<1>2. r \in Reducers /\ "plan_finalize" \in Ops
  BY DEF Good, Sound, Ops
<1>3. /\ p = 0 => \A k \in Positions(r) : r.items[k].id # PlanId(u)
      /\ p # 0 => p \in Positions(r) /\ r.items[p].id = PlanId(u)
  BY <1>2, PositionFinds
<1> HIDE DEF p
<1>4. \A k \in Positions(r) : r.items[k].kind = "plan" => r.items[k].id = PlanId(u)
  <2>1. ASSUME NEW k \in Positions(r), r.items[k].kind = "plan" PROVE r.items[k].id = PlanId(u)
    <3>1. Shape(r.items[k]) /\ r.items[k].turn = u
      BY <1>2, ReducerFields, ItemFields DEF Good, Sound
    <3> QED BY <2>1, <3>1 DEF Shape
  <2> QED BY <2>1
<1>5. CASE p = 0
  <2>1. rr = r
    BY <1>1, <1>5
  <2>2. NoPlan(r)
    BY <1>3, <1>4, <1>5 DEF NoPlan
  <2> QED BY <2>1, <2>2
<1>6. CASE p # 0
  <2>1. p \in Positions(r) /\ rr = Change(r, p, "plan_finalize", item) /\ r.items[p].id = PlanId(u)
    BY <1>1, <1>3, <1>6
  <2>2. r.items[p] \in Items /\ r.items[p].turn = u
    BY <1>2, <2>1, ReducerFields DEF Good, Sound
  <2>3. PlanId(u).kind = "plan" /\ PlanId(u).space = "plan"
    BY DEF PlanId, Id
  <2>4. r.items[p].kind \in {"plan", "plan_snapshot"}
    <3>1. Shape(r.items[p])
      BY <2>2, ItemFields
    <3> QED BY <2>1, <2>3, <3>1 DEF Shape
  <2>5. r.items[p].kind \notin Text /\ "plan_snapshot" \notin Text
    BY <2>4 DEF Text
  <2>6. r.items[p].streaming = FALSE /\ r.items[p].mark = None
    <3>1. Shape(r.items[p]) /\ r.items[p].streaming \in BOOLEAN
      BY <2>2, ItemFields
    <3> QED BY <2>4, <2>5, <3>1 DEF Shape
  <2>7. /\ item \in Items /\ item.id = r.items[p].id /\ item.turn = u
        /\ item.kind = "plan_snapshot" /\ item.mark = r.items[p].mark /\ item.streaming = FALSE
    <3>1. "completed_visible" \in Statuses /\ "completed_visible" # None
      BY DEF Statuses, None
    <3>2. "plan_snapshot" \in Kinds
      BY DEF Kinds
    <3> QED BY <2>1, <2>2, <2>3, <2>4, <2>6, <3>1, <3>2 DEF Items, Fields, Shape, Text
  <2> HIDE DEF item
  <2>8. Changed(u, r, rr, p, "plan_finalize", item) /\ rr.open = r.open
    <3>1. Changing(u, r, p, "plan_finalize", item)
      BY <1>2, <2>1, <2>7 DEF Changing
    <3> QED BY <2>1, <3>1, ChangeMakes
  <2>9. PlainChange(u, r, rr, p, "plan_finalize", item) /\ rr.ordinal = r.ordinal
    BY <2>1, <2>3, <2>5, <2>7, <2>8 DEF PlainChange, Changed
  <2>10. Good(u, a, rr, h, z)
    BY <2>9, ChangeGood
  <2>11. NoPlan(rr)
    <3> SUFFICES ASSUME AllOnce(rr.items), NEW k \in Positions(rr), rr.items[k].kind = "plan"
                 PROVE  FALSE
      BY DEF NoPlan
    <3>1. /\ Positions(rr) = Positions(r) /\ AllOnce(r.items)
          /\ \A j \in Positions(r) : rr.items[j] = IF j = p THEN item ELSE r.items[j]
      BY <2>8, ChangedItems
    <3>2. k \in Positions(r) /\ k # p /\ rr.items[k] = r.items[k]
      BY <2>7, <3>1
    <3>3. r.items[k].id = PlanId(u)
      BY <1>4, <3>2
    <3>4. k \in 1..Len(r.items) /\ p \in 1..Len(r.items) /\ AllOnce(r.items)
          /\ r.items[k].id = r.items[p].id /\ k # p
      BY <2>1, <3>1, <3>2, <3>3 DEF Positions
    <3> QED BY ONLY <3>4 DEF AllOnce
  <2> QED BY <2>8, <2>9, <2>10, <2>11
<1> QED BY <1>5, <1>6

Abandoned(i) == i.kind = "tool" /\ i.status \in Open
Given(i) == [i EXCEPT !.status = "unknown", !.streaming = FALSE]
RecordOf(i) == IF Abandoned(i) THEN <<[op |-> "update", item |-> Given(i)]>> ELSE <<>>
RecordsOf(items) == FlattenSeq([k \in 1..Len(items) |-> RecordOf(items[k])])

(* What AbandonTools leaves of the reducer r.                              *)
Abandons(r, rr) ==
  /\ rr.items = [k \in 1..Len(r.items) |->
                    IF Abandoned(r.items[k]) THEN Given(r.items[k]) ELSE r.items[k]]
  /\ rr.pending = r.pending \o RecordsOf(r.items)
  /\ rr.ordinal = r.ordinal /\ rr.open = r.open

LEMMA GivenItem ==
  ASSUME NEW i \in Items, Abandoned(i)
  PROVE  /\ Given(i) \in Items /\ Given(i).id = i.id /\ Given(i).turn = i.turn
         /\ Given(i).kind = "tool" /\ Given(i).kind = i.kind /\ Given(i).text = i.text
         /\ Given(i).mark = i.mark /\ Given(i).status = "unknown" /\ Given(i).streaming = FALSE
<1>1. "unknown" \in Statuses /\ "unknown" # None
  BY DEF Statuses, None
<1> QED BY <1>1 DEF Abandoned, Given, Items, Fields, Shape, Text

(* Every record is of an abandoned tool, and every one has a record.       *)
LEMMA RecordsOfItems ==
  ASSUME NEW items \in Seq(Items)
  PROVE  LET q == RecordsOf(items) IN
         /\ q \in Seq(Muts)
         /\ \A p \in 1..Len(q) :
               \E k \in 1..Len(items) : Abandoned(items[k]) /\ q[p].item = Given(items[k])
         /\ \A k \in 1..Len(items) :
               Abandoned(items[k]) => \E p \in 1..Len(q) : q[p].item = Given(items[k])
<1> DEFINE ss == [k \in 1..Len(items) |-> RecordOf(items[k])]
           q == RecordsOf(items)
<1>1. ASSUME NEW k \in 1..Len(items)
      PROVE  /\ RecordOf(items[k]) \in Seq(Muts)
             /\ Abandoned(items[k]) =>
                   1 \in 1..Len(RecordOf(items[k])) /\ RecordOf(items[k])[1].item = Given(items[k])
             /\ \A j \in 1..Len(RecordOf(items[k])) :
                   Abandoned(items[k]) /\ RecordOf(items[k])[j].item = Given(items[k])
  <2>1. items[k] \in Items
    OBVIOUS
  <2>2. CASE Abandoned(items[k])
    <3> DEFINE g == Given(items[k])
               m == [op |-> "update", item |-> g]
    <3>1. g \in Items
      BY <2>1, <2>2, GivenItem
    <3> HIDE DEF g
    <3>2. m \in Muts /\ m.item = g
      BY <3>1 DEF Muts, Ops
    <3>3. RecordOf(items[k]) = <<m>>
      BY <2>2 DEF RecordOf, g
    <3> HIDE DEF m
    <3>4. <<m>> \in Seq(Muts) /\ Len(<<m>>) = 1 /\ <<m>>[1] = m
      BY <3>2
    <3> QED BY <2>2, <3>2, <3>3, <3>4 DEF g
  <2>3. CASE ~Abandoned(items[k])
    BY <2>3 DEF RecordOf
  <2> QED BY <2>2, <2>3
<1>2. /\ ss \in Seq(Seq(Muts)) /\ Len(ss) = Len(items)
      /\ \A k \in 1..Len(items) : ss[k] = RecordOf(items[k])
  BY <1>1
<1>3. q = FlattenSeq(ss)
  BY DEF RecordsOf
<1> HIDE DEF ss, q
<1>4. /\ q \in Seq(Muts)
      /\ \A k \in 1..Len(ss) : \A i \in 1..Len(ss[k]) : \E j \in 1..Len(q) : q[j] = ss[k][i]
      /\ \A j \in 1..Len(q) : \E k \in 1..Len(ss) : \E i \in 1..Len(ss[k]) : q[j] = ss[k][i]
  <2>1. FlattenOK(Muts, ss)
    BY <1>2, FlattenElements
  <2> QED BY <1>3, <2>1 DEF FlattenOK
<1>5. ASSUME NEW p \in 1..Len(q)
      PROVE  \E k \in 1..Len(items) : Abandoned(items[k]) /\ q[p].item = Given(items[k])
  <2>1. PICK k \in 1..Len(ss) : \E i \in 1..Len(ss[k]) : q[p] = ss[k][i]
    BY <1>4
  <2>2. k \in 1..Len(items) /\ ss[k] = RecordOf(items[k])
    BY <1>2, <2>1
  <2>3. PICK i \in 1..Len(RecordOf(items[k])) : q[p] = RecordOf(items[k])[i]
    BY <2>1, <2>2
  <2>4. Abandoned(items[k]) /\ RecordOf(items[k])[i].item = Given(items[k])
    BY <1>1, <2>2, <2>3
  <2> QED BY <2>2, <2>3, <2>4
<1>6. ASSUME NEW k \in 1..Len(items), Abandoned(items[k])
      PROVE  \E p \in 1..Len(q) : q[p].item = Given(items[k])
  <2>1. 1 \in 1..Len(RecordOf(items[k])) /\ RecordOf(items[k])[1].item = Given(items[k])
    BY <1>1, <1>6
  <2>2. k \in 1..Len(ss) /\ ss[k] = RecordOf(items[k])
    BY <1>2
  <2>3. \E p \in 1..Len(q) : q[p] = ss[k][1]
    <3>1. 1 \in 1..Len(ss[k])
      BY <2>1, <2>2
    <3> QED BY <1>4, <2>2, <3>1
  <2> QED BY <2>1, <2>2, <2>3
<1> QED BY <1>4, <1>5, <1>6 DEF q

LEMMA AbandonsAs ==
  ASSUME NEW r \in Reducers, NEW rr, rr = AbandonTools(r)
  PROVE  Abandons(r, rr) /\ rr \in Reducers
<1> DEFINE items == [k \in 1..Len(r.items) |->
                        IF Abandoned(r.items[k]) THEN Given(r.items[k]) ELSE r.items[k]]
           b == r.pending \o RecordsOf(r.items)
<1>1. r.items \in Seq(Items) /\ r.pending \in Seq(Muts) /\ DOMAIN r.items = 1..Len(r.items)
  BY ReducerFields
<1>2. rr = [r EXCEPT !.items = items, !.pending = b]
  BY <1>1 DEF AbandonTools, Abandoned, Given, RecordOf, RecordsOf, Reducers
<1>3. items \in Seq(Items)
  <2>1. \A k \in 1..Len(r.items) :
           (IF Abandoned(r.items[k]) THEN Given(r.items[k]) ELSE r.items[k]) \in Items
    <3> SUFFICES ASSUME NEW k \in 1..Len(r.items)
                 PROVE  (IF Abandoned(r.items[k]) THEN Given(r.items[k]) ELSE r.items[k]) \in Items
      OBVIOUS
    <3>1. r.items[k] \in Items
      BY <1>1
    <3>2. Abandoned(r.items[k]) => Given(r.items[k]) \in Items
      BY <3>1, GivenItem
    <3> QED BY <3>1, <3>2
  <2> QED BY <1>1, <2>1
<1>4. b \in Seq(Muts)
  <2>1. RecordsOf(r.items) \in Seq(Muts)
    BY <1>1, RecordsOfItems
  <2> QED BY <1>1, <2>1
<1> HIDE DEF items, b
<1>5. rr \in Reducers /\ rr.items = items /\ rr.pending = b /\ rr.ordinal = r.ordinal
      /\ rr.open = r.open
  BY <1>2, <1>3, <1>4 DEF Reducers
<1> QED BY <1>5 DEF Abandons, items, b

LEMMA AbandonsItems ==
  ASSUME NEW r \in Reducers, NEW rr \in Reducers, Abandons(r, rr)
  PROVE  /\ Len(rr.items) = Len(r.items) /\ Len(r.items) \in Nat
         /\ Positions(rr) = Positions(r) /\ Positions(r) = 1..Len(r.items)
         /\ \A k \in Positions(r) :
               /\ rr.items[k] = IF Abandoned(r.items[k]) THEN Given(r.items[k]) ELSE r.items[k]
               /\ rr.items[k].id = r.items[k].id /\ rr.items[k].turn = r.items[k].turn
               /\ rr.items[k].kind = r.items[k].kind /\ rr.items[k].text = r.items[k].text
               /\ rr.items[k].mark = r.items[k].mark
               /\ rr.items[k].streaming => r.items[k].streaming
               /\ rr.items[k].kind = "tool" => rr.items[k].status \notin Open
         /\ AllOnce(rr.items) <=> AllOnce(r.items)
<1>1. Len(r.items) \in Nat /\ \A k \in Positions(r) : r.items[k] \in Items
  BY ReducerFields
<1>2. /\ Len(rr.items) = Len(r.items) /\ Positions(rr) = Positions(r)
      /\ \A k \in Positions(r) :
            rr.items[k] = IF Abandoned(r.items[k]) THEN Given(r.items[k]) ELSE r.items[k]
  BY <1>1 DEF Abandons, Positions
<1>3. ASSUME NEW k \in Positions(r)
      PROVE  /\ rr.items[k].id = r.items[k].id /\ rr.items[k].turn = r.items[k].turn
             /\ rr.items[k].kind = r.items[k].kind /\ rr.items[k].text = r.items[k].text
             /\ rr.items[k].mark = r.items[k].mark
             /\ rr.items[k].streaming => r.items[k].streaming
             /\ rr.items[k].kind = "tool" => rr.items[k].status \notin Open
  <2>1. CASE Abandoned(r.items[k])
    <3>1. rr.items[k] = Given(r.items[k]) /\ r.items[k] \in Items
      BY <1>1, <1>2, <2>1
    <3>2. "unknown" \notin Open
      BY DEF Open
    <3>3. /\ Given(r.items[k]).id = r.items[k].id /\ Given(r.items[k]).turn = r.items[k].turn
          /\ Given(r.items[k]).kind = r.items[k].kind /\ Given(r.items[k]).text = r.items[k].text
          /\ Given(r.items[k]).mark = r.items[k].mark /\ Given(r.items[k]).status = "unknown"
          /\ Given(r.items[k]).streaming = FALSE
      BY <2>1, <3>1, GivenItem
    <3> QED BY <3>1, <3>2, <3>3
  <2>2. CASE ~Abandoned(r.items[k])
    BY <1>2, <2>2 DEF Abandoned
  <2> QED BY <2>1, <2>2
<1>4. AllOnce(rr.items) <=> AllOnce(r.items)
  BY <1>2, <1>3 DEF AllOnce, Positions
<1> QED BY <1>1, <1>2, <1>3, <1>4 DEF Positions

LEMMA AbandonsRecorded ==
  ASSUME NEW r \in Reducers, NEW rr \in Reducers, Abandons(r, rr)
  PROVE  Recorded(r, rr, RecordsOf(r.items))
<1> DEFINE q == RecordsOf(r.items)
<1>1. /\ Len(rr.items) = Len(r.items)
      /\ Positions(rr) = Positions(r) /\ Positions(r) = 1..Len(r.items)
      /\ \A k \in Positions(r) :
            /\ rr.items[k] = IF Abandoned(r.items[k]) THEN Given(r.items[k]) ELSE r.items[k]
            /\ rr.items[k].id = r.items[k].id /\ rr.items[k].turn = r.items[k].turn
  BY AbandonsItems
<1>2. r.items \in Seq(Items)
  BY ReducerFields
<1>3. /\ q \in Seq(Muts)
      /\ \A p \in 1..Len(q) :
            \E k \in 1..Len(r.items) : Abandoned(r.items[k]) /\ q[p].item = Given(r.items[k])
      /\ \A k \in 1..Len(r.items) :
            Abandoned(r.items[k]) => \E p \in 1..Len(q) : q[p].item = Given(r.items[k])
  BY <1>2, RecordsOfItems
<1>4. rr.pending = r.pending \o q
  BY DEF Abandons
<1> HIDE DEF q
<1>5. \A k \in Positions(r) : rr.items[k] = r.items[k] \/ \E p \in 1..Len(q) : q[p].item = rr.items[k]
  BY <1>1, <1>3
<1>6. \A p \in 1..Len(q) : \E k \in Positions(rr) : q[p].item = rr.items[k]
  BY <1>1, <1>3
<1>7. Recorded(r, rr, q)
  BY <1>1, <1>3, <1>4, <1>5, <1>6 DEF Recorded
<1> QED BY <1>7 DEF q

(* Of a finalized reducer: nothing of it is shown as going on.             *)
FinalOK(r) ==
  /\ r.open = <<>>
  /\ AllOnce(r.items) =>
        \A k \in Positions(r) :
           /\ r.items[k].streaming => r.items[k].kind = "tool" /\ r.items[k].status \notin Open
           /\ r.items[k].kind = "tool" => r.items[k].status \notin Open
           /\ r.items[k].kind # "plan"

LEMMA AbandonGood ==
  ASSUME NEW u, NEW a \in Seq(Items), NEW r, NEW h, NEW z, Good(u, a, r, h, z),
         r.open = <<>>, NoPlan(r), NEW rr, rr = AbandonTools(r)
  PROVE  Good(u, a, rr, h, z) /\ FinalOK(rr) /\ rr.ordinal = r.ordinal
<1>1. r \in Reducers /\ Sound(u, r)
  BY DEF Good, Sound
<1>2. Abandons(r, rr) /\ rr \in Reducers
  BY <1>1, AbandonsAs
<1>3. /\ Len(rr.items) = Len(r.items) /\ Len(r.items) \in Nat
      /\ Positions(rr) = Positions(r) /\ Positions(r) = 1..Len(r.items)
      /\ AllOnce(rr.items) <=> AllOnce(r.items)
  BY <1>1, <1>2, AbandonsItems
<1>4. \A k \in Positions(r) :
         /\ rr.items[k].id = r.items[k].id /\ rr.items[k].turn = r.items[k].turn
         /\ rr.items[k].kind = r.items[k].kind /\ rr.items[k].text = r.items[k].text
         /\ rr.items[k].mark = r.items[k].mark
         /\ rr.items[k].streaming => r.items[k].streaming
         /\ rr.items[k].kind = "tool" => rr.items[k].status \notin Open
  BY <1>1, <1>2, AbandonsItems
<1>5. rr.open = <<>> /\ rr.ordinal = r.ordinal
  BY <1>2 DEF Abandons
<1>6. Sound(u, rr)
  BY <1>1, <1>2, <1>3, <1>4, <1>5 DEF Sound, OpenIsLast
<1>7. Tracks(a, rr)
  <2>1. Grown(r.items, rr.items)
    <3>1. \A k \in 1..Len(r.items) : IsPrefix(r.items[k].text, rr.items[k].text)
      <4>1. \A k \in Positions(r) : r.items[k].text \in Seq(Nat)
        BY <1>1, ReducerFields, ItemFields
      <4> QED BY <1>3, <1>4, <4>1, PrefixSelf
    <3> QED BY <1>3, <1>4, <3>1 DEF Grown
  <2>2. Recorded(r, rr, RecordsOf(r.items))
    BY <1>1, <1>2, AbandonsRecorded
  <2>3. Tracks(a, r)
    BY DEF Good
  <2> QED BY <1>1, <1>2, <2>1, <2>2, <2>3, TracksStep
<1>8. \A k \in Positions(r) : AllOnce(r.items) /\ r.items[k].streaming => r.items[k].kind = "tool"
  BY DEF Good, Streams
<1>9. Streams(rr)
  BY <1>3, <1>4, <1>8 DEF Streams
<1>10. Marked(rr, z)
  BY <1>3, <1>4 DEF Good, Marked
<1>11. Hears(rr, h)
  <2>1. \A k \in 1..Len(r.items) : Piece(r.items[k], Text) = Piece(rr.items[k], Text)
    BY <1>3, <1>4 DEF Piece
  <2>2. r.items \in Seq(Items) /\ rr.items \in Seq(Items)
    BY <1>1, <1>2, ReducerFields
  <2>3. TextOf(r.items, Text) = TextOf(rr.items, Text)
    BY <1>3, <2>1, <2>2, TextOfSame
  <2> QED BY <1>3, <2>3 DEF Good, Hears
<1>12. FinalOK(rr)
  BY <1>3, <1>4, <1>5, <1>8 DEF FinalOK, NoPlan
<1> QED BY <1>5, <1>6, <1>7, <1>9, <1>10, <1>11, <1>12 DEF Good

LEMMA FinalizeGood ==
  ASSUME NEW u \in Turns, NEW a \in Seq(Items), NEW r, NEW h, Good(u, a, r, h, 0),
         NEW mark \in Marks, NEW rr, rr = Finalize(r, u, mark)
  PROVE  (\E z : Good(u, a, rr, h, z)) /\ FinalOK(rr) /\ rr.ordinal = r.ordinal
<1> DEFINE f == FlushOpen(r)
           m == MarkAnswer(f, mark)
           p == FinalizePlan(m, u)
<1>1. rr = AbandonTools(p)
  BY DEF Finalize
<1>2. Good(u, a, f, h, 0) /\ f.open = <<>> /\ f.ordinal = r.ordinal
  BY FlushGood
<1> HIDE DEF f
<1>3. (\E z : Good(u, a, m, h, z)) /\ m.open = <<>> /\ m.ordinal = f.ordinal
  BY <1>2, MarkGood
<1> HIDE DEF m
<1>4. PICK z : Good(u, a, m, h, z)
  BY <1>3
<1>5. Good(u, a, p, h, z) /\ p.open = <<>> /\ p.ordinal = m.ordinal /\ NoPlan(p)
  BY <1>3, <1>4, FinalizePlanGood
<1> HIDE DEF p
<1>6. Good(u, a, rr, h, z) /\ FinalOK(rr) /\ rr.ordinal = p.ordinal
  BY <1>1, <1>5, AbandonGood
<1> QED BY <1>2, <1>3, <1>5, <1>6

(* The answer of a reducer with a marked reply is that reply.              *)
LEMMA MarkedAnswer ==
  ASSUME NEW r \in Reducers, NEW z, Marked(r, z), NEW k \in Positions(r), r.items[k].mark # None
  PROVE  /\ FinalAnswer(r) = r.items[k].text
         /\ \A j \in Positions(r) : r.items[j].kind = "assistant" => j <= k
<1> DEFINE I == {j \in 1..Len(r.items) : r.items[j].kind = "assistant" /\ r.items[j].mark # None}
           p == IF I # {} THEN Max(I) ELSE 0
<1>1. Len(r.items) \in Nat /\ \A j \in Positions(r) : Shape(r.items[j])
  BY ReducerFields, ItemFields
<1>2. \A j \in Positions(r) : r.items[j].mark # None => j = z
  BY DEF Marked
<1>3. I = {k}
  <2>1. r.items[k].kind = "assistant"
    BY <1>1 DEF Shape
  <2> QED BY <1>2, <2>1 DEF Positions
<1>4. FinalAnswer(r) = IF p # 0 THEN r.items[p].text ELSE TextOf(r.items, {"assistant"})
  BY DEF FinalAnswer, SelectLastInSeq
<1>5. p = k /\ p # 0
  <2>1. k \in Nat /\ k # 0
    BY <1>1 DEF Positions
  <2>2. Max({k}) = k
    <3>1. {k} \in SUBSET (1..Len(r.items)) /\ {k} # {}
      BY DEF Positions
    <3>2. Max({k}) \in {k}
      BY <1>1, <3>1, LastPosition
    <3> QED BY <3>2
  <2> HIDE DEF I
  <2> QED BY <1>3, <2>1, <2>2
<1>6. FinalAnswer(r) = r.items[k].text
  BY <1>4, <1>5
<1>7. ASSUME NEW j \in Positions(r), r.items[j].kind = "assistant" PROVE j <= k
  <2>1. j > k => r.items[j].kind # "assistant"
    BY DEF Marked
  <2> QED BY <1>1, <1>7, <2>1 DEF Positions
<1> QED BY <1>6, <1>7

(* persist_reducer takes the pending mutations.                            *)
Forgets(r, rr) == rr = [r EXCEPT !.pending = <<>>]

LEMMA ForgetGood ==
  ASSUME NEW u, NEW a, NEW r, NEW h, NEW z, Good(u, a, r, h, z), NEW rr, Forgets(r, rr)
  PROVE  /\ Good(u, rr.items, rr, h, z) /\ rr.pending = <<>>
         /\ rr.items = r.items /\ rr.ordinal = r.ordinal /\ rr.open = r.open
<1>1. r \in Reducers
  BY DEF Good, Sound
<1>2. /\ rr \in Reducers /\ rr.pending = <<>>
      /\ rr.items = r.items /\ rr.ordinal = r.ordinal /\ rr.open = r.open
  <2>1. <<>> \in Seq(Muts)
    OBVIOUS
  <2> QED BY <1>1, <2>1 DEF Forgets, Reducers
<1>3. Tracks(rr.items, rr)
  BY <1>2, TracksSelf
<1>4. Sound(u, rr)
  BY <1>2 DEF Good, Sound, OpenIsLast, Positions
<1>5. Streams(rr) /\ Marked(rr, z) /\ Hears(rr, h)
  BY <1>2 DEF Good, Streams, Marked, Hears, Positions
<1> QED BY <1>2, <1>3, <1>4, <1>5 DEF Good
=============================================================================
