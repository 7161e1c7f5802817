-------------------------- MODULE TurnTimelineProofs --------------------------
(***************************************************************************)
(* For any number of turns and any lines of the agent: what the cards show, *)
(* what the database holds of them and what a caller is answered.           *)
(*                                                                         *)
(* A turn's reducer and its uncommitted mutations stay what the lines heard *)
(* so far make of them (Good, ReducerProofs).  Its rows never run ahead of  *)
(* its cards (Behind), and are them while it has lost no batch (Mirror): a  *)
(* reader that commits for its turn between two of another's lines moves no *)
(* row of that turn, because an id of the other turn is none of its own.    *)
(***************************************************************************)
EXTENDS ReducerProofs

-----------------------------------------------------------------------------
(* What the database holds of a turn.  A row of turn u belongs to an item
   of a and holds no more of a segment's text than it.                     *)
Behind(u, a, t) ==
  \A i \in DOMAIN t : t[i].item.turn = u =>
     \E k \in 1..Len(a) :
        /\ a[k].id = i
        /\ i.space = "seg" => IsPrefix(t[i].item.text, a[k].text)

(* The rows are those of mutations.                                        *)
OfMuts(t) == \A i \in DOMAIN t : t[i].item \in Items /\ t[i].item.id = i

(* Reducer r with its uncommitted mutations, and the rows t, which hold the
   items a it had without them; c: the turn has lost nothing.              *)
Kept(u, a, r, h, z, t, top, F, c) ==
  /\ a \in Seq(Items) /\ OfMuts(t) /\ top \in Nat
  /\ Good(u, a, r, h, z)
  /\ Behind(u, a, t)
  /\ c => Mirror(a, t, top, F)

LEMMA PlainIds ==
  ASSUME NEW i \in Items, NEW j \in Items, i.id = j.id, i.id.space = "seg"
  PROVE  i.turn = j.turn
BY ItemFields DEF Shape

LEMMA BehindGrown ==
  ASSUME NEW u, NEW a \in Seq(Items), NEW b \in Seq(Items), NEW t, OfMuts(t),
         Behind(u, a, t), Grown(a, b)
  PROVE  Behind(u, b, t)
<1> SUFFICES ASSUME NEW i \in DOMAIN t, t[i].item.turn = u
             PROVE  \E k \in 1..Len(b) :
                       b[k].id = i /\ (i.space = "seg" => IsPrefix(t[i].item.text, b[k].text))
  BY DEF Behind
<1>1. PICK k \in 1..Len(a) :
         a[k].id = i /\ (i.space = "seg" => IsPrefix(t[i].item.text, a[k].text))
  BY DEF Behind
<1>2. k \in 1..Len(b) /\ b[k].id = i /\ (i.space = "seg" => IsPrefix(a[k].text, b[k].text))
  BY <1>1 DEF Grown
<1>3. t[i].item \in Items /\ a[k] \in Items /\ b[k] \in Items
  BY <1>1, <1>2 DEF OfMuts
<1>4. t[i].item.text \in Seq(Nat) /\ a[k].text \in Seq(Nat) /\ b[k].text \in Seq(Nat)
  BY <1>3, ItemFields
<1>5. i.space = "seg" => IsPrefix(t[i].item.text, b[k].text)
  BY <1>1, <1>2, <1>4, PrefixTransitive
<1> QED BY <1>2, <1>5

LEMMA MirrorMore ==
  ASSUME NEW items, NEW t, NEW top, NEW F, NEW G, F \subseteq G, Mirror(items, t, top, F)
  PROVE  Mirror(items, t, top, G)
<1>1. \A k \in 1..Len(items) : Own(items, k, G) => Own(items, k, F)
  BY DEF Own
<1> QED BY <1>1 DEF Mirror

(* A turn whose mutations are all committed starts a new batch.            *)
LEMMA Rebase ==
  ASSUME NEW u, NEW a, NEW r, NEW h, NEW z, NEW t, NEW top, NEW F, NEW c,
         Kept(u, a, r, h, z, t, top, F, c), r.pending = <<>>
  PROVE  Kept(u, r.items, r, h, z, t, top, F, c)
<1>1. /\ a \in Seq(Items) /\ OfMuts(t) /\ top \in Nat /\ r \in Reducers /\ r.items \in Seq(Items)
      /\ Tracks(a, r) /\ Behind(u, a, t) /\ (c => Mirror(a, t, top, F))
  BY ReducerFields DEF Kept, Good, Sound
<1>2. Behind(u, r.items, t)
  BY <1>1, BehindGrown DEF Tracks
<1>3. c => Mirror(r.items, t, top, F)
  <2> SUFFICES ASSUME c PROVE Mirror(r.items, t, top, F)
    OBVIOUS
  <2>1. Mirror(r.items, UpsertAll(t, r.pending, top), top + Len(r.pending), F)
    BY <1>1 DEF Tracks, Mirrors
  <2>2. UpsertAll(t, <<>>, top) = t /\ top + Len(<<>>) = top
    BY <1>1, UpsertAllEmpty
  <2> QED BY <2>1, <2>2
<1>4. Good(u, r.items, r, h, z)
  <2>1. Tracks(r.items, r)
    BY <1>1, TracksSelf
  <2> QED BY <2>1 DEF Kept, Good
<1> QED BY <1>1, <1>2, <1>3, <1>4 DEF Kept

(* The reducer moves on before the batch is committed.                     *)
LEMMA KeptMoves ==
  ASSUME NEW u, NEW a, NEW r, NEW h, NEW z, NEW t, NEW top, NEW F, NEW c,
         Kept(u, a, r, h, z, t, top, F, c), NEW rr, NEW hh, NEW y, Good(u, a, rr, hh, y)
  PROVE  Kept(u, a, rr, hh, y, t, top, F, c)
BY DEF Kept

LEMMA KeptLess ==
  ASSUME NEW u, NEW a, NEW r, NEW h, NEW z, NEW t, NEW top, NEW F, NEW c, NEW G, NEW d,
         Kept(u, a, r, h, z, t, top, F, c), F \subseteq G, d => c
  PROVE  Kept(u, a, r, h, z, t, top, G, d)
BY MirrorMore DEF Kept

-----------------------------------------------------------------------------
(* Commits.                                                                *)
LEMMA OfMutsCommit ==
  ASSUME NEW t, NEW b \in Seq(Muts), NEW base, NEW v, Replaced(t, b, base, v), OfMuts(t)
  PROVE  OfMuts(v)
<1> SUFFICES ASSUME NEW i \in DOMAIN v PROVE v[i].item \in Items /\ v[i].item.id = i
  BY DEF OfMuts
<1>1. CASE Named(b, i)
  <2>1. PICK k \in 1..Len(b) : b[k].item.id = i /\ v[i].item = b[k].item
    BY <1>1 DEF Replaced
  <2>2. b[k] \in Muts
    OBVIOUS
  <2> QED BY <2>1, <2>2 DEF Muts
<1>2. CASE ~Named(b, i)
  BY <1>2 DEF Replaced, OfMuts
<1> QED BY <1>1, <1>2

(* The batch of another turn.                                              *)
Foreign(u, b, F) == \A p \in 1..Len(b) : b[p].item.turn # u /\ b[p].item.id \in F

LEMMA KeptForeign ==
  ASSUME NEW u, NEW a, NEW r, NEW h, NEW z, NEW t, NEW top, NEW F, NEW c,
         Kept(u, a, r, h, z, t, top, F, c),
         NEW b \in Seq(Muts), Foreign(u, b, F), NEW v, Replaced(t, b, top, v)
  PROVE  Kept(u, a, r, h, z, v, top + Len(b), F, c)
<1>1. /\ a \in Seq(Items) /\ OfMuts(t) /\ top \in Nat /\ Good(u, a, r, h, z)
      /\ Behind(u, a, t) /\ (c => Mirror(a, t, top, F))
  BY DEF Kept
<1>2. OfMuts(v) /\ top + Len(b) \in Nat
  BY <1>1, OfMutsCommit
<1>3. Behind(u, a, v)
  <2> SUFFICES ASSUME NEW i \in DOMAIN v, v[i].item.turn = u
               PROVE  \E k \in 1..Len(a) :
                         a[k].id = i /\ (i.space = "seg" => IsPrefix(v[i].item.text, a[k].text))
    BY DEF Behind
  <2>1. ~Named(b, i)
    <3> SUFFICES ASSUME Named(b, i) PROVE FALSE
      OBVIOUS
    <3>1. PICK k \in 1..Len(b) : b[k].item.id = i /\ v[i].item = b[k].item
      BY DEF Replaced
    <3> QED BY <3>1 DEF Foreign
  <2>2. i \in DOMAIN t /\ v[i] = t[i]
    BY <2>1 DEF Replaced
  <2> QED BY <1>1, <2>2 DEF Behind
<1>4. ASSUME c PROVE Mirror(a, v, top + Len(b), F)
  <2>1. /\ Mirror(a, t, top, F) /\ Len(b) \in Nat
    BY <1>1, <1>4
  <2>2. ASSUME NEW i \in DOMAIN v
        PROVE  /\ i \in F \/ \E k \in 1..Len(a) : a[k].id = i
               /\ v[i].first \in 1..(top + Len(b))
    <3>1. CASE i \in DOMAIN t
      <4>1. v[i].first = t[i].first /\ t[i].first \in 1..top
        BY <2>1, <3>1 DEF Replaced, Mirror
      <4>2. i \in F \/ \E k \in 1..Len(a) : a[k].id = i
        BY <2>1, <3>1 DEF Mirror
      <4> QED BY <1>1, <2>1, <4>1, <4>2
    <3>2. CASE i \notin DOMAIN t
      <4>1. v[i].first \in (top + 1)..(top + Len(b)) /\ Named(b, i)
        BY <3>2 DEF Replaced
      <4>2. i \in F
        BY <4>1 DEF Named, Foreign
      <4> QED BY <1>1, <2>1, <4>1, <4>2
    <3> QED BY <3>1, <3>2
  <2>3. \A k \in 1..Len(a) : a[k].id \in DOMAIN t /\ a[k].id \in DOMAIN v
                             /\ v[a[k].id].first = t[a[k].id].first
    BY <2>1 DEF Mirror, Replaced
  <2>4. ASSUME NEW k \in 1..Len(a), Own(a, k, F)
        PROVE  /\ v[a[k].id].item = a[k]
               /\ \A j \in 1..Len(a) : j < k => v[a[j].id].first < v[a[k].id].first
    <3>1. ~Named(b, a[k].id)
      BY <2>4 DEF Named, Foreign, Own
    <3>2. v[a[k].id] = t[a[k].id]
      BY <2>3, <3>1 DEF Replaced
    <3>3. /\ t[a[k].id].item = a[k]
          /\ \A j \in 1..Len(a) : j < k => t[a[j].id].first < t[a[k].id].first
      BY <2>1, <2>4 DEF Mirror
    <3> QED BY <2>3, <3>2, <3>3
  <2> QED BY <2>2, <2>3, <2>4 DEF Mirror
<1> QED BY <1>1, <1>2, <1>3, <1>4 DEF Kept

(* The turn's own batch.                                                   *)
LEMMA KeptCommit ==
  ASSUME NEW u, NEW a, NEW r, NEW h, NEW z, NEW t, NEW top, NEW F, NEW c,
         Kept(u, a, r, h, z, t, top, F, c), NEW v, v = UpsertAll(t, r.pending, top),
         NEW rr, Forgets(r, rr)
  PROVE  Kept(u, rr.items, rr, h, z, v, top + Len(r.pending), F, c)
<1> DEFINE b == r.pending
<1>1. /\ a \in Seq(Items) /\ OfMuts(t) /\ top \in Nat /\ Good(u, a, r, h, z)
      /\ Behind(u, a, t) /\ (c => Mirror(a, t, top, F))
      /\ r \in Reducers /\ r.items \in Seq(Items) /\ b \in Seq(Muts) /\ Tracks(a, r)
  BY ReducerFields DEF Kept, Good, Sound
<1>2. Replaced(t, b, top, v)
  BY <1>1, UpsertAllReplaced
<1>3. OfMuts(v) /\ top + Len(b) \in Nat
  BY <1>1, <1>2, OfMutsCommit
<1>4. Good(u, rr.items, rr, h, z) /\ rr.items = r.items
  BY <1>1, ForgetGood
<1>5. Behind(u, r.items, v)
  <2> SUFFICES ASSUME NEW i \in DOMAIN v, v[i].item.turn = u
               PROVE  \E k \in 1..Len(r.items) :
                         /\ r.items[k].id = i
                         /\ i.space = "seg" => IsPrefix(v[i].item.text, r.items[k].text)
    BY DEF Behind
  <2>1. CASE Named(b, i)
    <3>1. PICK p \in 1..Len(b) : b[p].item.id = i /\ v[i].item = b[p].item
      BY <1>2, <2>1 DEF Replaced
    <3>2. Between(a, r.items, b[p])
      BY <1>1 DEF Tracks
    <3> QED BY <3>1, <3>2 DEF Between
  <2>2. CASE ~Named(b, i)
    <3>1. i \in DOMAIN t /\ v[i] = t[i]
      BY <1>2, <2>2 DEF Replaced
    <3>2. Behind(u, r.items, t)
      BY <1>1, BehindGrown DEF Tracks
    <3> QED BY <3>1, <3>2 DEF Behind
  <2> QED BY <2>1, <2>2
<1>6. ASSUME c PROVE Mirror(r.items, v, top + Len(b), F)
  BY <1>1, <1>6 DEF Tracks, Mirrors
<1>7. r.items \in Seq(Items) /\ Behind(u, rr.items, v) /\ (c => Mirror(rr.items, v, top + Len(b), F))
  BY <1>1, <1>4, <1>5, <1>6
<1> QED BY <1>1, <1>3, <1>4, <1>7 DEF Kept

(* ... refused.                                                            *)
LEMMA KeptRefused ==
  ASSUME NEW u, NEW a, NEW r, NEW h, NEW z, NEW t, NEW top, NEW F, NEW c,
         Kept(u, a, r, h, z, t, top, F, c), NEW rr, Forgets(r, rr)
  PROVE  Kept(u, rr.items, rr, h, z, t, top, F, FALSE)
<1>1. /\ a \in Seq(Items) /\ OfMuts(t) /\ top \in Nat /\ Good(u, a, r, h, z)
      /\ Behind(u, a, t) /\ r \in Reducers /\ r.items \in Seq(Items) /\ Tracks(a, r)
  BY ReducerFields DEF Kept, Good, Sound
<1>2. Good(u, rr.items, rr, h, z) /\ rr.items = r.items
  BY <1>1, ForgetGood
<1>3. Behind(u, r.items, t)
  BY <1>1, BehindGrown DEF Tracks
<1> QED BY <1>1, <1>2, <1>3 DEF Kept

(* What a commit of the turn does to the row of a segment.                 *)
LEMMA SegmentRow ==
  ASSUME NEW u, NEW a, NEW r, NEW h, NEW z, NEW t, NEW top, NEW F, NEW c,
         Kept(u, a, r, h, z, t, top, F, c), NEW v, v = UpsertAll(t, r.pending, top),
         NEW i \in DOMAIN t, i.space = "seg"
  PROVE  /\ i \in DOMAIN v /\ v[i].first = t[i].first
         /\ IsPrefix(t[i].item.text, v[i].item.text)
         /\ v[i].item.text # t[i].item.text =>
               /\ t[i].item.turn = u
               /\ c /\ i \notin F =>
                     \A j \in DOMAIN t : t[j].item.turn = u => t[j].first <= t[i].first
<1> DEFINE b == r.pending
<1>1. /\ a \in Seq(Items) /\ OfMuts(t) /\ top \in Nat /\ Good(u, a, r, h, z)
      /\ Behind(u, a, t) /\ (c => Mirror(a, t, top, F))
      /\ r \in Reducers /\ r.items \in Seq(Items) /\ b \in Seq(Muts) /\ Tracks(a, r)
      /\ Sound(u, r)
  BY ReducerFields DEF Kept, Good, Sound
<1>2. Replaced(t, b, top, v)
  BY <1>1, UpsertAllReplaced
<1>3. t[i].item \in Items /\ t[i].item.id = i /\ t[i].item.text \in Seq(Nat)
  BY <1>1, ItemFields DEF OfMuts
<1>4. i \in DOMAIN v /\ v[i].first = t[i].first
  BY <1>2 DEF Replaced
<1>5. CASE ~Named(b, i)
  <2>1. v[i] = t[i]
    BY <1>2, <1>5 DEF Replaced
  <2> QED BY <1>3, <1>4, <2>1, PrefixSelf
<1>6. CASE Named(b, i)
  <2>1. PICK p \in 1..Len(b) : b[p].item.id = i /\ v[i].item = b[p].item
    BY <1>2, <1>4, <1>6 DEF Replaced
  <2>2. Between(a, r.items, b[p]) /\ Grown(a, r.items)
    BY <1>1, <2>1 DEF Tracks
  <2>3. PICK k \in 1..Len(r.items) :
           /\ r.items[k].id = i /\ r.items[k].turn = b[p].item.turn
           /\ k <= Len(a) => /\ IsPrefix(a[k].text, b[p].item.text)
                             /\ b[p].item.text # a[k].text => k = Len(a)
    BY <2>1, <2>2 DEF Between
  <2>4. b[p].item \in Items /\ b[p].item.text \in Seq(Nat)
    <3>1. b[p] \in Muts
      BY <1>1, <2>1
    <3> QED BY <3>1, ItemFields DEF Muts
  <2>5. r.items[k].turn = u /\ \A j \in 1..Len(r.items) : r.items[j].id = i => j = k
    BY <1>1, <2>3 DEF Sound, Positions
  <2>6. t[i].item.turn = u
    BY <1>3, <2>1, <2>3, <2>4, <2>5, PlainIds
  <2>7. Len(a) \in Nat /\ Len(a) <= Len(r.items)
        /\ \A j \in 1..Len(a) : r.items[j].id = a[j].id
    BY <1>1, <2>2 DEF Grown
  <2>8. \A j \in 1..Len(a) : a[j].id = i => j = k
    BY <1>1, <2>5, <2>7
  <2>9. k \in 1..Len(a) /\ a[k].id = i /\ IsPrefix(t[i].item.text, a[k].text)
    <3>1. PICK j \in 1..Len(a) :
             a[j].id = i /\ IsPrefix(t[i].item.text, a[j].text)
      BY <1>1, <2>6 DEF Behind
    <3> QED BY <2>8, <3>1
  <2>10. IsPrefix(a[k].text, b[p].item.text) /\ a[k].text \in Seq(Nat)
    BY <1>1, <2>3, <2>9, ItemFields
  <2>11. IsPrefix(t[i].item.text, v[i].item.text)
    BY <1>3, <2>1, <2>4, <2>9, <2>10, PrefixTransitive
  <2>12. ASSUME c, v[i].item.text # t[i].item.text, i \notin F,
                NEW j \in DOMAIN t, t[j].item.turn = u
         PROVE  t[j].first <= t[i].first
    <3>1. Mirror(a, t, top, F) /\ Own(a, k, F)
      BY <1>1, <2>8, <2>9, <2>12 DEF Own
    <3>2. t[i].item = a[k] /\ \A n \in 1..Len(a) : n < k => t[a[n].id].first < t[i].first
      BY <2>9, <3>1 DEF Mirror
    <3>3. k = Len(a)
      BY <2>1, <2>3, <2>9, <2>12, <3>2
    <3>4. PICK n \in 1..Len(a) : a[n].id = j
      BY <1>1, <2>12 DEF Behind
    <3>5. t[i].first \in Nat /\ t[j].first \in Nat
      BY <1>1, <3>1, <2>12 DEF Mirror
    <3> QED BY <2>7, <2>9, <3>2, <3>3, <3>4, <3>5
  <2> QED BY <1>4, <2>6, <2>11, <2>12
<1> QED BY <1>5, <1>6

-----------------------------------------------------------------------------
(* The inductive invariant.                                                *)
Workers ==
  [pc: Pc, then: Pc, base: Nat, batch: Seq(Muts), request: Keys, answer: Seq(Nat)]

Begun == {"reading", "answering", "draining", "done"}

Fresh(w) == w.pc \in {"absent", "seeding", "refused"}
Ends(w) == w.pc = "done" \/ (w.pc = "committing" /\ w.then = "done")

(* A worker, its reducer and what it heard, n being the lines read and top
   the sequence the log has reached.                                       *)
WorkerOK(w, r, h, n, top) ==
  /\ w \in Workers /\ r \in Reducers /\ h \in Seq(Nat)
  /\ w.base <= top
  /\ w.pc = "committing" <=> w.batch # <<>>
  /\ w.pc = "committing" => w.then \in Begun
  /\ Fresh(w) => r = NoReducer /\ h = <<>>
  /\ r.pending = <<>> /\ r.ordinal <= n
  /\ Ends(w) => FinalOK(r) /\ w.answer = FinalAnswer(r)

(* No other writer came between the numbering of the batch and its commit. *)
Current(w, top) == w.batch # <<>> => w.base = top

Full(r, w) == [r EXCEPT !.pending = w.batch]

Held(u, w, r, h, c, t, top, F) ==
  \E a, z : Kept(u, a, Full(r, w), h, z, t, top, F, c) /\ (z = 0 \/ Ends(w))

IdsOf(items) == {items[k].id : k \in 1..Len(items)}
Others(rd, u) == UNION {IdsOf(rd[v].items) : v \in Turns \ {u}}

TurnOK(u) == WorkerOK(worker[u], red[u], heard[u], lines, last)
Lossless(u) == u \notin lost /\ Current(worker[u], last)
TurnHeld(u) ==
  Held(u, worker[u], red[u], heard[u], Lossless(u), rows, last, Others(red, u))

Typed == /\ LogOf(Muts) /\ lines \in 0..MaxLines
         /\ red \in [Turns -> Reducers] /\ worker \in [Turns -> Workers]
         /\ heard \in [Turns -> Seq(Nat)]

Inv == /\ Typed
       /\ worker[First].pc = "absent" => last = 0
       /\ last = 0 => \A u \in Turns : worker[u].pc = "absent"
       /\ \A u \in Turns : TurnOK(u) /\ TurnHeld(u) /\ (Alone(u) => Lossless(u))

(* What a step of turn u's worker does to the other turns.                 *)
Unmoved(u) == \A v \in Turns \ {u} :
  /\ worker'[v] = worker[v] /\ red'[v] = red[v] /\ heard'[v] = heard[v]
  /\ v \in lost' <=> v \in lost

Written(u) ==
  \/ UNCHANGED tables
  \/ \E b \in Seq(Muts) :
        /\ Committed(b) /\ b # <<>>
        /\ \A p \in 1..Len(b) : b[p].item.turn = u /\ b[p].item.id \in IdsOf(red[u].items)'

Acts(u) == /\ Typed' /\ TurnOK(u)' /\ TurnHeld(u)'
           /\ Unmoved(u) /\ Written(u) /\ lines <= lines'
           /\ IdsOf(red[u].items) \subseteq IdsOf(red'[u].items)
           /\ last' > 0 /\ (u = First \/ last > 0) /\ worker'[u].pc # "absent"
           /\ Fresh(worker'[u]) => Fresh(worker[u]) /\ UNCHANGED tables
           /\ Lossless(u) => Lossless(u)'

LEMMA OthersGrow ==
  ASSUME Typed, Typed', NEW u \in Turns, Unmoved(u),
         IdsOf(red[u].items) \subseteq IdsOf(red'[u].items), NEW v \in Turns
  PROVE  /\ Others(red, v) \subseteq Others(red', v)
         /\ v # u => IdsOf(red'[u].items) \subseteq Others(red', v)
         /\ v = u => Others(red, v) = Others(red', v)
<1>1. \A w \in Turns : IdsOf(red[w].items) \subseteq IdsOf(red'[w].items)
  BY DEF Unmoved
<1>2. \A w \in Turns : w # u => red'[w] = red[w]
  BY DEF Unmoved
<1> QED BY <1>1, <1>2 DEF Others

LEMMA WrittenGrows ==
  ASSUME LogOf(Muts), NEW u, Written(u)
  PROVE  last \in Nat /\ last' \in Nat /\ last <= last' /\ (UNCHANGED tables \/ last < last')
<1>1. last \in Nat
  BY LogOfReplays
<1>2. CASE UNCHANGED tables
  BY <1>1, <1>2 DEF tables
<1>3. ASSUME NEW b \in Seq(Muts), Committed(b), b # <<>>
      PROVE  last' \in Nat /\ last < last'
  BY <1>1, <1>3, EmptySeq DEF Committed
<1> QED BY <1>1, <1>2, <1>3 DEF Written

LEMMA HeldElsewhere ==
  ASSUME Inv, NEW u \in Turns, Acts(u), NEW v \in Turns \ {u}
  PROVE  TurnHeld(v)'
<1> DEFINE F == Others(red, v)
           G == Others(red', v)
           r == Full(red[v], worker[v])
           h == heard[v]
           c == Lossless(v)
           d == Lossless(v)'
<1>1. PICK a, z : Kept(v, a, r, h, z, rows, last, F, c) /\ (z = 0 \/ Ends(worker[v]))
  BY DEF Inv, TurnHeld, Held
<1>2. F \subseteq G /\ IdsOf(red'[u].items) \subseteq G
  BY OthersGrow DEF Acts, Inv
<1>3. worker'[v] = worker[v] /\ red'[v] = red[v] /\ heard'[v] = heard[v]
      /\ (v \in lost' <=> v \in lost)
  BY DEF Acts, Unmoved
<1>4. last \in Nat /\ last' \in Nat /\ last <= last' /\ (UNCHANGED tables \/ last < last')
  BY WrittenGrows DEF Acts, Inv, Typed
<1>5. d => c
  <2>1. worker[v].base <= last /\ worker[v].base \in Nat
    BY DEF Inv, TurnOK, WorkerOK, Workers
  <2> QED BY <1>3, <1>4, <2>1 DEF Lossless, Current, tables
<1>6. Kept(v, a, r, h, z, rows', last', G, d)
  <2>1. Kept(v, a, r, h, z, rows, last, G, d)
    <3> HIDE DEF F, G, r, h, c, d
    <3> QED BY ONLY <1>1, <1>2, <1>5, KeptLess
  <2>2. CASE UNCHANGED tables
    BY <2>1, <2>2 DEF tables
  <2>3. CASE ~UNCHANGED tables
    <3>1. PICK b \in Seq(Muts) :
             /\ Committed(b) /\ b # <<>>
             /\ \A p \in 1..Len(b) : b[p].item.turn = u /\ b[p].item.id \in IdsOf(red[u].items)'
      BY <2>3 DEF Acts, Written
    <3>2. Foreign(v, b, G)
      BY <1>2, <3>1 DEF Foreign
    <3>3. rows' = UpsertAll(rows, b, last) /\ last' = last + Len(b)
      BY <3>1 DEF Committed
    <3>4. Replaced(rows, b, last, rows')
      BY <1>4, <3>3, UpsertAllReplaced
    <3>5. Kept(v, a, r, h, z, rows', last + Len(b), G, d)
      <4> HIDE DEF G, r, h, d
      <4> QED BY ONLY <2>1, <3>2, <3>4, b \in Seq(Muts), KeptForeign
    <3> QED BY <3>3, <3>5
  <2> QED BY <2>2, <2>3
<1>7. Held(v, worker'[v], red'[v], heard'[v], d, rows', last', G)
  BY <1>1, <1>3, <1>6 DEF Held
<1> QED BY <1>7 DEF TurnHeld

LEMMA ActsInv == ASSUME Inv, NEW u \in Turns, Acts(u) PROVE Inv'
<1>1. last \in Nat /\ last' \in Nat /\ last <= last' /\ lines <= lines'
      /\ lines \in Nat /\ lines' \in Nat
  BY WrittenGrows DEF Acts, Inv, Typed
<1>2. \A v \in Turns \ {u} : /\ worker'[v] = worker[v] /\ red'[v] = red[v] /\ heard'[v] = heard[v]
                             /\ v \in lost' <=> v \in lost
  BY DEF Acts, Unmoved
<1>3. worker'[First].pc = "absent" => last' = 0
  <2> SUFFICES ASSUME worker'[First].pc = "absent" PROVE FALSE
    OBVIOUS
  <2>1. First # u /\ worker[First].pc = "absent" /\ First \in Turns
    BY <1>2, FirstAssumption DEF Acts
  <2>2. last = 0
    BY <2>1 DEF Inv
  <2> QED BY <2>1, <2>2 DEF Acts
<1>4. last' = 0 => \A v \in Turns : worker'[v].pc = "absent"
  BY <1>1 DEF Acts
<1>5. ASSUME NEW v \in Turns PROVE TurnOK(v)'
  <2>1. CASE v = u
    BY <2>1 DEF Acts
  <2>2. CASE v # u
    <3>1. /\ WorkerOK(worker[v], red[v], heard[v], lines, last)
          /\ worker'[v] = worker[v] /\ red'[v] = red[v] /\ heard'[v] = heard[v]
      BY <1>2, <2>2 DEF Inv, TurnOK
    <3>2. worker[v].base \in Nat /\ red[v].ordinal \in Nat
      BY <3>1 DEF WorkerOK, Workers, Reducers
    <3>3. WorkerOK(worker[v], red[v], heard[v], lines', last')
      BY <1>1, <3>1, <3>2 DEF WorkerOK
    <3> QED BY <3>1, <3>3 DEF TurnOK
  <2> QED BY <2>1, <2>2
<1>6. ASSUME NEW v \in Turns PROVE TurnHeld(v)'
  <2>1. CASE v = u
    BY <2>1 DEF Acts
  <2>2. CASE v # u
    <3>1. v \in Turns \ {u}
      BY <2>2
    <3> QED BY <3>1, HeldElsewhere
  <2> QED BY <2>1, <2>2
<1>7. ASSUME NEW v \in Turns, Alone(v)' PROVE Lossless(v)'
  <2>0. \A x \in Turns \ {v} : Fresh(worker'[x])
    BY <1>7 DEF Alone, At, Fresh
  <2>1. CASE v = u
    <3>1. Alone(u)
      BY <1>2, <2>0, <2>1 DEF Alone, At, Fresh
    <3> QED BY <2>1, <3>1 DEF Inv, Acts
  <2>2. CASE v # u
    <3>1. Fresh(worker[u]) /\ UNCHANGED tables
      BY <2>0, <2>2 DEF Acts
    <3>2. \A x \in Turns \ {v} : Fresh(worker[x])
      BY <1>2, <2>0, <3>1
    <3>3. Lossless(v)
      <4>1. Alone(v)
        BY <3>2 DEF Alone, At, Fresh
      <4> QED BY <4>1 DEF Inv
    <3>4. worker'[v] = worker[v] /\ (v \in lost' <=> v \in lost) /\ last' = last
      BY <1>2, <2>2, <3>1 DEF tables
    <3> QED BY <3>3, <3>4 DEF Lossless, Current
  <2> QED BY <2>1, <2>2
<1>8. Typed'
  BY DEF Acts
<1> QED BY <1>3, <1>4, <1>5, <1>6, <1>7, <1>8 DEF Inv

-----------------------------------------------------------------------------
(* Reducers with and without their batch.                                  *)
LEMMA FullIs ==
  ASSUME NEW r \in Reducers, NEW w \in Workers
  PROVE  LET f == Full(r, w) IN
         /\ f \in Reducers /\ f.items = r.items /\ f.open = r.open /\ f.ordinal = r.ordinal
         /\ f.pending = w.batch
         /\ w.batch = r.pending => f = r
         /\ r.pending = <<>> => Forgets(f, r)
BY DEF Full, Reducers, Workers, Forgets

LEMMA FullOfForgotten ==
  ASSUME NEW r \in Reducers, NEW s, Forgets(r, s), NEW w \in Workers, w.batch = r.pending
  PROVE  Full(s, w) = r
BY DEF Full, Reducers, Workers, Forgets

LEMMA AnswerOfItems ==
  ASSUME NEW r \in Reducers, NEW s, s.items = r.items
  PROVE  FinalAnswer(r) = FinalAnswer(s) /\ (FinalOK(r) /\ s.open = r.open => FinalOK(s))
<1>1. FinalAnswer(r) = FinalAnswer(s)
  BY DEF FinalAnswer
<1>2. FinalOK(r) /\ s.open = r.open => FinalOK(s)
  BY DEF FinalOK, Positions
<1> QED BY <1>1, <1>2

LEMMA TextOfType ==
  ASSUME NEW items \in Seq(Items), NEW kinds PROVE TextOf(items, kinds) \in Seq(Nat)
<1> DEFINE ss == [k \in 1..Len(items) |-> Piece(items[k], kinds)]
<1>1. ss \in Seq(Seq(Nat)) /\ TextOf(items, kinds) = FlattenSeq(ss)
  BY TextOfPieces
<1> HIDE DEF ss
<1>2. FlattenOK(Nat, ss)
  BY <1>1, FlattenElements
<1> QED BY <1>1, <1>2 DEF FlattenOK

LEMMA AnswerType == ASSUME NEW r \in Reducers PROVE FinalAnswer(r) \in Seq(Nat)
<1> DEFINE I == {j \in 1..Len(r.items) : r.items[j].kind = "assistant" /\ r.items[j].mark # None}
           p == IF I # {} THEN Max(I) ELSE 0
<1>1. FinalAnswer(r) = IF p # 0 THEN r.items[p].text ELSE TextOf(r.items, {"assistant"})
  BY DEF FinalAnswer, SelectLastInSeq
<1>2. TextOf(r.items, {"assistant"}) \in Seq(Nat)
  BY ReducerFields, TextOfType
<1>3. p # 0 => p \in Positions(r)
  <2>1. I \in SUBSET (1..Len(r.items)) /\ Len(r.items) \in Nat
    BY ReducerFields
  <2>2. I # {} => Max(I) \in I
    <3> HIDE DEF I
    <3> QED BY <2>1, LastPosition
  <2> QED BY <2>1, <2>2 DEF Positions
<1>4. p # 0 => r.items[p].text \in Seq(Nat)
  BY <1>3, ReducerFields, ItemFields
<1> QED BY <1>1, <1>2, <1>4

LEMMA NoReducerGood ==
  ASSUME NEW u
  PROVE  NoReducer \in Reducers /\ NoReducer.items = <<>> /\ Good(u, <<>>, NoReducer, <<>>, 0)
<1>1. NoReducer \in Reducers /\ NoReducer.items = <<>> /\ NoReducer.pending = <<>>
      /\ NoReducer.open = <<>>
  <2>1. <<>> \in Seq(Items) /\ <<>> \in Seq(Ids) /\ <<>> \in Seq(Muts)
    OBVIOUS
  <2> QED BY <2>1 DEF NoReducer, Reducers
<1>2. \A k \in Positions(NoReducer) : FALSE
  BY <1>1 DEF Positions
<1>3. Tracks(<<>>, NoReducer)
  BY <1>1, TracksSelf
<1>4. TextOf(<<>>, Text) = <<>>
  <2> DEFINE ss == [k \in 1..Len(<<>>) |-> Piece(<<>>[k], Text)]
  <2>1. <<>> \in Seq(Items)
    OBVIOUS
  <2>2. TextOf(<<>>, Text) = FlattenSeq(ss) /\ ss \in Seq(Seq(Nat)) /\ Len(ss) = Len(<<>>)
    BY <2>1, TextOfPieces
  <2> HIDE DEF ss
  <2>3. ss = <<>>
    BY <2>2, EmptySeq
  <2> QED BY <2>2, <2>3, FlattenEmpty
<1>5. Sound(u, NoReducer) /\ Streams(NoReducer) /\ Marked(NoReducer, 0)
  BY <1>1, <1>2 DEF Sound, Streams, Marked, OpenIsLast
<1>6. Hears(NoReducer, <<>>)
  BY <1>1, <1>4 DEF Hears
<1> QED BY <1>1, <1>3, <1>5, <1>6 DEF Good

(* The prompt of an accepted turn.                                         *)
LEMMA UserItemIs ==
  ASSUME NEW u \in Turns
  PROVE  LET i == UserItem(u) IN
         /\ i \in Items /\ i.turn = u /\ i.mark = None /\ i.kind = "user" /\ ~i.streaming
         /\ i.id.space = "seg" /\ i.id.key = 0
<1>1. Prompt \in Seq(Nat)
  BY DEF Prompt
<1>2. "user" \in Kinds /\ 0 \in Nat
  BY DEF Kinds
<1> DEFINE id == SegmentId(u, 0, "user")
<1>3. id \in Ids /\ id.space = "seg" /\ id.of = u /\ id.key = 0 /\ id.kind = "user"
  BY <1>2, SegmentIds
<1> HIDE DEF id
<1>4. UserItem(u) = Item(id, u, "user", Prompt, None, FALSE)
  BY DEF UserItem, id
<1> HIDE DEF Prompt
<1> QED BY <1>1, <1>3, <1>4 DEF Item, Items, Fields, Shape, Kinds, Statuses, Marks, Text

LEMMA SeedGood ==
  ASSUME NEW u \in Turns, NEW s, s = [Seeded(u) EXCEPT !.pending = SeedBatch(u)]
  PROVE  /\ Good(u, <<>>, s, <<>>, 0) /\ s.pending = SeedBatch(u) /\ SeedBatch(u) \in Seq(Muts)
         /\ SeedBatch(u) # <<>> /\ Forgets(s, Seeded(u)) /\ Seeded(u) \in Reducers
         /\ s.ordinal = 0
         /\ \A p \in 1..Len(SeedBatch(u)) : SeedBatch(u)[p].item = UserItem(u)
         /\ UserItem(u).id \in IdsOf(Seeded(u).items)
<1> DEFINE i == UserItem(u)
           m == [op |-> "add", item |-> i]
<1>1. /\ i \in Items /\ i.turn = u /\ i.mark = None /\ i.kind = "user" /\ ~i.streaming
      /\ i.id.space = "seg" /\ i.id.key = 0
  BY UserItemIs
<1> HIDE DEF i
<1>2. m \in Muts /\ m.item = i
  BY <1>1 DEF Muts, Ops
<1> HIDE DEF m
<1> DEFINE q == <<m>>
           g == <<i>>
<1>3. /\ q \in Seq(Muts) /\ Len(q) = 1 /\ q[1] = m /\ q # <<>> /\ <<>> \o q = q
      /\ \A p \in 1..Len(q) : q[p] = m
      /\ g \in Seq(Items) /\ Len(g) = 1 /\ g[1] = i /\ g = Append(<<>>, i)
      /\ \A p \in 1..Len(g) : g[p] = i
      /\ 1 \in 1..Len(g) /\ 1 \in 1..Len(q)
  BY <1>1, <1>2
<1>4. SeedBatch(u) = q
  BY DEF SeedBatch, i, m
<1>5. Seeded(u) = [NoReducer EXCEPT !.items = g]
  BY DEF Seeded, i
<1> HIDE DEF q, g
<1>6. /\ NoReducer \in Reducers /\ Good(u, <<>>, NoReducer, <<>>, 0)
      /\ NoReducer.items = <<>> /\ NoReducer.pending = <<>>
      /\ NoReducer.open = <<>> /\ NoReducer.ordinal = 0
  BY NoReducerGood DEF NoReducer
<1>7. /\ s \in Reducers /\ s.items = g /\ s.open = <<>> /\ s.ordinal = 0 /\ s.pending = q
      /\ Seeded(u) \in Reducers /\ Forgets(s, Seeded(u)) /\ Seeded(u).items = g
  BY <1>3, <1>4, <1>5, <1>6 DEF Reducers, Forgets
<1>8. Recorded(NoReducer, s, q)
  BY <1>2, <1>3, <1>6, <1>7 DEF Recorded, Positions
<1>9. Tracks(<<>>, s)
  <2>1. Grown(NoReducer.items, s.items)
    BY <1>3, <1>6, <1>7 DEF Grown
  <2>2. Tracks(<<>>, NoReducer) /\ <<>> \in Seq(Items)
    BY <1>6 DEF Good
  <2> QED BY <1>6, <1>7, <1>8, <2>1, <2>2, TracksStep
<1>10. Sound(u, s) /\ Streams(s) /\ Marked(s, 0)
  BY <1>1, <1>3, <1>7 DEF Sound, Streams, Marked, OpenIsLast, Positions
<1>11. Hears(s, <<>>)
  <2>1. <<>> \in Seq(Items)
    OBVIOUS
  <2>2. TextOf(<<>>, Text) \in Seq(Nat) /\ TextOf(Append(<<>>, i), Text) = TextOf(<<>>, Text) \o Piece(i, Text)
    BY <1>1, <2>1, TextOfAppend
  <2>3. TextOf(<<>>, Text) = <<>>
    <3>1. AllOnce(<<>>)
      BY DEF AllOnce
    <3> QED BY <1>6, <3>1 DEF Good, Hears
  <2>4. Piece(i, Text) = <<>>
    BY <1>1 DEF Piece, Text
  <2> QED BY <1>3, <1>7, <2>2, <2>3, <2>4 DEF Hears
<1>12. i.id \in IdsOf(Seeded(u).items)
  BY <1>3, <1>7 DEF IdsOf
<1> QED BY <1>2, <1>3, <1>4, <1>7, <1>9, <1>10, <1>11, <1>12 DEF Good, i

-----------------------------------------------------------------------------
(* The initial state and the steps.                                        *)
LEMMA NoWorkerIs == NoWorker \in Workers /\ NoWorker.batch = <<>> /\ NoWorker.base = 0
<1>1. <<>> \in Seq(Muts) /\ <<>> \in Seq(Nat) /\ None \in Keys
  BY DEF Keys
<1> QED BY <1>1 DEF NoWorker, Workers, Pc

LEMMA InitInv == Init => Inv
<1> SUFFICES ASSUME Init PROVE Inv
  OBVIOUS
<1>1. LogOf(Muts) /\ last = 0 /\ DOMAIN rows = {} /\ lines \in 0..MaxLines /\ lost = {}
  BY LogOfInit, FirstAssumption DEF Init, TablesInit
<1>2. NoReducer \in Reducers /\ NoReducer.pending = <<>> /\ NoReducer.ordinal = 0
      /\ NoReducer.items = <<>> /\ <<>> \in Seq(Nat)
  BY NoReducerGood DEF NoReducer
<1>3. \A u \in Turns : worker[u] = NoWorker /\ red[u] = NoReducer /\ heard[u] = <<>>
  BY DEF Init
<1>4. NoWorker.pc = "absent"
  BY DEF NoWorker
<1>5. Typed
  BY <1>1, <1>2, NoWorkerIs DEF Typed, Init
<1>6. ASSUME NEW u \in Turns PROVE TurnOK(u) /\ TurnHeld(u) /\ Lossless(u)
  <2>1. WorkerOK(NoWorker, NoReducer, <<>>, lines, last)
    BY <1>1, <1>2, <1>4, NoWorkerIs DEF WorkerOK, Ends
  <2>2. Lossless(u)
    BY <1>1, <1>3, NoWorkerIs DEF Lossless, Current
  <2>3. Full(NoReducer, NoWorker) = NoReducer
    BY <1>2, NoWorkerIs, FullIs
  <2>4. Kept(u, <<>>, NoReducer, <<>>, 0, rows, last, Others(red, u), Lossless(u))
    <3>1. Good(u, <<>>, NoReducer, <<>>, 0) /\ <<>> \in Seq(Items)
      BY NoReducerGood
    <3>2. OfMuts(rows) /\ Behind(u, <<>>, rows) /\ Mirror(<<>>, rows, last, Others(red, u))
      BY <1>1 DEF OfMuts, Behind, Mirror
    <3> QED BY <1>1, <3>1, <3>2 DEF Kept
  <2>5. Held(u, NoWorker, NoReducer, <<>>, Lossless(u), rows, last, Others(red, u))
    BY <2>3, <2>4 DEF Held
  <2> QED BY <1>3, <2>1, <2>2, <2>5 DEF TurnOK, TurnHeld
<1> QED BY <1>1, <1>3, <1>4, <1>5, <1>6 DEF Inv

(* A step of the worker alone.                                             *)
LEMMA QuietActs ==
  ASSUME Inv, NEW u \in Turns, worker[u].batch = <<>>, ~Ends(worker[u]), last > 0,
         NEW w \in Workers, w.batch = <<>>, w.base <= last, Work(u, w),
         w.pc \in {"seeding", "refused", "draining", "failed"},
         w.pc \in {"seeding", "refused"} => Fresh(worker[u]),
         UNCHANGED <<tables, red, lines, heard, lost>>
  PROVE  Acts(u)
<1>1. worker' = [worker EXCEPT ![u] = w] /\ worker \in [Turns -> Workers]
  BY DEF Work, Inv, Typed
<1>2. worker'[u] = w /\ \A v \in Turns \ {u} : worker'[v] = worker[v]
  BY <1>1
<1>3. Typed'
  BY <1>1 DEF Inv, Typed, LogOf, tables
<1>4. /\ red' = red /\ heard' = heard /\ lines' = lines /\ lost' = lost
      /\ rows' = rows /\ last' = last /\ UNCHANGED tables
  BY DEF tables
<1>5. ~Ends(w)
  BY DEF Ends
<1>6. WorkerOK(worker[u], red[u], heard[u], lines, last)
  BY DEF Inv, TurnOK
<1>7. WorkerOK(w, red[u], heard[u], lines, last)
  BY <1>5, <1>6 DEF WorkerOK, Fresh
<1>8. TurnOK(u)'
  BY <1>2, <1>4, <1>7 DEF TurnOK
<1>9. Full(red[u], w) = Full(red[u], worker[u])
  BY DEF Full
<1>10. Lossless(u)' <=> Lossless(u)
  BY <1>2, <1>4 DEF Lossless, Current
<1>11. PICK a, z : /\ Kept(u, a, Full(red[u], worker[u]), heard[u], z, rows, last,
                           Others(red, u), Lossless(u))
                   /\ z = 0
  BY DEF Inv, TurnHeld, Held
<1>12. Kept(u, a, Full(red[u], w), heard[u], z, rows, last, Others(red, u), Lossless(u)')
  BY <1>9, <1>10, <1>11 DEF Kept
<1>13. TurnHeld(u)'
  BY <1>2, <1>4, <1>11, <1>12 DEF TurnHeld, Held
<1>14. Unmoved(u) /\ Written(u) /\ w.pc # "absent" /\ lines <= lines'
  BY <1>2, <1>4 DEF Unmoved, Written, Inv, Typed
<1>15. Fresh(w) => Fresh(worker[u])
  BY DEF Fresh
<1> QED BY <1>2, <1>3, <1>4, <1>8, <1>10, <1>13, <1>14, <1>15 DEF Acts

(* The prompt of an accepted turn is seeded.                               *)
LEMMA SeedActs ==
  ASSUME Inv, NEW u \in Turns, Fresh(worker[u]), u = First \/ last > 0,
         Committed(SeedBatch(u)), LogOf(Muts)',
         NEW w, w = [NoWorker EXCEPT !.pc = "reading"], Work(u, w),
         red' = [red EXCEPT ![u] = Seeded(u)], UNCHANGED <<lines, heard, lost>>
  PROVE  Acts(u)
<1>1. /\ worker' = [worker EXCEPT ![u] = w] /\ worker \in [Turns -> Workers]
      /\ red \in [Turns -> Reducers] /\ heard \in [Turns -> Seq(Nat)] /\ lines \in 0..MaxLines
  BY DEF Work, Inv, Typed
<1>2. w \in Workers /\ w.batch = <<>> /\ w.base = 0 /\ w.pc = "reading"
  BY NoWorkerIs DEF Workers, Pc
<1> DEFINE s == [Seeded(u) EXCEPT !.pending = SeedBatch(u)]
           b == SeedBatch(u)
<1>3. /\ Good(u, <<>>, s, <<>>, 0) /\ s.pending = b /\ b \in Seq(Muts) /\ b # <<>>
      /\ Forgets(s, Seeded(u)) /\ Seeded(u) \in Reducers /\ s.ordinal = 0
      /\ \A p \in 1..Len(b) : b[p].item = UserItem(u)
      /\ UserItem(u).id \in IdsOf(Seeded(u).items)
  BY SeedGood
<1> HIDE DEF s, b
<1>4. Seeded(u).pending = <<>> /\ Seeded(u).ordinal = 0
  BY <1>3, NoReducerGood DEF Seeded, NoReducer
<1>5. /\ worker'[u] = w /\ red'[u] = Seeded(u) /\ lines' = lines /\ heard' = heard /\ lost' = lost
      /\ \A v \in Turns \ {u} : worker'[v] = worker[v] /\ red'[v] = red[v]
  BY <1>1
<1>6. red' \in [Turns -> Reducers] /\ worker' \in [Turns -> Workers]
  BY <1>1, <1>2, <1>3
<1>7. rows' = UpsertAll(rows, b, last) /\ last' = last + Len(b)
      /\ last \in Nat /\ last' \in Nat /\ last' > last
  <2>0. last \in Nat
    BY LogOfReplays DEF Inv, Typed
  <2>1. last \in Nat /\ rows' = UpsertAll(rows, b, last) /\ last' = last + Len(b)
    BY <2>0 DEF Committed, b
  <2>2. Len(b) \in Nat /\ Len(b) > 0
    BY <1>3, EmptySeq
  <2> QED BY <2>1, <2>2
<1>8. Typed'
  BY <1>1, <1>5, <1>6 DEF Typed
<1>9. WorkerOK(worker[u], red[u], heard[u], lines, last)
  BY DEF Inv, TurnOK
<1>10. worker[u].batch = <<>> /\ red[u] = NoReducer /\ heard[u] = <<>> /\ ~Ends(worker[u])
  BY <1>9 DEF WorkerOK, Fresh, Ends
<1>11. TurnOK(u)'
  <2>1. ~Ends(w) /\ ~Fresh(w)
    BY <1>2 DEF Ends, Fresh
  <2>2. <<>> \in Seq(Nat)
    OBVIOUS
  <2>3. WorkerOK(w, Seeded(u), <<>>, lines, last')
    BY <1>1, <1>2, <1>3, <1>4, <1>7, <2>1, <2>2 DEF WorkerOK
  <2> QED BY <1>5, <1>10, <2>3 DEF TurnOK
<1>12. Lossless(u)' <=> Lossless(u)
  BY <1>2, <1>5, <1>10 DEF Lossless, Current
<1> DEFINE F == Others(red, u)
           c == Lossless(u)
<1>13. Others(red', u) = F
  BY <1>5 DEF Others
<1>14. Full(NoReducer, worker[u]) = NoReducer /\ NoReducer.pending = <<>>
       /\ NoReducer.items = <<>>
  BY <1>1, <1>10, NoReducerGood, FullIs DEF NoReducer
<1>15. PICK a, z : Kept(u, a, NoReducer, <<>>, z, rows, last, F, c)
  BY <1>10, <1>14 DEF Inv, TurnHeld, Held
<1>16. Kept(u, Seeded(u).items, Seeded(u), <<>>, 0, rows', last', F, c)
  <2> HIDE DEF F, c
  <2>1. Kept(u, <<>>, NoReducer, <<>>, z, rows, last, F, c)
    BY <1>14, <1>15, Rebase
  <2>2. Kept(u, <<>>, s, <<>>, 0, rows, last, F, c)
    BY ONLY <2>1, <1>3, KeptMoves
  <2>3. rows' = UpsertAll(rows, s.pending, last) /\ last' = last + Len(s.pending)
    BY <1>3, <1>7
  <2>4. Forgets(s, Seeded(u))
    BY <1>3
  <2>5. Kept(u, Seeded(u).items, Seeded(u), <<>>, 0, rows', last + Len(s.pending), F, c)
    BY ONLY <2>2, <2>3, <2>4, KeptCommit
  <2> QED BY <2>3, <2>5
<1>17. TurnHeld(u)'
  <2>0. w.batch = Seeded(u).pending /\ w \in Workers /\ Seeded(u) \in Reducers
    BY <1>2, <1>3, <1>4
  <2>1. Full(Seeded(u), w) = Seeded(u)
    BY ONLY <2>0, FullIs
  <2>2. Kept(u, Seeded(u).items, Full(Seeded(u), w), <<>>, 0, rows', last', F, Lossless(u)')
    BY <1>12, <1>16, <2>1 DEF Kept
  <2>3. Held(u, w, Seeded(u), <<>>, Lossless(u)', rows', last', F)
    BY <2>2 DEF Held
  <2> QED BY <1>5, <1>10, <1>13, <2>3 DEF TurnHeld
<1>18. Unmoved(u)
  BY <1>5 DEF Unmoved
<1>19. Written(u)
  <2>1. UserItem(u).turn = u
    BY UserItemIs
  <2>2. \A p \in 1..Len(b) : b[p].item.turn = u /\ b[p].item.id \in IdsOf(red[u].items)'
    BY <1>3, <1>5, <2>1
  <2>3. Committed(b)
    BY DEF b
  <2> QED BY <1>3, <2>2, <2>3 DEF Written
<1>20. IdsOf(red[u].items) \subseteq IdsOf(red'[u].items)
  BY <1>10, <1>14 DEF IdsOf
<1>21. ~Fresh(worker'[u]) /\ worker'[u].pc # "absent"
  BY <1>2, <1>5 DEF Fresh
<1>22. lines <= lines' /\ last' > 0
  BY <1>1, <1>5, <1>7
<1> QED BY <1>8, <1>11, <1>12, <1>17, <1>18, <1>19, <1>20, <1>21, <1>22 DEF Acts

(* persist_reducer: the reducer's mutations become the batch.              *)
LEMMA PersistActs ==
  ASSUME Inv, NEW u \in Turns, worker[u].batch = <<>>, last > 0,
         NEW r, NEW hh \in Seq(Nat), NEW z, Good(u, red[u].items, r, hh, z),
         NEW next \in Begun, z = 0 \/ next = "done",
         next = "done" => FinalOK(r),
         NEW k \in Workers, k.batch = <<>>, k.base <= last,
         next = "done" => k.answer = FinalAnswer(r),
         Persist(u, r, k, next),
         heard' = [heard EXCEPT ![u] = hh],
         lines' \in 0..MaxLines, lines <= lines', r.ordinal <= lines',
         UNCHANGED <<tables, lost>>
  PROVE  Acts(u)
<1>1. /\ worker \in [Turns -> Workers] /\ red \in [Turns -> Reducers]
      /\ heard \in [Turns -> Seq(Nat)] /\ LogOf(Muts) /\ lines \in 0..MaxLines
  BY DEF Inv, Typed
<1>2. last \in Nat
  BY <1>1, LogOfReplays
<1>3. r \in Reducers /\ Sound(u, r) /\ Tracks(red[u].items, r)
  BY DEF Good, Sound
<1> DEFINE rr == [r EXCEPT !.pending = <<>>]
           w == IF r.pending = <<>> THEN [k EXCEPT !.pc = next]
                ELSE [k EXCEPT !.pc = "committing", !.then = next,
                               !.base = last, !.batch = r.pending]
<1>4. red' = [red EXCEPT ![u] = rr] /\ worker' = [worker EXCEPT ![u] = w]
  BY DEF Persist, Work
<1>5. Forgets(r, rr)
  BY DEF Forgets
<1>6. /\ Good(u, rr.items, rr, hh, z) /\ rr.pending = <<>> /\ rr.items = r.items
      /\ rr.ordinal = r.ordinal /\ rr.open = r.open
  <2> HIDE DEF rr
  <2> QED BY <1>5, ForgetGood
<1>7. rr \in Reducers
  <2> HIDE DEF rr
  <2> QED BY <1>6 DEF Good, Sound
<1>8. /\ w \in Workers /\ w.batch = r.pending /\ w.base <= last /\ w.answer = k.answer
      /\ w.pc = "committing" <=> r.pending # <<>>
      /\ w.pc = "committing" => w.then = next /\ w.base = last
      /\ w.pc # "committing" => w.pc = next
  <2>1. r.pending \in Seq(Muts) /\ next \in Pc /\ "committing" \in Pc /\ next # "committing"
    BY <1>3, ReducerFields DEF Begun, Pc
  <2>2. CASE r.pending = <<>>
    <3>1. w = [k EXCEPT !.pc = next]
      BY <2>2
    <3> HIDE DEF w
    <3> QED BY <2>1, <2>2, <3>1 DEF Workers
  <2>3. CASE r.pending # <<>>
    <3>1. w = [k EXCEPT !.pc = "committing", !.then = next, !.base = last, !.batch = r.pending]
      BY <2>3
    <3> HIDE DEF w
    <3> DEFINE q == r.pending
    <3>2. /\ q \in Seq(Muts) /\ k \in Workers /\ last \in Nat /\ next \in Pc /\ "committing" \in Pc
          /\ w = [k EXCEPT !.pc = "committing", !.then = next, !.base = last, !.batch = q]
      BY <1>2, <2>1, <3>1
    <3> HIDE DEF q
    <3>3. /\ w \in Workers /\ w.pc = "committing" /\ w.then = next /\ w.base = last
          /\ w.batch = q /\ w.answer = k.answer
      BY ONLY <3>2 DEF Workers
    <3> QED BY <1>2, <2>3, <3>3 DEF q
  <2> QED BY <2>2, <2>3
<1> HIDE DEF rr, w
<1>9. ~Fresh(w) /\ w.pc # "absent" /\ (Ends(w) <=> next = "done")
  BY <1>8 DEF Fresh, Ends, Begun
<1>10. /\ worker'[u] = w /\ red'[u] = rr /\ heard'[u] = hh
       /\ \A v \in Turns \ {u} : worker'[v] = worker[v] /\ red'[v] = red[v] /\ heard'[v] = heard[v]
       /\ lost' = lost /\ rows' = rows /\ last' = last /\ UNCHANGED tables
  BY <1>1, <1>4 DEF tables
<1>11. Typed'
  <2>1. red' \in [Turns -> Reducers] /\ worker' \in [Turns -> Workers] /\ heard' \in [Turns -> Seq(Nat)]
    BY <1>1, <1>4, <1>7, <1>8
  <2>2. LogOf(Muts)'
    BY <1>1, <1>10 DEF LogOf, tables
  <2> QED BY <2>1, <2>2 DEF Typed
<1>12. Ends(w) => FinalOK(rr) /\ w.answer = FinalAnswer(rr)
  BY <1>3, <1>6, <1>8, <1>9, AnswerOfItems
<1>13. WorkerOK(w, rr, hh, lines', last')
  BY <1>6, <1>7, <1>8, <1>9, <1>10, <1>12 DEF WorkerOK
<1>14. TurnOK(u)'
  BY <1>10, <1>13 DEF TurnOK
<1>15. Full(rr, w) = r
  BY <1>3, <1>5, <1>8, FullOfForgotten
<1>16. Lossless(u)' <=> Lossless(u)
  BY <1>8, <1>10 DEF Lossless, Current
<1>17. WorkerOK(worker[u], red[u], heard[u], lines, last)
  BY DEF Inv, TurnOK
<1>18. Full(red[u], worker[u]) = red[u] /\ red[u].pending = <<>>
  BY <1>1, <1>17, FullIs DEF WorkerOK
<1> DEFINE F == Others(red, u)
           c == Lossless(u)
<1>19. Others(red', u) = F
  BY <1>10 DEF Others
<1>20. PICK a, y : Kept(u, a, red[u], heard[u], y, rows, last, F, c)
  BY <1>18 DEF Inv, TurnHeld, Held
<1>21. Kept(u, red[u].items, r, hh, z, rows, last, F, c)
  <2> HIDE DEF F, c
  <2>1. Kept(u, red[u].items, red[u], heard[u], y, rows, last, F, c)
    BY ONLY <1>18, <1>20, Rebase
  <2>2. Good(u, red[u].items, r, hh, z)
    OBVIOUS
  <2> QED BY ONLY <2>1, <2>2, KeptMoves
<1>22. TurnHeld(u)'
  <2>1. Kept(u, red[u].items, Full(rr, w), hh, z, rows', last', F, Lossless(u)')
    BY <1>10, <1>15, <1>16, <1>21 DEF Kept
  <2>2. Held(u, w, rr, hh, Lossless(u)', rows', last', F)
    BY <1>9, <2>1 DEF Held
  <2> QED BY <1>10, <1>19, <2>2 DEF TurnHeld
<1>23. Unmoved(u) /\ Written(u)
  BY <1>10 DEF Unmoved, Written
<1>24. IdsOf(red[u].items) \subseteq IdsOf(red'[u].items)
  <2>1. Grown(red[u].items, r.items)
    BY <1>3 DEF Tracks
  <2>2. red[u].items \in Seq(Items) /\ r.items \in Seq(Items)
    BY <1>1, <1>3, ReducerFields
  <2>3. \A j \in 1..Len(red[u].items) : j \in 1..Len(r.items) /\ r.items[j].id = red[u].items[j].id
    <3>1. Len(red[u].items) \in Nat /\ Len(r.items) \in Nat
      BY <2>2
    <3> QED BY <2>1, <3>1 DEF Grown
  <2>4. IdsOf(red[u].items) \subseteq IdsOf(r.items)
    BY <2>3 DEF IdsOf
  <2> QED BY <1>6, <1>10, <2>4
<1> QED BY <1>2, <1>9, <1>10, <1>11, <1>14, <1>16, <1>22, <1>23, <1>24 DEF Acts

(* A batch is committed or refused.                                        *)
LEMMA CommitActs ==
  ASSUME Inv, NEW u \in Turns, Commit(u) PROVE Acts(u)
<1>1. /\ worker \in [Turns -> Workers] /\ red \in [Turns -> Reducers]
      /\ heard \in [Turns -> Seq(Nat)] /\ LogOf(Muts) /\ lines \in 0..MaxLines
  BY DEF Inv, Typed
<1>2. last \in Nat
  BY <1>1, LogOfReplays
<1> DEFINE b == worker[u].batch
           r == Full(red[u], worker[u])
           w == [worker[u] EXCEPT !.pc = worker[u].then, !.batch = <<>>, !.base = 0]
<1>3. WorkerOK(worker[u], red[u], heard[u], lines, last)
  BY DEF Inv, TurnOK
<1>4. worker[u].pc = "committing"
  BY DEF Commit, At
<1>5. /\ b \in Seq(Muts) /\ b # <<>> /\ worker[u].base \in Nat /\ worker[u].base <= last
      /\ worker[u].then \in Begun /\ red[u].pending = <<>>
  BY <1>3, <1>4 DEF WorkerOK, Workers
<1>6. CommitBatch(b, worker[u].base) /\ worker' = [worker EXCEPT ![u] = w]
      /\ red' = red /\ lines' = lines /\ heard' = heard
      /\ lost' = IF Taken(b, worker[u].base) THEN lost \cup {u} ELSE lost
  BY DEF Commit, Work
<1>7. /\ w \in Workers /\ w.batch = <<>> /\ w.base = 0 /\ w.pc = worker[u].then
      /\ w.answer = worker[u].answer
  <2>1. <<>> \in Seq(Muts) /\ Begun \subseteq Pc
    BY DEF Begun, Pc
  <2> QED BY <1>1, <1>5, <2>1 DEF Workers
<1> HIDE DEF w
<1>8. /\ r \in Reducers /\ r.items = red[u].items /\ r.pending = b /\ Forgets(r, red[u])
  BY <1>1, <1>5, FullIs
<1> HIDE DEF r
<1>9. /\ LogOf(Muts)'
      /\ Taken(b, worker[u].base) <=> worker[u].base < last
      /\ worker[u].base < last => Refused(worker[u].base)
      /\ worker[u].base = last => Committed(b)
  <2> HIDE DEF b
  <2> QED BY <1>1, <1>2, <1>5, <1>6, CommitOf
<1>10. /\ worker'[u] = w /\ \A v \in Turns \ {u} : worker'[v] = worker[v]
  BY <1>1, <1>6
<1>11. Typed'
  BY <1>1, <1>6, <1>7, <1>9 DEF Typed
<1>12. ~Fresh(w) /\ w.pc # "absent" /\ w.pc # "committing" /\ (Ends(w) <=> Ends(worker[u]))
  BY <1>4, <1>5, <1>7 DEF Fresh, Ends, Begun
<1>13. last' \in Nat /\ last <= last'
  <2>1. Len(b) \in Nat
    BY <1>5
  <2> QED BY <1>2, <1>5, <1>9, <2>1 DEF Refused, Committed, tables
<1>14. TurnOK(u)'
  <2>1. WorkerOK(w, red[u], heard[u], lines, last')
    BY <1>3, <1>7, <1>12, <1>13 DEF WorkerOK
  <2> QED BY <1>6, <1>10, <2>1 DEF TurnOK
<1> DEFINE F == Others(red, u)
<1>15. PICK a, z : /\ Kept(u, a, r, heard[u], z, rows, last, F, Lossless(u))
                   /\ z = 0 \/ Ends(worker[u])
  BY DEF Inv, TurnHeld, Held, r
<1>16. Kept(u, red[u].items, red[u], heard[u], z, rows', last', F, Lossless(u)')
  <2>1. CASE worker[u].base < last
    <3>1. rows' = rows /\ last' = last /\ ~Lossless(u)'
      BY <1>2, <1>5, <1>6, <1>9, <2>1 DEF Refused, tables, Lossless
    <3>2. Kept(u, red[u].items, red[u], heard[u], z, rows, last, F, FALSE)
      BY ONLY <1>8, <1>15, KeptRefused
    <3> QED BY <3>1, <3>2 DEF Kept
  <2>2. CASE worker[u].base = last
    <3>1. rows' = UpsertAll(rows, r.pending, last) /\ last' = last + Len(r.pending)
      BY <1>8, <1>9, <2>2 DEF Committed
    <3>2. Lossless(u)' => Lossless(u)
      BY <1>2, <1>6, <1>9, <2>2 DEF Lossless, Current
    <3> DEFINE c == Lossless(u)
               h == heard[u]
               rr == red[u]
    <3>3. Kept(u, rr.items, rr, h, z, rows', last + Len(r.pending), F, c)
      <4>1. Kept(u, a, r, h, z, rows, last, F, c) /\ Forgets(r, rr)
            /\ rows' = UpsertAll(rows, r.pending, last)
        BY <1>8, <1>15, <3>1
      <4> HIDE DEF c, h, rr, F
      <4> QED BY ONLY <4>1, KeptCommit
    <3> QED BY <3>1, <3>2, <3>3 DEF Kept
  <2> QED BY <1>2, <1>5, <2>1, <2>2
<1>17. TurnHeld(u)'
  <2>1. Full(red[u], w) = red[u]
    BY <1>1, <1>5, <1>7, FullIs
  <2>2. Held(u, w, red[u], heard[u], Lossless(u)', rows', last', F)
    BY <1>12, <1>15, <1>16, <2>1 DEF Held
  <2> QED BY <1>6, <1>10, <2>2 DEF TurnHeld
<1>18. Unmoved(u)
  BY <1>6, <1>10 DEF Unmoved
<1>19. Written(u)
  <2>1. CASE worker[u].base < last
    BY <1>9, <2>1 DEF Written, Refused
  <2>2. CASE worker[u].base = last
    <3>1. Good(u, a, r, heard[u], z)
      BY <1>15 DEF Kept
    <3>2. ASSUME NEW p \in 1..Len(b)
          PROVE  b[p].item.turn = u /\ b[p].item.id \in IdsOf(red[u].items)'
      <4>1. Between(a, r.items, b[p])
        BY <1>8, <3>1 DEF Good, Tracks
      <4>2. PICK k \in 1..Len(r.items) : r.items[k].id = b[p].item.id /\ r.items[k].turn = b[p].item.turn
        BY <4>1 DEF Between
      <4>3. r.items[k].turn = u
        BY <3>1, <4>2 DEF Good, Sound, Positions
      <4> QED BY <1>6, <1>8, <4>2, <4>3 DEF IdsOf
    <3> QED BY <1>5, <1>9, <2>2, <3>2 DEF Written
  <2> QED BY <1>2, <1>5, <2>1, <2>2
<1>20. Lossless(u) => Lossless(u)'
  <2> SUFFICES ASSUME Lossless(u) PROVE Lossless(u)'
    OBVIOUS
  <2>1. worker[u].base = last /\ u \notin lost
    BY <1>5 DEF Lossless, Current
  <2> QED BY <1>2, <1>6, <1>7, <1>9, <1>10, <2>1 DEF Lossless, Current
<1>21. last > 0
  BY <1>2, <1>4 DEF Inv
<1>22. lines <= lines' /\ IdsOf(red[u].items) \subseteq IdsOf(red'[u].items)
  BY <1>1, <1>6
<1> QED BY <1>2, <1>10, <1>11, <1>12, <1>13, <1>14, <1>17, <1>18, <1>19, <1>20, <1>21, <1>22 DEF Acts

(* The reducer of a turn, whether or not a batch waits for its commit.     *)
LEMMA TurnGood ==
  ASSUME Inv, NEW u \in Turns
  PROVE  \E z : /\ Good(u, red[u].items, red[u], heard[u], z)
                /\ z = 0 \/ Ends(worker[u])
<1> DEFINE f == Full(red[u], worker[u])
           r == red[u]
           h == heard[u]
<1>1. r \in Reducers /\ worker[u] \in Workers /\ r.pending = <<>>
  BY DEF Inv, TurnOK, WorkerOK
<1>2. Forgets(f, r)
  BY <1>1, FullIs
<1>3. PICK a, z : Good(u, a, f, h, z) /\ (z = 0 \/ Ends(worker[u]))
  BY DEF Inv, TurnHeld, Held, Kept
<1>4. Good(u, r.items, r, h, z)
  <2> HIDE DEF f, r, h
  <2> QED BY ONLY <1>2, <1>3, ForgetGood
<1> QED BY <1>3, <1>4

(* A worker that is at a line, or between two.                             *)
LEMMA AtWork ==
  ASSUME Inv, NEW u \in Turns, worker[u].pc \in {"reading", "answering", "draining"}
  PROVE  /\ worker[u].batch = <<>> /\ ~Ends(worker[u]) /\ last > 0 /\ last \in Nat
         /\ Good(u, red[u].items, red[u], heard[u], 0)
         /\ worker[u] \in Workers /\ worker[u].base <= last
         /\ red[u] \in Reducers /\ red[u].items \in Seq(Items) /\ red[u].ordinal <= lines
         /\ heard[u] \in Seq(Nat) /\ lines \in 0..MaxLines
<1>1. WorkerOK(worker[u], red[u], heard[u], lines, last)
  BY DEF Inv, TurnOK
<1>2. last \in Nat /\ lines \in 0..MaxLines
  BY LogOfReplays DEF Inv, Typed
<1>3. last > 0
  BY <1>2 DEF Inv
<1>4. ~Ends(worker[u])
  BY DEF Ends
<1>5. Good(u, red[u].items, red[u], heard[u], 0)
  BY <1>4, TurnGood
<1>6. red[u] \in Reducers /\ red[u].items \in Seq(Items)
  BY <1>1, ReducerFields DEF WorkerOK
<1> QED BY <1>1, <1>2, <1>3, <1>4, <1>5, <1>6 DEF WorkerOK

LEMMA ReadActs ==
  ASSUME Inv, NEW u \in Turns, worker[u].pc \in {"reading", "draining"},
         NEW l \in Lines[u], NEW k \in Workers, k.batch = <<>>, k.base <= last,
         NEW next \in {"reading", "answering", "draining"}, Read(u, l, k, next)
  PROVE  Acts(u)
<1>1. /\ worker[u].batch = <<>> /\ ~Ends(worker[u]) /\ last > 0 /\ last \in Nat
      /\ Good(u, red[u].items, red[u], heard[u], 0)
      /\ red[u] \in Reducers /\ red[u].items \in Seq(Items) /\ red[u].ordinal <= lines
      /\ heard[u] \in Seq(Nat) /\ lines \in 0..MaxLines
  BY AtWork
<1> DEFINE upd == Normalized(l)
           n == lines + 1
           r == Apply(red[u], u, upd, n)
           hh == IF upd.kind \in Text THEN Append(heard[u], n) ELSE heard[u]
<1>2. n \in Nat /\ lines' = n /\ n \in 0..MaxLines /\ lines <= n
  BY <1>1, FirstAssumption DEF Read
<1>3. Persist(u, r, k, next) /\ UNCHANGED <<tables, lost>>
      /\ heard' = IF upd.kind \in Text THEN [heard EXCEPT ![u] = Append(@, n)] ELSE heard
  BY DEF Read
<1>4. GoodUpdate(upd)
  BY NormalizedGood
<1> HIDE DEF upd, n
<1>5. hh \in Seq(Nat) /\ heard' = [heard EXCEPT ![u] = hh]
  <2>1. heard \in [Turns -> Seq(Nat)]
    BY DEF Inv, Typed
  <2>2. CASE upd.kind \in Text
    <3>1. hh = Append(heard[u], n) /\ Append(heard[u], n) \in Seq(Nat)
      BY <1>1, <1>2, <2>2
    <3> QED BY <1>3, <2>2, <3>1
  <2>3. CASE upd.kind \notin Text
    BY <1>1, <1>3, <2>1, <2>3
  <2> QED BY <2>2, <2>3
<1>6. Good(u, red[u].items, r, hh, 0) /\ r.ordinal \in {red[u].ordinal, red[u].ordinal + 1}
  <2> DEFINE r0 == red[u]
             a == red[u].items
             h == heard[u]
  <2>1. Good(u, a, r0, h, 0) /\ a \in Seq(Items) /\ h \in Seq(Nat) /\ r = Apply(r0, u, upd, n)
    BY <1>1
  <2> HIDE DEF r0, a, h, r
  <2>2. /\ Good(u, a, r, IF upd.kind \in Text THEN Append(h, n) ELSE h, 0)
        /\ r.ordinal \in {r0.ordinal, r0.ordinal + 1}
    BY ONLY <2>1, <1>2, <1>4, u \in Turns, ApplyGood
  <2> QED BY <2>2 DEF r0, a, h
<1> HIDE DEF r, hh
<1>7. r.ordinal <= lines' /\ next \in Begun /\ next # "done"
  <2>1. red[u].ordinal \in Nat
    BY <1>1, ReducerFields
  <2> QED BY <1>1, <1>2, <1>6, <2>1 DEF n, Begun
<1> QED BY <1>1, <1>2, <1>3, <1>5, <1>6, <1>7, PersistActs

LEMMA AnswerActs == ASSUME Inv, NEW u \in Turns, Answer(u) PROVE Acts(u)
<1>0. worker[u].pc = "answering"
  BY DEF Answer, At
<1>1. /\ worker[u].batch = <<>> /\ ~Ends(worker[u]) /\ last > 0 /\ last \in Nat
      /\ Good(u, red[u].items, red[u], heard[u], 0)
      /\ worker[u] \in Workers /\ worker[u].base <= last
      /\ red[u] \in Reducers /\ red[u].items \in Seq(Items) /\ red[u].ordinal <= lines
      /\ heard[u] \in Seq(Nat) /\ lines \in 0..MaxLines
  BY <1>0, AtWork
<1> DEFINE q == worker[u].request
           r == DecidePermission(red[u], u, q, "approved")
           k == [worker[u] EXCEPT !.request = None]
           h == heard[u]
<1>2. Persist(u, r, k, "reading") /\ UNCHANGED <<tables, lines, heard, lost>>
  BY DEF Answer
<1>3. q \in Keys /\ None \in Keys /\ "approved" \in Statuses \ {None}
  BY <1>1 DEF Workers, Keys, Statuses, None
<1>4. k \in Workers /\ k.batch = <<>> /\ k.base <= last
  BY <1>1, <1>3 DEF Workers
<1> HIDE DEF q, k
<1>5. Good(u, red[u].items, r, h, 0) /\ r.ordinal = red[u].ordinal
  <2> DEFINE r0 == red[u]
             a == red[u].items
             s == "approved"
  <2>1. Good(u, a, r0, h, 0) /\ a \in Seq(Items) /\ h \in Seq(Nat)
        /\ r = DecidePermission(r0, u, q, s) /\ q \in Keys /\ s \in Statuses \ {None}
    BY <1>1, <1>3
  <2> HIDE DEF r0, a, h, r, s
  <2>2. Good(u, a, r, h, 0) /\ r.ordinal = r0.ordinal
    BY ONLY <2>1, u \in Turns, DecidePermissionGood
  <2> QED BY <2>2 DEF r0, a
<1> HIDE DEF r
<1>6. heard' = [heard EXCEPT ![u] = h] /\ h \in Seq(Nat)
  <2>1. heard \in [Turns -> Seq(Nat)]
    BY DEF Inv, Typed
  <2> QED BY <1>1, <1>2, <2>1
<1> HIDE DEF h
<1> DEFINE next == "reading"
<1>7. next \in Begun /\ next # "done" /\ Persist(u, r, k, next)
  BY <1>2 DEF Begun
<1>8. lines' \in 0..MaxLines /\ lines <= lines' /\ r.ordinal <= lines'
  BY <1>1, <1>2, <1>5
<1> HIDE DEF next
<1> QED BY <1>1, <1>2, <1>4, <1>5, <1>6, <1>7, <1>8, PersistActs

LEMMA FinishActs ==
  ASSUME Inv, NEW u \in Turns, NEW mark \in Marks, Finish(u, mark) PROVE Acts(u)
<1>0. worker[u].pc \in {"reading", "draining"}
  BY DEF Finish, At
<1>1. /\ worker[u].batch = <<>> /\ ~Ends(worker[u]) /\ last > 0 /\ last \in Nat
      /\ Good(u, red[u].items, red[u], heard[u], 0)
      /\ worker[u] \in Workers /\ worker[u].base <= last
      /\ red[u] \in Reducers /\ red[u].items \in Seq(Items) /\ red[u].ordinal <= lines
      /\ heard[u] \in Seq(Nat) /\ lines \in 0..MaxLines
  BY <1>0, AtWork
<1> DEFINE r == Finalize(red[u], u, mark)
           k == [worker[u] EXCEPT !.answer = FinalAnswer(r)]
           h == heard[u]
<1>2. Persist(u, r, k, "done") /\ UNCHANGED <<tables, lines, heard, lost>>
  BY DEF Finish
<1>3. (\E z : Good(u, red[u].items, r, h, z)) /\ FinalOK(r) /\ r.ordinal = red[u].ordinal
  <2> DEFINE r0 == red[u]
             a == red[u].items
  <2>1. Good(u, a, r0, h, 0) /\ a \in Seq(Items) /\ r = Finalize(r0, u, mark)
    BY <1>1
  <2> HIDE DEF r0, a, h, r
  <2>2. (\E z : Good(u, a, r, h, z)) /\ FinalOK(r) /\ r.ordinal = r0.ordinal
    BY ONLY <2>1, u \in Turns, mark \in Marks, FinalizeGood
  <2> QED BY <2>2 DEF r0, a
<1> HIDE DEF r
<1>4. PICK z : Good(u, red[u].items, r, h, z)
  BY <1>3
<1>5. FinalAnswer(r) \in Seq(Nat)
  BY <1>4, AnswerType DEF Good, Sound
<1>6. k \in Workers /\ k.batch = <<>> /\ k.base <= last /\ k.answer = FinalAnswer(r)
  BY <1>1, <1>5 DEF Workers
<1> HIDE DEF k
<1>7. heard' = [heard EXCEPT ![u] = h] /\ h \in Seq(Nat)
  <2>1. heard \in [Turns -> Seq(Nat)]
    BY DEF Inv, Typed
  <2> QED BY <1>1, <1>2, <2>1
<1> HIDE DEF h
<1> DEFINE next == "done"
<1>8. next \in Begun /\ next = "done" /\ Persist(u, r, k, next)
  BY <1>2 DEF Begun
<1>9. lines' \in 0..MaxLines /\ lines <= lines' /\ r.ordinal <= lines'
  BY <1>1, <1>2, <1>3
<1> HIDE DEF next
<1> QED BY <1>1, <1>2, <1>3, <1>4, <1>6, <1>7, <1>8, <1>9, PersistActs

LEMMA StartActs == ASSUME Inv, Start PROVE First \in Turns /\ Acts(First)
<1> DEFINE b == SeedBatch(First)
           w == [NoWorker EXCEPT !.pc = "reading"]
<1>1. First \in Turns
  BY FirstAssumption
<1>2. /\ worker[First].pc = "absent" /\ CommitBatch(b, 0) /\ Work(First, w)
      /\ red' = [red EXCEPT ![First] = Seeded(First)] /\ UNCHANGED <<lines, heard, lost>>
  BY DEF Start, At
<1>3. last = 0 /\ Fresh(worker[First]) /\ LogOf(Muts)
  BY <1>2 DEF Inv, Fresh, Typed
<1>4. b \in Seq(Muts) /\ b # <<>>
  BY <1>1, SeedGood
<1>5. LogOf(Muts)' /\ Committed(b)
  <2> DEFINE base == 0
  <2>1. base \in Nat /\ base = last /\ base <= last /\ CommitBatch(b, base)
    BY <1>2, <1>3
  <2> HIDE DEF b, base
  <2> QED BY <1>3, <1>4, <2>1, CommitOf
<1> HIDE DEF w
<1> QED BY <1>1, <1>2, <1>3, <1>5, SeedActs DEF w

LEMMA FollowUpActs == ASSUME Inv, NEW u \in Turns, SeedFollowUp(u) PROVE Acts(u)
<1> DEFINE b == SeedBatch(u)
           base == worker[u].base
<1>1. /\ worker[u].pc = "seeding" /\ CommitBatch(b, base) /\ UNCHANGED <<lines, heard, lost>>
  BY DEF SeedFollowUp, At
<1>2. WorkerOK(worker[u], red[u], heard[u], lines, last)
  BY DEF Inv, TurnOK
<1>3. /\ worker[u].batch = <<>> /\ ~Ends(worker[u]) /\ Fresh(worker[u])
      /\ base \in Nat /\ base <= last
  BY <1>1, <1>2 DEF WorkerOK, Ends, Fresh, Workers
<1>4. last > 0 /\ last \in Nat /\ LogOf(Muts)
  <2>1. last \in Nat /\ LogOf(Muts)
    BY LogOfReplays DEF Inv, Typed
  <2> QED BY <1>1, <2>1 DEF Inv
<1>5. b \in Seq(Muts) /\ b # <<>>
  BY SeedGood
<1>6. /\ LogOf(Muts)' /\ (Taken(b, base) <=> base < last)
      /\ (base < last => Refused(base)) /\ (base = last => Committed(b))
  <2> HIDE DEF b, base
  <2> QED BY <1>1, <1>3, <1>4, <1>5, CommitOf
<1>7. CASE base < last
  <2> DEFINE w == [NoWorker EXCEPT !.pc = "refused"]
  <2>1. Work(u, w) /\ UNCHANGED red
    BY <1>6, <1>7 DEF SeedFollowUp
  <2>2. w \in Workers /\ w.batch = <<>> /\ w.base = 0 /\ w.pc = "refused"
    BY NoWorkerIs DEF Workers, Pc
  <2>3. UNCHANGED <<tables, red, lines, heard, lost>>
    BY <1>1, <1>6, <1>7, <2>1 DEF Refused
  <2>4. w.base <= last
    BY <1>4, <2>2
  <2> HIDE DEF w
  <2> QED BY <1>3, <1>4, <2>1, <2>2, <2>3, <2>4, QuietActs
<1>8. CASE base = last
  <2> DEFINE w == [NoWorker EXCEPT !.pc = "reading"]
  <2>1. Work(u, w) /\ red' = [red EXCEPT ![u] = Seeded(u)]
    BY <1>4, <1>6, <1>8 DEF SeedFollowUp
  <2>2. Committed(SeedBatch(u))
    BY <1>6, <1>8
  <2> HIDE DEF w
  <2> QED BY <1>1, <1>3, <1>4, <1>6, <2>1, <2>2, SeedActs DEF w
<1> QED BY <1>3, <1>4, <1>7, <1>8

LEMMA WorkerActs == ASSUME Inv, NEW u \in Turns, WorkerStep(u) PROVE Acts(u)
<1>1. CASE Continue(u)
  <2> DEFINE w == [NoWorker EXCEPT !.pc = "seeding", !.base = last]
  <2>1. /\ worker[u].pc = "absent" /\ last > 0 /\ Work(u, w)
        /\ UNCHANGED <<tables, red, lines, heard, lost>>
    BY <1>1 DEF Continue, At
  <2>2. last \in Nat
    BY LogOfReplays DEF Inv, Typed
  <2>3. w \in Workers /\ w.batch = <<>> /\ w.base = last /\ w.pc = "seeding" /\ w.base <= last
    <3> DEFINE k == NoWorker
    <3>1. k \in Workers /\ k.batch = <<>> /\ w = [k EXCEPT !.pc = "seeding", !.base = last]
          /\ "seeding" \in Pc
      BY NoWorkerIs DEF Pc
    <3> HIDE DEF k, w
    <3>2. /\ w \in Workers /\ w.batch = <<>> /\ w.base = last /\ w.pc = "seeding"
      BY ONLY <2>2, <3>1 DEF Workers
    <3> QED BY <2>2, <3>2
  <2>4. worker[u].batch = <<>> /\ ~Ends(worker[u]) /\ Fresh(worker[u])
    <3>1. WorkerOK(worker[u], red[u], heard[u], lines, last)
      BY DEF Inv, TurnOK
    <3> QED BY <2>1, <3>1 DEF WorkerOK, Ends, Fresh
  <2> HIDE DEF w
  <2> QED BY <2>1, <2>3, <2>4, QuietActs
<1>2. CASE SeedFollowUp(u)
  BY <1>2, FollowUpActs
<1>3. CASE Answer(u)
  BY <1>3, AnswerActs
<1>4. CASE Commit(u)
  BY <1>4, CommitActs
<1>5. CASE PromptEnds(u)
  <2> DEFINE w == [worker[u] EXCEPT !.pc = "draining"]
  <2>1. worker[u].pc = "reading" /\ Work(u, w) /\ UNCHANGED <<tables, red, lines, heard, lost>>
    BY <1>5 DEF PromptEnds, At
  <2>2. /\ worker[u].batch = <<>> /\ ~Ends(worker[u]) /\ last > 0
        /\ worker[u] \in Workers /\ worker[u].base <= last
    BY <2>1, AtWork
  <2>3. w \in Workers /\ w.batch = <<>> /\ w.base <= last /\ w.pc = "draining"
    BY <2>2 DEF Workers, Pc
  <2> HIDE DEF w
  <2> QED BY <2>1, <2>2, <2>3, QuietActs
<1>6. ASSUME NEW l \in Lines[u], ReadLine(u, l) \/ ReadRequest(u, l) \/ Drain(u, l)
      PROVE  Acts(u)
  <2>1. l.key \in Keys
    BY DEF Keys, AllLines
  <2>2. worker[u].pc \in {"reading", "draining"}
    BY <1>6 DEF ReadLine, ReadRequest, Drain, At
  <2>3. worker[u] \in Workers /\ worker[u].batch = <<>> /\ worker[u].base <= last
    BY <2>2, AtWork
  <2>4. CASE ReadLine(u, l)
    <3> DEFINE next == "reading"
    <3>1. Read(u, l, worker[u], next) /\ next \in {"reading", "answering", "draining"}
      BY <2>4 DEF ReadLine
    <3> HIDE DEF next
    <3> QED BY <2>2, <2>3, <3>1, ReadActs
  <2>5. CASE ReadRequest(u, l)
    <3> DEFINE next == "answering"
               k == [worker[u] EXCEPT !.request = l.key]
    <3>1. Read(u, l, k, next) /\ next \in {"reading", "answering", "draining"}
      BY <2>5 DEF ReadRequest
    <3>2. k \in Workers /\ k.batch = <<>> /\ k.base <= last
      BY <2>1, <2>3 DEF Workers
    <3> HIDE DEF next, k
    <3> QED BY <2>2, <3>1, <3>2, ReadActs
  <2>6. CASE Drain(u, l)
    <3> DEFINE next == "draining"
    <3>1. Read(u, l, worker[u], next) /\ next \in {"reading", "answering", "draining"}
      BY <2>6 DEF Drain
    <3> HIDE DEF next
    <3> QED BY <2>2, <2>3, <3>1, ReadActs
  <2> QED BY <1>6, <2>4, <2>5, <2>6
<1>7. ASSUME NEW mark \in {None, "finalAnswer", "partialAnswer"}, Finish(u, mark)
      PROVE  Acts(u)
  <2>1. mark \in Marks
    BY DEF Marks
  <2> QED BY <1>7, <2>1, FinishActs
<1>8. CASE Fail(u)
  <2> DEFINE w == [worker[u] EXCEPT !.pc = "failed"]
  <2>1. worker[u].pc = "reading" /\ Work(u, w) /\ UNCHANGED <<tables, red, lines, heard, lost>>
    BY <1>8 DEF Fail, At
  <2>2. /\ worker[u].batch = <<>> /\ ~Ends(worker[u]) /\ last > 0
        /\ worker[u] \in Workers /\ worker[u].base <= last
    BY <2>1, AtWork
  <2>3. w \in Workers /\ w.batch = <<>> /\ w.base <= last /\ w.pc = "failed"
    BY <2>2 DEF Workers, Pc
  <2> HIDE DEF w
  <2> QED BY <2>1, <2>2, <2>3, QuietActs
<1> QED BY <1>1, <1>2, <1>3, <1>4, <1>5, <1>6, <1>7, <1>8 DEF WorkerStep

LEMMA NextInv == Inv /\ [Next]_vars => Inv'
<1> SUFFICES ASSUME Inv, [Next]_vars PROVE Inv'
  OBVIOUS
<1>1. CASE Start
  BY <1>1, StartActs, ActsInv
<1>2. ASSUME NEW u \in Turns, WorkerStep(u) PROVE Inv'
  BY <1>2, WorkerActs, ActsInv
<1>3. CASE UNCHANGED vars
  <2>1. UNCHANGED <<log, rows, last, red, worker, lines, heard, lost>>
    BY <1>3 DEF vars, tables
  <2>2. Typed' <=> Typed
    BY <2>1 DEF Typed, LogOf
  <2>3. \A u \in Turns : /\ TurnOK(u)' <=> TurnOK(u)
                         /\ TurnHeld(u)' <=> TurnHeld(u)
                         /\ Alone(u)' <=> Alone(u)
                         /\ Lossless(u)' <=> Lossless(u)
    BY <2>1 DEF TurnOK, TurnHeld, Alone, At, Lossless, Others
  <2> QED BY <2>1, <2>2, <2>3 DEF Inv
<1> QED BY <1>1, <1>2, <1>3 DEF Next

(* What every worker holds and every row says, at each of its steps
   (persist_reducer, run_grok_turn, finalize_turn).                        *)
THEOREM Inductive == Spec => []Inv
BY InitInv, NextInv, PTL DEF Spec

-----------------------------------------------------------------------------
(* The theorems.                                                           *)
LEMMA RowsOfMuts == ASSUME Inv PROVE OfMuts(rows)
BY FirstAssumption DEF Inv, TurnHeld, Held, Kept

LEMMA TypeOKFollows == ASSUME Inv PROVE TypeOK
<1>1. lines \in 0..MaxLines
  BY DEF Inv, Typed
<1>2. \A i \in Items : ItemOK(i)
  BY ItemFields DEF ItemOK, Shape, Kinds, Marks, Text
<1>3. \A i \in DOMAIN rows : ItemOK(rows[i].item) /\ rows[i].item.id = i
  BY <1>2, RowsOfMuts DEF OfMuts
<1>4. ASSUME NEW u \in Turns
      PROVE  /\ worker[u].pc \in Pc
             /\ worker[u].base \in 0..last
             /\ worker[u].pc = "committing" <=> worker[u].batch # <<>>
             /\ red[u].pending = <<>>
             /\ red[u].ordinal <= lines
             /\ \A k \in DOMAIN red[u].items : ItemOK(red[u].items[k])
             /\ red[u].open # <<>> =>
                   \E k \in DOMAIN red[u].items :
                      red[u].items[k].id = red[u].open[1] /\ red[u].items[k].streaming
  <2>1. WorkerOK(worker[u], red[u], heard[u], lines, last)
    BY DEF Inv, TurnOK
  <2>2. last \in Nat
    BY LogOfReplays DEF Inv, Typed
  <2>3. worker[u].pc \in Pc /\ worker[u].base \in 0..last
    BY <2>1, <2>2 DEF WorkerOK, Workers
  <2>4. red[u].items \in Seq(Items) /\ DOMAIN red[u].items = 1..Len(red[u].items)
        /\ Len(red[u].items) \in Nat
    BY <2>1, ReducerFields DEF WorkerOK
  <2>5. \A k \in DOMAIN red[u].items : ItemOK(red[u].items[k])
    BY <1>2, <2>4
  <2>6. OpenIsLast(red[u])
    BY TurnGood DEF Good, Sound
  <2>7. red[u].open # <<>> =>
           \E k \in DOMAIN red[u].items :
              red[u].items[k].id = red[u].open[1] /\ red[u].items[k].streaming
    <3> SUFFICES ASSUME red[u].open # <<>>
                 PROVE  \E k \in DOMAIN red[u].items :
                           red[u].items[k].id = red[u].open[1] /\ red[u].items[k].streaming
      OBVIOUS
    <3> DEFINE n == Len(red[u].items)
    <3>1. /\ red[u].items # <<>> /\ red[u].open = <<red[u].items[n].id>>
          /\ red[u].items[n].streaming
      BY <2>6 DEF OpenIsLast
    <3>2. n \in DOMAIN red[u].items
      BY <2>4, <3>1, EmptySeq
    <3> QED BY <3>1, <3>2
  <2> QED BY <2>1, <2>3, <2>5, <2>7 DEF WorkerOK
<1> QED BY <1>1, <1>3, <1>4 DEF TypeOK

(* Every state of the reducers, the workers and the rows is well formed,
   and an open segment is a card of its turn that streams (TurnReducer).   *)
THEOREM TypeCorrect == Spec => []TypeOK
BY Inductive, TypeOKFollows, PTL

(* The rows are what replaying the log gives, whoever's commits race
   (commit_timeline_mutations).                                            *)
THEOREM RowsReplay == Spec => []RowsReplayLog
<1>1. Inv => RowsReplayLog
  BY LogOfReplays DEF Inv, Typed
<1> QED BY <1>1, Inductive, PTL

LEMMA NoneRecurs == ASSUME Inv, NEW u \in Turns, ~Recurs(u) PROVE AllOnce(red[u].items)
<1>1. DOMAIN red[u].items = 1..Len(red[u].items)
  BY ReducerFields DEF Inv, Typed
<1> QED BY <1>1 DEF Recurs, AllOnce

(* No chunk of the agent's text is lost, repeated or out of order in the
   cards of its turn (append_text, flush_open).                            *)
THEOREM TextKeepsOrder == Spec => []ChunksInOrder
<1>1. ASSUME Inv PROVE ChunksInOrder
  <2> SUFFICES ASSUME NEW u \in Turns, ~Recurs(u) PROVE TextOf(red[u].items, Text) = heard[u]
    BY DEF ChunksInOrder
  <2>1. Hears(red[u], heard[u])
    BY <1>1, TurnGood DEF Good
  <2> QED BY <1>1, <2>1, NoneRecurs DEF Hears
<1> QED BY <1>1, Inductive, PTL

(* What the database holds of a turn whose batches are all committed.      *)
LEMMA StoredTurn ==
  ASSUME Inv, NEW u \in Turns, worker[u].batch = <<>>, u \notin lost
  PROVE  /\ Mirror(red[u].items, rows, last, Others(red, u))
         /\ Behind(u, red[u].items, rows)
<1> DEFINE r == red[u]
           h == heard[u]
           F == Others(red, u)
           c == Lossless(u)
<1>1. r \in Reducers /\ worker[u] \in Workers /\ r.pending = <<>>
  BY DEF Inv, TurnOK, WorkerOK
<1>2. Full(r, worker[u]) = r
  BY <1>1, FullIs
<1>3. PICK a, z : Kept(u, a, r, h, z, rows, last, F, c)
  BY <1>2 DEF Inv, TurnHeld, Held
<1>4. c
  BY DEF Lossless, Current
<1>5. Kept(u, r.items, r, h, z, rows, last, F, c)
  <2> HIDE DEF r, h, F, c
  <2> QED BY ONLY <1>1, <1>3, Rebase
<1> QED BY <1>4, <1>5 DEF Kept

LEMMA NoneShared ==
  ASSUME Inv, NEW u \in Turns, ~Recurs(u), ~Shares(u), NEW k \in 1..Len(red[u].items)
  PROVE  Own(red[u].items, k, Others(red, u)) /\ k \in DOMAIN red[u].items
<1>1. \A v \in Turns : DOMAIN red[v].items = 1..Len(red[v].items)
  BY ReducerFields DEF Inv, Typed
<1>2. red[u].items[k].id \notin Others(red, u)
  BY <1>1 DEF Shares, Others, IdsOf
<1> QED BY <1>1, <1>2, NoneRecurs DEF Own, AllOnce

(* What a turn that lost no batch shows is stored, between two lines and at
   the end; and a turn loses none to a turn that has not begun to write
   (persist_reducer).                                                      *)
THEOREM CardsAreStored == Spec => []CardsStored
<1>1. ASSUME Inv PROVE CardsStored
  <2>1. ASSUME NEW u \in Turns, Alone(u) PROVE u \notin lost
    BY <1>1, <2>1 DEF Inv, Lossless
  <2>2. ASSUME NEW u \in Turns, Settled(u), u \notin lost, ~Recurs(u), ~Shares(u),
               NEW k \in DOMAIN red[u].items
        PROVE  LET i == red[u].items[k] IN i.id \in DOMAIN rows /\ rows[i.id].item = i
    <3>1. worker[u].batch = <<>>
      <4>1. WorkerOK(worker[u], red[u], heard[u], lines, last)
        BY <1>1 DEF Inv, TurnOK
      <4> QED BY <2>2, <4>1 DEF WorkerOK, Settled, At
    <3>2. Mirror(red[u].items, rows, last, Others(red, u))
      BY <1>1, <2>2, <3>1, StoredTurn
    <3>3. k \in 1..Len(red[u].items)
      BY <1>1, ReducerFields DEF Inv, Typed
    <3>4. Own(red[u].items, k, Others(red, u))
      BY <1>1, <2>2, <3>3, NoneShared
    <3> QED BY <3>2, <3>3, <3>4 DEF Mirror
  <2> QED BY <2>1, <2>2 DEF CardsStored
<1> QED BY <1>1, Inductive, PTL

(* A turn whose run finalized its reducer shows nothing as going on: no
   card of the reducer, and, when no batch of the turn was refused, no row
   of the database (finalize_turn, persist_reducer).                       *)
THEOREM FinishedSettles == Spec => []FinishedTurnSettled
<1>1. ASSUME Inv PROVE FinishedTurnSettled
  <2> SUFFICES ASSUME NEW u \in Turns, At(u, {"done"}), ~Recurs(u)
               PROVE  /\ \A k \in DOMAIN red[u].items : Closed(red[u].items[k])
                      /\ u \notin lost /\ ~Shares(u) =>
                            \A i \in DOMAIN rows :
                               rows[i].item.turn = u => Closed(rows[i].item)
    BY DEF FinishedTurnSettled
  <2> DEFINE r == red[u]
             F == Others(red, u)
  <2>1. WorkerOK(worker[u], r, heard[u], lines, last)
    BY <1>1 DEF Inv, TurnOK
  <2>2. FinalOK(r) /\ worker[u].batch = <<>>
    BY <2>1 DEF WorkerOK, Ends, At
  <2>3. DOMAIN r.items = 1..Len(r.items)
    BY <1>1, ReducerFields DEF Inv, Typed
  <2>4. ASSUME NEW k \in 1..Len(r.items) PROVE Closed(r.items[k])
    <3>1. AllOnce(r.items) /\ k \in Positions(r)
      BY <1>1, NoneRecurs DEF Positions
    <3> HIDE DEF r
    <3> QED BY <2>2, <3>1 DEF FinalOK, Closed
  <2>5. ASSUME u \notin lost, ~Shares(u), NEW i \in DOMAIN rows, rows[i].item.turn = u
        PROVE  Closed(rows[i].item)
    <3>1. Mirror(r.items, rows, last, F) /\ Behind(u, r.items, rows)
      BY <1>1, <2>2, <2>5, StoredTurn
    <3>2. \A k \in 1..Len(r.items) : Own(r.items, k, F)
      BY <1>1, <2>5, NoneShared
    <3> HIDE DEF F, r
    <3>3. PICK k \in 1..Len(r.items) : r.items[k].id = i
      BY <2>5, <3>1 DEF Behind
    <3>4. rows[i].item = r.items[k]
      BY <3>1, <3>2, <3>3 DEF Mirror
    <3> QED BY <2>4, <3>4
  <2> QED BY <2>3, <2>4, <2>5
<1> QED BY <1>1, Inductive, PTL

(* The answer a caller is given is the card marked as the answer, and that
   card is the turn's last reply (final_answer_markdown, finalize_turn).   *)
THEOREM AnswerIsCard == Spec => []AnswerIsMarkedCard
<1>1. ASSUME Inv PROVE AnswerIsMarkedCard
  <2> SUFFICES ASSUME NEW u \in Turns, At(u, {"done"}), u \notin lost, ~Recurs(u), ~Shares(u),
                      NEW i \in DOMAIN rows, rows[i].item.turn = u, rows[i].item.mark # None
               PROVE  /\ rows[i].item.text = worker[u].answer
                      /\ \A j \in DOMAIN rows :
                            rows[j].item.turn = u /\ rows[j].item.kind = "assistant" =>
                               rows[j].first <= rows[i].first
    BY DEF AnswerIsMarkedCard
  <2> DEFINE r == red[u]
             F == Others(red, u)
  <2>1. WorkerOK(worker[u], r, heard[u], lines, last)
    BY <1>1 DEF Inv, TurnOK
  <2>2. worker[u].batch = <<>> /\ worker[u].answer = FinalAnswer(r) /\ r \in Reducers
    BY <2>1 DEF WorkerOK, At, Ends
  <2>3. Mirror(r.items, rows, last, F) /\ Behind(u, r.items, rows)
    BY <1>1, <2>2, StoredTurn
  <2>4. \A k \in 1..Len(r.items) : Own(r.items, k, F)
    BY <1>1, NoneShared
  <2>5. PICK z : Marked(r, z)
    BY <1>1, TurnGood DEF Good
  <2> HIDE DEF F, r
  <2>6. ASSUME NEW j \in DOMAIN rows, rows[j].item.turn = u
        PROVE  \E k \in 1..Len(r.items) : r.items[k].id = j /\ rows[j].item = r.items[k]
    <3>1. PICK k \in 1..Len(r.items) : r.items[k].id = j
      BY <2>3, <2>6 DEF Behind
    <3> QED BY <2>3, <2>4, <3>1 DEF Mirror
  <2>7. PICK k \in 1..Len(r.items) : r.items[k].id = i /\ rows[i].item = r.items[k]
    BY <2>6
  <2>8. k \in Positions(r) /\ r.items[k].mark # None
    BY <2>7 DEF Positions
  <2>9. /\ FinalAnswer(r) = r.items[k].text
        /\ \A j \in Positions(r) : r.items[j].kind = "assistant" => j <= k
    BY ONLY <2>2, <2>5, <2>8, MarkedAnswer
  <2>10. ASSUME NEW j \in DOMAIN rows, rows[j].item.turn = u, rows[j].item.kind = "assistant"
         PROVE  rows[j].first <= rows[i].first
    <3>1. PICK n \in 1..Len(r.items) : r.items[n].id = j /\ rows[j].item = r.items[n]
      BY <2>6, <2>10
    <3>2. n <= k
      BY <2>9, <2>10, <3>1 DEF Positions
    <3>3. n < k => rows[j].first < rows[i].first
      BY <2>3, <2>4, <2>7, <3>1 DEF Mirror
    <3>4. n = k => j = i
      BY <2>7, <3>1
    <3>5. n \in Nat /\ k \in Nat /\ rows[i].first \in Nat /\ rows[j].first \in Nat
      <4>1. last \in Nat
        BY <1>1, LogOfReplays DEF Inv, Typed
      <4>2. Len(r.items) \in Nat
        BY <2>2, ReducerFields
      <4> QED BY <2>3, <4>1, <4>2 DEF Mirror
    <3> QED BY <3>2, <3>3, <3>4, <3>5
  <2> QED BY <2>2, <2>7, <2>9, <2>10
<1> QED BY <1>1, Inductive, PTL

-----------------------------------------------------------------------------
(* A step changes the rows by a batch of one turn, if at all.              *)
BatchOf(u, b) ==
  \E a, r, h, z, c : /\ Kept(u, a, r, h, z, rows, last, Others(red, u), c)
                     /\ r.pending = b /\ (u \notin lost => c)

RowsStep ==
  \/ rows' = rows
  \/ \E u \in Turns, b \in Seq(Muts) : BatchOf(u, b) /\ rows' = UpsertAll(rows, b, last)

LEMMA SeedBatchOf ==
  ASSUME Inv, NEW u \in Turns, Fresh(worker[u])
  PROVE  SeedBatch(u) \in Seq(Muts) /\ BatchOf(u, SeedBatch(u))
<1> DEFINE s == [Seeded(u) EXCEPT !.pending = SeedBatch(u)]
           F == Others(red, u)
           c == Lossless(u)
           b == SeedBatch(u)
<1>1. Good(u, <<>>, s, <<>>, 0) /\ s.pending = b /\ b \in Seq(Muts)
  BY SeedGood
<1>2. worker[u].batch = <<>> /\ red[u] = NoReducer /\ heard[u] = <<>> /\ worker[u] \in Workers
  <2>1. WorkerOK(worker[u], red[u], heard[u], lines, last)
    BY DEF Inv, TurnOK
  <2> QED BY <2>1 DEF WorkerOK, Fresh
<1>3. NoReducer \in Reducers /\ NoReducer.pending = <<>> /\ NoReducer.items = <<>>
  BY NoReducerGood DEF NoReducer
<1>4. Full(NoReducer, worker[u]) = NoReducer
  BY <1>2, <1>3, FullIs
<1>5. PICK a, z : Kept(u, a, NoReducer, <<>>, z, rows, last, F, c)
  BY <1>2, <1>4 DEF Inv, TurnHeld, Held
<1>6. u \notin lost => c
  BY <1>2 DEF Lossless, Current
<1> HIDE DEF s, F, c, b
<1>7. Kept(u, <<>>, NoReducer, <<>>, z, rows, last, F, c)
  BY <1>3, <1>5, Rebase
<1>8. Kept(u, <<>>, s, <<>>, 0, rows, last, F, c)
  BY ONLY <1>7, <1>1, KeptMoves
<1> QED BY <1>1, <1>6, <1>8 DEF BatchOf, F, b

LEMMA WorkerBatchOf ==
  ASSUME Inv, NEW u \in Turns, worker[u].pc = "committing", worker[u].base = last
  PROVE  worker[u].batch \in Seq(Muts) /\ BatchOf(u, worker[u].batch)
<1> DEFINE r == Full(red[u], worker[u])
           h == heard[u]
           c == Lossless(u)
<1>1. r.pending = worker[u].batch /\ worker[u].batch \in Seq(Muts)
  <2>1. red[u] \in Reducers /\ worker[u] \in Workers
    BY DEF Inv, TurnOK, WorkerOK
  <2> QED BY <2>1, FullIs DEF Workers
<1>2. PICK a, z : Kept(u, a, r, h, z, rows, last, Others(red, u), c)
  BY DEF Inv, TurnHeld, Held
<1>3. u \notin lost => c
  BY DEF Lossless, Current
<1> HIDE DEF r, h, c
<1> QED BY <1>1, <1>2, <1>3 DEF BatchOf

LEMMA NextRows == ASSUME Inv, [Next]_vars PROVE RowsStep
<1>0. last \in Nat /\ LogOf(Muts)
  BY LogOfReplays DEF Inv, Typed
<1>1. ASSUME NEW b \in Seq(Muts), NEW base, b # <<>>, base <= last, base \in Nat,
             CommitBatch(b, base)
      PROVE  rows' = rows \/ (base = last /\ rows' = UpsertAll(rows, b, last))
  <2>1. (base < last => Refused(base)) /\ (base = last => Committed(b))
    BY <1>0, <1>1, CommitOf
  <2> QED BY <1>0, <1>1, <2>1 DEF Refused, Committed, tables
<1>2. ASSUME NEW u \in Turns, NEW base, base <= last, base \in Nat,
             Fresh(worker[u]), CommitBatch(SeedBatch(u), base)
      PROVE  RowsStep
  <2> DEFINE b == SeedBatch(u)
  <2>1. b \in Seq(Muts) /\ b # <<>> /\ BatchOf(u, b)
    BY <1>2, SeedGood, SeedBatchOf
  <2> HIDE DEF b
  <2>2. CommitBatch(b, base)
    BY <1>2 DEF b
  <2> QED BY <1>1, <1>2, <2>1, <2>2 DEF RowsStep
<1>3. CASE Start
  <2>1. /\ First \in Turns /\ Fresh(worker[First]) /\ last = 0
        /\ CommitBatch(SeedBatch(First), 0)
    BY <1>3, FirstAssumption DEF Start, At, Fresh, Inv
  <2> DEFINE base == 0
  <2>2. base \in Nat /\ base <= last /\ CommitBatch(SeedBatch(First), base)
    BY <2>1
  <2> HIDE DEF base
  <2> QED BY <1>2, <2>1, <2>2
<1>4. ASSUME NEW u \in Turns, WorkerStep(u) PROVE RowsStep
  <2>1. WorkerOK(worker[u], red[u], heard[u], lines, last)
    BY DEF Inv, TurnOK
  <2>2. worker[u].base \in Nat /\ worker[u].base <= last
    BY <2>1 DEF WorkerOK, Workers
  <2>3. CASE SeedFollowUp(u)
    <3>1. Fresh(worker[u]) /\ CommitBatch(SeedBatch(u), worker[u].base)
      BY <2>3 DEF SeedFollowUp, At, Fresh
    <3> QED BY <1>2, <2>2, <3>1
  <2>4. CASE Commit(u)
    <3> DEFINE b == worker[u].batch
               base == worker[u].base
    <3>1. worker[u].pc = "committing" /\ CommitBatch(b, base)
      BY <2>4 DEF Commit, At
    <3>2. b \in Seq(Muts) /\ b # <<>>
      BY <2>1, <3>1 DEF WorkerOK, Workers
    <3>3. base = last => BatchOf(u, b)
      BY <3>1, WorkerBatchOf
    <3>4. base \in Nat /\ base <= last
      BY <2>2
    <3> HIDE DEF b, base
    <3> QED BY <1>1, <3>1, <3>2, <3>3, <3>4 DEF RowsStep
  <2>5. CASE ~SeedFollowUp(u) /\ ~Commit(u)
    <3>1. UNCHANGED tables
      BY <1>4, <2>5 DEF WorkerStep, Continue, Answer, PromptEnds, Fail, ReadLine, ReadRequest,
                        Drain, Read, Finish
    <3> QED BY <3>1 DEF tables, RowsStep
  <2> QED BY <2>3, <2>4, <2>5
<1>5. CASE UNCHANGED vars
  BY <1>5 DEF vars, tables, RowsStep
<1> QED BY <1>3, <1>4, <1>5 DEF Next

(* The turn of a segment is part of its id.                                *)
LEMMA SegmentOf ==
  ASSUME Inv, NEW u \in Turns, NEW i \in DOMAIN rows, i.space = "seg", rows[i].item.turn = u
  PROVE  i.of = u /\ i \notin Others(red, u)
<1>1. rows[i].item \in Items /\ rows[i].item.id = i
  BY RowsOfMuts DEF OfMuts
<1>2. i.of = u
  BY <1>1, ItemFields DEF Shape
<1>3. ASSUME NEW v \in Turns \ {u}, NEW k \in 1..Len(red[v].items)
      PROVE  red[v].items[k].id # i
  <2>1. Sound(v, red[v])
    BY TurnGood DEF Good
  <2>2. red[v].items[k] \in Items /\ red[v].items[k].turn = v
    BY <2>1, ReducerFields DEF Sound, Positions
  <2> QED BY <1>2, <2>2, ItemFields DEF Shape
<1> QED BY <1>2, <1>3 DEF Others, IdsOf

(* A card keeps its place in the timeline, and the text of a segment only
   grows (ON CONFLICT keeps first_sequence; append_text).                  *)
THEOREM PlacesKept == Spec => CardsKeepPlace
<1> DEFINE Keeps == \A i \in DOMAIN rows :
                       /\ i \in DOMAIN rows'
                       /\ rows'[i].first = rows[i].first
                       /\ i.space = "seg" => IsPrefix(rows[i].item.text, rows'[i].item.text)
<1>1. ASSUME Inv, [Next]_vars PROVE Keeps
  <2>1. RowsStep
    BY <1>1, NextRows
  <2>2. CASE rows' = rows
    <3>1. \A i \in DOMAIN rows : rows[i].item.text \in Seq(Nat)
      BY <1>1, RowsOfMuts, ItemFields DEF OfMuts
    <3> QED BY <2>2, <3>1, PrefixSelf
  <2>3. CASE rows' # rows
    <3>1. PICK u \in Turns, b \in Seq(Muts) : BatchOf(u, b) /\ rows' = UpsertAll(rows, b, last)
      BY <2>1, <2>3 DEF RowsStep
    <3>2. PICK a, r, h, z, c : /\ Kept(u, a, r, h, z, rows, last, Others(red, u), c)
                               /\ r.pending = b
      BY <3>1 DEF BatchOf
    <3> DEFINE F == Others(red, u)
    <3>3. Kept(u, a, r, h, z, rows, last, F, c) /\ rows' = UpsertAll(rows, r.pending, last)
      BY <3>1, <3>2
    <3> HIDE DEF F
    <3>4. Replaced(rows, b, last, rows')
      <4>1. last \in Nat
        BY <1>1, LogOfReplays DEF Inv, Typed
      <4> QED BY <3>1, <4>1, UpsertAllReplaced
    <3>5. ASSUME NEW i \in DOMAIN rows, i.space = "seg"
          PROVE  IsPrefix(rows[i].item.text, rows'[i].item.text)
      BY ONLY <3>3, <3>5, SegmentRow
    <3> QED BY <3>4, <3>5 DEF Replaced
  <2> QED BY <2>2, <2>3
<1>2. Inv /\ [Next]_vars => Keeps
  BY <1>1
<1> QED BY <1>2, Inductive, PTL DEF Spec, CardsKeepPlace

(* Text goes to a turn's last card only, as long as no batch of the turn
   was refused (flush_open at every boundary).                             *)
THEOREM LastCardGrows == Spec => OnlyLastCardGrows
<1> DEFINE Grows == \A i \in DOMAIN rows :
       i.space = "seg" /\ i.of \notin lost /\ rows'[i].item.text # rows[i].item.text =>
          \A j \in DOMAIN rows :
             rows[j].item.turn = rows[i].item.turn => rows[j].first <= rows[i].first
<1>1. ASSUME Inv, [Next]_vars PROVE Grows
  <2> SUFFICES ASSUME NEW i \in DOMAIN rows, i.space = "seg", i.of \notin lost,
                      rows'[i].item.text # rows[i].item.text,
                      NEW j \in DOMAIN rows, rows[j].item.turn = rows[i].item.turn
               PROVE  rows[j].first <= rows[i].first
    OBVIOUS
  <2>1. PICK u \in Turns, b \in Seq(Muts) : BatchOf(u, b) /\ rows' = UpsertAll(rows, b, last)
    BY <1>1, NextRows DEF RowsStep
  <2>2. PICK a, r, h, z, c : /\ Kept(u, a, r, h, z, rows, last, Others(red, u), c)
                             /\ r.pending = b /\ (u \notin lost => c)
    BY <2>1 DEF BatchOf
  <2> DEFINE F == Others(red, u)
  <2>3. /\ Kept(u, a, r, h, z, rows, last, F, c) /\ rows' = UpsertAll(rows, r.pending, last)
        /\ i \in DOMAIN rows /\ i.space = "seg" /\ rows'[i].item.text # rows[i].item.text
    BY <2>1, <2>2
  <2> HIDE DEF F
  <2>4. /\ rows[i].item.turn = u
        /\ c /\ i \notin F => \A n \in DOMAIN rows : rows[n].item.turn = u => rows[n].first <= rows[i].first
    BY ONLY <2>3, SegmentRow
  <2>5. i.of = u /\ i \notin F
    BY <1>1, <2>4, SegmentOf DEF F
  <2> QED BY <2>2, <2>4, <2>5
<1>2. Inv /\ [Next]_vars => Grows
  BY <1>1
<1> QED BY <1>2, Inductive, PTL DEF Spec, OnlyLastCardGrows

=============================================================================
