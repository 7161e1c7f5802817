----------------------------- MODULE TimelineLog -----------------------------
(***************************************************************************)
(* The timeline of one task in history.sqlite3 (storage/repository.rs): a  *)
(* log of mutations (table timeline_mutations), one row per timeline item  *)
(* (table timeline_items) and the sequence the task row has reached.       *)
(*                                                                         *)
(* A writer reads tasks.last_sequence, numbers its batch from there and    *)
(* commits it later, on a connection of its own: two writers may number    *)
(* from the same base.                                                     *)
(***************************************************************************)
EXTENDS Integers, Sequences

VARIABLES
    log,            \* [1..n -> Mutation]: table timeline_mutations
    rows,           \* [item ids -> Row]: table timeline_items
    last            \* tasks.last_sequence

tables == <<log, rows, last>>

TablesInit == /\ log = <<>>
              /\ rows = [i \in {} |-> 0]
              /\ last = 0

(* Mutant: an upsert replaces the first sequence, too.                     *)
UpsertMoved(table, m, seq) ==
    [i \in DOMAIN table \cup {m.item.id} |->
        IF i # m.item.id THEN table[i]
        ELSE [first |-> seq, last |-> seq, item |-> m.item]]

(* timeline_items: ON CONFLICT(task_id, item_id) DO UPDATE keeps the first
   sequence of the row and replaces everything else.                       *)
Upsert(table, m, seq) ==
    [i \in DOMAIN table \cup {m.item.id} |->
        IF i # m.item.id THEN table[i]
        ELSE [first |-> IF i \in DOMAIN table THEN table[i].first ELSE seq,
              last  |-> seq,
              item  |-> m.item]]

(* The upserts of a batch in their order: upserted[k] follows k of them.   *)
UpsertAll(table, batch, base) ==
    LET upserted[k \in 0..Len(batch)] ==
            IF k = 0 THEN table ELSE Upsert(upserted[k - 1], batch[k], base + k)
    IN  upserted[Len(batch)]

Numbers(batch, base) == (base + 1)..(base + Len(batch))

(* The INSERTs of a batch into timeline_mutations.                         *)
InsertAll(batch, base) ==
    [n \in DOMAIN log \cup Numbers(batch, base) |->
        IF n \in DOMAIN log THEN log[n] ELSE batch[n - base]]

(* PRIMARY KEY(task_id, sequence) refuses a number that is taken.          *)
Taken(batch, base) == Numbers(batch, base) \cap DOMAIN log # {}

(* Mutant: the upserts are not part of the transaction.                    *)
CommitUnwrapped(batch, base) ==
    /\ rows' = UpsertAll(rows, batch, base)
    /\ IF Taken(batch, base) THEN UNCHANGED <<log, last>>
       ELSE /\ log' = InsertAll(batch, base)
            /\ last' = base + Len(batch)

(* commit_timeline_mutations: one transaction, rolled back as a whole when
   a number of the batch is taken.                                         *)
CommitBatch(batch, base) ==
    IF Taken(batch, base) THEN UNCHANGED tables
    ELSE /\ rows' = UpsertAll(rows, batch, base)
         /\ log' = InsertAll(batch, base)
         /\ last' = base + Len(batch)

-----------------------------------------------------------------------------
Mutations(i) == {n \in DOMAIN log : log[n].item.id = i}

(* tasks.last_sequence numbers the log without a gap, and the rows are what
   replaying the log gives: an item's row holds what the last mutation of
   the item says, at the place its first mutation gave it.  So a client that
   applies mutations ends with what a client that reads the rows sees
   (commit_timeline_mutations under racing writers).                       *)
RowsReplayLog ==
    /\ DOMAIN log = 1..last
    /\ DOMAIN rows = {log[n].item.id : n \in DOMAIN log}
    /\ \A i \in DOMAIN rows :
          /\ {rows[i].first, rows[i].last} \subseteq Mutations(i)
          /\ \A n \in Mutations(i) : n \in rows[i].first..rows[i].last
          /\ rows[i].item = log[rows[i].last].item
=============================================================================
