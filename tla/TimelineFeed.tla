---------------------------- MODULE TimelineFeed ----------------------------
(***************************************************************************)
(* What a surface that shows a task is fed (storage/snapshot.rs): a        *)
(* snapshot or a delta of the timeline up to a barrier, the expansion      *)
(* states, and the live events that queued meanwhile.  The producer reads  *)
(* with one statement at a time while writers commit; the surface may lose *)
(* its stream and come back with what it has.                              *)
(*                                                                         *)
(* A payload is the sequence of the mutation that wrote it.                *)
(***************************************************************************)
EXTENDS Integers, Sequences, FiniteSets, SequencesExt

CONSTANTS
    Items,          \* timeline item ids
    Large,          \* items whose entry exceeds SNAPSHOT_CHUNK_MAX_BYTES
    Keys,           \* disclosure keys
    Parts,          \* fragments of a large entry
    ChunkMax,       \* SNAPSHOT_CHUNK_MAX_BYTES, in entries
    BacklogMax,     \* BACKLOG_MAX_EVENTS
    MaxMutations, MaxGeneration, MaxRevision    \* bounds

ASSUME FeedAssumption ==
    /\ Items # {} /\ Keys # {} /\ Large \subseteq Items
    /\ {Parts, ChunkMax, BacklogMax, MaxMutations, MaxGeneration, MaxRevision}
          \subseteq Nat \ {0}

VARIABLES
    timeline,       \* the task's mutations, items and generation
    ui,             \* ui_state and its revision
    stream,         \* the subscription of the surface
    surface         \* what the surface shows

fvars == <<timeline, ui, stream, surface>>

-----------------------------------------------------------------------------
Sequence   == 0..MaxMutations
Generation == 1..MaxGeneration
Revision   == 0..MaxRevision
NoRow      == [first |-> 0, last |-> 0]
AutoState  == "auto"
Expansions == {AutoState, "user-expanded", "user-collapsed"}

(* item is undefined for a reset.                                          *)
Mutation == [operation : {"add", "reset"}, item : Items, generation : Generation]
UiRow    == [expansion : Expansions, revision : Revision]

Event == [of : {"timeline", "ui"}, number : Nat, key : Keys, expansion : Expansions]
TimelineEvent(n)     == [of |-> "timeline", number |-> n,
                         key |-> CHOOSE k \in Keys : TRUE, expansion |-> AutoState]
UiChanged(n, k, exp) == [of |-> "ui", number |-> n, key |-> k, expansion |-> exp]

(* An entry of a snapshot: a row or a mutation of an item, or a UI row.    *)
ItemEntry(i, n)   == [of |-> "timeline", id |-> i, number |-> n, expansion |-> AutoState]
UiEntry(k, state) == [of |-> "ui", id |-> k, number |-> 0, expansion |-> state]

Frame(kind, entries, index, count) ==
    [kind |-> kind, entries |-> entries, index |-> index, count |-> count]

NoBarrier == [last |-> 0, generation |-> 1, revision |-> 0]
NoStream  == [pc |-> "closed", barrier |-> NoBarrier, mode |-> "full", entries |-> <<>>,
              rows |-> <<>>, frames |-> <<>>, queue |-> <<>>, dropped |-> FALSE]

FeedInit ==
    /\ timeline = [mutations |-> <<>>, items |-> [i \in Items |-> NoRow], generation |-> 1]
    /\ ui = [rows |-> [k \in Keys |-> [expansion |-> AutoState, revision |-> 0]], revision |-> 0]
    /\ stream = NoStream
    /\ surface = [items |-> [i \in Items |-> 0], ui |-> [k \in Keys |-> AutoState],
                  last |-> 0, generation |-> 0, revision |-> 0, synced |-> FALSE]

-----------------------------------------------------------------------------
(* Mutant: the limit is not looked at.                                     *)
PushUnbounded(s, event) ==
    IF s.dropped THEN s ELSE [s EXCEPT !.queue = Append(@, event)]

(* Mutant: an overflow keeps what is queued and serves on.                 *)
PushSkipping(s, event) ==
    IF Len(s.queue) + 1 > BacklogMax THEN s
    ELSE [s EXCEPT !.queue = Append(@, event)]

(* SubscriberBacklog::push_live.                                           *)
PushLive(s, event) ==
    IF s.dropped THEN s
    ELSE IF Len(s.queue) + 1 > BacklogMax
         THEN [s EXCEPT !.dropped = TRUE, !.queue = <<>>]
         ELSE [s EXCEPT !.queue = Append(@, event)]

(* A committed change is pushed to the subscriber there is.                *)
Publish(event) ==
    stream' = IF stream.pc = "closed" THEN stream ELSE PushLive(stream, event)

LastSequence == Len(timeline.mutations)

Log(operation, item, generation) ==
    Append(timeline.mutations, [operation |-> operation, item |-> item,
                                generation |-> generation])

(* commit_timeline_mutations with one item, as TimelineLog details it.     *)
CommitItem(i, generation) ==
    LET n == LastSequence + 1 IN
    /\ n <= MaxMutations
    /\ timeline' = [timeline EXCEPT
          !.mutations = Log("add", i, generation),
          !.items[i]  = [first |-> IF @ = NoRow THEN n ELSE @.first, last |-> n]]
    /\ Publish(TimelineEvent(n))
    /\ UNCHANGED <<ui, surface>>

(* persist_reducer writes under the generation of the task row.            *)
WriteItem(i) == CommitItem(i, timeline.generation)

(* seed_user_message_at writes under generation 1.                         *)
SeedPrompt(i) == timeline.items[i] = NoRow /\ CommitItem(i, 1)

ResetTimeline ==
    /\ LastSequence < MaxMutations /\ timeline.generation < MaxGeneration
    /\ timeline' = [timeline EXCEPT
          !.mutations  = Log("reset", CHOOSE i \in Items : TRUE, timeline.generation + 1),
          !.generation = @ + 1]
    /\ Publish(TimelineEvent(LastSequence + 1))
    /\ UNCHANGED <<ui, surface>>

(* ui_state_set: "auto" deletes the row.                                   *)
SetExpansion(k, expansion) ==
    LET n == ui.revision + 1 IN
    /\ n <= MaxRevision
    /\ ui' = [revision |-> n,
              rows |-> [ui.rows EXCEPT ![k] =
                  [expansion |-> expansion, revision |-> IF expansion = AutoState THEN 0 ELSE n]]]
    /\ Publish(UiChanged(n, k, expansion))
    /\ UNCHANGED <<timeline, surface>>

-----------------------------------------------------------------------------
\* The producer: run_subscribe_pipeline.

(* capture_barrier, "inside the storage cutover": from here on the backlog
   takes what is committed.                                                *)
CaptureBarrier ==
    /\ stream.pc = "closed"
    /\ stream' = [NoStream EXCEPT
          !.pc = "captured",
          !.barrier = [last |-> LastSequence, generation |-> timeline.generation,
                       revision |-> ui.revision]]
    /\ UNCHANGED <<timeline, ui, surface>>

(* ORDER BY of numbers that are unique.                                    *)
Ascending(S) ==
    CHOOSE s \in [1..Cardinality(S) -> S] : \A j, k \in DOMAIN s : j < k => s[j] < s[k]

(* list_mutations_after.                                                   *)
MutationsAfter(generation, after) ==
    Ascending({n \in (after + 1)..LastSequence :
                  timeline.mutations[n].generation = generation})

(* The ends of after+1..B are looked at.                                   *)
CoversDelta(after, numbers) ==
    /\ numbers # <<>>
    /\ Head(numbers) = after + 1
    /\ Last(numbers) = stream.barrier.last

MutationEntry(n) == ItemEntry(timeline.mutations[n].item, n)

(* choose_mode, for a client that sends what it has (resume) or not.       *)
ChooseMode(resume) ==
    LET barrier == stream.barrier
        numbers == MutationsAfter(barrier.generation, surface.last)
        isDelta == /\ resume
                   /\ surface.generation = barrier.generation
                   /\ surface.last < barrier.last
                   /\ CoversDelta(surface.last, numbers)
    IN  /\ stream.pc = "captured"
        /\ resume => surface.generation # 0
        /\ stream' = [stream EXCEPT
              !.pc = "mode",
              !.mode = IF isDelta THEN "delta" ELSE "full",
              !.entries = IF isDelta THEN [j \in DOMAIN numbers |-> MutationEntry(numbers[j])]
                          ELSE <<>>]
        /\ UNCHANGED <<timeline, ui, surface>>

(* list_ui_state.                                                          *)
ReadUiRows ==
    LET kept == SetToSeq({k \in Keys : ui.rows[k].expansion # AutoState}) IN
    /\ stream.pc = "mode"
    /\ stream' = [stream EXCEPT
          !.pc = "ui",
          !.rows = [j \in DOMAIN kept |-> UiEntry(kept[j], ui.rows[kept[j]].expansion)]]
    /\ UNCHANGED <<timeline, ui, surface>>

-----------------------------------------------------------------------------
\* Frames.

Chunk(entries) == IF entries = <<>> THEN <<>> ELSE <<Frame("chunk", entries, 0, 0)>>

(* fragment_entry: the bytes of one entry, cut.                            *)
Fragments(entry) == [j \in 1..Parts |-> Frame("fragment", <<entry>>, j, Parts)]

(* Mutant: a large entry goes out before the entries that precede it.      *)
AddEntryEarly(acc, entry) ==
    IF entry.id \in Large
    THEN [acc EXCEPT !.frames = @ \o Fragments(entry)]
    ELSE IF Len(acc.open) + 1 > ChunkMax
    THEN [frames |-> acc.frames \o Chunk(acc.open), open |-> <<entry>>]
    ELSE [acc EXCEPT !.open = Append(@, entry)]

(* One step of chunk_entries: the open chunk goes out before a large entry
   and when the entry would not fit.                                       *)
AddEntry(acc, entry) ==
    IF entry.id \in Large
    THEN [frames |-> acc.frames \o Chunk(acc.open) \o Fragments(entry), open |-> <<>>]
    ELSE IF Len(acc.open) + 1 > ChunkMax
    THEN [frames |-> acc.frames \o Chunk(acc.open), open |-> <<entry>>]
    ELSE [acc EXCEPT !.open = Append(@, entry)]

ChunkEntries(entries) ==
    LET all == FoldLeft(AddEntry, [frames |-> <<>>, open |-> <<>>], entries)
    IN  all.frames \o Chunk(all.open)

CountOf(frames, kind) == Cardinality({j \in DOMAIN frames : frames[j].kind = kind})

(* list_timeline_items: ORDER BY first_sequence.                           *)
ItemRows ==
    LET firsts    == Ascending({timeline.items[i].first : i \in Items} \ {0})
        ItemAt(n) == CHOOSE i \in Items : timeline.items[i].first = n
    IN  [j \in DOMAIN firsts |->
            ItemEntry(ItemAt(firsts[j]), timeline.items[ItemAt(firsts[j])].last)]

(* produce_snapshot_frames, from the statement that reads the items on.  A
   full snapshot may show more than its barrier says.                      *)
ProduceFrames ==
    LET entries == IF stream.mode = "delta" THEN stream.entries ELSE ItemRows
        count   == Len(entries) + Len(stream.rows)
        body    == ChunkEntries(entries) \o ChunkEntries(stream.rows)
    IN  /\ stream.pc = "ui"
        /\ stream' = [stream EXCEPT
              !.pc = "sent",
              !.entries = entries,
              !.frames = <<Frame("header", <<>>, 0, count)>> \o body
                         \o <<Frame("end", <<>>, CountOf(body, "fragment"), count)>>]
        /\ UNCHANGED <<timeline, ui, surface>>

-----------------------------------------------------------------------------
\* The surface.  It stages the frames and commits them at the end frame.

(* reassemble_fragments: the parts of an entry, when all of them are there.*)
Reassembled(frames, j) ==
    IF /\ frames[j].index = 1
       /\ \A part \in 1..Parts : Frame("fragment", frames[j].entries, part, Parts)
                                   \in ToSet(frames)
    THEN frames[j].entries ELSE <<>>

Staged(frames) ==
    FlattenSeq([j \in DOMAIN frames |->
                   IF frames[j].kind = "fragment" THEN Reassembled(frames, j)
                   ELSE frames[j].entries])

(* The last entry of an item or a key decides.                             *)
Shown(staged, before) ==
    LET at == {j \in DOMAIN staged : staged[j].of = before.of /\ staged[j].id = before.id}
    IN  IF at = {} THEN before ELSE staged[CHOOSE j \in at : \A k \in at : k <= j]

CommitSnapshot ==
    LET staged == Staged(stream.frames)
        keeps  == stream.mode = "delta"
    IN  /\ stream.pc = "sent"
        /\ surface' =
              [items |-> [i \in Items |-> Shown(staged,
                             ItemEntry(i, IF keeps THEN surface.items[i] ELSE 0)).number],
               ui    |-> [k \in Keys |-> Shown(staged, UiEntry(k, AutoState)).expansion],
               last  |-> stream.barrier.last, generation |-> stream.barrier.generation,
               revision |-> stream.barrier.revision, synced |-> TRUE]
        /\ stream' = [stream EXCEPT !.pc = "live", !.frames = <<>>, !.entries = <<>>,
                                    !.rows = <<>>]
        /\ UNCHANGED <<timeline, ui>>

(* One live event: what the snapshot contains is ignored, and a gap or
   another generation ends the use of the stream.                          *)
Shows(shown, event) ==
    IF ~shown.synced THEN shown
    ELSE IF event.of = "ui"
    THEN IF event.number <= shown.revision THEN shown
         ELSE [shown EXCEPT !.ui[event.key] = event.expansion, !.revision = event.number]
    ELSE IF event.number <= shown.last THEN shown
    ELSE LET mutation == timeline.mutations[event.number] IN
         IF \/ event.number # shown.last + 1
            \/ mutation.generation # shown.generation
         THEN [shown EXCEPT !.synced = FALSE]
         ELSE [shown EXCEPT !.items[mutation.item] = event.number, !.last = event.number]

(* drain_live, after snapshot_end.                                         *)
DrainLive ==
    /\ stream.pc = "live" /\ stream.queue # <<>>
    /\ surface' = FoldLeft(Shows, surface, stream.queue)
    /\ stream' = [stream EXCEPT !.queue = <<>>]
    /\ UNCHANGED <<timeline, ui>>

(* The stream ends at any point: a lost connection, a full backlog, a
   surface that is out of step.  What is staged is discarded.              *)
CloseStream ==
    /\ stream.pc # "closed"
    /\ stream' = NoStream
    /\ surface' = [surface EXCEPT !.synced = FALSE]
    /\ UNCHANGED <<timeline, ui>>

FeedNext ==
    \/ \E i \in Items : WriteItem(i) \/ SeedPrompt(i)
    \/ ResetTimeline
    \/ \E k \in Keys, expansion \in Expansions : SetExpansion(k, expansion)
    \/ CaptureBarrier \/ (\E resume \in BOOLEAN : ChooseMode(resume))
    \/ ReadUiRows \/ ProduceFrames
    \/ CommitSnapshot \/ DrainLive \/ CloseStream

FeedSpec == FeedInit /\ [][FeedNext]_fvars

-----------------------------------------------------------------------------
FeedTypeOK ==
    /\ timeline.mutations \in Seq(Mutation)
    /\ timeline.generation \in Generation
    /\ \A i \in Items : /\ timeline.items[i].first \in 0..timeline.items[i].last
                        /\ timeline.items[i].last \in 0..LastSequence
    /\ ui \in [rows : [Keys -> UiRow], revision : Revision]
    /\ stream.pc \in {"closed", "captured", "mode", "ui", "sent", "live"}
    /\ stream.mode \in {"full", "delta"}
    /\ stream.queue \in Seq(Event) /\ Len(stream.queue) <= BacklogMax
    /\ surface.items \in [Items -> Sequence] /\ surface.ui \in [Keys -> Expansions]

(* A prompt that a follow-up seeded under generation 1 after a reset.      *)
SeedMisfiled ==
    \E n, m \in DOMAIN timeline.mutations :
        n < m /\ timeline.mutations[n].generation > timeline.mutations[m].generation

(* A surface that applied everything it was sent shows what the tables say:
   the events that queue while the snapshot is read, a snapshot that is
   newer than its barrier, a delta over a stream that broke, and the limit
   of the backlog lose and resurrect nothing.  A prompt that a follow-up
   files under an old generation may be missing from a delta.              *)
FeedConverges ==
    /\ stream.pc = "live" /\ stream.queue = <<>> /\ ~stream.dropped
    /\ surface.synced /\ ~SeedMisfiled
    => /\ surface.last = LastSequence
       /\ \A i \in Items : surface.items[i] = timeline.items[i].last
       /\ \A k \in Keys : surface.ui[k] = ui.rows[k].expansion

(* What the frames of a snapshot carry is what was read, in the order it was
   read, however the entries were cut into chunks and fragments, and the
   counts a surface checks agree with it (chunk_entries, fragment_entry).  *)
SnapshotWhole ==
    stream.pc = "sent" =>
        LET frames == stream.frames
            end    == Last(frames)
        IN  /\ Staged(frames) = stream.entries \o stream.rows
            /\ end.count = Head(frames).count
            /\ end.count = Len(Staged(frames))
            /\ end.index = CountOf(frames, "fragment")
=============================================================================
