---------------------------- MODULE TurnTimeline ----------------------------
(***************************************************************************)
(* What becomes of the agent's output: run_grok_turn reads a line of ACP,  *)
(* normalizes it (acp/normalize.rs), applies it to the turn's reducer      *)
(* (acp/reducer.rs) and commits the reducer's mutations to the task's      *)
(* timeline (persist_reducer), line by line, until the turn is finalized.  *)
(*                                                                         *)
(* A text chunk is the number of the line that brought it, so a text is    *)
(* the sequence of its chunks and chunks are told apart.  Titles, paths,   *)
(* plan entries, the one-line message of a card and the redacted raw       *)
(* payload are rendering and left out.                                     *)
(***************************************************************************)
EXTENDS TimelineLog, FiniteSets, SequencesExt

CONSTANTS
    Turns,          \* turns of one task, on one ACP session
    First,          \* the turn task.start creates; the others are follow-ups
    Session,        \* the ACP session's id
    Unknown,        \* the id of what carries none ("unknown")
    Lines,          \* [Turns -> set of lines]: what the agent may write
    MaxLines        \* bound on the lines of all turns together

VARIABLES
    red,            \* [Turns -> Reducer]: TurnReducer
    worker,         \* [Turns -> Worker]: run_grok_turn and persist_reducer
    lines,          \* lines read so far
    heard,          \* [Turns -> Seq(chunk)]: history of the text lines read
    lost            \* history: the turns that had a batch refused

ASSUME FirstAssumption == First \in Turns /\ MaxLines \in Nat

vars == <<tables, red, worker, lines, heard, lost>>

-----------------------------------------------------------------------------
(* normalize_line: what a line of the agent is to the reducer.  A line has
   a method, for session/update a type or none (which is inferred from the
   fields present) and the fields that decide.                             *)
None == "none"

Line(method, type, has, key, status) ==
    [method |-> method, type |-> type, has |-> has, key |-> key,
     status |-> status]

Update(kind, key, status) == [kind |-> kind, key |-> key, status |-> status]
Diagnostic == Update("diagnostic", None, None)

(* normalize_session_update for a line without a type.                     *)
Inferred(l) ==
    CASE l.has = "toolCallId" -> Update("tool", l.key, l.status)
      [] l.has = "entries"    -> Update("plan", None, None)
      [] l.has = "thought"    -> Update("reasoning", l.key, None)
      [] l.has = "text"       -> Update("assistant", l.key, None)
      [] OTHER                -> Diagnostic

(* normalize_session_update.                                               *)
SessionUpdate(l) ==
    CASE l.type = None                         -> Inferred(l)
      [] l.type \in {"agent_thought_chunk", "thought"} ->
             Update("reasoning", l.key, None)
      [] l.type \in {"agent_message_chunk", "message"} ->
             Update("assistant", l.key, None)
      [] l.type = "user_message_chunk"         -> Update("user", l.key, l.has)
      [] l.type \in {"tool_call", "tool_call_update"} ->
             Update("tool", l.key, l.status)
      [] l.type = "plan"                       -> Update("plan", None, None)
      [] OTHER                                 -> Diagnostic

Normalized(l) ==
    CASE l.method = "session/request_permission" ->
             Update("permission", IF l.has = "requestId" THEN l.key ELSE Unknown,
                    "requesting")
      [] l.method = "_x.ai" /\ l.has = "title" -> Update("stage", None, None)
      [] l.method = "session/update"           -> SessionUpdate(l)
      [] OTHER                                 -> Diagnostic

-----------------------------------------------------------------------------
(* The reducer.  An id is msg:<session>:<message>:<kind>, or
   seg:<turn>:<ordinal>:<kind> for a text without a message id, and
   tool:<session>:<call>, plan:<turn>, permission:<turn>:<request>.        *)
Id(space, of, key, kind) ==
    [space |-> space, of |-> of, key |-> key, kind |-> kind]

SegmentId(u, n, kind) == Id("seg", u, n, kind)
MessageId(m, kind)    == Id("msg", Session, m, kind)
ToolId(t)             == Id("tool", Session, t, "tool")
PlanId(u)             == Id("plan", u, 0, "plan")
PermissionId(u, r)    == Id("permission", u, r, "permission")

Item(id, turn, kind, text, status, streaming) ==
    [id |-> id, turn |-> turn, kind |-> kind, text |-> text, status |-> status,
     streaming |-> streaming, mark |-> None]

(* open: <<>>, or the id of the open segment as a sequence of one.         *)
NoReducer == [items |-> <<>>, open |-> <<>>, ordinal |-> 0, pending |-> <<>>]

(* seed_existing_user_message: the prompt is in the database already.      *)
Prompt == <<0>>
UserItem(u) == Item(SegmentId(u, 0, "user"), u, "user", Prompt, None, FALSE)
Seeded(u) == [NoReducer EXCEPT !.items = <<UserItem(u)>>]

(* items.iter().find(|i| i.item_id == id): the first one.                  *)
Position(r, id) == SelectInSeq(r.items, LAMBDA i : i.id = id)
LastOf(r, kind) == SelectLastInSeq(r.items, LAMBDA i : i.kind = kind)

PushMutation(r, op, item) ==
    [r EXCEPT !.pending = Append(@, [op |-> op, item |-> item])]

PushAdd(r, item) ==
    PushMutation([r EXCEPT !.items = Append(@, item)], "add", item)

(* The item at a position is replaced and the change is recorded.          *)
Change(r, pos, op, item) ==
    PushMutation([r EXCEPT !.items[pos] = item], op, item)

(* Mutant: the item is closed but the segment stays open.                  *)
FlushItemOnly(r) ==
    IF r.open = <<>> THEN r
    ELSE LET pos == Position(r, r.open[1])
         IN  Change(r, pos, "update", [r.items[pos] EXCEPT !.streaming = FALSE])

FlushOpen(r) ==
    IF r.open = <<>> THEN r
    ELSE LET pos == Position(r, r.open[1])
         IN  Change([r EXCEPT !.open = <<>>], pos, "update",
                    [r.items[pos] EXCEPT !.streaming = FALSE])

IsOpen(r, kind) == r.open # <<>> /\ r.open[1].kind = kind

(* Mutant: a text goes to the last segment of its kind, open or not.       *)
AppendToKind(r, u, kind, m, n) ==
    LET pos == LastOf(r, kind)
        id  == SegmentId(u, r.ordinal + 1, kind)
    IN  IF pos # 0
        THEN Change(r, pos, "update", [r.items[pos] EXCEPT !.text = Append(@, n)])
        ELSE PushAdd([r EXCEPT !.ordinal = @ + 1], Item(id, u, kind, <<n>>, None, TRUE))

(* append_text.  The kind of the open segment decides, not its message id;
   the segment is looked up by id, and the first item with the id is
   extended.                                                               *)
AppendText(r, u, kind, m, n) ==
    IF IsOpen(r, kind)
    THEN LET pos == Position(r, r.open[1])
         IN  Change(r, pos, "update",
                    [r.items[pos] EXCEPT !.text = Append(@, n), !.streaming = TRUE])
    ELSE LET f  == FlushOpen(r)
             id == IF m = None THEN SegmentId(u, f.ordinal + 1, kind)
                               ELSE MessageId(m, kind)
         IN  PushAdd([f EXCEPT !.ordinal = @ + 1, !.open = <<id>>],
                     Item(id, u, kind, <<n>>, None, TRUE))

Text == {"reasoning", "assistant"}

(* A user message of the agent is an echo of the prompt or another text;
   what repeats or prefixes the last user message is dropped.              *)
UserText(r, u, upd, n) ==
    LET f    == FlushOpen(r)
        o    == IF upd.key = None THEN f.ordinal + 1 ELSE f.ordinal
        id   == IF upd.key = None THEN SegmentId(u, o, "user")
                                  ELSE MessageId(upd.key, "user")
        text == IF upd.status = "echo" THEN Prompt ELSE <<n>>
        pos  == LastOf(f, "user")
        g    == [f EXCEPT !.ordinal = o]
    IN  IF pos # 0 /\ (IsPrefix(text, f.items[pos].text) \/ IsPrefix(f.items[pos].text, text))
        THEN g
        ELSE PushAdd(g, Item(id, u, "user", text, None, FALSE))

Done == {"completed", "failed", "cancelled"}
Open == {"pending", "running", "in_progress"}

(* Mutant: a tool leaves the open text open.                               *)
UpsertToolMidText(r, u, t, status) ==
    LET pos == Position(r, ToolId(t))
    IN  IF pos # 0 THEN r
        ELSE PushAdd(r, Item(ToolId(t), u, "tool", <<>>, "pending", TRUE))

(* upsert_tool: tool_call and tool_call_update alike.                      *)
UpsertTool(r, u, t, status) ==
    LET f   == FlushOpen(r)
        pos == Position(f, ToolId(t))
        s   == IF status # None THEN status
               ELSE IF pos # 0 THEN f.items[pos].status ELSE "pending"
    IN  IF pos = 0 THEN PushAdd(f, Item(ToolId(t), u, "tool", <<>>, s, TRUE))
        ELSE Change(f, pos, "update",
                    [f.items[pos] EXCEPT !.status = s, !.streaming = s \notin Done])

(* A plan replaces the turn's plan where it stands.                        *)
ReplacePlan(r, u) ==
    LET f    == FlushOpen(r)
        pos  == Position(f, PlanId(u))
        item == Item(PlanId(u), u, "plan", <<>>, "active_hidden", FALSE)
    IN  IF pos # 0 THEN Change(f, pos, "plan", item)
        ELSE PushMutation([f EXCEPT !.items = Append(@, item)], "plan", item)

AskPermission(r, u, request) ==
    PushAdd(FlushOpen(r), Item(PermissionId(u, request), u, "permission",
                               <<>>, "requesting", FALSE))

(* NormalizedUpdate::PermissionDecision, which run_grok_turn makes itself
   from the JSON-RPC id it answers.                                        *)
DecidePermission(r, u, request, status) ==
    LET pos == Position(r, PermissionId(u, request))
    IN  IF pos = 0 THEN r
        ELSE Change(r, pos, "update", [r.items[pos] EXCEPT !.status = status])

(* A stage title updates the open reasoning segment, or waits for one.     *)
SetStage(r) ==
    IF ~IsOpen(r, "reasoning") THEN r
    ELSE LET pos == Position(r, r.open[1])
         IN  Change(r, pos, "update", r.items[pos])

(* TurnReducer::apply; n numbers the line.                                 *)
Apply(r, u, upd, n) ==
    CASE upd.kind \in Text -> AppendText(r, u, upd.kind, upd.key, n)
      [] upd.kind = "user"       -> UserText(r, u, upd, n)
      [] upd.kind = "tool"       -> UpsertTool(r, u, upd.key, upd.status)
      [] upd.kind = "plan"       -> ReplacePlan(r, u)
      [] upd.kind = "permission" -> AskPermission(r, u, upd.key)
      [] upd.kind = "stage"      -> SetStage(r)
      [] OTHER                   -> r

-----------------------------------------------------------------------------
(* finalize_turn: close the open segment, mark the last reply, turn the
   plan into a snapshot and give up on the tools that never ended.         *)
MarkAnswer(r, mark) ==
    LET pos == LastOf(r, "assistant")
    IN  IF mark = None \/ pos = 0 THEN r
        ELSE Change(r, pos, "update",
                    [r.items[pos] EXCEPT !.mark = mark, !.streaming = FALSE])

FinalizePlan(r, u) ==
    LET pos == Position(r, PlanId(u))
    IN  IF pos = 0 THEN r
        ELSE Change(r, pos, "plan_finalize",
                    [r.items[pos] EXCEPT !.kind = "plan_snapshot",
                                         !.status = "completed_visible"])

(* Mutant: tools that never ended are left as they are.                    *)
AbandonNoTools(r) == r

AbandonTools(r) ==
    LET Abandoned(i) == i.kind = "tool" /\ i.status \in Open
        Given(i)     == [i EXCEPT !.status = "unknown", !.streaming = FALSE]
        Record(i)    == IF Abandoned(i) THEN <<[op |-> "update", item |-> Given(i)]>> ELSE <<>>
    IN  [r EXCEPT !.items = [k \in DOMAIN @ |->
                                IF Abandoned(@[k]) THEN Given(@[k]) ELSE @[k]],
                  !.pending = @ \o FlattenSeq([k \in DOMAIN r.items |-> Record(r.items[k])])]

Finalize(r, u, mark) == AbandonTools(FinalizePlan(MarkAnswer(FlushOpen(r), mark), u))

(* The texts of the cards of some kinds, one after the other.              *)
TextOf(items, kinds) ==
    FlattenSeq([k \in DOMAIN items |->
                   IF items[k].kind \in kinds THEN items[k].text ELSE <<>>])

(* Mutant: the answer is every reply of the turn.                          *)
WholeAnswer(r) == TextOf(r.items, {"assistant"})

(* final_answer_markdown: the last marked reply, else all of them.         *)
FinalAnswer(r) ==
    LET pos == SelectLastInSeq(r.items, LAMBDA i : i.kind = "assistant" /\ i.mark # None)
    IN  IF pos # 0 THEN r.items[pos].text ELSE TextOf(r.items, {"assistant"})

-----------------------------------------------------------------------------
(* The worker of a turn.  pc: where it is; then: where it goes once the
   batch is committed; request: the permission request it must answer.     *)
Pc == {"absent", "seeding", "refused", "reading", "committing", "answering",
       "draining", "done", "failed"}

NoWorker == [pc |-> "absent", then |-> "absent", base |-> 0, batch |-> <<>>,
             request |-> None, answer |-> <<>>]

Init == /\ TablesInit
        /\ red = [u \in Turns |-> NoReducer]
        /\ worker = [u \in Turns |-> NoWorker]
        /\ lines = 0
        /\ heard = [u \in Turns |-> <<>>]
        /\ lost = {}

At(u, pcs) == worker[u].pc \in pcs
Work(u, k) == worker' = [worker EXCEPT ![u] = k]

SeedBatch(u) == <<[op |-> "add", item |-> UserItem(u)]>>

(* start: the accepted turn's prompt is item 1 of the timeline.            *)
Start == /\ At(First, {"absent"})
         /\ CommitBatch(SeedBatch(First), 0)
         /\ Work(First, [NoWorker EXCEPT !.pc = "reading"])
         /\ red' = [red EXCEPT ![First] = Seeded(First)]
         /\ UNCHANGED <<lines, heard, lost>>

(* continue_task reads the task row, last_sequence included, ...           *)
Continue(u) ==
    /\ u # First /\ At(u, {"absent"}) /\ last > 0
    /\ Work(u, [NoWorker EXCEPT !.pc = "seeding", !.base = last])
    /\ UNCHANGED <<tables, red, lines, heard, lost>>

(* ... and seeds the prompt at the next number after it accepted the turn:
   when the number is taken by then, the request fails.                    *)
SeedFollowUp(u) ==
    /\ At(u, {"seeding"})
    /\ CommitBatch(SeedBatch(u), worker[u].base)
    /\ IF Taken(SeedBatch(u), worker[u].base)
       THEN /\ Work(u, [NoWorker EXCEPT !.pc = "refused"])
            /\ UNCHANGED red
       ELSE /\ Work(u, [NoWorker EXCEPT !.pc = "reading"])
            /\ red' = [red EXCEPT ![u] = Seeded(u)]
    /\ UNCHANGED <<lines, heard, lost>>

(* persist_reducer takes the pending mutations of reducer r and reads
   last_sequence; without mutations there is nothing to commit.            *)
Persist(u, r, k, next) ==
    /\ red' = [red EXCEPT ![u] = [r EXCEPT !.pending = <<>>]]
    /\ Work(u, IF r.pending = <<>> THEN [k EXCEPT !.pc = next]
               ELSE [k EXCEPT !.pc = "committing", !.then = next,
                              !.base = last, !.batch = r.pending])

Read(u, l, k, next) ==
    /\ lines < MaxLines
    /\ lines' = lines + 1
    /\ LET upd == Normalized(l)
       IN  /\ Persist(u, Apply(red[u], u, upd, lines + 1), k, next)
           /\ heard' = IF upd.kind \in Text
                       THEN [heard EXCEPT ![u] = Append(@, lines + 1)] ELSE heard
    /\ UNCHANGED <<tables, lost>>

IsRequest(l) == l.method = "session/request_permission"

ReadLine(u, l) == /\ At(u, {"reading"}) /\ ~IsRequest(l)
                  /\ Read(u, l, worker[u], "reading")

(* permission_response_for finds an option and an id to answer: the line is
   ingested, then the decision is applied.                                 *)
ReadRequest(u, l) ==
    /\ At(u, {"reading"}) /\ IsRequest(l)
    /\ Read(u, l, [worker[u] EXCEPT !.request = l.key], "answering")

Answer(u) ==
    /\ At(u, {"answering"})
    /\ Persist(u, DecidePermission(red[u], u, worker[u].request, "approved"),
               [worker[u] EXCEPT !.request = None], "reading")
    /\ UNCHANGED <<tables, lines, heard, lost>>

(* The reducer has forgotten the batch: a refused one is not tried again.  *)
Commit(u) ==
    /\ At(u, {"committing"})
    /\ CommitBatch(worker[u].batch, worker[u].base)
    /\ Work(u, [worker[u] EXCEPT !.pc = worker[u].then, !.batch = <<>>, !.base = 0])
    /\ lost' = IF Taken(worker[u].batch, worker[u].base) THEN lost \cup {u} ELSE lost
    /\ UNCHANGED <<red, lines, heard>>

(* The response to the prompt, after which lines are ingested for a while
   without an answer to permission requests.                               *)
PromptEnds(u) == /\ At(u, {"reading"})
                 /\ Work(u, [worker[u] EXCEPT !.pc = "draining"])
                 /\ UNCHANGED <<tables, red, lines, heard, lost>>

Drain(u, l) == /\ At(u, {"draining"})
               /\ Read(u, l, worker[u], "draining")

(* Mutant: the finalized reducer is not persisted.                         *)
FinishUnpersisted(u, mark) ==
    /\ At(u, {"draining"}) \/ (At(u, {"reading"}) /\ mark = None)
    /\ LET r == Finalize(red[u], u, mark)
       IN  /\ red' = [red EXCEPT ![u] = [r EXCEPT !.pending = <<>>]]
           /\ Work(u, [worker[u] EXCEPT !.pc = "done", !.answer = FinalAnswer(r)])
    /\ UNCHANGED <<tables, lines, heard, lost>>

(* The ends of run_grok_turn that finalize the reducer: end_turn marks the
   reply final, a limit partial; any other stop reason, or a cancel or end
   of file while reading, marks none.                                      *)
Finish(u, mark) ==
    /\ At(u, {"draining"}) \/ (At(u, {"reading"}) /\ mark = None)
    /\ LET r == Finalize(red[u], u, mark)
       IN  Persist(u, r, [worker[u] EXCEPT !.answer = FinalAnswer(r)], "done")
    /\ UNCHANGED <<tables, lines, heard, lost>>

(* An error ends run_grok_turn by its `?`, before the prompt or when a line
   cannot be read: fail_turn records the failure with an empty answer, and
   the reducer is dropped as it is.                                        *)
Fail(u) == /\ At(u, {"reading"})
           /\ Work(u, [worker[u] EXCEPT !.pc = "failed"])
           /\ UNCHANGED <<tables, red, lines, heard, lost>>

WorkerStep(u) ==
    \/ Continue(u) \/ SeedFollowUp(u) \/ Answer(u) \/ Commit(u) \/ PromptEnds(u) \/ Fail(u)
    \/ \E l \in Lines[u] : ReadLine(u, l) \/ ReadRequest(u, l) \/ Drain(u, l)
    \/ \E mark \in {None, "finalAnswer", "partialAnswer"} : Finish(u, mark)

Next == Start \/ \E u \in Turns : WorkerStep(u)

Spec == Init /\ [][Next]_vars

-----------------------------------------------------------------------------
(* Safety.                                                                 *)

ItemOK(i) ==
    /\ i.kind \in Text \cup {"user", "tool", "plan", "plan_snapshot", "permission"}
    /\ i.text \in Seq(Nat)
    /\ i.streaming \in BOOLEAN
    /\ i.mark \in {None, "finalAnswer", "partialAnswer"}
    /\ i.status # None <=> i.kind \notin Text \cup {"user"}

(* Types, and that an open segment is an item of its kind.                 *)
TypeOK ==
    /\ lines \in 0..MaxLines
    /\ \A i \in DOMAIN rows : ItemOK(rows[i].item) /\ rows[i].item.id = i
    /\ \A u \in Turns :
          /\ worker[u].pc \in Pc
          /\ worker[u].base \in 0..last
          /\ worker[u].pc = "committing" <=> worker[u].batch # <<>>
          /\ red[u].pending = <<>>
          /\ red[u].ordinal <= lines
          /\ \A k \in DOMAIN red[u].items : ItemOK(red[u].items[k])
          /\ red[u].open # <<>> =>
                 \E k \in DOMAIN red[u].items :
                     /\ red[u].items[k].id = red[u].open[1]
                     /\ red[u].items[k].streaming

(* A message id or a tool call id that the agent uses again, after another
   card or in another turn, gives two items one id; the properties of cards
   are about items of their own.                                           *)
Recurs(u) ==
    \E j, k \in DOMAIN red[u].items :
        j # k /\ red[u].items[j].id = red[u].items[k].id

Shares(u) ==
    \E v \in Turns \ {u} : \E j \in DOMAIN red[u].items, k \in DOMAIN red[v].items :
        red[u].items[j].id = red[v].items[k].id

(* Every chunk the agent wrote is in the turn's texts once, in the order it
   came, whatever tools, plans and requests came between (append_text,
   flush_open).                                                            *)
ChunksInOrder ==
    \A u \in Turns :
        Recurs(u) \/ TextOf(red[u].items, Text) = heard[u]

Alone(u) == \A v \in Turns \ {u} : At(v, {"absent", "seeding", "refused"})
Settled(u) == At(u, {"reading", "answering", "draining", "done", "failed"})

(* A turn loses no batch to a turn that has not begun to write, and one that
   lost none keeps the database at what its reducer holds: between two
   lines, and at the end, every card is stored as it is (persist_reducer
   after every apply).                                                     *)
CardsStored ==
    \A u \in Turns :
        /\ Alone(u) => u \notin lost
        /\ Settled(u) /\ u \notin lost /\ ~Recurs(u) /\ ~Shares(u) =>
               \A k \in DOMAIN red[u].items :
                   LET i == red[u].items[k]
                   IN  i.id \in DOMAIN rows /\ rows[i.id].item = i

(* A card that is not shown as going on.  A tool that is first seen when it
   has ended, or in a status the program does not know, keeps its streaming
   flag (upsert_tool).                                                     *)
Closed(i) == /\ i.streaming => i.kind = "tool" /\ i.status \notin Open
             /\ i.kind = "tool" => i.status \notin Open
             /\ i.kind # "plan"

(* A turn that run_grok_turn finalized (end_turn, a limit, another stop
   reason, a cancel, end of file) shows nothing as going on: no text streams,
   no tool runs, the plan is a snapshot; and unless a batch of it was refused
   the same is true of the rows readers see (finalize_turn,
   persist_reducer).  Not so a turn that failed (Fail): what was going on
   stays so in the rows for good, although docs/specs/acp-runtime.md:81 has
   no tool of a turn shown as running once the turn ended.                 *)
FinishedTurnSettled ==
    \A u \in Turns : At(u, {"done"}) /\ ~Recurs(u) =>
        /\ \A k \in DOMAIN red[u].items : Closed(red[u].items[k])
        /\ u \notin lost /\ ~Shares(u) =>
               \A i \in DOMAIN rows : rows[i].item.turn = u => Closed(rows[i].item)

(* The answer a caller is given is the text of the card that is marked as
   the turn's answer in the timeline, and that card is the turn's last reply
   (final_answer_markdown, finalize_turn).                                 *)
AnswerIsMarkedCard ==
    \A u \in Turns : At(u, {"done"}) /\ u \notin lost /\ ~Recurs(u) /\ ~Shares(u) =>
        \A i \in DOMAIN rows : rows[i].item.turn = u /\ rows[i].item.mark # None =>
            /\ rows[i].item.text = worker[u].answer
            /\ \A j \in DOMAIN rows :
                   rows[j].item.turn = u /\ rows[j].item.kind = "assistant" =>
                       rows[j].first <= rows[i].first

(* A card never leaves the timeline nor moves, and the text of a segment
   only grows (ON CONFLICT keeps first_sequence; append_text).             *)
CardsKeepPlace ==
    [][\A i \in DOMAIN rows :
          /\ i \in DOMAIN rows'
          /\ rows'[i].first = rows[i].first
          /\ i.space = "seg" => IsPrefix(rows[i].item.text, rows'[i].item.text)]_vars

(* The text of a segment of a turn that lost no batch grows only while it is
   the turn's last card: once another card follows, later text opens a new
   segment (flush_open at every boundary).  After a refused batch a card may
   be stored before the text of an earlier one, which a later mutation of
   that one brings.                                                        *)
OnlyLastCardGrows ==
    [][\A i \in DOMAIN rows :
          i.space = "seg" /\ i.of \notin lost /\ rows'[i].item.text # rows[i].item.text =>
              \A j \in DOMAIN rows :
                  rows[j].item.turn = rows[i].item.turn => rows[j].first <= rows[i].first]_vars
=============================================================================
