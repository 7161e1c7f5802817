# GrokTask in TLA+

A verification development kept beside the source of GrokTask: a daemon that
runs Grok agents (ACP child processes) for an MCP server, a command line and a
desktop GUI, and keeps their history in SQLite. Paths below are relative to
`src-tauri/src/` unless they start with `docs/`.

Contents: [inventory](#inventory), [plan](#plan), [modules](#modules),
[runs](#runs), [disagreements](#disagreements), [fairness](#fairness),
[proofs](#proofs), [not modelled](#not-modelled).

## Inventory

| component | state | operations | interacts with | hard behaviour |
|---|---|---|---|---|
| Task manager `daemon/task_manager.rs` | map `turns` of `TurnRuntime`s (cancel flag, cause, result cell, notifier), one worker per turn | start, continue, wait, cancel, status, list, detail; `run_turn` | store (a connection per request and per step), agent child process, IPC server | request and worker threads race on the same rows and the same runtime; checks and writes are separate statements; the daemon can die between any two |
| History store `storage/repository.rs`, `migrations.rs`, `db.rs` | tables tasks, turns, submissions, timeline_items, timeline_mutations, raw_acp_events, ui_state, leases | one function per statement; two multi-statement transactions (`accept_start_submission`, `commit_timeline_mutations`) | everybody | WAL, several writers, uniqueness constraints as the only arbiter |
| Run result mapping `dto/mod.rs` | none | `map_stop_to_outcome`, input validation | task manager | precedence of termination causes |
| IPC server `daemon/mod.rs` | metadata, replacement barrier, shutdown channel | hello, request dispatch | task manager, lifecycle | replacement of the daemon while turns run |
| Daemon lifecycle `daemon/lifecycle.rs`, `spawn.rs` | lock file, endpoint, `daemon.json` | acquire, reclaim, inspect, stop, restart, ensure | other processes of the same user | several processes start, die and clean up at once |
| IPC client and transport `ipc/*` | socket, request ids | connect, hello, request with retries | IPC server, lifecycle | retry of a request whose answer was lost; restart on `restarting` |
| Leases and guards `storage/leases.rs` | leases with expiry, deletion guards | acquire, renew, release, expire, begin and end deletion | retention | lease against deletion |
| Retention `storage/retention.rs` | none (rows of tasks) | `run_retention` | store, GUI | candidates are chosen, then deleted by id |
| Snapshot and subscription `storage/snapshot.rs` | subscriber backlog | mode choice, chunking, deltas | store, frontend | gaps, generations, overflow |
| Timeline reducer `acp/reducer.rs` | items, open segment, tools, pending mutations | apply, finalize_turn, take_mutations | task manager, store | out-of-order and repeated agent updates |
| Configuration `config.rs` | current settings, file | load, save, reload | daemon, GUI | a file that does not parse; a crash between a save and what follows it |
| Integrations `integrations/*` | none of their own: the MCP configuration and the instruction file of Claude and Codex | install, remove, set_mode, status; enable and disable of a managed block | the user's files, the agents | the file changes between read and write; entries and lines of others must survive |
| GUI host `app/*` | `gui-host.lock`, endpoint, windows, tray, login item | launch, navigate, quit, settings, sweeps of the history | configuration, store, programs that navigate | launches that race, commands queued in a host that quits |
| Frontend `src/` | ui state | project the timeline | GUI host | rendering, mostly |
| MCP server `mcp/mod.rs` | the line it is at | one request, or two, per tool call; one thread | IPC client | an answer per request, whatever the daemon does |
| Command line `cli/*` | none | one command per process, exit code | IPC client, lifecycle, integrations, GUI host | what the exit code says of the daemon |
| Doctor `doctor/mod.rs` | none | read-only checks | all | none |
| Supervisor `supervisor/mod.rs` | control pipes, process group | `SupervisedChild::spawn`, the `--task-supervisor` role | its owner (tests so far), the agent | descriptors inherited by a concurrent fork; escalation of signals |

What makes each correct, in short. Task manager: a turn that was accepted gets
one result, nobody is told a result that is not durable, a task does not lose
its session, a task whose turns have ended can be continued, a cancel comes
back. Store: ordinals and sequences without gaps. Lifecycle: one daemon serves,
and a live daemon keeps its endpoint. Retention: nothing in use disappears.
Snapshot: a subscriber that applies what it is given has the rows. Reducer: one
item per id, nothing streaming after the end of a turn. Submission ids: one
task, for the input that was asked for. Clients: a request is sent once and the
program tells what became of it. GUI host: one host, which owns its endpoint and
follows the settings. Supervisor: no agent outlives its owner. Integrations:
nothing of anybody else's is lost.

At this commit nothing outside tests calls `SupervisedChild::spawn`, the
functions of `leases.rs` but the constructor of its guards, or `snapshot.rs`:
their modules model them as their own tests and documents use them.

## Plan

In the order of importance; all of it exists.

1. `HistoryStore`, `TurnLifecycle`, `TurnRecord`: the turn, its worker and its
   requests, with crashes; `TurnLifecycleProofs`.
2. `DaemonInstance`: processes that take the lock, clear and bind the endpoint,
   write and reclaim `daemon.json`, restart and replace; `DaemonInstanceProofs`.
3. `TimelineLog`, `TurnTimeline`: what the agent writes becomes rows;
   `SequenceLemmas`, `ReducerProofs`, `TurnTimelineProofs`.
4. `HistoryRetention`, `StartRequests`: what stays in the history, and which
   starts are one.
5. `TimelineFeed`: what a surface that shows a task is fed; `FeedProofs`.
6. `ClientCalls`: the command line and the MCP server over `ipc/client.rs`;
   `HistoryProofs` for 4 and 6.
7. `AgentSupervisor`, `GuiHost`, `McpEntry`, `ManagedBlock`: the processes and
   files around the daemon; `DesktopProofs`.

Left: the composition of two daemons with the turns of one history (`daemon/mod.rs:119`) and the
precedence of termination causes in `TurnRecord`.

## Modules

**`HistoryStore`** has the two tables the task manager works on, as functions
from ids to records, and one operator per SQL statement of `repository.rs`.
A statement is atomic, a sequence of statements is not: only
`accept_start_submission` (`AcceptStart`) and `commit_timeline_mutations`
(`CommitTimeline`) are transactions in the code. The result of a turn is
abstracted to its outcome, a timeline batch to one sequence number, the ACP
session id to the turn that created the session. It also holds
`map_stop_to_outcome` (`OutcomeOf`) and the status the task row mirrors.

**`TurnLifecycle`** composes three kinds of actors over the store and the
in-memory runtimes:

| model | code |
|---|---|
| `runtime[u]` | the `TurnRuntime` of a turn; `mapped`: reachable through `TaskManager.turns` |
| `caller[c]` | the request a connection is inside (`serve_client` handles one at a time): `StartAccept` ... `Spawn`, `ContinueRead` ... , `CancelRead` ... , `WaitRead` ... |
| `worker[u]` | the task `run_turn` of a turn, from `MarkTaskStarting` to `Reap` |
| `final[a]` | the finalization an actor is inside: `finalize_cancelled` or `persist_run_result`, which share `finalize_turn` (`FinalCheck` is its SELECT, `FinalWrite` its UPDATE), then the task mirror and the result cell |
| `crashes`, `Crash` | the daemon's death and `run_async` of the next one, which repairs no row |

A step ends at each statement or access to shared memory, so that every
interleaving of the multi-threaded runtime is there. Local variables the code
keeps across statements (the status a cancel read, the sequence a continue
read, the ordinal computed, whether a session was stored) are fields of
`caller` and `worker`, and go stale in the model as they do in the code.
The agent is free: it may never answer, fail at any point, send any number of
lines (up to `MaxSequence`) and end with any stop reason or none. Lines drained
after the prompt response are `AgentLine`s before it, or, after a cancel,
repetitions of `Flush`.

**`TurnRecord`** is the promise: a turn is absent, open, contested (a result is
recorded and a finalizer may still replace it) or settled, in that order, and a
settled value is for good. `TurnLifecycle!RecordOf` is the refinement mapping.

**`MCTurnLifecycle`** says which requests each connection may send.

**`DaemonInstance`** is the Unix branch of the daemon's life, one step per
system call:

| model | code |
|---|---|
| `daemon[p]` | where `run_async` of a process is: `Lock`, `RemoveStaleEndpoint`, `Bind`, `Register`, (the accept loop), `Drain`, `Unlock`, `CloseListener`, `Exit` |
| `lock`, `sock`, `meta` | who holds `daemon.lock`, whose socket is at the path, whom `daemon.json` names |
| `client[c]` | a program inside start, stop, restart, status or a request: the list of phases (`NextPhase`), and inside an inspecting phase the system call of `inspect_daemon` or `clear_daemon_runtime_files` it is at |
| `Connect`, `Hello`, `Restarting` | the hello of a request: a daemon of another binary drains, and the client restarts it |
| `Die`, `signalled` | death by SIGTERM or SIGKILL, a crash, or an error before the accept loop: the kernel releases the lock, the files stay |

The waits of the code (50 polls of 100 ms) become choices: a spawn or a stop
may see the end of the other process or give up. `BinaryOf` says which
executable a client runs and spawns. A pid is not reused.

**`MCDaemonInstance`** gives two programs of two builds, and two of one build
that only start the daemon.

**`TimelineLog`** is the timeline of one task in the database: the log of
mutations, the rows and `tasks.last_sequence`. `CommitBatch` is
`commit_timeline_mutations`: the upserts, the inserts and the sequence in one
transaction that a number already taken undoes.

**`TurnTimeline`** extends it with the workers of one task's turns:

| model | code |
|---|---|
| `Normalized`, `SessionUpdate`, `Inferred` | `normalize.rs`: what a line of the agent is to the reducer |
| `red[u]`, `Apply` | `TurnReducer` of `reducer.rs` and its operations: `AppendText`, `UserText`, `UpsertTool`, `ReplacePlan`, `AskPermission`, `DecidePermission`, `SetStage`, `FlushOpen`, `Finalize` |
| `Start`, `Continue`, `SeedFollowUp` | the user's prompt as the first card, numbered from a sequence read earlier |
| `ReadLine`, `ReadRequest`, `Answer`, `Drain`, `PromptEnds` | the loop of `run_grok_turn`, permission requests and their answers included |
| `Persist`, `Commit` | `persist_reducer`: read `last_sequence`, number the batch, commit it, ignore a failure |
| `Finish` | the ends of `run_grok_turn` that reach `finalize_turn` of the reducer and the last batch: the prompt's response, a limit, a cancel, end of file |
| `Fail` | an error that leaves it by `?` or `return Err`, when a line is read (`:1132`) or before the prompt: `fail_turn` records a failed result, the reducer is dropped as it is and its cards stay |

A text chunk is the number of its line. Two variables are history: `heard`
remembers the chunks read, `lost` the turns that had a batch refused. The agent
may use a message or tool id again (`Recurs`), or one that is a card of another
turn (`Shares`); then two cards have one row, and the properties of cards except
such turns.
**`MCTimeline`** has one line of each kind.

**`HistoryRetention`** has the columns a sweep looks at (`TaskRow`), leases
(`Acquire`, `WriteLease`, `Release`, `Disconnect`, `ExpireStale`), starts and
follow-ups, the end of a turn in its two statements (`EndTurn`, `ProtectTask`),
and `run_retention` statement by statement: `BeginSweep` (the candidates),
`CountTasks`, one `Delete` for each candidate, `EndSweep`. `touched` is history:
the tasks written since the candidates were read.

**`StartRequests`** is the submission id of `TaskManager::start`: the look
(`Look`, `AnswerKnown`), the transaction (`Accept`), the purge and the death of
the daemon. `answers` is history: what callers were told.

**`TimelineFeed`** is `snapshot.rs` with a producer that reads by one statement
at a time (`CaptureBarrier`, `ChooseMode`, `ReadUiRows`, `ProduceFrames`),
writers that commit and publish meanwhile (`WriteItem`, `SeedPrompt`,
`ResetTimeline`, `SetExpansion`, `PushLive` into the bounded backlog), and a
surface that applies frames and events (`CommitSnapshot`, `DrainLive`), loses
its stream and resumes with what it has.

**`ClientCalls`** is every program that asks the daemon: `EnsureDaemon`,
`SayHello`, `RestartDaemon` and `LoseAnswer` are `request_blocking`;
`TypeCommand` and `ExitCommand` a command and its exit code; `ReadLine`,
`WaitForTurn`, `AnswerCall` and `StdinEnds` the loop of the MCP server. The
daemon is the binary it runs, gives way to another and may end at any step.

**`AgentSupervisor`** has the owner's steps for each tree (`MakePipe`,
`SetFlags`, `Fork`, `KeepControl`, `DropControl`), with the write ends a fork
takes along, the supervisor's (`SpawnManaged`, `WatchControl`, `Terminate`,
`AfterGrace`, `SeeExit`, `Join`) and the agent's own: a leader and a helper in
one process group, either of which may ignore SIGTERM or end alone.

**`GuiHost`** has the launch (`LockHost`, `StartUp`, `BindEndpoint`), the
commands of a running host (`TakeCommand`, `ApplyNav`), a change of the tray mode
step by step (`LoadSettings`, `SaveMode`, `Resync`, `ApplyMode`), and
`ensure_and_navigate` (`Ask`, `Connect`, `Retry`, `TakeEofForAck`). A tray icon
that is wanted and not there may fail to be created, at the launch and after a
save, and the host goes on (`Reconciled`; `app/gui_host.rs:267`, `:279`). The user
edits `config.json` at any time (`EditConfig`), between the load and the save of a
settings command too; a running host does not notice. `edited` is history: it
marks the hosts whose file was edited since they read or saved it.

**`McpEntry`** and **`ManagedBlock`** are `integrations/`: processes that read a
file, compute the new one and rename it into place, while the agent or the user
saves the same file. A configuration is what the code distinguishes of it; an
instruction file is its lines.

**`MCHistory`** and **`MCDesktop`** put modules that share no variable side by
side: `part` says which one a behaviour is about, the rest stands still at one
initial state. So one run checks several components without multiplying them,
and says nothing of steps of two parts in one behaviour, which touch no common
state. In `MCHistory` sweeps run against follow-ups or against leases. In
`MCDesktop` the GUI host is two parts: `settings` (config.json is edited and saved,
hosts launch and end, nobody asks) and `navigation` (the navigators ask while the
settings stay).

## Runs

The runs of `TurnLifecycle` use one task. `CHECK_DEADLOCK FALSE` everywhere:
requests and calls are optional, and the system stops when all of them are
answered, all turns have ended and no daemon is started or stopped any more.

| run | instance | shows |
|---|---|---|
| `follow_up` | 3 turns, start and continue from c1, continue from c2, up to 3 timeline batches, 1 crash; turns are symmetric | types; ordinals contiguous; the session stays pinned although turns overlap |
| `cancel` | 1 turn; c1 starts, waits and cancels, c2 cancels; 1 batch, 1 crash, under `FairSpec` | durable before visible; settled for ever; `TurnRecord` implemented; a cancel finishes the turn and stops the worker |
| `daemon` | 3 processes, 2 programs of two builds, 2 calls each (one starts, stops and queries; the other sends requests and restarts), 1 crash | the serving daemon owns the files; a starting one is never signalled |
| `timeline` | 2 turns that overlap, 10 kinds of lines, 3 lines | rows replay the log; chunks in order; a turn that lost no batch is stored as it is shown, and none is lost to a turn that has not begun to write; nothing goes on, in the reducer or the rows, after an end that finalized the reducer; the answer is the marked card; cards keep their place and only the last grows |
| `history` | sweeps: 2 tasks, limits 0 and 1, 1 follower or 1 lease, times 0 to 1; starts: 2 callers, 2 ids, 2 inputs, 4 answers; feed: 2 items (one large), 1 key, 4 mutations, 2 generations, backlog of 2; clients: 1 command and the MCP server of two builds, 2 lines, 2 hellos | what a sweep may delete; one task per submission; the surface converges, its snapshots are whole; requests are handled once and answered truly |
| `desktop` | 2 trees; 2 hosts, 2 navigators, 1 retry, or 2 hosts, two of the modes, a file that does not parse, any number of edits and saves; 2 writers of an entry, 1 edit; 2 editors of a block of up to 3 lines, 1 edit; with the fairness of supervisors and hosts | agents follow their owner and carry pipes one way; the serving host owns the endpoint and applies what it acknowledged; a host between two settings commands stands by the mode it read or saved last; others' servers and lines survive |
| `two_writers`, `two_open_turns`, `stuck_active`, `interrupted`, `orphan`, `kept_warm` | as above; `orphan`: 4 processes, 2 programs that start the daemon twice, 1 crash | the disagreements below |

Why the bounds suffice. Ordinals need three turns: the first, and two that race to
follow it; a session needs two, the one that may store it late and one that may
store another. Two concurrent requests are what every check and
write in the code can be raced by; the worker is the third actor. The result of
a turn does not depend on other turns, so one turn is enough for it, with two
finalizers besides its worker. One crash tells apart the states before and
after it; a second finds nothing the first did not leave. `MaxSequence` bounds
only agent output: one batch to be seeded, one to conflict, one to follow.
For the daemon: two clients, because one removes what the other's daemon wrote;
three processes, one that left its files or drains, one that takes over and one
that loses the lock. In `orphan` there is a process for every call, so that no
client lacks one to spawn.

For the timeline: a segment, what closes it and what comes after are three
lines. For sweeps: an older and a newer task and a limit of one tell the order
and the count; with times 0 and 1 a protection or a lease runs out between the
look and the deletion or does not. Submissions: an id that expires and is used
again (three ticks) by a second caller. Feed: one entry that is cut and one
that is not, a backlog that overflows at the third event, one reset. Clients:
every daemon is of the caller's binary or of the other, and two hellos are one
retry. The supervisors' hazard is a fork between another's two system calls,
hosts race in pairs, and a file is lost by a writer and a second one.

## Disagreements

Runs with `expect: violation` show what the code does against what it says:

- `two_writers`: `finalize_turn` (`storage/repository.rs:420`) refuses to
  overwrite a result, but checks and writes in two statements; a worker and a
  cancel can both write.
- `two_open_turns`: `continue_task` refuses a task with an active turn, but two
  requests that read the row together both pass.
- `stuck_active`: a cancel of a queued turn records a result and mirrors it;
  `run_turn` then marks the task `starting` and returns at its gate. All turns
  have ended and the task is active for good (`docs/specs/acp-runtime.md:96`).
- `interrupted`: after a crash open turns stay open; `docs/specs/persistence-ipc.md:141`
  says they are fixed as failed at once. Here the agent is assumed to answer
  (`ResponsiveSpec`), so that the crash alone is to blame.
- `orphan`: a client judges files stale and removes them in later steps, without
  the lock. If another client's daemon binds and registers in between, its files
  go; it holds `daemon.lock` for good, unreachable, and every daemon spawned
  after it ends with "already running". `ipc/client.rs:18` promises a reachable
  daemon, `docs/specs/architecture.md:123` that only the lock holder cleans.
- `kept_warm`: `run_grok_turn` makes a session `warm` (`daemon/task_manager.rs:1022`)
  and nothing makes it cold again, while sweeps skip warm tasks: the history
  outgrows its limit. `docs/specs/persistence-ipc.md:262` says the oldest idle
  task is made cold first and then deleted.

Five more behaviours of the models are not what a document or a comment says. No
run has them as its question; the properties that hold name them as exceptions.

- A failed turn stays open. An error while a line is read
  (`daemon/task_manager.rs:1132`) leaves `run_grok_turn` without `finalize_turn`,
  and `fail_turn` (`:1195`) persists no card: `Start`, `ReadLine` of a `tool_call`,
  `Commit` and `Fail` leave a row whose tool is shown as running for good.
  `docs/specs/acp-runtime.md:81` says that a tool that has not ended is marked
  `unknown` or `cancelled` and cannot be shown as running forever. So
  `FinishedTurnSettled` is about turns that ended otherwise, and `CardsStored` says
  what the rows of a failed one hold: what its last line left.
- A helper outlives the owner. The supervisor joins the leader of the agent's
  group and ends with it (`supervisor/mod.rs:186`), so a helper that a leader left
  by ending alone, or that ignored the SIGTERM its leader died of, is not
  signalled again when the daemon dies. `supervisor/mod.rs:4` has the tree killed,
  "preventing orphans after daemon crash". `AgentsFollowOwner` is about leaders.
- A failed turn exits with 0 under `--json`: `run` and `wait` return before they
  look at the turn's status (`cli/mod.rs:393`, `:537`), while
  `docs/specs/cli-mcp.md:44-51` gives code 2 for a task that failed, whatever the
  output. `ToldWhatHappened` has it as its exception.
- An edit is lost. An install or removal replaces the agent's configuration by what
  it computed from an earlier read (`integrations/claude.rs:149`), enable and
  disable the instruction file (`integrations/workflow.rs:310`): what was saved in
  between is undone, while `docs/specs/integrations.md:119` allows only the own
  entry to change. `OnlyOwnEntryChanges` and `UserLinesKept` are about a file nobody
  changed since it was read.
- `stop` may signal a daemon that drains. `inspect_daemon` probes the process of the
  pid in `daemon.json` and then whoever listens at the endpoint
  (`daemon/lifecycle.rs:302`). After a replacement bound its endpoint, and before
  it wrote `daemon.json`, these are two daemons: `stop` finds one alive and the other
  usable and ends the first, which still finishes its work. `daemon/mod.rs:661` says
  "safe enough to signal this PID". `StopSparesStarting` rules out only daemons that
  have not served.

## Fairness

`FairSpec` assumes weak fairness of the steps of each request in progress, each
worker and each finalization: Tokio's multi-threaded runtime keeps polling a
ready task, the cancel call runs on its own blocking thread with a loop of 40
polls, and the worker's read has a 200 ms timeout. Nothing is assumed of clients
(they may stop asking) nor, in `FairSpec`, of the agent: a worker blocked in
`initialize` or `session/load` has no timeout, which is why the liveness of a
cancel must not lean on the worker, and does not: `CancelForce` follows from the
count of polls. `ResponsiveSpec` adds that the agent opens the session and ends
the prompt; only `interrupted` uses it.

`DaemonInstance!FairSpec` assumes that the operating system runs each daemon
process and each client in the middle of a call. Nobody has to make a call, and
no daemon has to crash.

`SupervisorFairness` assumes that the supervisor's threads run and that a
process that does not ignore SIGTERM ends of it; neither the owner nor the agent
owes anything. `AgentsFollowOwner` excepts an agent whose own control pipe is
held open, directly or through the pipes its holders wait for, by a tree with a
helper that outlived its leader (`HeldUp`); of helpers it says nothing (see the
disagreements).
`GuiFairness` is the host's loop over its queue (`ApplyNav`): nobody else has to
act for `AckedIsApplied`.

## Proofs

`TurnLifecycleProofs` proves for every number of tasks, turns, clients, timeline
batches and crashes, from the named assumptions of `HistoryStore`
(`NoTurnAssumption`) and `TurnLifecycle` (`LifecycleAssumption`: clients are not
turns; what clients may ask, causes and stop reasons are of the right kind):

| theorem | property |
|---|---|
| `TypeCorrect` | `TypeOK` |
| `OrdinalsAreContiguous` | `OrdinalsContiguous` |
| `ResultsDurable` | `DurableBeforeVisible` |
| `ResultsSettle` | `SettledForever` |
| `SessionsPinned` | `SessionPinned` |
| `ImplementsTurnRecord` | `KeepsTurnRecord` |

All follow from `Invariance`: `Spec => []IInv`. The parts of `IInv` beyond the
properties say why they are preserved:

- `RowsOK`, `CallersOK`, `WorkersOK`, `FinalsOK`: whoever holds a task or turn
  id holds one whose row exists, with the task it belongs to. Types need it
  (an UPDATE of the task of a turn) and so does durability (past the UPDATE of
  `finalize_turn` the row has a result).
- `RuntimesOK`: a result cell implies a recorded result. Together with
  `CallersOK` this is `DurableBeforeVisible`.
- `SpawnedOnce`: a turn whose request is still accepting it has no worker and
  no other request accepts it, so a worker is spawned once.
- `FinishingOK`: a worker that finalizes does nothing else.
- `NewSessionFirst`, `SessionsOK`: a worker about to store a new session is the
  turn of ordinal 1; a task that has a session got it from its turn of ordinal
  1, whose worker is past opening. Ordinals are unique, so no other worker can
  store one: `SessionPinned`.

The argument has three layers: what each statement does to the types
(`TaskStatements`, `TurnStatements`, `CallerMoves`, ...), what any step can do to
the rows (`AcceptGrows`, `StepGrows`: rows appear, results are never removed,
ordinals and tasks of turns do not change), and one lemma per part of `IInv` that
goes through the actions which can disturb it. `SettledForever` and the
refinement rest on `WritersSteps` (a finalizer reaches its UPDATE only while the
turn has no result) and `ResultSteps` (only that UPDATE changes a result).

`DaemonInstanceProofs` proves for every number of processes, clients, calls and
crashes, from `InstanceAssumption`: `TypeCorrect` (`TypeOK`), `ServingOwns`
(`ServingOwnsFiles`) and `StartingSpared` (`StopSparesStarting`). `ServingOwnsFiles`
is not inductive: it needs to know of every daemon between the lock and the
unlock that it holds the lock (`HoldersOK`), so that nobody else binds or writes
`daemon.json` meanwhile, and that from the bind on the endpoint is its own or
gone. For the signals, `MetaOK` says that `daemon.json` names a process that has
served, and `ClientsOK` that so does the pid a client read; both survive because
having served is for good (`KeepsServed`). One lemma per kind of step
(`DaemonStepKeeps`, `InspectKeeps`, `StopKeeps`, ...) over three lemmas on the
client's moves (`EnterMoves`, `StepMoves`, `ConcludeMoves`).

`TurnTimelineProofs` proves for every number of turns, any set of lines and any
number of them read, from `FirstAssumption` alone:

| theorem | property |
|---|---|
| `TypeCorrect` | `TypeOK` |
| `RowsReplay` | `RowsReplayLog` |
| `TextKeepsOrder` | `ChunksInOrder` |
| `CardsAreStored` | `CardsStored` |
| `FinishedSettles` | `FinishedTurnSettled`: the cards of a turn whose reducer was finalized, and its rows if no batch was refused |
| `AnswerIsCard` | `AnswerIsMarkedCard` |
| `PlacesKept` | `CardsKeepPlace` |
| `LastCardGrows` | `OnlyLastCardGrows` |

All follow from `Inductive`: `Spec => []Inv`. None of the properties is
inductive, because a step of the worker changes cards first and rows later, and
another turn may commit in between. `Inv` says of every turn:

- `TurnOK`: the types of its worker and reducer; what is pending in the reducer
  is the batch that waits for its commit (`Full`), and a worker that ends has a
  settled reducer and its answer (`FinalOK`).
- `Good` (in `ReducerProofs`), of the reducer with that batch, against the cards
  it had at the last commit: `Sound` (segments are numbered, the open segment is
  the last card), `Tracks` (no card goes, only the last one's text has grown,
  every mutation of the batch lies between the old cards and the new ones, and
  replaying it on rows that mirror the old cards mirrors the new), `Streams`,
  `Marked`, `Hears` (the text is what was heard).
- `Behind`: a row of the turn is one of its cards and holds no more of its text.
  This survives a refused batch, which is why cards keep their text for good.
- `Mirror`, while the turn is `Lossless`: its rows are its cards, in their order,
  but for ids that other turns have too (`Others`). It survives another turn's
  commit, which writes only ids of its own cards.

`ReducerProofs` shows first that a commit keeps the rows a replay of the log
(`LogOf`, `CommitOf`); then it has one lemma per operation of the reducer
(`FlushGood`, `AppendOpenGood`, `UpsertToolGood`, ..., `FinalizeGood`) over one for
a changed card and one for a new one (`ChangeStep`, `PushStep`);
`TurnTimelineProofs` one per action (`ReadActs`, `PersistActs`, `CommitActs`, ...),
each of which says what the step does to its own turn, and `OthersGrow` and
`HeldElsewhere` what that means for the others.

`HistoryProofs` and `DesktopProofs` hold for any sizes too, from the assumptions
of the modules they are about. Each component has an inductive invariant, which
adds to its properties:

| invariant | theorems | what it adds |
|---|---|---|
| `RetentionInv` | `RetentionTypes` (`HistoryTypeOK`), `KeepsLimit` (`LimitKept`), `DeletesOldest` (`OldestGoFirst`), `SparesProtected` (`ProtectedSurvives`) | of the candidates: ids do not come back (`Known`), `created_at` stays (`SameAge`), one that nobody wrote is as it was found (`AsFound`), tasks only come while the sweep counts down (`Counted`) |
| `RequestsInv` | `RequestsTypes` (`StartTypeOK`), `OneTask` (`OneTaskPerSubmission`), `AsAsked` (`AnsweredAsAsked`) | an answer that has not expired has its row (`Remembered`), every row was an answer (`Answered`), tasks are numbered without gap (`Numbered`) |
| `CallsInv` | `CallsTypes` (`ClientTypeOK`), `RequestsOnce` (`HandledOnce`) | an answered call was handled as often as it has steps, and hellos are left for a call that is to say one (`RowOnce`) |
| `ToldInv` | `TellsWhatHappened` (`ToldWhatHappened`) | what the outcome of a call says of the requests that were handled (`Tells`); the lines without an answer are the one the MCP server is at (`Answers`) |
| `RecordsInv` | `RecordsTypes` (`RequestsTypeOK`) | the two before, of a behaviour of `MCHistory` |
| `SupervisorInv` | `SupervisorTypes`, `CarriesOneWay` (`CarryingOneWay`) | who carries a pipe has forked (`TakenEarly`), so a fork, which takes the pipes of trees that have not, closes no ring |
| `GuiInv` | `GuiTypes`, `ServingHostOwns` (`HostOwnsEndpoint`), `RunningHostFollows` (`HostFollowsConfig`) | a process past the lock holds it (`LockKept`), so there is one; what it knows at each step of a settings command (`Follows`): its mode is the file's unless the file was edited, its icon is absent exactly in mode off, the login item follows if synchronised |
| `EntryInv` | `EntryTypes`, `OthersSurvive` (`OnlyOwnEntryChanges`) | what a writer holds was a file its operation accepts (`Accepted`) |
| `BlockInv`, `DesktopInv` | `DesktopTypes` (`DesktopTypeOK`), `StatusTrue` (`StatusHolds`), `LinesSurvive` (`UserLinesKept`) | what an editor read is lines with markers it accepts, and so is what `Tidy` makes of them (`CollapseFold`); a configuration is consistent |

`LinesSurvive` compares what a file of any length says before and after a write.
`UserLines` reads the lines at chosen positions in order, by counting them. Two
files read the same when one maps its chosen positions in order onto those of the
other, line by line (`Matches`, `MatchSelected`). Such a map goes through each step of a write:
around the lines that are replaced the positions move by one distance
(`ReplacingKeeps`), trimming moves none (`TrimEndSame`), and collapsing blank
lines extends the map one line at a time (`CollapseMatches`).

`FeedProofs` proves for every set of items and keys, any limits of the backlog
and of a frame's entries, and any number of mutations, subscriptions and
generations, from `FeedAssumption` (ids to name items and keys with exist; the limits are at
least one):
`FeedTypes` (`FeedTypeOK`), `SnapshotsWhole` (`SnapshotWhole`) and `FeedFollows`
(`FeedConverges`). All follow from `FeedInvariant`: `FeedSpec => []Inv`. That a
surface converges is not inductive, because between the barrier and the end of
the frames the rows go on while the snapshot and the backlog wait. `Inv` has these parts:

- `LogOK`: an item's row is the first and the last of its mutations.
- `SurfaceOK`, `BarrierOK`: neither shows more than was committed, and while the
  generation they know is the current one nothing was removed since (`NoReset`).
  Unless a prompt is filed under an old generation (`Misfiled`), the surface has
  no write of an item older than the latest it was told of (`Fresh`).
- `EntriesOK`: the entries read, over what the surface has (a delta) or nothing
  (a full snapshot), miss no write up to the barrier (`Carries`). They may be
  newer than it: reading is a later statement.
- `QueueOK`: the queue has the latest mutation and change if they are later than
  what the surface has, changes in their order (`Queued`); a key nobody in the
  queue speaks of is in the rows, or on the surface, as it is in the table
  (`Silent`, `Tell`). Events the snapshot had already are dropped by number,
  and this is why that is right.
- `FramesOK`: the frames, put together, are the entries and then the rows.

One lemma per action (`WriteKeeps`, `ChangeKeeps`, `CaptureKeeps`, `ChooseKeeps`,
`ReadKeeps`, `ProduceKeeps`, `CommitKeeps`, `DrainKeeps`, `CloseKeeps`,
`SetKeeps`), over lemmas on the helpers: `AscendingIs` (numbers have one order),
`FramesCarry` (cutting entries into frames and fragments and staging the frames
again gives the entries), `ItemRowsAre` and `DeltaCarries` (what a full and a
delta snapshot read), `ShownItem` and `ShownKey` (what the surface makes of it),
and `ShowsFold` with `ShowsMutation` and `ShowsChange` (what applying the backlog
makes of that).

Induction over data. The library's induction theorems take an operator as a
parameter, which no installed prover can instantiate. Where one is needed,
`SequenceLemmas` derives from the well-foundedness of the natural numbers, a fact
about a relation, that a set of numbers which is not empty has a least one
(`Least`) and that one closed under successor is all of them (`Induction`): the
sets are comprehensions of the fact at hand. `FlattenSeq` and `FoldLeft` choose
a function that satisfies an equation; `JoinedExists`, `JoinedAgree`,
`UpsertedExists`, `FoldExists` show that there is one and that any two agree on
what matters, and the lemmas on them (`FlattenAppend`, `FlattenElements`,
`UpsertAllConcat`, `CollapseFold`) follow. The arms of a `CASE` in a module with
theorems exclude each other, in the order the code tries them, since a `CASE`
whose guards overlap has no value that could be proved.

Only model-checked: the liveness properties (liveness under fairness and ENABLED
are out of the prover's reach) and the runs that exhibit disagreements.
`ORDER BY` is `Ascending`, which chooses
the one increasing enumeration, since tlapm cannot expand `SortSeq` of TLC.

## Not modelled

- Faults of SQLite (open or execute fails; `let _ =` in many places ignores
  them): statements succeed unless a uniqueness constraint refuses them.
- The fixture worker used by tests, status, list and detail projections, raw ACP
  events (diagnostics), recoveries (a table without a caller), migrations.
- Windows: named pipes, TerminateProcess, job objects, the registry's login
  item. Idle exit (the code has none), reuse of pids, a `daemon.json` that cannot
  be parsed.
- The ids of permission requests: `run_grok_turn` decides with the id of the
  message, the card is filed under the one in its parameters; the model gives
  both one id.
- Deletion guards: a set in memory that nobody fills.
- The watcher of `config.json` that `docs/specs/persistence-ipc.md:67` gives the
  daemon: `ConfigHandle::reload` has no caller, the daemon reads the file once.
- In the GUI: geometry, the tray menu, language and theme. The frontend and the
  doctor are rendering and read-only checks.
- Answer text, errors' codes and messages, timestamps, models and titles;
  redaction and the arguments of processes.
- Two daemons over one history, the old one still draining
  (`daemon/mod.rs:119`): `DaemonInstance` and `TurnLifecycle` together are beyond
  TLC at bounds that would show anything.
