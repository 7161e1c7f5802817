--------------------------- MODULE TurnLifecycle ---------------------------
(***************************************************************************)
(* The life of a turn inside the daemon (daemon/task_manager.rs): requests *)
(* that start, continue, cancel and wait, the worker run_turn spawned for  *)
(* each accepted turn, the in-memory TurnRuntime they coordinate through,  *)
(* and the rows of HistoryStore they leave behind.                         *)
(*                                                                         *)
(* The daemon runs on a multi-threaded Tokio runtime: requests and workers *)
(* are independent threads of control and every step below may interleave  *)
(* with any step of another actor. A step is one SQL statement or one      *)
(* access to the shared map, together with the local code up to the next.  *)
(*                                                                         *)
(* Not modelled here: storage faults (open and execute succeed), the       *)
(* fixture worker used by tests, submission ids (see the README).          *)
(***************************************************************************)
EXTENDS HistoryStore

CONSTANTS
    Clients,        \* concurrent requests of IPC connections
    Allowed,        \* [Clients -> SUBSET Operation]: what each may ask for
    Causes,         \* the causes cancel requests carry
    StopReasons,    \* the stop reasons (or their absence) the agent gives
    MaxSequence,    \* bound on tasks.last_sequence reached by agent output
    MaxCrashes      \* bound on daemon crashes

Operation == {"start", "continue", "cancel", "wait"}

ASSUME LifecycleAssumption ==
    /\ Clients \cap Turns = {}
    /\ Allowed \in [Clients -> SUBSET Operation]
    /\ Causes \subseteq Cause
    /\ StopReasons \subseteq StopReason
    /\ MaxSequence \in Nat
    /\ MaxCrashes \in Nat

VARIABLES
    runtime,    \* [Turns -> Runtime]    TaskManager.turns and the TurnRuntimes
    worker,     \* [Turns -> Worker]     the run_turn task of each turn
    final,      \* [Actors -> Final]     the finalization an actor is inside
    caller,     \* [Clients -> Caller]   the request a client is inside
    crashes

store == <<tasks, turns>>
vars == <<tasks, turns, runtime, worker, final, caller, crashes>>

(* The worker of a turn is named by the turn.                              *)
Actors == Turns \cup Clients

-----------------------------------------------------------------------------
(* TurnRuntime. mapped: reachable through TaskManager.turns; the worker and
   parked waiters keep their Arc when it is not.                           *)
Runtime == [mapped : BOOLEAN, cancel : BOOLEAN, cause : Cause \cup {None},
            result : Outcome \cup {None}]
NoRuntime == [mapped |-> FALSE, cancel |-> FALSE, cause |-> None,
              result |-> None]
FreshRuntime == [NoRuntime EXCEPT !.mapped = TRUE]

WorkerPc == {"none", "spawned", "marking", "gate", "resolve", "running",
             "marking2", "opening", "storing", "prompt", "loop", "ingesting",
             "reap", "final", "done"}
Worker == [pc : WorkerPc, stored : BOOLEAN, base : Nat, stop : StopReason]
NoWorker == [pc |-> "none", stored |-> FALSE, base |-> 0, stop |-> None]

(* mode "run": persist_run_result after the worker's own end;
   mode "cancelled": finalize_cancelled.                                   *)
FinalPc == {"idle", "flush", "flushing", "read", "check", "write", "mirror",
            "publish"}
Final == [pc : FinalPc, mode : {"run", "cancelled"}, turn : Turns \cup {NoTurn},
          outcome : Outcome, cause : Cause \cup {None}]
NoFinal == [pc |-> "idle", mode |-> "run", turn |-> NoTurn,
            outcome |-> "failed", cause |-> None]

CallerPc == {"idle", "list", "insert", "queue", "seed", "spawn",
             "cause", "mark", "flag", "poll", "cancelling",
             "lookup", "parked", "polling"}
Answer == Outcome \cup {None}
Caller == [pc : CallerPc, task : Tasks \cup {None}, turn : Turns \cup {NoTurn},
           ordinal : Nat, base : Nat, snap : TurnStatus,
           cause : Cause \cup {None}, answer : Answer]
NoCaller == [pc |-> "idle", task |-> None, turn |-> NoTurn, ordinal |-> 0,
             base |-> 0, snap |-> "absent", cause |-> None, answer |-> None]

TypeOK ==
    /\ tasks \in [Tasks -> TaskRow]
    /\ turns \in [Turns -> TurnRow]
    /\ runtime \in [Turns -> Runtime]
    /\ worker \in [Turns -> Worker]
    /\ final \in [Actors -> Final]
    /\ caller \in [Clients -> Caller]
    /\ crashes \in 0..MaxCrashes

Init ==
    /\ StoreInit
    /\ runtime = [u \in Turns |-> NoRuntime]
    /\ worker = [u \in Turns |-> NoWorker]
    /\ final = [a \in Actors |-> NoFinal]
    /\ caller = [c \in Clients |-> NoCaller]
    /\ crashes = 0

-----------------------------------------------------------------------------
(* Helpers of the request steps.                                           *)
Idle(c, op) == caller[c].pc = "idle" /\ op \in Allowed[c]

Goto(c, pc) == caller' = [caller EXCEPT ![c].pc = pc]

(* The request ends; an outcome it was told, and of which turn, remain.    *)
Told(u, answer) ==
    IF answer \in Outcome THEN [NoCaller EXCEPT !.turn = u, !.answer = answer]
                          ELSE NoCaller
Reply(c, answer) ==
    caller' = [caller EXCEPT ![c] = Told(caller[c].turn, answer)]

GotoWorker(u, pc) == worker' = [worker EXCEPT ![u].pc = pc]
LeaveWorker(u) ==
    worker' = [worker EXCEPT ![u] = [NoWorker EXCEPT !.pc = "final"]]

BeginFinal(a, pc, mode, u, o, c) ==
    final' = [final EXCEPT ![a] = [pc |-> pc, mode |-> mode, turn |-> u,
                                   outcome |-> o, cause |-> c]]
BeginCancelled(a, u, c) ==
    BeginFinal(a, "read", "cancelled", u, OutcomeOf("cancelled", c), c)

-----------------------------------------------------------------------------
(* start: accept in one transaction, seed the user message, spawn.         *)

StartAccept(c, t, u) ==
    /\ Idle(c, "start")
    /\ tasks[t].status = "absent"
    /\ ~Accepted(u)
    /\ AcceptStart(t, u)
    /\ caller' = [caller EXCEPT ![c] = [NoCaller EXCEPT
                      !.pc = "seed", !.task = t, !.turn = u]]
    /\ UNCHANGED <<runtime, worker, final, crashes>>

(* continue_task, reading the task row: an active task is refused with
   task_active and nothing changes.                                        *)
ContinueRead(c, t) ==
    /\ Idle(c, "continue")
    /\ tasks[t].status # "absent"
    /\ ~IsActive(t)
    /\ caller' = [caller EXCEPT ![c] = [NoCaller EXCEPT
                      !.pc = "list", !.task = t, !.base = tasks[t].seq]]
    /\ UNCHANGED <<store, runtime, worker, final, crashes>>

ContinueList(c) ==
    /\ caller[c].pc = "list"
    /\ \E n \in NextOrdinal(caller[c].task) :
          caller' = [caller EXCEPT ![c] = [@ EXCEPT !.pc = "insert",
                                                       !.ordinal = n]]
    /\ UNCHANGED <<store, runtime, worker, final, crashes>>

(* UNIQUE(task_id, ordinal) turns the loser of a race into an error.       *)
ContinueInsert(c, u) ==
    /\ caller[c].pc = "insert"
    /\ ~Accepted(u)
    /\ ~OrdinalTaken(caller[c].task, caller[c].ordinal)
    /\ InsertTurn(u, caller[c].task, caller[c].ordinal)
    /\ caller' = [caller EXCEPT ![c] = [@ EXCEPT !.pc = "queue", !.turn = u]]
    /\ UNCHANGED <<tasks, runtime, worker, final, crashes>>

ContinueRefused(c) ==
    /\ caller[c].pc = "insert"
    /\ OrdinalTaken(caller[c].task, caller[c].ordinal)
    /\ Reply(c, None)
    /\ UNCHANGED <<store, runtime, worker, final, crashes>>

ContinueQueue(c) ==
    /\ caller[c].pc = "queue"
    /\ UpdateTaskProgress(caller[c].task, "queued", caller[c].turn)
    /\ Goto(c, "seed")
    /\ UNCHANGED <<turns, runtime, worker, final, crashes>>

(* seed_user_message(_at): a conflict on the sequence number is returned as
   a storage error, with the turn already accepted.                        *)
Seed(c) ==
    /\ caller[c].pc = "seed"
    /\ CommitTimeline(caller[c].task, caller[c].base)
    /\ IF tasks[caller[c].task].seq = caller[c].base
       THEN Goto(c, "spawn")
       ELSE Reply(c, None)
    /\ UNCHANGED <<turns, runtime, worker, final, crashes>>

Spawn(c) ==
    /\ caller[c].pc = "spawn"
    /\ runtime' = [runtime EXCEPT ![caller[c].turn] = FreshRuntime]
    /\ worker' = [worker EXCEPT ![caller[c].turn] =
                      [NoWorker EXCEPT !.pc = "spawned"]]
    /\ Reply(c, None)
    /\ UNCHANGED <<store, final, crashes>>

-----------------------------------------------------------------------------
(* cancel_turn.                                                            *)

CancelRead(c, u, cause) ==
    /\ Idle(c, "cancel")
    /\ Accepted(u)
    /\ caller' = [caller EXCEPT ![c] =
           IF Recorded(u) THEN Told(u, turns[u].result)
           ELSE [NoCaller EXCEPT
                      !.pc = "cause", !.turn = u, !.snap = turns[u].status,
                      !.cause = cause]]
    /\ UNCHANGED <<store, runtime, worker, final, crashes>>

CancelCause(c) ==
    /\ caller[c].pc = "cause"
    /\ SetTerminationCause(caller[c].turn, caller[c].cause)
    /\ Goto(c, "mark")
    /\ UNCHANGED <<tasks, runtime, worker, final, crashes>>

CancelMark(c) ==
    /\ caller[c].pc = "mark"
    /\ UpdateTaskStatus(turns[caller[c].turn].task, "cancelling")
    /\ Goto(c, "flag")
    /\ UNCHANGED <<turns, runtime, worker, final, crashes>>

(* The branch is taken on the status read at the start of the call.        *)
CancelFlag(c) ==
    LET u == caller[c].turn IN
    /\ caller[c].pc = "flag"
    /\ runtime' = IF runtime[u].mapped
                  THEN [runtime EXCEPT ![u] = [@ EXCEPT
                             !.cancel = TRUE, !.cause = caller[c].cause]]
                  ELSE runtime
    /\ IF caller[c].snap \in {"queued", "starting"}
       THEN /\ BeginCancelled(c, u, caller[c].cause)
            /\ Goto(c, "cancelling")
       ELSE /\ Goto(c, "poll")
            /\ UNCHANGED final
    /\ UNCHANGED <<store, worker, crashes>>

CancelPoll(c) ==
    /\ caller[c].pc = "poll"
    /\ Recorded(caller[c].turn)
    /\ Reply(c, turns[caller[c].turn].result)
    /\ UNCHANGED <<store, runtime, worker, final, crashes>>

(* Mutant: the cancel call waits for the worker without a limit.           *)
CancelWaitsForWorker(c) ==
    /\ caller[c].pc = "poll" /\ FALSE
    /\ UNCHANGED vars

(* After 40 polls of 50 ms without a result.                               *)
CancelForce(c) ==
    /\ caller[c].pc = "poll"
    /\ BeginCancelled(c, caller[c].turn, caller[c].cause)
    /\ Goto(c, "cancelling")
    /\ UNCHANGED <<store, runtime, worker, crashes>>

-----------------------------------------------------------------------------
(* wait.                                                                   *)

WaitRead(c, u) ==
    /\ Idle(c, "wait")
    /\ Accepted(u)
    /\ caller' = [caller EXCEPT ![c] =
           IF Recorded(u) THEN Told(u, turns[u].result)
           ELSE [NoCaller EXCEPT
                      !.pc = "lookup", !.turn = u]]
    /\ UNCHANGED <<store, runtime, worker, final, crashes>>

WaitLookup(c) ==
    /\ caller[c].pc = "lookup"
    /\ Goto(c, IF runtime[caller[c].turn].mapped THEN "parked" ELSE "polling")
    /\ UNCHANGED <<store, runtime, worker, final, crashes>>

(* Notified or timed out: both read the result cell of the runtime.        *)
WaitParked(c) ==
    LET r == runtime[caller[c].turn].result IN
    /\ caller[c].pc = "parked"
    /\ Reply(c, r)
    /\ UNCHANGED <<store, runtime, worker, final, crashes>>

WaitPolling(c) ==
    /\ caller[c].pc = "polling"
    /\ \/ Recorded(caller[c].turn) /\ Reply(c, turns[caller[c].turn].result)
       \/ Reply(c, None)
    /\ UNCHANGED <<store, runtime, worker, final, crashes>>

-----------------------------------------------------------------------------
(* run_turn and run_grok_turn, one worker per spawned turn.                *)

TaskOf(u) == turns[u].task

MarkTaskStarting(u) ==
    /\ worker[u].pc = "spawned"
    /\ UpdateTaskStatus(TaskOf(u), "starting")
    /\ GotoWorker(u, "marking")
    /\ UNCHANGED <<turns, runtime, final, caller, crashes>>

MarkTurnStarting(u) ==
    /\ worker[u].pc = "marking"
    /\ UpdateTurnStatus(u, "starting")
    /\ GotoWorker(u, "gate")
    /\ UNCHANGED <<tasks, runtime, final, caller, crashes>>

(* The only look at cancel_requested before the prompt is sent.            *)
Gate(u) ==
    /\ worker[u].pc = "gate"
    /\ IF runtime[u].cancel
       THEN /\ BeginCancelled(u, u, runtime[u].cause)
            /\ LeaveWorker(u)
       ELSE /\ GotoWorker(u, "resolve")
            /\ UNCHANGED final
    /\ UNCHANGED <<store, runtime, caller, crashes>>

(* Mutant: fail_turn publishes the failure and forgets to persist it.      *)
FailUnpersisted(u) ==
    /\ BeginFinal(u, "publish", "run", u, "failed", None)
    /\ LeaveWorker(u)

(* fail_turn: a failed RunResult, persisted with no termination cause.     *)
Fail(u) ==
    /\ BeginFinal(u, "check", "run", u, "failed", None)
    /\ LeaveWorker(u)

(* resolve_grok_executable, turn_ordinal, stored_acp_session_id.           *)
Resolve(u) ==
    /\ worker[u].pc = "resolve"
    /\ worker' = [worker EXCEPT ![u] = [@ EXCEPT
           !.pc = "running",
           !.stored = tasks[TaskOf(u)].session # NoTurn]]
    /\ UNCHANGED <<store, runtime, final, caller, crashes>>

ResolveFails(u) ==
    /\ worker[u].pc = "resolve"
    /\ Fail(u)
    /\ UNCHANGED <<store, runtime, caller, crashes>>

MarkTaskRunning(u) ==
    /\ worker[u].pc = "running"
    /\ UpdateTaskStatus(TaskOf(u), "running")
    /\ GotoWorker(u, "marking2")
    /\ UNCHANGED <<turns, runtime, final, caller, crashes>>

MarkTurnRunning(u) ==
    /\ worker[u].pc = "marking2"
    /\ UpdateTurnStatus(u, "running")
    /\ GotoWorker(u, "opening")
    /\ UNCHANGED <<tasks, runtime, final, caller, crashes>>

(* spawn, initialize, then session/load of the stored id or session/new on
   the first turn; the agent answers when it likes.                        *)
OpenSession(u) ==
    /\ worker[u].pc = "opening"
    /\ worker[u].stored \/ turns[u].ordinal <= 1
    /\ GotoWorker(u, "storing")
    /\ UNCHANGED <<store, runtime, final, caller, crashes>>

OpenFails(u) ==
    /\ worker[u].pc = "opening"
    /\ Fail(u)
    /\ UNCHANGED <<store, runtime, caller, crashes>>

(* Mutant: the id the agent gave is stored on every turn.                  *)
KeepSessionAlways(u) ==
    /\ worker[u].pc = "storing"
    /\ StoreSession(TaskOf(u), u)
    /\ worker' = [worker EXCEPT ![u] = [@ EXCEPT !.pc = "prompt", !.stored = FALSE]]
    /\ UNCHANGED <<turns, runtime, final, caller, crashes>>

(* acp_session_id := the loaded id, or the one session/new returned.       *)
KeepSession(u) ==
    /\ worker[u].pc = "storing"
    /\ IF worker[u].stored THEN UNCHANGED tasks
                           ELSE StoreSession(TaskOf(u), u)
    /\ worker' = [worker EXCEPT ![u] = [@ EXCEPT !.pc = "prompt", !.stored = FALSE]]
    /\ UNCHANGED <<turns, runtime, final, caller, crashes>>

(* session/prompt is written, then prompt_dispatched_at and the status.    *)
Prompt(u) ==
    /\ worker[u].pc = "prompt"
    /\ UpdateTurnStatus(u, "running")
    /\ GotoWorker(u, "loop")
    /\ UNCHANGED <<tasks, runtime, final, caller, crashes>>

PromptFails(u) ==
    /\ worker[u].pc = "prompt"
    /\ Fail(u)
    /\ UNCHANGED <<store, runtime, caller, crashes>>

(* Mutant: the loop sees a cancel only with the next line of output.       *)
SeeCancelWithOutput(u) ==
    /\ worker[u].pc = "ingesting" /\ runtime[u].cancel
    /\ GotoWorker(u, "reap")
    /\ UNCHANGED <<store, runtime, final, caller, crashes>>

(* The prompt loop looks at cancel_requested, then reads for at most 200 ms.
   A line that arrives just after the look commutes with the cancel, so the
   agent's steps are those of an uncancelled turn.                         *)
SeeCancel(u) ==
    /\ worker[u].pc = "loop"
    /\ runtime[u].cancel
    /\ GotoWorker(u, "reap")
    /\ UNCHANGED <<store, runtime, final, caller, crashes>>

Listening(u) == worker[u].pc = "loop" /\ ~runtime[u].cancel

(* A line of agent output that changes the timeline: persist_reducer reads
   last_sequence, then commits.                                            *)
AgentLine(u) ==
    /\ Listening(u)
    /\ tasks[TaskOf(u)].seq < MaxSequence
    /\ worker' = [worker EXCEPT ![u] = [@ EXCEPT
                      !.pc = "ingesting", !.base = tasks[TaskOf(u)].seq]]
    /\ UNCHANGED <<store, runtime, final, caller, crashes>>

Ingest(u) ==
    /\ worker[u].pc = "ingesting"
    /\ CommitTimeline(TaskOf(u), worker[u].base)
    /\ worker' = [worker EXCEPT ![u] = [@ EXCEPT !.pc = "loop", !.base = 0]]
    /\ UNCHANGED <<turns, runtime, final, caller, crashes>>

(* The prompt response, or end of file (no stop reason).                   *)
AgentEnds(u, stop) ==
    /\ Listening(u)
    /\ worker' = [worker EXCEPT ![u] = [@ EXCEPT !.pc = "reap", !.stop = stop]]
    /\ UNCHANGED <<store, runtime, final, caller, crashes>>

ReadFails(u) ==
    /\ Listening(u)
    /\ Fail(u)
    /\ UNCHANGED <<store, runtime, caller, crashes>>

(* The child is killed, the cause read, the outcome decided.               *)
Reap(u) ==
    /\ worker[u].pc = "reap"
    /\ BeginFinal(u, "flush", "run", u,
                  OutcomeOf(worker[u].stop, runtime[u].cause), runtime[u].cause)
    /\ LeaveWorker(u)
    /\ UNCHANGED <<store, runtime, caller, crashes>>

-----------------------------------------------------------------------------
(* Finalization: finalize_cancelled (by the gate of run_turn and by        *)
(* cancel_turn) and persist_run_result, which share finalize_turn.         *)

GotoFinal(a, pc) == final' = [final EXCEPT ![a].pc = pc]

(* An actor leaves its finalization: a cancel call replies, a worker that
   stopped at the gate returns without touching the map.                   *)
LeaveFinal(a, answer) ==
    /\ final' = [final EXCEPT ![a] = NoFinal]
    /\ IF a \in Clients
       THEN Reply(a, answer) /\ UNCHANGED worker
       ELSE worker' = [worker EXCEPT ![a] = [NoWorker EXCEPT !.pc = "done"]]
            /\ UNCHANGED caller

(* The last persist_reducer of the turn, which may have nothing to persist,
   and the lines drained after the prompt response: those drained before a
   cancel are AgentLines that precede the response.                        *)
Flush(u) ==
    /\ final[u].pc = "flush"
    /\ \/ GotoFinal(u, "check") /\ UNCHANGED worker
       \/ /\ tasks[TaskOf(u)].seq < MaxSequence
          /\ GotoFinal(u, "flushing")
          /\ worker' = [worker EXCEPT ![u].base = tasks[TaskOf(u)].seq]
    /\ UNCHANGED <<store, runtime, caller, crashes>>

FlushCommit(u) ==
    /\ final[u].pc = "flushing"
    /\ CommitTimeline(TaskOf(u), worker[u].base)
    /\ GotoFinal(u, "flush")
    /\ LeaveWorker(u)
    /\ UNCHANGED <<turns, runtime, caller, crashes>>

(* finalize_cancelled first reads the row and returns a recorded result.   *)
FinalRead(a) ==
    LET u == final[a].turn IN
    /\ final[a].pc = "read"
    /\ IF Recorded(u)
       THEN LeaveFinal(a, turns[u].result)
       ELSE GotoFinal(a, "check") /\ UNCHANGED <<worker, caller>>
    /\ UNCHANGED <<store, runtime, crashes>>

(* Mutants: finalize_turn without its SELECT; persist_run_result replaces
   the result it conflicts with.                                           *)
FinalCheckSkipped(a) ==
    /\ final[a].pc = "check"
    /\ GotoFinal(a, "write")
    /\ UNCHANGED <<store, runtime, worker, caller, crashes>>

FinalCheckLastWins(a) ==
    /\ final[a].pc = "check"
    /\ IF ~Recorded(final[a].turn) \/ final[a].mode = "run"
       THEN GotoFinal(a, "write") /\ UNCHANGED <<worker, caller>>
       ELSE LeaveFinal(a, None)
    /\ UNCHANGED <<store, runtime, crashes>>

(* The SELECT of finalize_turn. The conflict is an error of
   finalize_cancelled; persist_run_result ignores it and goes on.          *)
FinalCheck(a) ==
    LET u == final[a].turn IN
    /\ final[a].pc = "check"
    /\ IF ~Recorded(u)
       THEN GotoFinal(a, "write") /\ UNCHANGED <<worker, caller>>
       ELSE IF final[a].mode = "run"
            THEN GotoFinal(a, "mirror") /\ UNCHANGED <<worker, caller>>
            ELSE LeaveFinal(a, None)
    /\ UNCHANGED <<store, runtime, crashes>>

FinalWrite(a) ==
    /\ final[a].pc = "write"
    /\ WriteResult(final[a].turn, final[a].outcome, final[a].cause)
    /\ GotoFinal(a, "mirror")
    /\ UNCHANGED <<tasks, runtime, worker, caller, crashes>>

FinalMirror(a) ==
    LET u == final[a].turn IN
    /\ final[a].pc = "mirror"
    /\ UpdateTaskProgress(TaskOf(u), MirrorStatus(final[a].outcome), u)
    /\ GotoFinal(a, "publish")
    /\ UNCHANGED <<turns, runtime, worker, caller, crashes>>

(* The result cell is set and waiters notified. Only a worker that ran to
   its own end removes the map entry.                                      *)
Publish(a) ==
    LET u == final[a].turn IN
    /\ final[a].pc = "publish"
    /\ runtime' =
          IF final[a].mode = "run"
          THEN [runtime EXCEPT ![u] = [@ EXCEPT
                             !.result = final[a].outcome, !.mapped = FALSE]]
          ELSE IF runtime[u].mapped
               THEN [runtime EXCEPT ![u].result = final[a].outcome]
               ELSE runtime
    /\ LeaveFinal(a, final[a].outcome)
    /\ UNCHANGED <<store, crashes>>

-----------------------------------------------------------------------------
(* The daemon dies: memory is lost, rows stay. The next daemon's start
   (daemon/mod.rs run_async) opens the database and touches no row.        *)
Crash ==
    /\ crashes < MaxCrashes
    /\ crashes' = crashes + 1
    /\ runtime' = [u \in Turns |-> NoRuntime]
    /\ worker' = [u \in Turns |-> NoWorker]
    /\ final' = [a \in Actors |-> NoFinal]
    /\ caller' = [c \in Clients |-> NoCaller]
    /\ UNCHANGED store

-----------------------------------------------------------------------------
(* Requests that arrive; nothing obliges a client to send one.             *)
Arrive(c) ==
    \/ \E t \in Tasks, u \in Turns : StartAccept(c, t, u)
    \/ \E t \in Tasks : ContinueRead(c, t)
    \/ \E u \in Turns, cause \in Causes : CancelRead(c, u, cause)
    \/ \E u \in Turns : WaitRead(c, u)

(* Requests in progress.                                                   *)
ClientStep(c) ==
    \/ ContinueList(c) \/ (\E u \in Turns : ContinueInsert(c, u))
    \/ ContinueRefused(c) \/ ContinueQueue(c) \/ Seed(c) \/ Spawn(c)
    \/ CancelCause(c) \/ CancelMark(c) \/ CancelFlag(c)
    \/ CancelPoll(c) \/ CancelForce(c)
    \/ WaitLookup(c) \/ WaitParked(c) \/ WaitPolling(c)

FinalStep(a) ==
    \/ FinalRead(a) \/ FinalCheck(a) \/ FinalWrite(a) \/ FinalMirror(a)
    \/ Publish(a)

(* Steps of a worker that wait for nobody.                                 *)
WorkerStep(u) ==
    \/ MarkTaskStarting(u) \/ MarkTurnStarting(u) \/ Gate(u) \/ Resolve(u)
    \/ MarkTaskRunning(u) \/ MarkTurnRunning(u) \/ KeepSession(u) \/ Prompt(u)
    \/ SeeCancel(u) \/ Ingest(u) \/ Reap(u)
    \/ Flush(u) \/ FlushCommit(u)

(* Steps that wait for the agent process or are failures.                  *)
AgentStep(u) ==
    \/ ResolveFails(u) \/ OpenSession(u) \/ OpenFails(u) \/ PromptFails(u)
    \/ AgentLine(u) \/ ReadFails(u)
    \/ \E stop \in StopReasons : AgentEnds(u, stop)

Next ==
    \/ \E c \in Clients : Arrive(c) \/ ClientStep(c)
    \/ \E u \in Turns : WorkerStep(u) \/ AgentStep(u)
    \/ \E a \in Actors : FinalStep(a)
    \/ Crash

Spec == Init /\ [][Next]_vars

(* Tokio keeps running the tasks it has: a request in progress, a worker
   and a finalization take their next step eventually. Clients and the
   agent owe nothing.                                                      *)
Fairness ==
    /\ \A c \in Clients : WF_vars(ClientStep(c))
    /\ \A u \in Turns : WF_vars(WorkerStep(u))
    /\ \A a \in Actors : WF_vars(FinalStep(a))

FairSpec == Spec /\ Fairness

(* An agent that also answers: it opens the session or refuses, and ends
   the prompt. There is no time limit on a turn in the code that would make
   up for one that does not.                                               *)
AgentAnswers(u) ==
    OpenSession(u) \/ OpenFails(u) \/ \E stop \in StopReasons : AgentEnds(u, stop)

ResponsiveSpec == FairSpec /\ \A u \in Turns : WF_vars(AgentAnswers(u))

-----------------------------------------------------------------------------
(* Safety.                                                                 *)

(* insert_turn under concurrent continues: the ordinals of a task's turns
   are 1..n without a gap or a repetition, whatever requests raced.        *)
OrdinalsContiguous ==
    /\ \A u, v \in Turns :
          Accepted(u) /\ Accepted(v) /\ turns[u].task = turns[v].task
             /\ turns[u].ordinal = turns[v].ordinal => u = v
    /\ \A u \in Turns : Accepted(u) =>
          \/ turns[u].ordinal = 1
          \/ \E v \in Turns : /\ Accepted(v)
                              /\ turns[v].task = turns[u].task
                              /\ turns[v].ordinal = turns[u].ordinal - 1

(* No RunResult is handed out before one is durable: a result cell or a
   reply that carries an outcome implies a recorded result of that turn.   *)
DurableBeforeVisible ==
    /\ \A u \in Turns : runtime[u].result # None => Recorded(u)
    /\ \A c \in Clients : caller[c].answer \in Outcome => Recorded(caller[c].turn)

(* Actors past the SELECT of finalize_turn and before its UPDATE.          *)
Writers(u) == {a \in Actors : final[a].pc = "write" /\ final[a].turn = u}

(* A turn is settled when its result is recorded and nobody can still
   overwrite it.                                                           *)
Settled(u) == Recorded(u) /\ Writers(u) = {}

(* finalize_turn is a SELECT and an UPDATE on separate statements, so two
   finalizers may both write; once the last of them has, no cancel, worker,
   continue or crash changes the result again.                             *)
SettledForever ==
    [][\A u \in Turns : Settled(u) =>
          Settled(u)' /\ turns'[u].result = turns[u].result]_vars

(* The abstract record of the turns (module TurnRecord) this implements.   *)
RecordOf(u) ==
    [phase |-> IF ~Accepted(u) THEN "absent"
               ELSE IF ~Recorded(u) THEN "open"
               ELSE IF Writers(u) # {} THEN "contested" ELSE "settled",
     value |-> turns[u].result]

Abstract == INSTANCE TurnRecord WITH record <- [u \in Turns |-> RecordOf(u)]

(* Every step of requests, workers, finalizers and crashes is a step of the
   promise TurnRecord states, or leaves it alone.                          *)
KeepsTurnRecord == Abstract!Spec

(* Never session/new twice on a task: the stored acp_session_id is never
   replaced, although turns of one task can run at the same time.          *)
SessionPinned ==
    [][\A t \in Tasks : tasks[t].session # NoTurn =>
          tasks'[t].session = tasks[t].session]_vars

-----------------------------------------------------------------------------
(* Liveness, while the daemon lives: k numbers the daemons.                *)

(* A cancel call that found its turn open comes back with the turn's result
   recorded, whatever the worker and the agent do, unless its daemon dies.  *)
CancelFinishesTurn ==
    \A c \in Clients, u \in Turns, k \in 0..MaxCrashes :
        (caller[c].pc = "cause" /\ caller[c].turn = u /\ crashes = k)
            ~> (caller[c].pc = "idle" /\ (Recorded(u) \/ crashes > k))

(* A worker in its prompt loop notices a cancel and ends, although the
   agent stays silent or keeps sending.                                    *)
CancelStopsWorker ==
    \A u \in Turns :
        (runtime[u].cancel /\ worker[u].pc \in {"loop", "ingesting"})
            ~> worker[u].pc \in {"done", "none"}

-----------------------------------------------------------------------------
(* What the documents say and the code does not keep (see the README).     *)

(* repository.rs:420 "Refuse to overwrite an already-final result_json".   *)
ResultWriteOnce ==
    [][\A u \in Turns : Recorded(u) => turns'[u].result = turns[u].result]_vars

(* continue_task: "task already has an active turn" is refused, so at most
   one turn of a task has no result.                                       *)
OneOpenTurn ==
    \A u, v \in Turns :
        (/\ Accepted(u) /\ Accepted(v) /\ turns[u].task = turns[v].task
         /\ ~Recorded(u) /\ ~Recorded(v)) => u = v

(* acp-runtime.md:96: a task without a prompt leaves the active states, so
   once all its turns have ended it can be continued.                      *)
EndedTaskLeavesActive ==
    \A t \in Tasks :
        (tasks[t].status # "absent" /\ \A u \in TurnsOf(t) : Recorded(u))
            ~> (~IsActive(t) \/ \E u \in TurnsOf(t) : ~Recorded(u))

(* persistence-ipc.md:141: a crash fixes the open turns as failed at once. *)
EveryTurnEnds == \A u \in Turns : Accepted(u) ~> Recorded(u)
=============================================================================
