------------------------ MODULE TurnLifecycleProofs ------------------------
(***************************************************************************)
(* The inductive invariant of TurnLifecycle and what follows from it, for  *)
(* every number of tasks, turns, requests and crashes.                     *)
(***************************************************************************)
EXTENDS TurnLifecycle, TLAPS

-----------------------------------------------------------------------------
(* The inductive invariant, in named parts.                                *)

(* An accepted turn belongs to an existing task; only an accepted turn can
   carry a result.                                                         *)
RowsOK ==
    \A u \in Turns :
        IF Accepted(u)
        THEN /\ turns[u].task \in Tasks
             /\ tasks[turns[u].task].status # "absent"
             /\ turns[u].ordinal >= 1
        ELSE turns[u].result = None

AcceptingPc == {"queue", "seed", "spawn"}
HoldsTask == {"list", "insert"} \cup AcceptingPc
HoldsTurn == AcceptingPc \cup {"cause", "mark", "flag", "poll", "cancelling",
                               "lookup", "parked", "polling"}

(* What a request carries refers to rows that exist, and an outcome it was
   told is recorded.                                                       *)
CallerOK(c) ==
    /\ caller[c].pc \in HoldsTask =>
          /\ caller[c].task \in Tasks
          /\ tasks[caller[c].task].status # "absent"
    /\ caller[c].pc \in HoldsTurn =>
          caller[c].turn \in Turns /\ Accepted(caller[c].turn)
    /\ caller[c].pc = "insert" =>
          /\ caller[c].ordinal >= 1
          /\ \/ caller[c].ordinal = 1
             \/ OrdinalTaken(caller[c].task, caller[c].ordinal - 1)
    /\ caller[c].pc # "idle" => caller[c].answer = None
    /\ caller[c].answer \in Outcome =>
          caller[c].turn \in Turns /\ Recorded(caller[c].turn)
CallersOK == \A c \in Clients : CallerOK(c)

WorkersOK == \A u \in Turns : worker[u].pc # "none" => Accepted(u)

RuntimesOK == \A u \in Turns : runtime[u].result # None => Recorded(u)

(* A finalizer works for an accepted turn, a worker for its own, a cancel
   call for the turn it names; past the UPDATE the turn has a result.      *)
FinalOK(a) ==
    final[a].pc # "idle" =>
        /\ final[a].turn \in Turns
        /\ Accepted(final[a].turn)
        /\ final[a].pc \in {"mirror", "publish"} => Recorded(final[a].turn)
        /\ a \in Turns => final[a].turn = a
        /\ a \in Clients =>
              caller[a].pc = "cancelling" /\ caller[a].turn = final[a].turn
FinalsOK == \A a \in Actors : FinalOK(a)

(* A worker that finalizes does nothing else.                              *)
FinishingOK == \A u \in Turns : final[u].pc # "idle" => worker[u].pc = "final"

(* Opening a session: a turn is spawned once, and a worker about to store a
   new session is the first turn of a task that has none.                  *)
BeforeSession == {"spawned", "marking", "gate", "resolve", "running",
                  "marking2", "opening", "storing"}
SessionOK(t) ==
    LET s == tasks[t].session IN
    s # NoTurn =>
        /\ tasks[t].status # "absent"
        /\ Accepted(s) /\ turns[s].task = t /\ turns[s].ordinal = 1
        /\ worker[s].pc \notin BeforeSession
        /\ \A c \in Clients :
              caller[c].pc \in AcceptingPc => caller[c].turn # s
SpawnedOnce ==
    /\ \A c \in Clients : caller[c].pc \in AcceptingPc =>
          worker[caller[c].turn].pc = "none"
    /\ \A c, d \in Clients :
          (/\ caller[c].pc \in AcceptingPc /\ caller[d].pc \in AcceptingPc
           /\ caller[c].turn = caller[d].turn) => c = d
NewSessionFirst ==
    \A u \in Turns :
        worker[u].pc = "storing" /\ ~worker[u].stored => turns[u].ordinal = 1
SessionsOK == \A t \in Tasks : SessionOK(t)

IInv ==
    /\ TypeOK
    /\ RowsOK
    /\ CallersOK
    /\ WorkersOK
    /\ FinalsOK
    /\ RuntimesOK
    /\ OrdinalsContiguous
    /\ SpawnedOnce
    /\ FinishingOK
    /\ NewSessionFirst
    /\ SessionsOK
-----------------------------------------------------------------------------
(* Types: the statements and the moves of the actors keep them.            *)

USE DEF Actors

LEMMA TaskStatements ==
    ASSUME tasks \in [Tasks -> TaskRow], NEW t
    PROVE  /\ \A s \in TaskStatus :
                 UpdateTaskStatus(t, s) => tasks' \in [Tasks -> TaskRow]
           /\ \A s \in TaskStatus, u \in Turns \cup {NoTurn} :
                 UpdateTaskProgress(t, s, u) => tasks' \in [Tasks -> TaskRow]
           /\ \A u \in Turns : StoreSession(t, u) => tasks' \in [Tasks -> TaskRow]
           /\ \A n \in Nat :
                 t \in Tasks /\ CommitTimeline(t, n) => tasks' \in [Tasks -> TaskRow]
<1>1. \A s \in TaskStatus : UpdateTaskStatus(t, s) => tasks' \in [Tasks -> TaskRow]
  BY ZenonT(60) DEF UpdateTaskStatus, TaskRow
<1>2. \A s \in TaskStatus, u \in Turns \cup {NoTurn} :
        UpdateTaskProgress(t, s, u) => tasks' \in [Tasks -> TaskRow]
  <2>1. \A r \in TaskRow, s \in TaskStatus, u \in Turns \cup {NoTurn} :
           [r EXCEPT !.status = s, !.last = u] \in TaskRow
    BY DEF TaskRow
  <2> SUFFICES ASSUME NEW s \in TaskStatus, NEW u \in Turns \cup {NoTurn},
                      UpdateTaskProgress(t, s, u)
               PROVE  tasks' \in [Tasks -> TaskRow]
    OBVIOUS
  <2>2. CASE t \in Tasks
    <3>1. [tasks[t] EXCEPT !.status = s, !.last = u] \in TaskRow
      BY <2>1, <2>2
    <3> QED BY <3>1 DEF UpdateTaskProgress
  <2>3. CASE t \notin Tasks
    BY <2>3 DEF UpdateTaskProgress
  <2> QED BY <2>2, <2>3
<1>3. \A u \in Turns : StoreSession(t, u) => tasks' \in [Tasks -> TaskRow]
  BY ZenonT(60) DEF StoreSession, TaskRow
<1>4. \A n \in Nat : t \in Tasks /\ CommitTimeline(t, n) => tasks' \in [Tasks -> TaskRow]
  <2>1. \A r \in TaskRow, n \in Nat : [r EXCEPT !.seq = n + 1] \in TaskRow
    BY DEF TaskRow
  <2> QED BY <2>1 DEF CommitTimeline
<1> QED BY <1>1, <1>2, <1>3, <1>4

LEMMA TurnStatements ==
    ASSUME turns \in [Turns -> TurnRow], NEW u
    PROVE  /\ \A t \in Tasks, n \in Nat :
                 InsertTurn(u, t, n) => turns' \in [Turns -> TurnRow]
           /\ \A s \in TurnStatus :
                 UpdateTurnStatus(u, s) => turns' \in [Turns -> TurnRow]
           /\ \A c \in Cause \cup {None} :
                 SetTerminationCause(u, c) => turns' \in [Turns -> TurnRow]
           /\ \A o \in Outcome, c \in Cause \cup {None} :
                 WriteResult(u, o, c) => turns' \in [Turns -> TurnRow]
<1>0. \A t \in Tasks, n \in Nat : QueuedTurn(t, n) \in TurnRow
  BY DEF QueuedTurn, TurnRow, TurnStatus
<1>1. \A t \in Tasks, n \in Nat : InsertTurn(u, t, n) => turns' \in [Turns -> TurnRow]
  BY <1>0 DEF InsertTurn
<1>2. \A s \in TurnStatus : UpdateTurnStatus(u, s) => turns' \in [Turns -> TurnRow]
  BY ZenonT(60) DEF UpdateTurnStatus, TurnRow
<1>3. \A c \in Cause \cup {None} : SetTerminationCause(u, c) => turns' \in [Turns -> TurnRow]
  <2> SUFFICES ASSUME NEW c \in Cause \cup {None}, SetTerminationCause(u, c)
               PROVE  turns' \in [Turns -> TurnRow]
    OBVIOUS
  <2>1. \A r \in TurnRow : \A d \in Cause \cup {None} : [r EXCEPT !.cause = d] \in TurnRow
    BY DEF TurnRow
  <2> DEFINE d == IF turns[u].cause = None THEN c ELSE turns[u].cause
  <2>2. CASE u \in Turns
    <3>1. turns[u] \in TurnRow /\ d \in Cause \cup {None}
      BY <2>2 DEF TurnRow
    <3>2. [turns[u] EXCEPT !.cause = d] \in TurnRow
      BY <2>1, <3>1
    <3> QED BY <3>2 DEF SetTerminationCause
  <2>3. CASE u \notin Turns
    BY <2>3 DEF SetTerminationCause
  <2> QED BY <2>2, <2>3
<1>4. \A o \in Outcome, c \in Cause \cup {None} :
        WriteResult(u, o, c) => turns' \in [Turns -> TurnRow]
  <2> SUFFICES ASSUME NEW o \in Outcome, NEW c \in Cause \cup {None}, WriteResult(u, o, c)
               PROVE  turns' \in [Turns -> TurnRow]
    OBVIOUS
  <2>1. \A v \in Turns : [status |-> o, task |-> turns[v].task,
               ordinal |-> turns[v].ordinal, cause |-> c, result |-> o] \in TurnRow
    BY DEF TurnRow, TurnStatus
  <2> QED BY <2>1 DEF WriteResult
<1> QED BY <1>1, <1>2, <1>3, <1>4

LEMMA CallerMoves ==
    ASSUME caller \in [Clients -> Caller], NEW c \in Clients
    PROVE  /\ \A pc \in CallerPc : Goto(c, pc) => caller' \in [Clients -> Caller]
           /\ \A a \in Answer : Reply(c, a) => caller' \in [Clients -> Caller]
<1>0. \A a \in Answer : Told(caller[c].turn, a) \in Caller
  BY DEF Told, NoCaller, Caller, CallerPc, Answer, TurnStatus
<1>1. \A pc \in CallerPc : Goto(c, pc) => caller' \in [Clients -> Caller]
  BY DEF Goto, Caller
<1>2. \A a \in Answer : Reply(c, a) => caller' \in [Clients -> Caller]
  BY <1>0 DEF Reply
<1> QED BY <1>1, <1>2

LEMMA WorkerMoves ==
    ASSUME worker \in [Turns -> Worker], NEW u
    PROVE  /\ \A pc \in WorkerPc : GotoWorker(u, pc) => worker' \in [Turns -> Worker]
           /\ LeaveWorker(u) => worker' \in [Turns -> Worker]
<1>1. \A pc \in WorkerPc : GotoWorker(u, pc) => worker' \in [Turns -> Worker]
  BY DEF GotoWorker, Worker
<1>0. \A pc \in WorkerPc : [NoWorker EXCEPT !.pc = pc] \in Worker
  BY DEF NoWorker, Worker, StopReason
<1>2. LeaveWorker(u) => worker' \in [Turns -> Worker]
  BY <1>0 DEF LeaveWorker, WorkerPc
<1> QED BY <1>1, <1>2

LEMMA FinalMoves ==
    ASSUME final \in [Actors -> Final], NEW a \in Actors
    PROVE  /\ \A pc \in FinalPc : GotoFinal(a, pc) => final' \in [Actors -> Final]
           /\ \A pc \in FinalPc, mode \in {"run", "cancelled"}, u \in Turns \cup {NoTurn},
                 o \in Outcome, c \in Cause \cup {None} :
                 BeginFinal(a, pc, mode, u, o, c) => final' \in [Actors -> Final]
<1>1. \A pc \in FinalPc : GotoFinal(a, pc) => final' \in [Actors -> Final]
  BY DEF GotoFinal, Final
<1>2. \A pc \in FinalPc, mode \in {"run", "cancelled"}, u \in Turns \cup {NoTurn},
         o \in Outcome, c \in Cause \cup {None} :
         BeginFinal(a, pc, mode, u, o, c) => final' \in [Actors -> Final]
  BY DEF BeginFinal, Final
<1> QED BY <1>1, <1>2

LEMMA OutcomeTypes ==
    /\ \A stop, cause : OutcomeOf(stop, cause) \in Outcome
    /\ \A o : MirrorStatus(o) \in TaskStatus
    /\ None \notin Outcome
  BY DEF OutcomeOf, MirrorStatus, Outcome, TaskStatus, None

(* The fields the steps read have their types.                             *)
LEMMA FieldTypes ==
    ASSUME TypeOK
    PROVE  /\ tasks \in [Tasks -> TaskRow] /\ turns \in [Turns -> TurnRow]
           /\ runtime \in [Turns -> Runtime] /\ worker \in [Turns -> Worker]
           /\ final \in [Actors -> Final] /\ caller \in [Clients -> Caller]
           /\ \A t \in Tasks : /\ tasks[t].seq \in Nat
                               /\ tasks[t].session \in Turns \cup {NoTurn}
           /\ \A u \in Turns : /\ turns[u].task \in Tasks \cup {None}
                               /\ turns[u].ordinal \in Nat
                               /\ turns[u].status \in TurnStatus
                               /\ turns[u].result \in Outcome \cup {None}
                               /\ turns[u].cause \in Cause \cup {None}
           /\ \A u \in Turns : /\ runtime[u].cause \in Cause \cup {None}
                               /\ runtime[u].result \in Outcome \cup {None}
           /\ \A u \in Turns : /\ worker[u].base \in Nat
                               /\ worker[u].stop \in StopReason
                               /\ worker[u].stored \in BOOLEAN
           /\ \A a \in Actors : /\ final[a].turn \in Turns \cup {NoTurn}
                                /\ final[a].outcome \in Outcome
                                /\ final[a].cause \in Cause \cup {None}
           /\ \A c \in Clients : /\ caller[c].task \in Tasks \cup {None}
                                 /\ caller[c].turn \in Turns \cup {NoTurn}
                                 /\ caller[c].ordinal \in Nat
                                 /\ caller[c].base \in Nat
                                 /\ caller[c].cause \in Cause \cup {None}
                                 /\ caller[c].answer \in Answer
  BY DEF TypeOK, TaskRow, TurnRow, Runtime, Worker, Final, Caller

LEMMA ArriveType ==
    ASSUME TypeOK, CallersOK, NEW c \in Clients, Arrive(c)
    PROVE  TypeOK'
<1> USE FieldTypes
<1>1. ASSUME NEW t \in Tasks, NEW u \in Turns, StartAccept(c, t, u) PROVE TypeOK'
  <2>1. [status |-> "queued", last |-> u, seq |-> 0, session |-> NoTurn] \in TaskRow
    BY DEF TaskRow, TaskStatus, ActiveStatus
  <2>2. QueuedTurn(t, 1) \in TurnRow
    BY DEF QueuedTurn, TurnRow, TurnStatus
  <2>3. [NoCaller EXCEPT !.pc = "seed", !.task = t, !.turn = u] \in Caller
    BY DEF NoCaller, Caller, CallerPc, TurnStatus, Answer
  <2> QED BY <1>1, <2>1, <2>2, <2>3 DEF StartAccept, AcceptStart, TypeOK
<1>2. ASSUME NEW t \in Tasks, ContinueRead(c, t) PROVE TypeOK'
  <2>1. [NoCaller EXCEPT !.pc = "list", !.task = t, !.base = tasks[t].seq] \in Caller
    BY DEF NoCaller, Caller, CallerPc, TurnStatus, Answer
  <2> QED BY <1>2, <2>1 DEF ContinueRead, store, TypeOK
<1>3. \A u \in Turns : Told(u, turns[u].result) \in Caller
  BY ZenonT(60) DEF Told, NoCaller, Caller, CallerPc, TurnStatus, Answer
<1>4. ASSUME NEW u \in Turns, NEW k \in Causes, CancelRead(c, u, k) PROVE TypeOK'
  <2>1. [NoCaller EXCEPT !.pc = "cause", !.turn = u, !.snap = turns[u].status,
                         !.cause = k] \in Caller
    BY LifecycleAssumption DEF NoCaller, Caller, CallerPc, Answer
  <2> QED BY <1>3, <1>4, <2>1 DEF CancelRead, store, TypeOK
<1>5. ASSUME NEW u \in Turns, WaitRead(c, u) PROVE TypeOK'
  <2>1. [NoCaller EXCEPT !.pc = "lookup", !.turn = u] \in Caller
    BY DEF NoCaller, Caller, CallerPc, TurnStatus, Answer
  <2> QED BY <1>3, <1>5, <2>1 DEF WaitRead, store, TypeOK
<1> QED BY <1>1, <1>2, <1>4, <1>5 DEF Arrive

LEMMA ContinueType ==
    ASSUME TypeOK, CallersOK, NEW c \in Clients,
           ContinueList(c) \/ (\E u \in Turns : ContinueInsert(c, u))
              \/ ContinueRefused(c) \/ ContinueQueue(c) \/ Seed(c) \/ Spawn(c)
    PROVE  TypeOK'
<1> USE FieldTypes, CallerMoves
<1>1. CASE ContinueList(c)
  <2>1. \A r \in Caller, n \in Nat : [r EXCEPT !.pc = "insert", !.ordinal = n] \in Caller
    BY DEF Caller, CallerPc
  <2>2. NextOrdinal(caller[c].task) \subseteq Nat
    BY DEF NextOrdinal, TurnsOf
  <2>3. PICK n \in Nat :
          caller' = [caller EXCEPT ![c] = [@ EXCEPT !.pc = "insert", !.ordinal = n]]
    BY <1>1, <2>2 DEF ContinueList
  <2>4. caller' \in [Clients -> Caller]
    BY <2>1, <2>3
  <2> QED BY <1>1, <2>4 DEF ContinueList, store, TypeOK
<1>2. ASSUME NEW u \in Turns, ContinueInsert(c, u) PROVE TypeOK'
  <2>1. \A r \in Caller : [r EXCEPT !.pc = "queue", !.turn = u] \in Caller
    BY DEF Caller, CallerPc
  <2>2. caller[c].task \in Tasks
    BY <1>2 DEF CallersOK, CallerOK, ContinueInsert, HoldsTask
  <2>3. turns' \in [Turns -> TurnRow]
    BY <1>2, <2>2, TurnStatements DEF ContinueInsert
  <2> QED BY <1>2, <2>1, <2>3 DEF ContinueInsert, TypeOK
<1>3. CASE ContinueRefused(c)
  BY <1>3 DEF ContinueRefused, store, TypeOK, Answer
<1>4. CASE ContinueQueue(c)
  <2>1. tasks' \in [Tasks -> TaskRow]
    BY <1>4, TaskStatements DEF ContinueQueue, TaskStatus, ActiveStatus
  <2> QED BY <1>4, <2>1 DEF ContinueQueue, CallerPc, TypeOK
<1>5. CASE Seed(c)
  <2>1. caller[c].task \in Tasks
    BY <1>5 DEF CallersOK, CallerOK, Seed, HoldsTask, AcceptingPc
  <2>2. tasks' \in [Tasks -> TaskRow]
    BY <1>5, <2>1, TaskStatements DEF Seed
  <2> QED BY <1>5, <2>2 DEF Seed, CallerPc, Answer, TypeOK
<1>6. CASE Spawn(c)
  <2>1. FreshRuntime \in Runtime
    BY DEF FreshRuntime, NoRuntime, Runtime
  <2>2. [NoWorker EXCEPT !.pc = "spawned"] \in Worker
    BY DEF NoWorker, Worker, WorkerPc, StopReason
  <2> QED BY <1>6, <2>1, <2>2 DEF Spawn, store, Answer, TypeOK
<1> QED BY <1>1, <1>2, <1>3, <1>4, <1>5, <1>6

LEMMA CancelWaitType ==
    ASSUME TypeOK, CallersOK, NEW c \in Clients,
           \/ CancelCause(c) \/ CancelMark(c) \/ CancelFlag(c)
           \/ CancelPoll(c) \/ CancelForce(c)
           \/ WaitLookup(c) \/ WaitParked(c) \/ WaitPolling(c)
    PROVE  TypeOK'
<1> USE FieldTypes, CallerMoves, FinalMoves, OutcomeTypes
<1>0. \A pc \in HoldsTurn : caller[c].pc = pc => caller[c].turn \in Turns
  BY DEF CallersOK, CallerOK
<1>1. CASE CancelCause(c)
  <2>1. turns' \in [Turns -> TurnRow]
    BY <1>1, TurnStatements DEF CancelCause
  <2> QED BY <1>1, <2>1 DEF CancelCause, CallerPc, TypeOK
<1>2. CASE CancelMark(c)
  <2>1. tasks' \in [Tasks -> TaskRow]
    BY <1>2, TaskStatements DEF CancelMark, TaskStatus, ActiveStatus
  <2> QED BY <1>2, <2>1 DEF CancelMark, CallerPc, TypeOK
<1>3. CASE CancelFlag(c)
  <2>1. \A r \in Runtime : [r EXCEPT !.cancel = TRUE, !.cause = caller[c].cause] \in Runtime
    BY DEF Runtime
  <2>2. runtime' \in [Turns -> Runtime]
    BY <1>3, <2>1 DEF CancelFlag
  <2>3. final' \in [Actors -> Final]
    BY <1>3 DEF CancelFlag, BeginCancelled, FinalPc
  <2> QED BY <1>3, <2>2, <2>3 DEF CancelFlag, CallerPc, store, TypeOK
<1>4. CASE CancelPoll(c)
  <2>1. turns[caller[c].turn].result \in Answer
    BY <1>0, <1>4 DEF CancelPoll, HoldsTurn, Answer
  <2> QED BY <1>4, <2>1 DEF CancelPoll, store, TypeOK
<1>5. CASE CancelForce(c)
  BY <1>5 DEF CancelForce, BeginCancelled, FinalPc, CallerPc, store, TypeOK
<1>6. CASE WaitLookup(c)
  BY <1>6 DEF WaitLookup, CallerPc, store, TypeOK
<1>7. CASE WaitParked(c)
  <2>1. runtime[caller[c].turn].result \in Answer
    BY <1>0, <1>7 DEF WaitParked, HoldsTurn, Answer
  <2> QED BY <1>7, <2>1 DEF WaitParked, store, TypeOK
<1>8. CASE WaitPolling(c)
  <2>1. turns[caller[c].turn].result \in Answer /\ None \in Answer
    BY <1>0, <1>8 DEF WaitPolling, HoldsTurn, Answer
  <2> QED BY <1>8, <2>1 DEF WaitPolling, store, TypeOK
<1> QED BY <1>1, <1>2, <1>3, <1>4, <1>5, <1>6, <1>7, <1>8

(* Whoever finalizes a turn finds its row and the row of its task.         *)
LEMMA TaskOfFinal ==
    ASSUME RowsOK, FinalsOK, NEW a \in Actors, final[a].pc # "idle"
    PROVE  /\ final[a].turn \in Turns /\ TaskOf(final[a].turn) \in Tasks
           /\ a \in Turns => final[a].turn = a
  BY DEF RowsOK, FinalsOK, FinalOK, TaskOf

LEMMA WorkerStepType ==
    ASSUME TypeOK, RowsOK, WorkersOK, FinalsOK, NEW u \in Turns, WorkerStep(u)
    PROVE  TypeOK'
<1> USE FieldTypes, WorkerMoves, FinalMoves, OutcomeTypes
<1>0. worker[u].pc # "none" => TaskOf(u) \in Tasks
  BY DEF WorkersOK, RowsOK, TaskOf
<1>1. CASE MarkTaskStarting(u) \/ MarkTaskRunning(u)
  <2>1. tasks' \in [Tasks -> TaskRow]
    BY <1>1, TaskStatements DEF MarkTaskStarting, MarkTaskRunning, TaskStatus, ActiveStatus
  <2> QED BY <1>1, <2>1 DEF MarkTaskStarting, MarkTaskRunning, WorkerPc, TypeOK
<1>2. CASE MarkTurnStarting(u) \/ MarkTurnRunning(u) \/ Prompt(u)
  <2>1. turns' \in [Turns -> TurnRow]
    BY <1>2, TurnStatements DEF MarkTurnStarting, MarkTurnRunning, Prompt, TurnStatus
  <2> QED BY <1>2, <2>1 DEF MarkTurnStarting, MarkTurnRunning, Prompt, WorkerPc, TypeOK
<1>3. CASE Gate(u)
  BY <1>3 DEF Gate, BeginCancelled, FinalPc, WorkerPc, store, TypeOK
<1>4. CASE Resolve(u)
  <2>1. \A r \in Worker, b \in BOOLEAN : [r EXCEPT !.pc = "running", !.stored = b] \in Worker
    BY DEF Worker, WorkerPc
  <2> QED BY <1>4, <2>1 DEF Resolve, store, TypeOK
<1>5. CASE KeepSession(u)
  <2>1. [worker[u] EXCEPT !.pc = "prompt", !.stored = FALSE] \in Worker
    BY ZenonT(60) DEF Worker, WorkerPc
  <2>2. tasks' \in [Tasks -> TaskRow]
    <3>1. tasks \in [Tasks -> TaskRow]
      BY DEF TypeOK
    <3>2. StoreSession(TaskOf(u), u) => tasks' \in [Tasks -> TaskRow]
      BY <3>1, TaskStatements
    <3> QED BY <1>5, <3>1, <3>2 DEF KeepSession
  <2> QED BY <1>5, <2>1, <2>2 DEF KeepSession, TypeOK
<1>6. CASE SeeCancel(u)
  BY <1>6 DEF SeeCancel, WorkerPc, store, TypeOK
<1>7. CASE Ingest(u)
  <2>1. [worker[u] EXCEPT !.pc = "loop", !.base = 0] \in Worker
    BY ZenonT(60) DEF Worker, WorkerPc
  <2>2. tasks' \in [Tasks -> TaskRow]
    <3>1. tasks \in [Tasks -> TaskRow] /\ worker[u].base \in Nat
      BY DEF TypeOK, Worker
    <3>2. worker[u].pc # "none" /\ CommitTimeline(TaskOf(u), worker[u].base)
      BY <1>7 DEF Ingest
    <3>3. \A n \in Nat : TaskOf(u) \in Tasks /\ CommitTimeline(TaskOf(u), n)
                              => tasks' \in [Tasks -> TaskRow]
      BY <3>1, TaskStatements
    <3> QED BY <1>0, <3>1, <3>2, <3>3
  <2> QED BY <1>7, <2>1, <2>2 DEF Ingest, TypeOK
<1>8. CASE Reap(u)
  BY <1>8 DEF Reap, FinalPc, store, TypeOK
<1>9. CASE Flush(u)
  <2>1. \A r \in Worker, n \in Nat : [r EXCEPT !.base = n] \in Worker
    BY DEF Worker
  <2>2. worker' \in [Turns -> Worker]
    BY <1>0, <1>9, <2>1, TaskOfFinal DEF Flush
  <2> QED BY <1>9, <2>2 DEF Flush, FinalPc, store, TypeOK
<1>10. CASE FlushCommit(u)
  <2>1. tasks' \in [Tasks -> TaskRow]
    BY <1>10, TaskOfFinal, TaskStatements DEF FlushCommit
  <2> QED BY <1>10, <2>1 DEF FlushCommit, FinalPc, TypeOK
<1> QED BY <1>1, <1>2, <1>3, <1>4, <1>5, <1>6, <1>7, <1>8, <1>9, <1>10
        DEF WorkerStep

LEMMA AgentStepType ==
    ASSUME TypeOK, RowsOK, WorkersOK, NEW u \in Turns, AgentStep(u)
    PROVE  TypeOK'
<1> USE FieldTypes, WorkerMoves, FinalMoves, OutcomeTypes
<1>0. TaskOf(u) \in Tasks \/ worker[u].pc = "none"
  BY DEF WorkersOK, RowsOK, TaskOf
<1>1. Fail(u) => /\ final' \in [Actors -> Final]
                 /\ worker' \in [Turns -> Worker]
  BY DEF Fail, FinalPc, Outcome
<1>2. CASE ResolveFails(u) \/ OpenFails(u) \/ PromptFails(u) \/ ReadFails(u)
  BY <1>1, <1>2 DEF ResolveFails, OpenFails, PromptFails, ReadFails, store, TypeOK
<1>3. CASE OpenSession(u)
  BY <1>3 DEF OpenSession, WorkerPc, store, TypeOK
<1>4. CASE AgentLine(u)
  <2>1. \A r \in Worker, n \in Nat :
          [r EXCEPT !.pc = "ingesting", !.base = n] \in Worker
    BY DEF Worker, WorkerPc
  <2> QED BY <1>0, <1>4, <2>1 DEF AgentLine, Listening, store, TypeOK
<1>5. ASSUME NEW s \in StopReasons, AgentEnds(u, s) PROVE TypeOK'
  <2>1. \A r \in Worker : [r EXCEPT !.pc = "reap", !.stop = s] \in Worker
    BY LifecycleAssumption DEF Worker, WorkerPc
  <2> QED BY <1>5, <2>1 DEF AgentEnds, store, TypeOK
<1> QED BY <1>2, <1>3, <1>4, <1>5 DEF AgentStep

LEMMA FinalStepType ==
    ASSUME TypeOK, RowsOK, FinalsOK, NEW a \in Actors, FinalStep(a)
    PROVE  TypeOK'
<1> USE FieldTypes, FinalMoves, CallerMoves, OutcomeTypes
<1> DEFINE u == final[a].turn
<1>0. u \in Turns /\ TaskOf(u) \in Tasks
  BY TaskOfFinal DEF FinalStep, FinalRead, FinalCheck, FinalWrite, FinalMirror, Publish
<1>1. ASSUME NEW o \in Answer, LeaveFinal(a, o)
      PROVE  /\ final' \in [Actors -> Final]
             /\ caller' \in [Clients -> Caller]
             /\ worker' \in [Turns -> Worker]
  <2>1. NoFinal \in Final
    BY DEF NoFinal, Final, FinalPc, Outcome
  <2>2. [NoWorker EXCEPT !.pc = "done"] \in Worker
    BY DEF NoWorker, Worker, WorkerPc, StopReason
  <2> QED BY <1>1, <2>1, <2>2 DEF LeaveFinal
<1>2. Outcome \cup {None} = Answer
  BY DEF Answer
<1>3. CASE FinalRead(a)
  BY <1>0, <1>1, <1>2, <1>3 DEF FinalRead, FinalPc, store, TypeOK
<1>4. CASE FinalCheck(a)
  BY <1>0, <1>1, <1>2, <1>4 DEF FinalCheck, FinalPc, store, TypeOK
<1>5. CASE FinalWrite(a)
  <2>1. turns' \in [Turns -> TurnRow]
    BY <1>5, TurnStatements DEF FinalWrite
  <2> QED BY <1>5, <2>1 DEF FinalWrite, FinalPc, TypeOK
<1>6. CASE FinalMirror(a)
  <2>1. tasks' \in [Tasks -> TaskRow]
    BY <1>0, <1>6, TaskStatements DEF FinalMirror
  <2> QED BY <1>6, <2>1 DEF FinalMirror, FinalPc, TypeOK
<1>7. CASE Publish(a)
  <2>1. \A r \in Runtime, o \in Outcome :
          /\ [r EXCEPT !.result = o, !.mapped = FALSE] \in Runtime
          /\ [r EXCEPT !.result = o] \in Runtime
    BY DEF Runtime
  <2>2. runtime' \in [Turns -> Runtime]
    BY <1>7, <2>1 DEF Publish
  <2> QED BY <1>0, <1>1, <1>2, <1>7, <2>2 DEF Publish, store, TypeOK
<1> QED BY <1>3, <1>4, <1>5, <1>6, <1>7 DEF FinalStep

LEMMA CrashType == ASSUME TypeOK, Crash PROVE TypeOK'
<1>1. NoRuntime \in Runtime
  BY DEF NoRuntime, Runtime
<1>2. NoWorker \in Worker
  BY DEF NoWorker, Worker, WorkerPc, StopReason
<1>3. NoFinal \in Final
  BY DEF NoFinal, Final, FinalPc, Outcome
<1>4. NoCaller \in Caller
  BY DEF NoCaller, Caller, CallerPc, TurnStatus, Answer
<1> QED BY <1>1, <1>2, <1>3, <1>4, LifecycleAssumption DEF Crash, store, TypeOK

LEMMA TypeOKStep ==
    ASSUME TypeOK, RowsOK, CallersOK, WorkersOK, FinalsOK, Next
    PROVE  TypeOK'
<1>1. ASSUME NEW c \in Clients, ClientStep(c) PROVE TypeOK'
  BY <1>1, ContinueType, CancelWaitType DEF ClientStep
<1> QED BY <1>1, ArriveType, WorkerStepType, AgentStepType, FinalStepType, CrashType
        DEF Next

-----------------------------------------------------------------------------
(* What a step may do to the rows.                                         *)

RowsKept ==
    /\ \A v \in Turns :
          /\ Accepted(v)' <=> Accepted(v)
          /\ turns'[v].task = turns[v].task /\ turns'[v].ordinal = turns[v].ordinal
          /\ Recorded(v) => Recorded(v)'
          /\ ~Accepted(v) => turns'[v].result = turns[v].result
    /\ \A t \in Tasks : tasks'[t].status = "absent" <=> tasks[t].status = "absent"

RowsGrow ==
    /\ \A v \in Turns :
          /\ Accepted(v) =>
                /\ Accepted(v)'
                /\ turns'[v].task = turns[v].task
                /\ turns'[v].ordinal = turns[v].ordinal
          /\ Recorded(v) => Recorded(v)'
    /\ \A t \in Tasks : tasks[t].status # "absent" => tasks'[t].status # "absent"

(* A request accepts a turn: a new task's first, or a follow-up.           *)
Accepts(c, t, u) ==
    \/ StartAccept(c, t, u)
    \/ ContinueInsert(c, u) /\ t = caller[c].task

LEMMA StatementsKeepRows ==
    ASSUME tasks \in [Tasks -> TaskRow], turns \in [Turns -> TurnRow]
    PROVE  /\ UNCHANGED store => RowsKept
           /\ \A t, s : UpdateTaskStatus(t, s) /\ UNCHANGED turns
                 /\ t \in Tasks /\ tasks[t].status # "absent" /\ s # "absent" => RowsKept
           /\ \A t, s, u : UpdateTaskProgress(t, s, u) /\ UNCHANGED turns
                 /\ t \in Tasks /\ tasks[t].status # "absent" /\ s # "absent" => RowsKept
           /\ \A t, s : StoreSession(t, s) /\ UNCHANGED turns => RowsKept
           /\ \A t, n : CommitTimeline(t, n) /\ UNCHANGED turns => RowsKept
           /\ \A u \in Turns : \A s : UpdateTurnStatus(u, s) /\ UNCHANGED tasks
                 /\ Accepted(u) /\ s # "absent" => RowsKept
           /\ \A u, c : SetTerminationCause(u, c) /\ UNCHANGED tasks => RowsKept
           /\ \A u \in Turns, o \in Outcome : \A c : WriteResult(u, o, c) /\ UNCHANGED tasks
                 /\ Accepted(u) => RowsKept
<1> USE DEF RowsKept, Accepted, Recorded
<1>1. UNCHANGED store => RowsKept
  BY DEF store
<1>2. \A t, s : UpdateTaskStatus(t, s) /\ UNCHANGED turns
         /\ t \in Tasks /\ tasks[t].status # "absent" /\ s # "absent" => RowsKept
  BY DEF UpdateTaskStatus, TaskRow
<1>3. \A t, s, u : UpdateTaskProgress(t, s, u) /\ UNCHANGED turns
         /\ t \in Tasks /\ tasks[t].status # "absent" /\ s # "absent" => RowsKept
  BY DEF UpdateTaskProgress, TaskRow
<1>4. \A t, s : StoreSession(t, s) /\ UNCHANGED turns => RowsKept
  BY DEF StoreSession, TaskRow
<1>5. \A t, n : CommitTimeline(t, n) /\ UNCHANGED turns => RowsKept
  BY DEF CommitTimeline, TaskRow
<1>6. \A u \in Turns : \A s : UpdateTurnStatus(u, s) /\ UNCHANGED tasks
         /\ Accepted(u) /\ s # "absent" => RowsKept
  BY DEF UpdateTurnStatus, TurnRow
<1>7. \A u, c : SetTerminationCause(u, c) /\ UNCHANGED tasks => RowsKept
  BY DEF SetTerminationCause, TurnRow
<1>8. \A u \in Turns, o \in Outcome : \A c : WriteResult(u, o, c) /\ UNCHANGED tasks
         /\ Accepted(u) => RowsKept
  BY DEF WriteResult, TurnRow, Outcome, None
<1> QED BY <1>1, <1>2, <1>3, <1>4, <1>5, <1>6, <1>7, <1>8

(* Only two steps add a turn; no step takes one away.                      *)
LEMMA Footprint ==
    ASSUME TypeOK, RowsOK, CallersOK, WorkersOK, FinalsOK, Next
    PROVE  \/ RowsKept
           \/ \E c \in Clients, t \in Tasks, u \in Turns : Accepts(c, t, u)
<1> USE FieldTypes, StatementsKeepRows
<1>1. ASSUME NEW c \in Clients, Arrive(c),
             \A t \in Tasks, u \in Turns : ~StartAccept(c, t, u)
      PROVE  RowsKept
  BY <1>1 DEF Arrive, ContinueRead, CancelRead, WaitRead
<1>2. ASSUME NEW c \in Clients, ClientStep(c), \A u \in Turns : ~ContinueInsert(c, u)
      PROVE  RowsKept
  <2>1. /\ caller[c].pc \in HoldsTask =>
              caller[c].task \in Tasks /\ tasks[caller[c].task].status # "absent"
        /\ caller[c].pc \in HoldsTurn =>
              /\ caller[c].turn \in Turns
              /\ TaskOf(caller[c].turn) \in Tasks
              /\ tasks[TaskOf(caller[c].turn)].status # "absent"
    BY DEF CallersOK, CallerOK, RowsOK, TaskOf
  <2>2. CASE ContinueQueue(c) \/ CancelMark(c)
    BY <2>1, <2>2 DEF ContinueQueue, CancelMark, HoldsTask, HoldsTurn, AcceptingPc, TaskOf
  <2>3. CASE Seed(c) \/ CancelCause(c)
    BY <2>3 DEF Seed, CancelCause
  <2>4. CASE UNCHANGED store
    BY <2>4
  <2> QED BY <1>2, <2>2, <2>3, <2>4
          DEF ClientStep, ContinueList, ContinueRefused, Spawn, CancelFlag, CancelPoll,
              CancelForce, WaitLookup, WaitParked, WaitPolling
<1>3. ASSUME NEW u \in Turns, WorkerStep(u) PROVE RowsKept
  <2>1. worker[u].pc # "none" =>
           /\ Accepted(u) /\ TaskOf(u) \in Tasks
           /\ tasks[TaskOf(u)].status # "absent"
    BY DEF WorkersOK, RowsOK, TaskOf
  <2>2. CASE MarkTaskStarting(u) \/ MarkTaskRunning(u)
    BY <2>1, <2>2 DEF MarkTaskStarting, MarkTaskRunning
  <2>3. CASE MarkTurnStarting(u) \/ MarkTurnRunning(u) \/ Prompt(u)
    BY <2>1, <2>3 DEF MarkTurnStarting, MarkTurnRunning, Prompt
  <2>4. CASE KeepSession(u)
    BY <2>4 DEF KeepSession, store
  <2>5. CASE Ingest(u) \/ FlushCommit(u)
    BY <2>5 DEF Ingest, FlushCommit
  <2>6. CASE UNCHANGED store
    BY <2>6
  <2> QED BY <1>3, <2>2, <2>3, <2>4, <2>5, <2>6
          DEF WorkerStep, Gate, Resolve, SeeCancel, Reap, Flush
<1>4. ASSUME NEW u \in Turns, AgentStep(u) PROVE RowsKept
  BY <1>4 DEF AgentStep, ResolveFails, OpenSession, OpenFails, PromptFails, AgentLine,
              ReadFails, AgentEnds
<1>5. ASSUME NEW a \in Actors, FinalStep(a) PROVE RowsKept
  <2>1. final[a].pc # "idle" =>
           /\ final[a].turn \in Turns /\ Accepted(final[a].turn)
           /\ TaskOf(final[a].turn) \in Tasks
           /\ tasks[TaskOf(final[a].turn)].status # "absent"
    BY DEF FinalsOK, FinalOK, RowsOK, TaskOf
  <2>2. CASE FinalWrite(a)
    BY <2>1, <2>2 DEF FinalWrite
  <2>3. CASE FinalMirror(a)
    <3>1. MirrorStatus(final[a].outcome) # "absent"
      BY DEF MirrorStatus
    <3> QED BY <2>1, <2>3, <3>1 DEF FinalMirror
  <2>4. CASE UNCHANGED store
    BY <2>4
  <2> QED BY <1>5, <2>2, <2>3, <2>4 DEF FinalStep, FinalRead, FinalCheck, Publish
<1>6. CASE Crash
  BY <1>6 DEF Crash
<1>7. ASSUME NEW c \in Clients, NEW u \in Turns, ContinueInsert(c, u)
      PROVE  Accepts(c, caller[c].task, u) /\ caller[c].task \in Tasks
  BY <1>7 DEF Accepts, ContinueInsert, CallersOK, CallerOK, HoldsTask
<1> QED BY <1>1, <1>2, <1>3, <1>4, <1>5, <1>6, <1>7 DEF Next, Accepts

LEMMA AcceptGrows ==
    ASSUME TypeOK, RowsOK, CallersOK, NEW c \in Clients, NEW u \in Turns, NEW t \in Tasks,
           Accepts(c, t, u)
    PROVE  /\ \A v \in Turns \ {u} : turns'[v] = turns[v]
           /\ ~Accepted(u)
           /\ turns'[u].status = "queued" /\ turns'[u].task = t
           /\ turns'[u].result = None
           /\ turns'[u].ordinal >= 1
           /\ \A r \in Tasks \ {t} : tasks'[r] = tasks[r]
           /\ tasks'[t].status # "absent"
           /\ \A v \in TurnsOf(t) : turns[v].ordinal # turns'[u].ordinal
           /\ \/ turns'[u].ordinal = 1
              \/ OrdinalTaken(t, turns'[u].ordinal - 1)
<1> USE FieldTypes
<1>1. CASE StartAccept(c, t, u)
  <2>1. TurnsOf(t) = {}
    BY <1>1 DEF StartAccept, TurnsOf, RowsOK
  <2>2. turns'[u] = QueuedTurn(t, 1) /\ tasks'[t].status = "queued"
    BY <1>1 DEF StartAccept, AcceptStart
  <2> QED BY <1>1, <2>1, <2>2 DEF StartAccept, AcceptStart, QueuedTurn, Accepted
<1>2. CASE ContinueInsert(c, u) /\ t = caller[c].task
  <2>1. turns'[u] = QueuedTurn(t, caller[c].ordinal) /\ tasks' = tasks
    BY <1>2 DEF ContinueInsert, InsertTurn
  <2>2. CallerOK(c) /\ caller[c].pc = "insert" /\ ~OrdinalTaken(t, caller[c].ordinal)
    BY <1>2 DEF ContinueInsert, CallersOK
  <2>3. /\ caller[c].ordinal >= 1 /\ tasks[t].status # "absent"
        /\ caller[c].ordinal = 1 \/ OrdinalTaken(t, caller[c].ordinal - 1)
        /\ \A v \in TurnsOf(t) : turns[v].ordinal # caller[c].ordinal
    BY <1>2, <2>2 DEF CallerOK, HoldsTask, OrdinalTaken
  <2> QED BY <1>2, <2>1, <2>3 DEF ContinueInsert, InsertTurn, QueuedTurn, Accepted
<1> QED BY <1>1, <1>2 DEF Accepts

LEMMA StepGrows ==
    ASSUME TypeOK, RowsOK, CallersOK, WorkersOK, FinalsOK, Next
    PROVE  RowsGrow
<1>1. CASE RowsKept
  BY <1>1 DEF RowsKept, RowsGrow
<1>2. ASSUME NEW c \in Clients, NEW t \in Tasks, NEW u \in Turns,
             Accepts(c, t, u)
      PROVE  RowsGrow
  BY <1>2, AcceptGrows DEF RowsGrow, RowsOK, Accepted, Recorded
<1> QED BY <1>1, <1>2, Footprint

LEMMA RowsStep ==
    ASSUME TypeOK, RowsOK, CallersOK, WorkersOK, FinalsOK, Next
    PROVE  RowsOK'
<1>1. CASE RowsKept
  BY <1>1 DEF RowsKept, RowsOK
<1>2. ASSUME NEW c \in Clients, NEW t \in Tasks, NEW u \in Turns,
             Accepts(c, t, u)
      PROVE  RowsOK'
  BY <1>2, AcceptGrows DEF RowsOK, Accepted
<1> QED BY <1>1, <1>2, Footprint

LEMMA OrdinalsStep ==
    ASSUME TypeOK, RowsOK, CallersOK, WorkersOK, FinalsOK, OrdinalsContiguous, Next
    PROVE  OrdinalsContiguous'
<1>1. CASE RowsKept
  BY <1>1 DEF RowsKept, OrdinalsContiguous
<1>2. ASSUME NEW c \in Clients, NEW t \in Tasks, NEW u \in Turns,
             Accepts(c, t, u)
      PROVE  OrdinalsContiguous'
  <2>1. \A v \in Turns \ {u} : turns'[v] = turns[v] /\ (Accepted(v)' <=> Accepted(v))
    BY <1>2, AcceptGrows DEF Accepted
  <2>2. \A v \in Turns \ {u} :
          Accepted(v) /\ turns[v].task = t => turns[v].ordinal # turns'[u].ordinal
    BY <1>2, AcceptGrows DEF TurnsOf
  <2>3. \/ turns'[u].ordinal = 1
        \/ \E v \in Turns \ {u} : /\ Accepted(v) /\ turns[v].task = t
                                  /\ turns[v].ordinal = turns'[u].ordinal - 1
    BY <1>2, AcceptGrows DEF OrdinalTaken, TurnsOf
  <2>4. turns'[u].task = t /\ ~Accepted(u)
    BY <1>2, AcceptGrows
  <2>5. \A v, w \in Turns :
          Accepted(v)' /\ Accepted(w)' /\ turns'[v].task = turns'[w].task
             /\ turns'[v].ordinal = turns'[w].ordinal => v = w
    BY <2>1, <2>2, <2>4 DEF OrdinalsContiguous
  <2>6. \A w \in Turns : Accepted(w)' =>
          \/ turns'[w].ordinal = 1
          \/ \E v \in Turns : /\ Accepted(v)' /\ turns'[v].task = turns'[w].task
                              /\ turns'[v].ordinal = turns'[w].ordinal - 1
    BY <2>1, <2>3, <2>4 DEF OrdinalsContiguous
  <2> QED BY <2>5, <2>6 DEF OrdinalsContiguous
<1> QED BY <1>1, <1>2, Footprint

-----------------------------------------------------------------------------
(* Requests.                                                               *)

LEMMA CallerKept ==
    ASSUME TypeOK, RowsGrow, NEW d \in Clients, CallerOK(d), caller'[d] = caller[d]
    PROVE  CallerOK(d)'
<1>1. \A t \in Tasks : \A n : OrdinalTaken(t, n) => OrdinalTaken(t, n)'
  BY DEF RowsGrow, OrdinalTaken, TurnsOf
<1> QED BY <1>1 DEF CallerOK, RowsGrow, HoldsTask

(* A request that has ended, whatever it was told.                         *)
LEMMA CallerTold ==
    ASSUME TypeOK, NEW c \in Clients, NEW u, NEW o \in Answer,
           caller' = [caller EXCEPT ![c] = Told(u, o)],
           o \in Outcome => u \in Turns /\ Recorded(u)'
    PROVE  /\ CallerOK(c)' /\ caller'[c].pc = "idle"
           /\ \A d \in Clients \ {c} : caller'[d] = caller[d]
<1>1. caller \in [Clients -> Caller]
  BY DEF TypeOK
<1>2. \/ o \in Outcome /\ caller'[c] = [NoCaller EXCEPT !.turn = u, !.answer = o]
      \/ o \notin Outcome /\ caller'[c] = NoCaller
  BY <1>1 DEF Told
<1>3. /\ caller'[c].pc = "idle"
      /\ \/ caller'[c].answer = None
         \/ caller'[c].answer = o /\ o \in Outcome /\ caller'[c].turn = u
  <2>1. LET q == [NoCaller EXCEPT !.turn = u, !.answer = o]
        IN  q.pc = "idle" /\ q.answer = o /\ q.turn = u
    BY DEF NoCaller
  <2>2. NoCaller.pc = "idle" /\ NoCaller.answer = None
    BY DEF NoCaller
  <2> QED BY <1>2, <2>1, <2>2
<1>4. CallerOK(c)'
  BY <1>3, OutcomeTypes DEF CallerOK, HoldsTask, HoldsTurn, AcceptingPc, Recorded
<1> QED BY <1>1, <1>3, <1>4

LEMMA CallersStep ==
    ASSUME TypeOK, RowsOK, CallersOK, WorkersOK, FinalsOK, RuntimesOK, Next
    PROVE  CallersOK'
<1> USE FieldTypes, StepGrows
<1> SUFFICES ASSUME NEW d \in Clients PROVE CallerOK(d)'
  BY DEF CallersOK
<1>0. CallerOK(d) /\ (caller'[d] = caller[d] => CallerOK(d)')
  BY CallerKept DEF CallersOK
<1>1. CASE Arrive(d)
  <2>1. ASSUME NEW t \in Tasks, NEW u \in Turns, StartAccept(d, t, u) PROVE CallerOK(d)'
    <3>1. caller'[d] = [NoCaller EXCEPT !.pc = "seed", !.task = t, !.turn = u]
      BY <2>1 DEF StartAccept
    <3>2. Accepted(u)' /\ tasks'[t].status # "absent"
      BY <2>1 DEF StartAccept, AcceptStart, QueuedTurn, Accepted
    <3> QED BY <3>1, <3>2 DEF CallerOK, NoCaller, None, Outcome
  <2>2. ASSUME NEW t \in Tasks, ContinueRead(d, t) PROVE CallerOK(d)'
    <3>1. caller'[d] = [NoCaller EXCEPT !.pc = "list", !.task = t, !.base = tasks[t].seq]
      BY <2>2 DEF ContinueRead
    <3>2. tasks'[t].status # "absent"
      BY <2>2 DEF ContinueRead, store
    <3> QED BY <3>1, <3>2 DEF CallerOK, NoCaller, None, Outcome, HoldsTurn, AcceptingPc
  <2>3. ASSUME NEW u \in Turns, Accepted(u)', turns' = turns, NEW pc \in {"cause", "lookup"},
               \/ caller' = [caller EXCEPT ![d] = Told(u, turns[u].result)] /\ Recorded(u)
               \/ \E s, k : caller' = [caller EXCEPT ![d] = [NoCaller EXCEPT
                                !.pc = pc, !.turn = u, !.snap = s, !.cause = k]]
        PROVE  CallerOK(d)'
    <3>1. CASE caller' = [caller EXCEPT ![d] = Told(u, turns[u].result)] /\ Recorded(u)
      BY <2>3, <3>1, CallerTold DEF Answer, Recorded
    <3>2. ASSUME NEW s, NEW k, caller' = [caller EXCEPT ![d] = [NoCaller EXCEPT
                                !.pc = pc, !.turn = u, !.snap = s, !.cause = k]]
          PROVE  CallerOK(d)'
      BY <2>3, <3>2 DEF CallerOK, NoCaller, None, Outcome, HoldsTask, AcceptingPc
    <3> QED BY <2>3, <3>1, <3>2
  <2>4. ASSUME NEW u \in Turns, NEW k \in Causes, CancelRead(d, u, k) PROVE CallerOK(d)'
    <3>1. Accepted(u)' /\ turns' = turns
      BY <2>4 DEF CancelRead, store, Accepted
    <3> QED BY <2>3, <2>4, <3>1 DEF CancelRead
  <2>5. ASSUME NEW u \in Turns, WaitRead(d, u) PROVE CallerOK(d)'
    <3>1. Accepted(u)' /\ turns' = turns
      BY <2>5 DEF WaitRead, store, Accepted
    <3>2. CASE Recorded(u)
      BY <2>3, <2>5, <3>1, <3>2 DEF WaitRead
    <3>3. CASE ~Recorded(u)
      <4>1. caller'[d] = [NoCaller EXCEPT !.pc = "lookup", !.turn = u]
        BY <2>5, <3>3 DEF WaitRead
      <4> QED BY <3>1, <4>1 DEF CallerOK, NoCaller, None, Outcome, HoldsTask, AcceptingPc
    <3> QED BY <3>2, <3>3
  <2> QED BY <1>1, <2>1, <2>2, <2>4, <2>5 DEF Arrive
<1>2. CASE ClientStep(d)
  <2>1. ASSUME NEW pc \in CallerPc, Goto(d, pc), pc # "insert",
               caller[d].pc # "idle",
               pc \in HoldsTask => caller[d].pc \in HoldsTask,
               pc \in HoldsTurn => caller[d].pc \in HoldsTurn
        PROVE  CallerOK(d)'
    <3>1. caller'[d] = [caller[d] EXCEPT !.pc = pc]
      BY <2>1 DEF Goto
    <3> QED BY <1>0, <2>1, <3>1, OutcomeTypes DEF CallerOK, RowsGrow, Caller
  <2>2. ASSUME NEW o \in Answer, Reply(d, o), NEW u, u = caller[d].turn,
               o \in Outcome => u \in Turns /\ Recorded(u)'
        PROVE  CallerOK(d)'
    BY <2>2, CallerTold DEF Reply
  <2>3. CASE ContinueList(d)
    <3>1. caller[d].task \in Tasks /\ tasks'[caller[d].task].status # "absent"
      BY <1>0, <2>3 DEF ContinueList, CallerOK, HoldsTask, RowsGrow
    <3>2. PICK n \in NextOrdinal(caller[d].task) :
            caller' = [caller EXCEPT ![d] = [@ EXCEPT !.pc = "insert", !.ordinal = n]]
      BY <2>3 DEF ContinueList
    <3>3. /\ n \in Nat /\ n >= 1
          /\ n = 1 \/ OrdinalTaken(caller[d].task, n - 1)
      BY DEF NextOrdinal, OrdinalTaken, TurnsOf
    <3>4. n = 1 \/ OrdinalTaken(caller[d].task, n - 1)'
      BY <3>3, <2>3 DEF ContinueList, store, OrdinalTaken, TurnsOf, Accepted
    <3>5. caller'[d] = [caller[d] EXCEPT !.pc = "insert", !.ordinal = n]
      BY <3>2
    <3>6. /\ caller'[d].pc = "insert" /\ caller'[d].ordinal = n
          /\ caller'[d].task = caller[d].task /\ caller'[d].answer = None
      <4>1. \A r \in Caller : LET q == [r EXCEPT !.pc = "insert", !.ordinal = n]
                               IN  /\ q.pc = "insert" /\ q.ordinal = n
                                   /\ q.task = r.task /\ q.answer = r.answer
        BY DEF Caller
      <4>2. caller[d] \in Caller /\ caller[d].answer = None
        BY <1>0, <2>3 DEF ContinueList, CallerOK
      <4> QED BY <3>5, <4>1, <4>2
    <3> QED BY <3>1, <3>3, <3>4, <3>6, OutcomeTypes DEF CallerOK, HoldsTurn, AcceptingPc
  <2>4. ASSUME NEW u \in Turns, ContinueInsert(d, u) PROVE CallerOK(d)'
    <3>1. caller'[d] = [caller[d] EXCEPT !.pc = "queue", !.turn = u]
      BY <2>4 DEF ContinueInsert
    <3>2. /\ caller'[d].pc = "queue" /\ caller'[d].turn = u
          /\ caller'[d].task = caller[d].task /\ caller'[d].answer = None
      BY <1>0, <2>4, <3>1 DEF ContinueInsert, CallerOK, Caller
    <3>3. Accepted(u)'
      BY <2>4 DEF ContinueInsert, InsertTurn, QueuedTurn, Accepted
    <3>4. caller[d].task \in Tasks /\ tasks'[caller[d].task].status # "absent"
      BY <1>0, <2>4 DEF ContinueInsert, CallerOK, HoldsTask
    <3> QED BY <3>2, <3>3, <3>4, OutcomeTypes DEF CallerOK
  <2>5. CASE \/ ContinueQueue(d) \/ Seed(d) \/ CancelCause(d) \/ CancelMark(d)
             \/ CancelFlag(d) \/ CancelForce(d) \/ WaitLookup(d)
    BY <2>1, <2>2, <2>5
       DEF ContinueQueue, Seed, CancelCause, CancelMark, CancelFlag, CancelForce,
           WaitLookup, CallerPc, HoldsTask, HoldsTurn, AcceptingPc, Answer, None, Outcome
  <2>6. CASE ContinueRefused(d) \/ Spawn(d)
    BY <2>2, <2>6, OutcomeTypes DEF ContinueRefused, Spawn, Answer
  <2>7. CASE CancelPoll(d) \/ WaitPolling(d)
    <3> DEFINE u == caller[d].turn
    <3>1. u \in Turns /\ turns' = turns /\ turns[u].result \in Answer
      BY <1>0, <2>7 DEF CancelPoll, WaitPolling, CallerOK, HoldsTurn, store, Answer
    <3>2. CASE Reply(d, turns[u].result) /\ Recorded(u)
      BY <2>2, <3>1, <3>2 DEF Recorded
    <3>3. CASE Reply(d, None)
      BY <2>2, <3>3, OutcomeTypes DEF Answer
    <3> QED BY <2>7, <3>2, <3>3 DEF CancelPoll, WaitPolling
  <2>8. CASE WaitParked(d)
    <3> DEFINE u == caller[d].turn
    <3>1. u \in Turns /\ turns' = turns /\ runtime[u].result \in Answer
      BY <1>0, <2>8 DEF WaitParked, CallerOK, HoldsTurn, store, Answer
    <3>2. runtime[u].result \in Outcome => turns'[u].result # None
      BY <3>1, OutcomeTypes DEF RuntimesOK, Recorded
    <3> QED BY <2>2, <2>8, <3>1, <3>2 DEF WaitParked, Recorded
  <2> QED BY <1>2, <2>3, <2>4, <2>5, <2>6, <2>7, <2>8 DEF ClientStep
<1>3. ASSUME NEW a \in Actors, FinalStep(a) PROVE CallerOK(d)'
  <2>1. ASSUME NEW o \in Answer, LeaveFinal(a, o), a = d, NEW u, u = final[a].turn,
               o \in Outcome => Recorded(u)', final[a].pc # "idle"
        PROVE  CallerOK(d)'
    <3>1. u \in Turns /\ caller[d].turn = u
      BY <2>1 DEF FinalsOK, FinalOK
    <3> QED BY <2>1, <3>1, CallerTold DEF LeaveFinal, Reply
  <2>2. ASSUME NEW o \in Answer, LeaveFinal(a, o), a # d PROVE caller'[d] = caller[d]
    BY <2>2 DEF LeaveFinal, Reply
  <2>3. final[a].pc # "idle" => FinalOK(a) /\ final[a].turn \in Turns
    BY DEF FinalsOK, FinalOK
  <2> DEFINE u == final[a].turn
  <2>4. CASE FinalRead(a)
    <3>1. turns' = turns /\ turns[u].result \in Answer
      BY <2>3, <2>4 DEF FinalRead, store, Answer
    <3>2. CASE Recorded(u) /\ LeaveFinal(a, turns[u].result)
      BY <1>0, <2>1, <2>2, <2>4, <3>1, <3>2 DEF FinalRead, Recorded
    <3> QED BY <1>0, <2>4, <3>2 DEF FinalRead
  <2>5. CASE FinalCheck(a)
    <3>1. CASE LeaveFinal(a, None)
      BY <1>0, <2>1, <2>2, <2>5, <3>1, OutcomeTypes DEF FinalCheck, Answer
    <3> QED BY <1>0, <2>5, <3>1 DEF FinalCheck
  <2>6. CASE FinalWrite(a) \/ FinalMirror(a)
    BY <1>0, <2>6 DEF FinalWrite, FinalMirror
  <2>7. CASE Publish(a)
    <3>1. turns'[u].result # None /\ final[a].outcome \in Answer
      BY <2>3, <2>7 DEF Publish, FinalOK, store, Recorded, Answer
    <3> QED BY <1>0, <2>1, <2>2, <2>7, <3>1 DEF Publish, Recorded
  <2> QED BY <1>3, <2>4, <2>5, <2>6, <2>7 DEF FinalStep
<1>4. CASE Crash
  <2>1. caller'[d] = NoCaller
    BY <1>4 DEF Crash
  <2> QED BY <2>1, OutcomeTypes DEF CallerOK, NoCaller, HoldsTask, HoldsTurn, AcceptingPc
<1>5. ASSUME NEW c \in Clients, c # d, Arrive(c) \/ ClientStep(c)
      PROVE  caller'[d] = caller[d]
  BY <1>5 DEF Arrive, StartAccept, ContinueRead, CancelRead, WaitRead,
              ClientStep, ContinueList, ContinueInsert, ContinueRefused, ContinueQueue,
              Seed, Spawn, CancelCause, CancelMark, CancelFlag, CancelPoll, CancelForce,
              WaitLookup, WaitParked, WaitPolling, Goto, Reply
<1>6. ASSUME NEW u \in Turns, WorkerStep(u) \/ AgentStep(u)
      PROVE  caller' = caller
  BY <1>6 DEF WorkerStep, MarkTaskStarting, MarkTurnStarting, Gate, Resolve,
              MarkTaskRunning, MarkTurnRunning, KeepSession, Prompt, SeeCancel, Ingest,
              Reap, Flush, FlushCommit, AgentStep, ResolveFails, OpenSession, OpenFails,
              PromptFails, AgentLine, ReadFails, AgentEnds
<1> QED BY <1>0, <1>1, <1>2, <1>3, <1>4, <1>5, <1>6 DEF Next

-----------------------------------------------------------------------------
(* Workers, runtimes and finalizers.                                       *)

(* A worker starts with Spawn, moves on, or is reset.                      *)
LEMMA WorkersStep ==
    ASSUME TypeOK, RowsOK, CallersOK, WorkersOK, FinalsOK, Next
    PROVE  WorkersOK'
<1> USE FieldTypes, StepGrows
<1>1. ASSUME \A v \in Turns : \/ worker'[v].pc = "none"
                              \/ worker[v].pc # "none"
                              \/ Accepted(v)
      PROVE  WorkersOK'
  BY <1>1 DEF WorkersOK, RowsGrow
<1>2. CASE worker' = worker
  BY <1>1, <1>2
<1>3. ASSUME NEW c \in Clients, Arrive(c) \/ ClientStep(c) PROVE WorkersOK'
  <2>1. CASE Spawn(c)
    <3>1. Accepted(caller[c].turn)
      BY <2>1 DEF Spawn, CallersOK, CallerOK, HoldsTurn, AcceptingPc
    <3>2. \A v \in Turns : v # caller[c].turn => worker'[v] = worker[v]
      BY <2>1 DEF Spawn
    <3> QED BY <1>1, <3>1, <3>2
  <2> QED BY <1>2, <1>3, <2>1
          DEF Arrive, StartAccept, ContinueRead, CancelRead, WaitRead,
              ClientStep, ContinueList, ContinueInsert, ContinueRefused, ContinueQueue,
              Seed, CancelCause, CancelMark, CancelFlag, CancelPoll, CancelForce,
              WaitLookup, WaitParked, WaitPolling
<1>4. ASSUME NEW u \in Turns, WorkerStep(u) \/ AgentStep(u) PROVE WorkersOK'
  <2>1. CASE Flush(u) \/ FlushCommit(u)
    <3>1. Accepted(u)
      BY <2>1 DEF Flush, FlushCommit, FinalsOK, FinalOK
    <3>2. \A v \in Turns \ {u} : worker'[v] = worker[v]
      BY <2>1 DEF Flush, FlushCommit, LeaveWorker
    <3> QED BY <1>1, <3>1, <3>2
  <2>2. CASE ~(Flush(u) \/ FlushCommit(u))
    <3>1. worker[u].pc # "none" /\ \A v \in Turns \ {u} : worker'[v] = worker[v]
      BY <1>4, <2>2
         DEF WorkerStep, MarkTaskStarting, MarkTurnStarting, Gate, Resolve,
             MarkTaskRunning, MarkTurnRunning, KeepSession, Prompt, SeeCancel, Ingest,
             Reap, AgentStep, ResolveFails, OpenSession, OpenFails,
             PromptFails, AgentLine, ReadFails, AgentEnds, Listening, Fail,
             GotoWorker, LeaveWorker
    <3> QED BY <1>1, <3>1
  <2> QED BY <2>1, <2>2
<1>5. ASSUME NEW a \in Actors, FinalStep(a) PROVE WorkersOK'
  <2>1. final[a].pc # "idle"
    BY <1>5 DEF FinalStep, FinalRead, FinalCheck, FinalWrite, FinalMirror, Publish
  <2>2. \/ worker' = worker
        \/ a \in Turns /\ \A v \in Turns \ {a} : worker'[v] = worker[v]
    BY <1>5 DEF FinalStep, FinalRead, FinalCheck, FinalWrite, FinalMirror, Publish,
                LeaveFinal
  <2> QED BY <1>1, <1>2, <2>1, <2>2 DEF FinalsOK, FinalOK
<1>6. CASE Crash
  BY <1>1, <1>6 DEF Crash, NoWorker
<1> QED BY <1>3, <1>4, <1>5, <1>6 DEF Next

(* The result cell is filled by Publish alone, after the UPDATE.           *)
LEMMA RuntimesStep ==
    ASSUME TypeOK, RowsOK, CallersOK, WorkersOK, FinalsOK, RuntimesOK, Next
    PROVE  RuntimesOK'
<1> USE FieldTypes, StepGrows
<1>1. ASSUME \A v \in Turns : \/ runtime'[v].result = None
                              \/ runtime'[v].result = runtime[v].result
                              \/ Recorded(v)
      PROVE  RuntimesOK'
  BY <1>1 DEF RuntimesOK, RowsGrow
<1>2. CASE runtime' = runtime
  BY <1>1, <1>2
<1>3. ASSUME NEW c \in Clients, Arrive(c) \/ ClientStep(c) PROVE RuntimesOK'
  <2>1. CASE Spawn(c)
    <3>1. FreshRuntime.result = None
      BY DEF FreshRuntime, NoRuntime
    <3> QED BY <1>1, <2>1, <3>1 DEF Spawn
  <2>2. CASE CancelFlag(c)
    <3>1. \A r \in Runtime : \A k :
            [r EXCEPT !.cancel = TRUE, !.cause = k].result = r.result
      BY DEF Runtime
    <3> QED BY <1>1, <2>2, <3>1 DEF CancelFlag
  <2> QED BY <1>2, <1>3, <2>1, <2>2
          DEF Arrive, StartAccept, ContinueRead, CancelRead, WaitRead,
              ClientStep, ContinueList, ContinueInsert, ContinueRefused, ContinueQueue,
              Seed, CancelCause, CancelMark, CancelPoll, CancelForce,
              WaitLookup, WaitParked, WaitPolling
<1>4. ASSUME NEW u \in Turns, WorkerStep(u) \/ AgentStep(u) PROVE RuntimesOK'
  BY <1>2, <1>4
     DEF WorkerStep, MarkTaskStarting, MarkTurnStarting, Gate, Resolve,
         MarkTaskRunning, MarkTurnRunning, KeepSession, Prompt, SeeCancel, Ingest,
         Reap, Flush, FlushCommit, AgentStep, ResolveFails, OpenSession, OpenFails,
         PromptFails, AgentLine, ReadFails, AgentEnds
<1>5. ASSUME NEW a \in Actors, FinalStep(a) PROVE RuntimesOK'
  <2>1. CASE Publish(a)
    <3>1. final[a].turn \in Turns /\ Recorded(final[a].turn)
      BY <2>1 DEF Publish, FinalsOK, FinalOK
    <3>2. \A v \in Turns : v # final[a].turn => runtime'[v] = runtime[v]
      BY <2>1 DEF Publish
    <3> QED BY <1>1, <3>1, <3>2
  <2> QED BY <1>2, <1>5, <2>1 DEF FinalStep, FinalRead, FinalCheck, FinalWrite, FinalMirror
<1>6. CASE Crash
  BY <1>1, <1>6 DEF Crash, NoRuntime
<1> QED BY <1>3, <1>4, <1>5, <1>6 DEF Next

(* A finalization begins for the actor's own turn, and reaches the mirror
   only with a result on the row.                                          *)
LEMMA FinalKept ==
    ASSUME RowsGrow, NEW a \in Actors, FinalOK(a), final'[a] = final[a],
           a \in Clients => \/ caller'[a] = caller[a] \/ caller[a].pc # "cancelling"
    PROVE  FinalOK(a)'
  BY DEF FinalOK, RowsGrow

LEMMA FinalBegun ==
    ASSUME TypeOK, RowsGrow, NEW a \in Actors, NEW pc \in {"flush", "read", "check"},
           NEW mode, NEW o, NEW k, NEW u \in Turns, BeginFinal(a, pc, mode, u, o, k),
           Accepted(u), a \in Turns => u = a,
           a \in Clients => caller'[a].pc = "cancelling" /\ caller'[a].turn = u
    PROVE  FinalOK(a)' /\ \A b \in Actors \ {a} : final'[b] = final[b]
<1>1. final'[a] = [pc |-> pc, mode |-> mode, turn |-> u, outcome |-> o, cause |-> k]
  BY DEF BeginFinal, TypeOK
<1>2. \A b \in Actors \ {a} : final'[b] = final[b]
  BY DEF BeginFinal, TypeOK
<1> QED BY <1>1, <1>2 DEF FinalOK, RowsGrow

LEMMA FinalMoved ==
    ASSUME TypeOK, RowsGrow, NEW a \in Actors, FinalOK(a), final[a].pc # "idle",
           NEW pc \in FinalPc, GotoFinal(a, pc), caller' = caller,
           NEW u, u = final[a].turn,
           pc \in {"mirror", "publish"} => Recorded(u)'
    PROVE  FinalOK(a)' /\ \A b \in Actors \ {a} : final'[b] = final[b]
<1>1. final'[a].pc = pc /\ final'[a].turn = u
  BY DEF GotoFinal, TypeOK, Final
<1>2. \A b \in Actors \ {a} : final'[b] = final[b]
  BY DEF GotoFinal, TypeOK
<1> QED BY <1>1, <1>2 DEF FinalOK, RowsGrow, Recorded

LEMMA FinalsStep ==
    ASSUME TypeOK, RowsOK, CallersOK, WorkersOK, FinalsOK, Next
    PROVE  FinalsOK'
<1> USE FieldTypes, StepGrows
<1>0. ASSUME NEW b \in Actors, \A a \in Actors \ {b} : final'[a] = final[a],
             \A c \in Clients \ {b} : caller'[c] = caller[c], FinalOK(b)'
      PROVE  FinalsOK'
  BY <1>0, FinalKept DEF FinalsOK
<1>1. ASSUME NEW c \in Clients, Arrive(c) \/ ClientStep(c) PROVE FinalsOK'
  <2>1. \A d \in Clients \ {c} : caller'[d] = caller[d]
    BY <1>1 DEF Arrive, StartAccept, ContinueRead, CancelRead, WaitRead,
                ClientStep, ContinueList, ContinueInsert, ContinueRefused, ContinueQueue,
                Seed, Spawn, CancelCause, CancelMark, CancelFlag, CancelPoll, CancelForce,
                WaitLookup, WaitParked, WaitPolling, Goto, Reply
  <2>2. CASE final' = final /\ caller[c].pc # "cancelling"
    BY <1>0, <2>1, <2>2, FinalKept DEF FinalsOK
  <2>3. ASSUME BeginCancelled(c, caller[c].turn, caller[c].cause),
               Goto(c, "cancelling"), caller[c].pc \in {"flag", "poll"}
        PROVE  FinalsOK'
    <3>1. caller[c].turn \in Turns /\ Accepted(caller[c].turn)
      BY <2>3 DEF CallersOK, CallerOK, HoldsTurn
    <3>2. caller'[c].pc = "cancelling" /\ caller'[c].turn = caller[c].turn
      <4>1. \A r \in Caller : LET q == [r EXCEPT !.pc = "cancelling"]
                              IN  q.pc = "cancelling" /\ q.turn = r.turn
        BY DEF Caller
      <4> QED BY <2>3, <4>1 DEF Goto
    <3>3. c \notin Turns
      BY LifecycleAssumption
    <3>4. FinalOK(c)' /\ \A b \in Actors \ {c} : final'[b] = final[b]
      BY <2>3, <3>1, <3>2, <3>3, FinalBegun DEF BeginCancelled
    <3> QED BY <1>0, <2>1, <3>4
  <2>4. CASE CancelFlag(c)
    BY <2>2, <2>3, <2>4 DEF CancelFlag
  <2>5. CASE CancelForce(c)
    BY <2>3, <2>5 DEF CancelForce
  <2> QED BY <1>1, <2>2, <2>4, <2>5
          DEF Arrive, StartAccept, ContinueRead, CancelRead, WaitRead, Idle,
              ClientStep, ContinueList, ContinueInsert, ContinueRefused, ContinueQueue,
              Seed, Spawn, CancelCause, CancelMark, CancelPoll,
              WaitLookup, WaitParked, WaitPolling
<1>2. ASSUME NEW u \in Turns, WorkerStep(u) \/ AgentStep(u) PROVE FinalsOK'
  <2>0. caller' = caller /\ u \notin Clients
    BY <1>2, LifecycleAssumption
       DEF WorkerStep, MarkTaskStarting, MarkTurnStarting, Gate, Resolve,
           MarkTaskRunning, MarkTurnRunning, KeepSession, Prompt, SeeCancel, Ingest,
           Reap, Flush, FlushCommit, AgentStep, ResolveFails, OpenSession, OpenFails,
           PromptFails, AgentLine, ReadFails, AgentEnds
  <2>1. CASE final' = final
    BY <2>0, <2>1, FinalKept DEF FinalsOK
  <2>2. ASSUME worker[u].pc # "none", NEW pc \in {"flush", "read", "check"}, NEW mode,
               NEW o, NEW k, BeginFinal(u, pc, mode, u, o, k)
        PROVE  FinalsOK'
    <3>1. FinalOK(u)' /\ \A b \in Actors \ {u} : final'[b] = final[b]
      BY <2>0, <2>2, FinalBegun DEF WorkersOK
    <3> QED BY <1>0, <2>0, <3>1
  <2>3. CASE Gate(u)
    BY <2>1, <2>2, <2>3 DEF Gate, BeginCancelled
  <2>4. CASE Reap(u)
    BY <2>2, <2>4 DEF Reap
  <2>5. CASE ResolveFails(u) \/ OpenFails(u) \/ PromptFails(u) \/ ReadFails(u)
    BY <2>2, <2>5 DEF ResolveFails, OpenFails, PromptFails, ReadFails, Listening, Fail
  <2>6. CASE Flush(u) \/ FlushCommit(u)
    <3>1. \E pc \in FinalPc : GotoFinal(u, pc) /\ pc \notin {"mirror", "publish"}
      BY <2>6 DEF Flush, FlushCommit, FinalPc
    <3>2. final[u].pc # "idle" /\ FinalOK(u)
      BY <2>6 DEF Flush, FlushCommit, FinalsOK
    <3>3. FinalOK(u)' /\ \A b \in Actors \ {u} : final'[b] = final[b]
      BY <2>0, <3>1, <3>2, FinalMoved
    <3> QED BY <1>0, <2>0, <3>3
  <2> QED BY <1>2, <2>1, <2>3, <2>4, <2>5, <2>6
          DEF WorkerStep, MarkTaskStarting, MarkTurnStarting, Resolve, MarkTaskRunning,
              MarkTurnRunning, KeepSession, Prompt, SeeCancel, Ingest, AgentStep,
              OpenSession, AgentLine, AgentEnds
<1>3. ASSUME NEW a \in Actors, FinalStep(a) PROVE FinalsOK'
  <2> DEFINE u == final[a].turn
  <2>0. FinalOK(a) /\ final[a].pc # "idle" /\ u \in Turns
    BY <1>3 DEF FinalsOK, FinalOK, FinalStep, FinalRead, FinalCheck, FinalWrite,
                FinalMirror, Publish
  <2>1. ASSUME NEW pc \in FinalPc, GotoFinal(a, pc), caller' = caller,
               pc \in {"mirror", "publish"} => turns'[u].result # None
        PROVE  FinalsOK'
    <3>1. FinalOK(a)' /\ \A b \in Actors \ {a} : final'[b] = final[b]
      BY <2>0, <2>1, FinalMoved DEF Recorded
    <3> QED BY <1>0, <2>1, <3>1
  <2>2. ASSUME NEW o, LeaveFinal(a, o) PROVE FinalsOK'
    <3>1. final'[a] = NoFinal /\ \A b \in Actors \ {a} : final'[b] = final[b]
      BY <2>2 DEF LeaveFinal
    <3>2. \A c \in Clients \ {a} : caller'[c] = caller[c]
      BY <2>2 DEF LeaveFinal, Reply
    <3>3. FinalOK(a)'
      BY <3>1 DEF FinalOK, NoFinal
    <3> QED BY <1>0, <3>1, <3>2, <3>3
  <2>3. CASE FinalRead(a)
    BY <2>1, <2>2, <2>3 DEF FinalRead, FinalPc
  <2>4. CASE FinalCheck(a)
    BY <2>1, <2>2, <2>4 DEF FinalCheck, FinalPc, Recorded, store
  <2>5. CASE FinalWrite(a)
    <3>1. turns'[u].result = final[a].outcome
      BY <2>0, <2>5 DEF FinalWrite, WriteResult
    <3> QED BY <2>1, <2>5, <3>1, OutcomeTypes DEF FinalWrite, FinalPc
  <2>6. CASE FinalMirror(a)
    <3>1. turns'[u].result # None
      BY <2>0, <2>6 DEF FinalMirror, FinalOK, Recorded
    <3> QED BY <2>1, <2>6, <3>1 DEF FinalMirror, FinalPc
  <2>7. CASE Publish(a)
    BY <2>2, <2>7 DEF Publish
  <2> QED BY <1>3, <2>3, <2>4, <2>5, <2>6, <2>7 DEF FinalStep
<1>4. CASE Crash
  BY <1>4 DEF Crash, FinalsOK, FinalOK, NoFinal
<1> QED BY <1>1, <1>2, <1>3, <1>4 DEF Next

-----------------------------------------------------------------------------
(* Sessions.                                                               *)

(* Becoming the one who spawns a turn: only by accepting it.               *)
LEMMA AcceptingMoves ==
    ASSUME TypeOK, RowsOK, CallersOK, WorkersOK, FinalsOK, Next, NEW d \in Clients,
           caller'[d].pc \in AcceptingPc
    PROVE  \/ caller[d].pc \in AcceptingPc /\ caller'[d].turn = caller[d].turn
           \/ /\ caller'[d].turn \in Turns /\ ~Accepted(caller'[d].turn)
              /\ worker' = worker
              /\ \A e \in Clients \ {d} : caller'[e] = caller[e]
<1> USE FieldTypes DEF AcceptingPc
<1>1. CASE caller'[d] = caller[d]
  BY <1>1
<1>2. ASSUME NEW u, NEW o, caller'[d] = Told(u, o) PROVE FALSE
  BY <1>2 DEF Told, NoCaller
<1>3. CASE Arrive(d)
  <2>1. ASSUME NEW t \in Tasks, NEW u \in Turns, StartAccept(d, t, u)
        PROVE  /\ caller'[d].turn = u /\ ~Accepted(u) /\ worker' = worker
               /\ \A e \in Clients \ {d} : caller'[e] = caller[e]
    <3>1. caller'[d] = [NoCaller EXCEPT !.pc = "seed", !.task = t, !.turn = u]
      BY <2>1 DEF StartAccept
    <3>2. caller'[d].turn = u
      BY <3>1 DEF NoCaller
    <3> QED BY <2>1, <3>2 DEF StartAccept
  <2>2. ASSUME NEW t \in Tasks, ContinueRead(d, t) PROVE FALSE
    BY <2>2 DEF ContinueRead, NoCaller
  <2>3. ASSUME NEW u \in Turns, NEW k \in Causes, CancelRead(d, u, k) PROVE FALSE
    <3>1. caller'[d] = Told(u, turns[u].result) \/ caller'[d].pc = "cause"
      BY <2>3 DEF CancelRead, NoCaller
    <3> QED BY <1>2, <3>1
  <2>4. ASSUME NEW u \in Turns, WaitRead(d, u) PROVE FALSE
    <3>1. caller'[d] = Told(u, turns[u].result) \/ caller'[d].pc = "lookup"
      BY <2>4 DEF WaitRead, NoCaller
    <3> QED BY <1>2, <3>1
  <2> QED BY <1>3, <2>1, <2>2, <2>3, <2>4 DEF Arrive
<1>4. CASE ClientStep(d)
  <2>1. ASSUME NEW o, Reply(d, o) PROVE FALSE
    BY <1>2, <2>1 DEF Reply
  <2>2. ASSUME NEW pc, Goto(d, pc)
        PROVE  caller'[d].pc = pc /\ caller'[d].turn = caller[d].turn
    <3>1. \A r \in Caller : LET q == [r EXCEPT !.pc = pc]
                            IN  q.pc = pc /\ q.turn = r.turn
      BY DEF Caller
    <3> QED BY <2>2, <3>1 DEF Goto
  <2>3. ASSUME NEW u \in Turns, ContinueInsert(d, u)
        PROVE  /\ caller'[d].turn = u /\ ~Accepted(u) /\ worker' = worker
               /\ \A e \in Clients \ {d} : caller'[e] = caller[e]
    <3>1. \A r \in Caller : [r EXCEPT !.pc = "queue", !.turn = u].turn = u
      BY DEF Caller
    <3> QED BY <2>3, <3>1 DEF ContinueInsert
  <2>4. ~ContinueList(d)
    BY ZenonT(60) DEF ContinueList, Caller
  <2> QED BY <1>4, <2>1, <2>2, <2>3, <2>4
          DEF ClientStep, ContinueRefused, ContinueQueue, Seed, Spawn, CancelCause,
              CancelMark, CancelFlag, CancelPoll, CancelForce, WaitLookup, WaitParked,
              WaitPolling
<1>5. ASSUME NEW c \in Clients, c # d, Arrive(c) \/ ClientStep(c)
      PROVE  caller'[d] = caller[d]
  BY <1>5 DEF Arrive, StartAccept, ContinueRead, CancelRead, WaitRead,
              ClientStep, ContinueList, ContinueInsert, ContinueRefused, ContinueQueue,
              Seed, Spawn, CancelCause, CancelMark, CancelFlag, CancelPoll, CancelForce,
              WaitLookup, WaitParked, WaitPolling, Goto, Reply
<1>6. ASSUME NEW u \in Turns, WorkerStep(u) \/ AgentStep(u)
      PROVE  caller' = caller
  BY <1>6 DEF WorkerStep, MarkTaskStarting, MarkTurnStarting, Gate, Resolve,
              MarkTaskRunning, MarkTurnRunning, KeepSession, Prompt, SeeCancel, Ingest,
              Reap, Flush, FlushCommit, AgentStep, ResolveFails, OpenSession, OpenFails,
              PromptFails, AgentLine, ReadFails, AgentEnds
<1>7. ASSUME NEW a \in Actors, FinalStep(a) PROVE caller'[d] = caller[d]
  <2>1. caller' = caller \/ \E o : a \in Clients /\ Reply(a, o)
    BY <1>7 DEF FinalStep, FinalRead, FinalCheck, FinalWrite, FinalMirror, Publish,
                LeaveFinal
  <2> QED BY <1>2, <2>1 DEF Reply
<1>8. ~Crash
  BY DEF Crash, NoCaller
<1> QED BY <1>1, <1>3, <1>4, <1>5, <1>6, <1>7, <1>8 DEF Next

(* A worker moves forward, is spawned, or dies with the daemon.            *)
LEMMA WorkerSteps ==
    ASSUME TypeOK, RowsOK, CallersOK, WorkersOK, FinalsOK, FinishingOK, Next,
           NEW v \in Turns
    PROVE  \/ worker'[v].pc = worker[v].pc /\ worker'[v].stored = worker[v].stored
           \/ worker'[v].pc = "none"
           \/ \E c \in Clients : Spawn(c) /\ v = caller[c].turn
           \/ /\ worker[v].pc # "none"
              /\ worker'[v].pc \in BeforeSession => worker[v].pc \in BeforeSession
              /\ worker'[v].pc = "storing" =>
                    OpenSession(v) /\ worker'[v].stored = worker[v].stored
<1> USE FieldTypes DEF BeforeSession
<1>1. CASE worker'[v] = worker[v]
  BY <1>1
<1>2. ASSUME NEW c \in Clients, Arrive(c) \/ ClientStep(c)
      PROVE  worker'[v] = worker[v] \/ (Spawn(c) /\ v = caller[c].turn)
  BY <1>2
     DEF Arrive, StartAccept, ContinueRead, CancelRead, WaitRead,
         ClientStep, ContinueList, ContinueInsert, ContinueRefused, ContinueQueue,
         Seed, Spawn, CancelCause, CancelMark, CancelFlag, CancelPoll, CancelForce,
         WaitLookup, WaitParked, WaitPolling
<1>3. ASSUME NEW u \in Turns, WorkerStep(u) \/ AgentStep(u), u # v
      PROVE  worker'[v] = worker[v]
  BY <1>3
     DEF WorkerStep, MarkTaskStarting, MarkTurnStarting, Gate, Resolve,
         MarkTaskRunning, MarkTurnRunning, KeepSession, Prompt, SeeCancel, Ingest,
         Reap, Flush, FlushCommit, AgentStep, ResolveFails, OpenSession, OpenFails,
         PromptFails, AgentLine, ReadFails, AgentEnds, Fail, GotoWorker, LeaveWorker
<1>4. ASSUME WorkerStep(v) \/ AgentStep(v)
      PROVE  \/ worker'[v].pc = worker[v].pc /\ worker'[v].stored = worker[v].stored
             \/ /\ worker[v].pc # "none"
                /\ worker'[v].pc \in BeforeSession => worker[v].pc \in BeforeSession
                /\ worker'[v].pc = "storing" =>
                      OpenSession(v) /\ worker'[v].stored = worker[v].stored
  <2>1. ASSUME NEW pc, GotoWorker(v, pc)
        PROVE  worker'[v].pc = pc /\ worker'[v].stored = worker[v].stored
    <3>1. \A r \in Worker : LET q == [r EXCEPT !.pc = pc]
                            IN  q.pc = pc /\ q.stored = r.stored
      BY DEF Worker
    <3> QED BY <2>1, <3>1 DEF GotoWorker
  <2>2. LeaveWorker(v) => worker'[v].pc = "final"
    BY DEF LeaveWorker, NoWorker
  <2>3. \A r \in Worker :
          /\ \A b : [r EXCEPT !.pc = "running", !.stored = b].pc = "running"
          /\ [r EXCEPT !.pc = "prompt", !.stored = FALSE].pc = "prompt"
          /\ [r EXCEPT !.pc = "loop", !.base = 0].pc = "loop"
          /\ \A n : [r EXCEPT !.pc = "ingesting", !.base = n].pc = "ingesting"
          /\ \A s : [r EXCEPT !.pc = "reap", !.stop = s].pc = "reap"
          /\ \A n : LET q == [r EXCEPT !.base = n]
                    IN  q.pc = r.pc /\ q.stored = r.stored
    BY DEF Worker
  <2>4. CASE MarkTaskStarting(v) \/ MarkTurnStarting(v) \/ MarkTaskRunning(v)
               \/ MarkTurnRunning(v) \/ Prompt(v) \/ SeeCancel(v) \/ OpenSession(v)
    BY <2>1, <2>4 DEF MarkTaskStarting, MarkTurnStarting, MarkTaskRunning,
                      MarkTurnRunning, Prompt, SeeCancel, OpenSession
  <2>5. CASE Gate(v) \/ Reap(v) \/ ResolveFails(v) \/ OpenFails(v) \/ PromptFails(v)
               \/ ReadFails(v)
    BY <2>1, <2>2, <2>5 DEF Gate, Reap, ResolveFails, OpenFails, PromptFails,
                            ReadFails, Listening, Fail
  <2>6. CASE Resolve(v) \/ KeepSession(v) \/ Ingest(v) \/ AgentLine(v)
               \/ \E s \in StopReasons : AgentEnds(v, s)
    <3>1. CASE Resolve(v)
      BY <2>3, <3>1 DEF Resolve
    <3>2. CASE KeepSession(v)
      BY <2>3, <3>2 DEF KeepSession
    <3>3. CASE Ingest(v)
      BY <2>3, <3>3 DEF Ingest
    <3>4. CASE AgentLine(v)
      BY <2>3, <3>4 DEF AgentLine, Listening
    <3>5. ASSUME NEW s \in StopReasons, AgentEnds(v, s)
          PROVE  worker[v].pc = "loop" /\ worker'[v].pc = "reap"
      BY <2>3, <3>5 DEF AgentEnds, Listening
    <3> QED BY <2>6, <3>1, <3>2, <3>3, <3>4, <3>5
  <2>7. CASE Flush(v) \/ FlushCommit(v)
    <3>1. worker[v].pc = "final"
      BY <2>7 DEF Flush, FlushCommit, FinishingOK
    <3>2. CASE Flush(v)
      <4>1. \/ worker' = worker
            \/ worker'[v] = [worker[v] EXCEPT !.base = tasks[TaskOf(v)].seq]
        BY <3>2 DEF Flush
      <4>2. \A n : LET q == [worker[v] EXCEPT !.base = n]
                   IN  q.pc = worker[v].pc /\ q.stored = worker[v].stored
        BY DEF Worker
      <4> QED BY <4>1, <4>2
    <3>3. CASE FlushCommit(v)
      BY <2>2, <3>1, <3>3 DEF FlushCommit
    <3> QED BY <2>7, <3>2, <3>3
  <2> QED BY <1>4, <2>4, <2>5, <2>6, <2>7 DEF WorkerStep, AgentStep
<1>5. ASSUME NEW a \in Actors, FinalStep(a)
      PROVE  \/ worker'[v] = worker[v]
             \/ worker[v].pc = "final" /\ worker'[v].pc = "done"
  <2>1. final[a].pc # "idle"
    BY <1>5 DEF FinalStep, FinalRead, FinalCheck, FinalWrite, FinalMirror, Publish
  <2>2. [NoWorker EXCEPT !.pc = "done"].pc = "done"
    BY DEF NoWorker
  <2>3. \/ worker' = worker
        \/ a \in Turns /\ worker' = [worker EXCEPT ![a] = [NoWorker EXCEPT !.pc = "done"]]
    BY <1>5 DEF FinalStep, FinalRead, FinalCheck, FinalWrite, FinalMirror, Publish,
                LeaveFinal
  <2> QED BY <2>1, <2>2, <2>3 DEF FinishingOK
<1>6. Crash => worker'[v].pc = "none"
  BY DEF Crash, NoWorker
<1> QED BY <1>1, <1>2, <1>3, <1>4, <1>5, <1>6 DEF Next

LEMMA SpawnedOnceStep ==
    ASSUME TypeOK, RowsOK, CallersOK, WorkersOK, FinalsOK, FinishingOK, SpawnedOnce, Next
    PROVE  SpawnedOnce'
<1> USE FieldTypes
<1>1. ASSUME NEW d \in Clients, caller'[d].pc \in AcceptingPc
      PROVE  worker'[caller'[d].turn].pc = "none"
  <2> DEFINE u == caller'[d].turn
  <2>1. u \in Turns /\ worker[u].pc = "none"
    BY <1>1, AcceptingMoves
       DEF WorkersOK, SpawnedOnce, CallersOK, CallerOK, HoldsTurn
  <2>2. ASSUME NEW c \in Clients, Spawn(c), u = caller[c].turn PROVE FALSE
    <3>1. caller[c].pc = "spawn" /\ caller[c].pc \in AcceptingPc
      BY <2>2 DEF Spawn, AcceptingPc
    <3>2. caller[d].pc \in AcceptingPc /\ caller'[d].turn = caller[d].turn
      BY <1>1, <2>2, <3>1, AcceptingMoves DEF CallersOK, CallerOK, HoldsTurn
    <3>3. c = d
      BY <2>2, <3>1, <3>2 DEF SpawnedOnce
    <3>4. caller'[d] = NoCaller
      BY <2>2, <3>3, OutcomeTypes DEF Spawn, Reply, Told
    <3> QED BY <1>1, <3>4 DEF NoCaller, AcceptingPc
  <2> QED BY <2>1, <2>2, WorkerSteps
<1>2. ASSUME NEW c \in Clients, NEW d \in Clients, c # d, caller'[c].pc \in AcceptingPc,
             caller'[d].pc \in AcceptingPc, caller'[c].turn = caller'[d].turn
      PROVE  FALSE
  <2>1. \A e \in Clients : caller[e].pc \in AcceptingPc => Accepted(caller[e].turn)
    BY DEF CallersOK, CallerOK, HoldsTurn
  <2>2. CASE /\ caller[c].pc \in AcceptingPc /\ caller'[c].turn = caller[c].turn
             /\ caller[d].pc \in AcceptingPc /\ caller'[d].turn = caller[d].turn
    BY <1>2, <2>2 DEF SpawnedOnce
  <2>3. CASE ~Accepted(caller'[c].turn)
    <3>1. \/ caller[d].pc \in AcceptingPc /\ caller'[d].turn = caller[d].turn
          \/ caller'[c] = caller[c]
      BY <1>2, <2>3, AcceptingMoves
    <3> QED BY <1>2, <2>1, <2>3, <3>1
  <2> QED BY <1>2, <2>1, <2>2, <2>3, AcceptingMoves
<1> QED BY <1>1, <1>2 DEF SpawnedOnce

LEMMA FinishingStep ==
    ASSUME TypeOK, RowsOK, CallersOK, WorkersOK, FinalsOK, FinishingOK, SpawnedOnce, Next
    PROVE  FinishingOK'
<1> USE FieldTypes
<1>1. CASE final' = final /\ \A u \in Turns : worker[u].pc = "final" => worker'[u] = worker[u]
  BY <1>1 DEF FinishingOK
<1>2. ASSUME NEW c \in Clients, Arrive(c) \/ ClientStep(c) PROVE FinishingOK'
  <2>1. \A u \in Turns : final'[u] = final[u]
    BY <1>2, LifecycleAssumption
       DEF Arrive, StartAccept, ContinueRead, CancelRead, WaitRead,
           ClientStep, ContinueList, ContinueInsert, ContinueRefused, ContinueQueue,
           Seed, Spawn, CancelCause, CancelMark, CancelFlag, CancelPoll, CancelForce,
           WaitLookup, WaitParked, WaitPolling, BeginCancelled, BeginFinal
  <2>2. \A u \in Turns : worker[u].pc = "final" => worker'[u] = worker[u]
    <3>1. CASE Spawn(c)
      <4>1. worker[caller[c].turn].pc = "none"
        BY <3>1 DEF Spawn, SpawnedOnce, AcceptingPc
      <4> QED BY <3>1, <4>1 DEF Spawn
    <3> QED BY <1>2, <3>1
            DEF Arrive, StartAccept, ContinueRead, CancelRead, WaitRead,
                ClientStep, ContinueList, ContinueInsert, ContinueRefused, ContinueQueue,
                Seed, CancelCause, CancelMark, CancelFlag, CancelPoll, CancelForce,
                WaitLookup, WaitParked, WaitPolling
  <2> QED BY <2>1, <2>2 DEF FinishingOK
<1>3. ASSUME NEW u \in Turns, WorkerStep(u) \/ AgentStep(u) PROVE FinishingOK'
  <2>1. CASE Flush(u) \/ FlushCommit(u)
    <3>1. worker[u].pc = "final"
      BY <2>1 DEF Flush, FlushCommit, FinishingOK
    <3>2. \A r \in Worker : \A n : [r EXCEPT !.base = n].pc = r.pc
      BY DEF Worker
    <3>3. worker'[u].pc = "final"
      <4>1. CASE Flush(u)
        <5>1. \/ worker' = worker
              \/ worker'[u] = [worker[u] EXCEPT !.base = tasks[TaskOf(u)].seq]
          BY <4>1 DEF Flush
        <5> QED BY ZenonT(60), <3>1, <3>2, <5>1
      <4>2. CASE FlushCommit(u)
        BY <4>2 DEF FlushCommit, LeaveWorker, NoWorker
      <4> QED BY <2>1, <4>1, <4>2
    <3>4. \A v \in Turns \ {u} : final'[v] = final[v] /\ worker'[v] = worker[v]
      BY <2>1 DEF Flush, FlushCommit, GotoFinal, LeaveWorker
    <3> QED BY <3>3, <3>4 DEF FinishingOK
  <2>2. ASSUME LeaveWorker(u), \A v \in Turns \ {u} : final'[v] = final[v]
        PROVE  FinishingOK'
    <3>1. worker'[u].pc = "final" /\ \A v \in Turns \ {u} : worker'[v] = worker[v]
      BY <2>2 DEF LeaveWorker, NoWorker
    <3> QED BY <2>2, <3>1 DEF FinishingOK
  <2>3. ASSUME worker[u].pc # "final", final' = final,
               \A v \in Turns \ {u} : worker'[v] = worker[v]
        PROVE  FinishingOK'
    BY <1>1, <2>3
  <2>4. CASE Gate(u)
    BY <2>2, <2>3, <2>4 DEF Gate, BeginCancelled, BeginFinal, GotoWorker
  <2>5. CASE Reap(u)
    BY <2>2, <2>5 DEF Reap, BeginFinal
  <2>6. CASE ResolveFails(u) \/ OpenFails(u) \/ PromptFails(u) \/ ReadFails(u)
    BY <2>2, <2>6 DEF ResolveFails, OpenFails, PromptFails, ReadFails, Fail, BeginFinal
  <2> QED BY <1>3, <2>1, <2>3, <2>4, <2>5, <2>6
          DEF WorkerStep, MarkTaskStarting, MarkTurnStarting, Resolve, MarkTaskRunning,
              MarkTurnRunning, KeepSession, Prompt, SeeCancel, Ingest, AgentStep,
              OpenSession, AgentLine, AgentEnds, Listening, GotoWorker
<1>4. ASSUME NEW a \in Actors, FinalStep(a) PROVE FinishingOK'
  <2>1. final[a].pc # "idle"
    BY <1>4 DEF FinalStep, FinalRead, FinalCheck, FinalWrite, FinalMirror, Publish
  <2>2. ASSUME NEW pc, GotoFinal(a, pc), worker' = worker PROVE FinishingOK'
    <3>1. \A b \in Actors \ {a} : final'[b] = final[b]
      BY <2>2 DEF GotoFinal
    <3> QED BY <2>1, <2>2, <3>1 DEF FinishingOK
  <2>3. ASSUME NEW o, LeaveFinal(a, o) PROVE FinishingOK'
    <3>1. final'[a] = NoFinal /\ \A b \in Actors \ {a} : final'[b] = final[b]
      BY <2>3 DEF LeaveFinal
    <3>2. \A u \in Turns \ {a} : worker'[u] = worker[u]
      BY <2>3 DEF LeaveFinal
    <3> QED BY <3>1, <3>2 DEF FinishingOK, NoFinal
  <2> QED BY <1>4, <2>2, <2>3
          DEF FinalStep, FinalRead, FinalCheck, FinalWrite, FinalMirror, Publish
<1>5. CASE Crash
  BY <1>5 DEF Crash, FinishingOK, NoFinal
<1> QED BY <1>2, <1>3, <1>4, <1>5 DEF Next

LEMMA NewSessionStep ==
    ASSUME TypeOK, RowsOK, CallersOK, WorkersOK, FinalsOK, FinishingOK, SpawnedOnce,
           NewSessionFirst, Next
    PROVE  NewSessionFirst'
<1> USE FieldTypes, StepGrows
<1> SUFFICES ASSUME NEW u \in Turns, worker'[u].pc = "storing", ~worker'[u].stored
             PROVE  turns'[u].ordinal = 1
  BY DEF NewSessionFirst
<1>1. CASE worker[u].pc = "storing" /\ ~worker[u].stored
  BY <1>1 DEF NewSessionFirst, WorkersOK, RowsGrow
<1>2. CASE OpenSession(u) /\ worker'[u].stored = worker[u].stored
  BY <1>2 DEF OpenSession, WorkersOK, RowsOK, store
<1>3. ASSUME NEW c \in Clients, Spawn(c), u = caller[c].turn PROVE FALSE
  BY <1>3 DEF Spawn, NoWorker
<1> QED BY <1>1, <1>2, <1>3, WorkerSteps

(* tasks.acp_session_id is written by start and by a worker that opened a
   new session.                                                            *)
LEMMA SessionSteps ==
    ASSUME TypeOK, Next, NEW t \in Tasks
    PROVE  \/ tasks'[t].session = tasks[t].session
           \/ tasks[t].status = "absent" /\ tasks'[t].session = NoTurn
           \/ \E u \in Turns : /\ worker[u].pc = "storing" /\ ~worker[u].stored
                               /\ worker'[u].pc = "prompt" /\ caller' = caller
                               /\ t = TaskOf(u) /\ tasks'[t].session = u
<1> USE FieldTypes
<1>1. /\ \A r, s : UpdateTaskStatus(r, s) => tasks'[t].session = tasks[t].session
      /\ \A r, s, v : UpdateTaskProgress(r, s, v) => tasks'[t].session = tasks[t].session
      /\ \A r, n : CommitTimeline(r, n) => tasks'[t].session = tasks[t].session
  <2>1. \A r, s : UpdateTaskStatus(r, s) => tasks'[t].session = tasks[t].session
    BY DEF UpdateTaskStatus, TaskRow
  <2>2. \A r, s, v : UpdateTaskProgress(r, s, v) => tasks'[t].session = tasks[t].session
    <3>1. \A q \in TaskRow : \A s, v : [q EXCEPT !.status = s, !.last = v].session = q.session
      BY DEF TaskRow
    <3> QED BY <3>1 DEF UpdateTaskProgress
  <2>3. \A r, n : CommitTimeline(r, n) => tasks'[t].session = tasks[t].session
    BY DEF CommitTimeline, TaskRow
  <2> QED BY <2>1, <2>2, <2>3
<1>2. CASE tasks' = tasks
  BY <1>2
<1>3. ASSUME NEW u \in Turns, KeepSession(u)
      PROVE  \/ tasks' = tasks
             \/ /\ worker[u].pc = "storing" /\ ~worker[u].stored
                /\ worker'[u].pc = "prompt" /\ caller' = caller
                /\ \/ t = TaskOf(u) /\ tasks'[t].session = u
                   \/ tasks'[t].session = tasks[t].session
  <2>1. \A r \in Worker : [r EXCEPT !.pc = "prompt", !.stored = FALSE].pc = "prompt"
    BY DEF Worker
  <2>2. worker'[u].pc = "prompt"
    BY <1>3, <2>1 DEF KeepSession
  <2>3. StoreSession(TaskOf(u), u) =>
          \/ t = TaskOf(u) /\ tasks'[t].session = u
          \/ tasks'[t].session = tasks[t].session
    BY DEF StoreSession, TaskRow
  <2> QED BY <1>3, <2>2, <2>3 DEF KeepSession
<1>4. ASSUME NEW c \in Clients, NEW r \in Tasks, NEW u \in Turns, StartAccept(c, r, u)
      PROVE  \/ tasks'[t].session = tasks[t].session
             \/ tasks[t].status = "absent" /\ tasks'[t].session = NoTurn
  BY <1>4 DEF StartAccept, AcceptStart
<1>5. ASSUME NEW c \in Clients, Arrive(c) \/ ClientStep(c)
      PROVE  \/ tasks'[t].session = tasks[t].session
             \/ tasks[t].status = "absent" /\ tasks'[t].session = NoTurn
  BY <1>1, <1>2, <1>4, <1>5
     DEF Arrive, ContinueRead, CancelRead, WaitRead,
         ClientStep, ContinueList, ContinueInsert, ContinueRefused, ContinueQueue,
         Seed, Spawn, CancelCause, CancelMark, CancelFlag, CancelPoll, CancelForce,
         WaitLookup, WaitParked, WaitPolling, store
<1>6. ASSUME NEW u \in Turns, WorkerStep(u) \/ AgentStep(u)
      PROVE  tasks'[t].session = tasks[t].session \/ KeepSession(u)
  BY <1>1, <1>2, <1>6
     DEF WorkerStep, MarkTaskStarting, MarkTurnStarting, Gate, Resolve,
         MarkTaskRunning, MarkTurnRunning, Prompt, SeeCancel, Ingest,
         Reap, Flush, FlushCommit, AgentStep, ResolveFails, OpenSession, OpenFails,
         PromptFails, AgentLine, ReadFails, AgentEnds, store
<1>7. ASSUME NEW a \in Actors, FinalStep(a)
      PROVE  tasks'[t].session = tasks[t].session
  BY <1>1, <1>2, <1>7
     DEF FinalStep, FinalRead, FinalCheck, FinalWrite, FinalMirror, Publish, store
<1>8. Crash => tasks' = tasks
  BY DEF Crash, store
<1> QED BY <1>2, <1>3, <1>5, <1>6, <1>7, <1>8 DEF Next

LEMMA SessionsStep ==
    ASSUME IInv, Next
    PROVE  SessionsOK'
<1> USE FieldTypes, StepGrows DEF IInv
<1> SUFFICES ASSUME NEW t \in Tasks, NEW s \in Turns, s = tasks'[t].session
             PROVE  SessionOK(t)'
  <2>1. tasks' \in [Tasks -> TaskRow]
    BY TypeOKStep DEF TypeOK
  <2> QED BY <2>1 DEF SessionsOK, SessionOK, TaskRow
<1>2. CASE s = tasks[t].session
  <2>1. /\ tasks[t].status # "absent" /\ Accepted(s) /\ turns[s].task = t
        /\ turns[s].ordinal = 1 /\ worker[s].pc \notin BeforeSession
        /\ \A c \in Clients : caller[c].pc \in AcceptingPc => caller[c].turn # s
    BY <1>2, NoTurnAssumption DEF SessionsOK, SessionOK
  <2>2. tasks'[t].status # "absent" /\ Accepted(s)' /\ turns'[s].task = t
          /\ turns'[s].ordinal = 1
    BY <2>1 DEF RowsGrow
  <2>3. worker'[s].pc \notin BeforeSession
    <3>1. \A c \in Clients : Spawn(c) => s # caller[c].turn
      BY <2>1 DEF Spawn, AcceptingPc
    <3>2. "none" \notin BeforeSession
      BY DEF BeforeSession
    <3> QED BY <2>1, <3>1, <3>2, WorkerSteps
  <2>4. \A c \in Clients : caller'[c].pc \in AcceptingPc => caller'[c].turn # s
    BY <2>1, AcceptingMoves
  <2> QED BY <2>2, <2>3, <2>4 DEF SessionOK, Accepted
<1>3. ASSUME NEW u \in Turns, worker[u].pc = "storing", ~worker[u].stored,
             worker'[u].pc = "prompt", caller' = caller, t = TaskOf(u), s = u
      PROVE  SessionOK(t)'
  <2>1. Accepted(u) /\ turns[u].task = t /\ turns[u].ordinal = 1
          /\ tasks[t].status # "absent"
    BY <1>3 DEF WorkersOK, RowsOK, NewSessionFirst, TaskOf
  <2>2. \A c \in Clients : caller[c].pc \in AcceptingPc => caller[c].turn # u
    BY <1>3 DEF SpawnedOnce
  <2>3. Accepted(u)' /\ turns'[u].task = t /\ turns'[u].ordinal = 1
          /\ tasks'[t].status # "absent"
    BY <2>1 DEF RowsGrow
  <2>4. worker'[s].pc \notin BeforeSession
    BY <1>3 DEF BeforeSession
  <2>5. \A c \in Clients : caller'[c].pc \in AcceptingPc => caller'[c].turn # s
    BY <1>3, <2>2
  <2> QED BY <1>3, <2>3, <2>4, <2>5 DEF SessionOK, Accepted
<1> QED BY <1>2, <1>3, SessionSteps, NoTurnAssumption

-----------------------------------------------------------------------------
(* The invariant.                                                          *)

LEMMA IInvInit == Init => IInv
<1> SUFFICES ASSUME Init PROVE IInv
  OBVIOUS
<1> USE DEF Init, StoreInit
<1>1. TypeOK
  <2>1. NoRuntime \in Runtime
    BY DEF NoRuntime, Runtime
  <2>2. NoWorker \in Worker
    BY DEF NoWorker, Worker, WorkerPc, StopReason
  <2>3. NoFinal \in Final
    BY DEF NoFinal, Final, FinalPc, Outcome
  <2>4. NoCaller \in Caller
    BY DEF NoCaller, Caller, CallerPc, TurnStatus, Answer
  <2>5. AbsentTask \in TaskRow
    BY DEF AbsentTask, TaskRow, TaskStatus
  <2>6. AbsentTurn \in TurnRow
    BY DEF AbsentTurn, TurnRow, TurnStatus
  <2> QED BY <2>1, <2>2, <2>3, <2>4, <2>5, <2>6, LifecycleAssumption DEF TypeOK
<1>2. /\ \A u \in Turns : ~Accepted(u) /\ turns[u].result = None
      /\ \A u \in Turns : worker[u].pc = "none" /\ runtime[u].result = None
      /\ \A a \in Actors : final[a].pc = "idle"
      /\ \A c \in Clients : caller[c].pc = "idle" /\ caller[c].answer = None
      /\ \A t \in Tasks : tasks[t].session = NoTurn
  BY DEF AbsentTask, AbsentTurn, NoRuntime, NoWorker, NoFinal, NoCaller, Accepted
<1>3. RowsOK /\ WorkersOK /\ FinalsOK /\ RuntimesOK /\ FinishingOK
  BY <1>2 DEF RowsOK, WorkersOK, FinalsOK, FinalOK, RuntimesOK, FinishingOK
<1>4. CallersOK
  BY <1>2, OutcomeTypes DEF CallersOK, CallerOK, HoldsTask, HoldsTurn, AcceptingPc
<1>5. OrdinalsContiguous
  BY <1>2 DEF OrdinalsContiguous
<1>6. SpawnedOnce /\ NewSessionFirst /\ SessionsOK
  BY <1>2 DEF SpawnedOnce, NewSessionFirst, SessionsOK, SessionOK, AcceptingPc
<1> QED BY <1>1, <1>3, <1>4, <1>5, <1>6 DEF IInv

LEMMA IInvStep == IInv /\ [Next]_vars => IInv'
<1>1. ASSUME IInv, Next PROVE IInv'
  BY <1>1, TypeOKStep, RowsStep, CallersStep, WorkersStep, FinalsStep, RuntimesStep,
     OrdinalsStep, SpawnedOnceStep, FinishingStep, NewSessionStep, SessionsStep
     DEF IInv
<1>2. ASSUME IInv, UNCHANGED vars PROVE IInv'
  BY <1>2 DEF vars, IInv, TypeOK, RowsOK, CallersOK, CallerOK, WorkersOK, FinalsOK,
              FinalOK, RuntimesOK, OrdinalsContiguous, SpawnedOnce, FinishingOK,
              NewSessionFirst, SessionsOK, SessionOK, Accepted, Recorded, OrdinalTaken,
              TurnsOf
<1> QED BY <1>1, <1>2

(* The inductive invariant holds in every reachable state.                 *)
THEOREM Invariance == Spec => []IInv
  BY IInvInit, IInvStep, PTL DEF Spec

(* TypeOK: every row, runtime, worker, finalization and request keeps its
   shape under any interleaving and any crash.                             *)
THEOREM TypeCorrect == Spec => []TypeOK
<1>1. IInv => TypeOK
  BY DEF IInv
<1> QED BY <1>1, Invariance, PTL

(* continue_task reads the ordinals and inserts the next in two statements:
   UNIQUE(task_id, ordinal) is enough for the ordinals of every task to be
   1..n, for any number of concurrent requests.                            *)
THEOREM OrdinalsAreContiguous == Spec => []OrdinalsContiguous
<1>1. IInv => OrdinalsContiguous
  BY DEF IInv
<1> QED BY <1>1, Invariance, PTL

(* No wait, cancel or result cell shows an outcome of a turn whose row has
   no result.                                                              *)
THEOREM ResultsDurable == Spec => []DurableBeforeVisible
<1>1. IInv => DurableBeforeVisible
  BY DEF IInv, RuntimesOK, CallersOK, CallerOK, DurableBeforeVisible
<1> QED BY <1>1, Invariance, PTL

-----------------------------------------------------------------------------
(* Settled results.                                                        *)

(* A finalizer stands before the UPDATE only if its SELECT saw no result.  *)
LEMMA WritersSteps ==
    ASSUME IInv, Next, NEW u \in Turns, Recorded(u)
    PROVE  Writers(u)' \subseteq Writers(u)
<1> USE FieldTypes DEF IInv, Writers
<1> SUFFICES ASSUME NEW b \in Actors, final'[b].pc = "write", final'[b].turn = u,
                    ~(final[b].pc = "write" /\ final[b].turn = u)
             PROVE  FALSE
  OBVIOUS
<1>1. ASSUME NEW a \in Actors, NEW pc, GotoFinal(a, pc), pc # "write" PROVE FALSE
  <2>1. \A r \in Final : [r EXCEPT !.pc = pc].pc = pc
    BY DEF Final
  <2>2. final'[a].pc = pc /\ \A d \in Actors \ {a} : final'[d] = final[d]
    BY <1>1, <2>1 DEF GotoFinal
  <2> QED BY <1>1, <2>2
<1>2. ASSUME NEW a \in Actors, NEW pc, NEW mode, NEW v, NEW o, NEW k,
             BeginFinal(a, pc, mode, v, o, k), pc # "write"
      PROVE  FALSE
  <2>1. final'[a].pc = pc /\ \A d \in Actors \ {a} : final'[d] = final[d]
    BY <1>2 DEF BeginFinal
  <2> QED BY <1>2, <2>1
<1>3. ASSUME NEW a \in Actors, NEW o, LeaveFinal(a, o) PROVE FALSE
  BY <1>3 DEF LeaveFinal, NoFinal
<1>4. ASSUME NEW a \in Actors, GotoFinal(a, "write"), ~Recorded(final[a].turn)
      PROVE  FALSE
  <2>1. \A r \in Final : [r EXCEPT !.pc = "write"].turn = r.turn
    BY DEF Final
  <2>2. final'[a].turn = final[a].turn /\ \A d \in Actors \ {a} : final'[d] = final[d]
    BY <1>4, <2>1 DEF GotoFinal
  <2> QED BY <1>4, <2>2
<1>5. final' # final
  OBVIOUS
<1>6. ASSUME NEW c \in Clients, Arrive(c) \/ ClientStep(c) PROVE FALSE
  BY <1>2, <1>5, <1>6
     DEF Arrive, StartAccept, ContinueRead, CancelRead, WaitRead,
         ClientStep, ContinueList, ContinueInsert, ContinueRefused, ContinueQueue,
         Seed, Spawn, CancelCause, CancelMark, CancelFlag, CancelPoll, CancelForce,
         WaitLookup, WaitParked, WaitPolling, BeginCancelled
<1>7. ASSUME NEW v \in Turns, WorkerStep(v) \/ AgentStep(v) PROVE FALSE
  BY <1>1, <1>2, <1>5, <1>7
     DEF WorkerStep, MarkTaskStarting, MarkTurnStarting, Gate, Resolve,
         MarkTaskRunning, MarkTurnRunning, KeepSession, Prompt, SeeCancel, Ingest,
         Reap, Flush, FlushCommit, AgentStep, ResolveFails, OpenSession, OpenFails,
         PromptFails, AgentLine, ReadFails, AgentEnds, BeginCancelled, Fail
<1>8. ASSUME NEW a \in Actors, FinalStep(a) PROVE FALSE
  BY <1>1, <1>3, <1>4, <1>8
     DEF FinalStep, FinalRead, FinalCheck, FinalWrite, FinalMirror, Publish
<1>9. Crash => FALSE
  BY DEF Crash, NoFinal
<1> QED BY <1>6, <1>7, <1>8, <1>9 DEF Next

(* Only the UPDATE of a finalizer changes a recorded result.               *)
LEMMA ResultSteps ==
    ASSUME IInv, Next, NEW u \in Turns, Recorded(u), Writers(u) = {}
    PROVE  turns'[u].result = turns[u].result
<1> USE FieldTypes DEF IInv
<1>1. CASE turns' = turns
  BY <1>1
<1>2. /\ \A v, s : UpdateTurnStatus(v, s) => turns'[u].result = turns[u].result
      /\ \A v, k : SetTerminationCause(v, k) => turns'[u].result = turns[u].result
  BY DEF UpdateTurnStatus, SetTerminationCause, TurnRow
<1>3. ASSUME NEW a \in Actors, FinalWrite(a) PROVE turns'[u] = turns[u]
  <2>1. final[a].turn # u
    BY <1>3 DEF FinalWrite, Writers
  <2> QED BY <1>3, <2>1 DEF FinalWrite, WriteResult
<1>4. ASSUME NEW c \in Clients, NEW t \in Tasks, NEW v \in Turns, Accepts(c, t, v)
      PROVE  turns'[u] = turns[u]
  BY <1>4, AcceptGrows DEF RowsOK, Recorded
<1>5. ASSUME NEW c \in Clients, Arrive(c) \/ ClientStep(c),
             \A t \in Tasks, v \in Turns : ~Accepts(c, t, v)
      PROVE  turns'[u].result = turns[u].result
  <2>1. \A v \in Turns : ~ContinueInsert(c, v)
    BY <1>5 DEF Accepts, ContinueInsert, CallersOK, CallerOK, HoldsTask
  <2> QED BY <1>1, <1>2, <1>5, <2>1
     DEF Arrive, Accepts, ContinueRead, CancelRead, WaitRead,
         ClientStep, ContinueList, ContinueRefused, ContinueQueue,
         Seed, Spawn, CancelCause, CancelMark, CancelFlag, CancelPoll, CancelForce,
         WaitLookup, WaitParked, WaitPolling, store
<1>6. ASSUME NEW v \in Turns, WorkerStep(v) \/ AgentStep(v)
      PROVE  turns'[u].result = turns[u].result
  BY <1>1, <1>2, <1>6
     DEF WorkerStep, MarkTaskStarting, MarkTurnStarting, Gate, Resolve,
         MarkTaskRunning, MarkTurnRunning, KeepSession, Prompt, SeeCancel, Ingest,
         Reap, Flush, FlushCommit, AgentStep, ResolveFails, OpenSession, OpenFails,
         PromptFails, AgentLine, ReadFails, AgentEnds, store
<1>7. ASSUME NEW a \in Actors, FinalStep(a)
      PROVE  turns'[u].result = turns[u].result
  BY <1>1, <1>3, <1>7
     DEF FinalStep, FinalRead, FinalCheck, FinalMirror, Publish, store
<1>8. Crash => turns' = turns
  BY DEF Crash, store
<1> QED BY <1>1, <1>4, <1>5, <1>6, <1>7, <1>8 DEF Next

LEMMA SettledStep ==
    IInv /\ [Next]_vars =>
        \A u \in Turns : Settled(u) =>
            Settled(u)' /\ turns'[u].result = turns[u].result
<1>1. ASSUME IInv, Next, NEW u \in Turns, Settled(u)
      PROVE  Settled(u)' /\ turns'[u].result = turns[u].result
  <2>1. turns'[u].result = turns[u].result
    BY <1>1, ResultSteps DEF Settled
  <2>2. Writers(u)' = {}
    BY <1>1, WritersSteps DEF Settled
  <2> QED BY <1>1, <2>1, <2>2 DEF Settled, Recorded
<1>2. ASSUME UNCHANGED vars, NEW u \in Turns, Settled(u)
      PROVE  Settled(u)' /\ turns'[u].result = turns[u].result
  BY <1>2 DEF vars, Settled, Recorded, Writers
<1> QED BY <1>1, <1>2

(* finalize_turn guards its UPDATE by a separate SELECT: the result may be
   replaced while finalizers race, and never again after the last of them. *)
THEOREM ResultsSettle == Spec => SettledForever
<1>1. IInv /\ [Next]_vars =>
        [\A u \in Turns : Settled(u) =>
            Settled(u)' /\ turns'[u].result = turns[u].result]_vars
  BY SettledStep
<1> QED BY <1>1, Invariance, PTL DEF Spec, SettledForever

-----------------------------------------------------------------------------
(* acp_session_id.                                                         *)

(* run_grok_turn opens a session only on the first turn of a task without
   one, so the stored id never changes, whatever turns run side by side.   *)
THEOREM SessionsPinned == Spec => SessionPinned
<1>1. ASSUME IInv, Next, NEW t \in Tasks, tasks[t].session # NoTurn
      PROVE  tasks'[t].session = tasks[t].session
  <2> USE DEF IInv
  <2>1. tasks[t].session \in Turns /\ SessionOK(t)
    BY <1>1, FieldTypes DEF SessionsOK
  <2>2. tasks[t].status # "absent"
    BY <1>1, <2>1 DEF SessionOK
  <2>3. ASSUME NEW u \in Turns, worker[u].pc = "storing", ~worker[u].stored, t = TaskOf(u)
        PROVE  FALSE
    <3>1. Accepted(u) /\ turns[u].task = t /\ turns[u].ordinal = 1
      BY <1>1, <2>3 DEF WorkersOK, NewSessionFirst, TaskOf
    <3>2. u = tasks[t].session
      BY <1>1, <2>1, <3>1 DEF SessionOK, OrdinalsContiguous
    <3> QED BY <1>1, <2>1, <2>3, <3>2 DEF SessionOK, BeforeSession
  <2> QED BY <1>1, <2>2, <2>3, SessionSteps
<1>2. IInv /\ [Next]_vars =>
        [\A t \in Tasks : tasks[t].session # NoTurn =>
            tasks'[t].session = tasks[t].session]_vars
  BY <1>1
<1> QED BY <1>2, Invariance, PTL DEF Spec, SessionPinned

-----------------------------------------------------------------------------
(* The turn record.                                                        *)

LEMMA RecordSteps ==
    ASSUME IInv, IInv', Next, NEW u \in Turns
    PROVE  Abstract!Move(RecordOf(u), RecordOf(u)')
<1> USE FieldTypes, StepGrows DEF IInv
<1>0. /\ Accepted(u) => Accepted(u)'
      /\ Recorded(u) => Recorded(u)'
      /\ Recorded(u) => Accepted(u)
      /\ Recorded(u)' => turns'[u].result \in Outcome
  BY DEF RowsGrow, RowsOK, Recorded, TypeOK, TurnRow
<1>1. CASE ~Accepted(u)
  <2>1. ~Recorded(u)'
    <3>1. CASE RowsKept
      BY <1>0, <1>1, <3>1 DEF RowsKept, Recorded
    <3>2. ASSUME NEW c \in Clients, NEW t \in Tasks, NEW v \in Turns, Accepts(c, t, v)
          PROVE  turns'[u].result = None
      BY <1>0, <1>1, <3>2, AcceptGrows DEF Recorded
    <3> QED BY <3>1, <3>2, Footprint DEF Recorded
  <2> QED BY <1>0, <1>1, <2>1
          DEF RecordOf, Abstract!Move, Abstract!Open, Recorded, Accepted
<1>2. CASE Accepted(u) /\ ~Settled(u)
  BY <1>0, <1>2 DEF RecordOf, Settled, Abstract!Move, Recorded, Accepted
<1>3. CASE Settled(u)
  BY <1>0, <1>3, SettledStep DEF RecordOf, Settled, Abstract!Move
<1> QED BY <1>1, <1>2, <1>3, <1>0 DEF Settled

(* The daemon's requests, workers and finalizers, with any interleaving and
   any crash, implement the turn record: accepted once, open until a result
   is recorded, contested only while finalizers race, then settled.        *)
THEOREM ImplementsTurnRecord == Spec => KeepsTurnRecord
<1>1. Init => Abstract!Init
  BY DEF Init, StoreInit, AbsentTurn, Abstract!Init, RecordOf, Accepted
<1>2. IInv /\ IInv' /\ [Next]_vars => [Abstract!Next]_([u \in Turns |-> RecordOf(u)])
  <2>1. ASSUME IInv, IInv', Next PROVE Abstract!Next
    <3>1. \A u \in Turns : RecordOf(u)' \in Abstract!Record
      <4>1. \A u \in Turns : turns'[u].result \in Outcome \cup {None}
        BY <2>1 DEF IInv, TypeOK, TurnRow
      <4> QED BY <4>1 DEF RecordOf, Abstract!Record, Abstract!Phase
    <3>2. \A u \in Turns : Abstract!Move(RecordOf(u), RecordOf(u)')
      BY <2>1, RecordSteps
    <3> QED BY <3>1, <3>2 DEF Abstract!Next
  <2>2. ASSUME UNCHANGED vars PROVE UNCHANGED [u \in Turns |-> RecordOf(u)]
    BY <2>2 DEF vars, RecordOf, Accepted, Recorded, Writers
  <2> QED BY <2>1, <2>2
<1> QED BY <1>1, <1>2, Invariance, PTL DEF Spec, KeepsTurnRecord, Abstract!Spec
=============================================================================
