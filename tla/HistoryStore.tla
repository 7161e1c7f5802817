---------------------------- MODULE HistoryStore ----------------------------
(***************************************************************************)
(* The rows of history.sqlite3 that the task manager reads and writes: one *)
(* row per task (table tasks) and one per turn (table turns), and the SQL  *)
(* statements of storage/repository.rs that change them.                   *)
(*                                                                         *)
(* Every request and every worker opens its own connection (WAL mode), so  *)
(* each statement below is one autocommitted step: nothing but AcceptStart *)
(* and CommitTimeline runs several statements in one transaction.          *)
(*                                                                         *)
(* A RunResult is abstracted to the outcome it carries: the status of the  *)
(* turn row and of the RunResult are computed from the same outcome.       *)
(***************************************************************************)
EXTENDS Integers

CONSTANTS
    Tasks,      \* task ids (UUIDs)
    Turns,      \* turn ids (UUIDs)
    NoTurn      \* tasks.last_turn_id before a row exists

VARIABLES
    tasks,      \* [Tasks -> TaskRow]
    turns       \* [Turns -> TurnRow]

ASSUME NoTurnAssumption == NoTurn \notin Turns

-----------------------------------------------------------------------------
None == "none"      \* SQL NULL of result_json, termination_cause, stopReason

ActiveStatus == {"queued", "starting", "running", "cancelling", "recovering"}
TaskStatus == ActiveStatus \cup {"absent", "idle", "cancelled", "failed"}

Outcome == {"completed", "partial", "refused", "cancelled", "failed"}
TurnStatus == Outcome \cup {"absent", "queued", "starting", "running"}

(* Causes the daemon writes: task.cancel from an MCP client or any other.  *)
Cause == {"user_cancel", "mcp_cancel"}

(* The ACP session of a task is named after the turn that created it.      *)
TaskRow == [status  : TaskStatus,
            last    : Turns \cup {NoTurn},
            seq     : Nat,
            session : Turns \cup {NoTurn}]

TurnRow == [status  : TurnStatus,
            task    : Tasks \cup {None},
            ordinal : Nat,
            cause   : Cause \cup {None},
            result  : Outcome \cup {None}]

AbsentTask == [status |-> "absent", last |-> NoTurn, seq |-> 0,
               session |-> NoTurn]
AbsentTurn == [status |-> "absent", task |-> None, ordinal |-> 0,
               cause |-> None, result |-> None]

StoreInit == /\ tasks = [t \in Tasks |-> AbsentTask]
             /\ turns = [u \in Turns |-> AbsentTurn]

IsActive(t) == tasks[t].status \in ActiveStatus
Accepted(u) == turns[u].status # "absent"
TurnsOf(t)  == {u \in Turns : Accepted(u) /\ turns[u].task = t}
Recorded(u) == turns[u].result # None

(* Mutant: the table has no UNIQUE(task_id, ordinal).                      *)
OrdinalNeverTaken(t, n) == FALSE

(* UNIQUE(task_id, ordinal) of table turns *)
OrdinalTaken(t, n) == \E u \in TurnsOf(t) : turns[u].ordinal = n

(* list_turns_for_task, then max(ordinal).unwrap_or(0) + 1: the set of this
   one number.                                                             *)
NextOrdinal(t) ==
    {n \in {1} \cup {turns[u].ordinal + 1 : u \in TurnsOf(t)} :
        \A u \in TurnsOf(t) : turns[u].ordinal < n}

-----------------------------------------------------------------------------
(* Statements.                                                             *)

QueuedTurn(t, n) == [status |-> "queued", task |-> t, ordinal |-> n,
                     cause |-> None, result |-> None]

AcceptStart(t, u) ==
    /\ tasks' = [tasks EXCEPT ![t] = [status |-> "queued", last |-> u,
                                      seq |-> 0, session |-> NoTurn]]
    /\ turns' = [turns EXCEPT ![u] = QueuedTurn(t, 1)]

InsertTurn(u, t, n) == turns' = [turns EXCEPT ![u] = QueuedTurn(t, n)]

UpdateTurnStatus(u, s) == turns' = [turns EXCEPT ![u].status = s]

SetTerminationCause(u, c) ==
    turns' = [turns EXCEPT ![u].cause = IF @ = None THEN c ELSE @]

(* The UPDATE of finalize_turn, without the SELECT that guards it.         *)
WriteResult(u, o, c) ==
    turns' = [turns EXCEPT ![u] =
                  [status |-> o, task |-> @.task, ordinal |-> @.ordinal,
                   cause |-> c, result |-> o]]

UpdateTaskStatus(t, s) == tasks' = [tasks EXCEPT ![t].status = s]

UpdateTaskProgress(t, s, u) ==
    tasks' = [tasks EXCEPT ![t] = [@ EXCEPT !.status = s, !.last = u]]

StoreSession(t, s) == tasks' = [tasks EXCEPT ![t].session = s]

(* commit_timeline_mutations of a batch numbered from base + 1: the primary
   key (task_id, sequence) rolls the whole batch back when another writer
   has committed since base was read.                                      *)
CommitTimeline(t, base) ==
    IF tasks[t].seq = base THEN tasks' = [tasks EXCEPT ![t].seq = base + 1]
                           ELSE UNCHANGED tasks

-----------------------------------------------------------------------------
(* map_stop_to_outcome, for the causes the daemon writes, and the status
   the task row mirrors.                                                   *)
StopReason == {"end_turn", "max_tokens", "refusal", "cancelled", "unknown", None}

OutcomeOf(stop, cause) ==
    IF cause \in Cause THEN "cancelled"
    ELSE CASE stop = "end_turn"   -> "completed"
           [] stop = "max_tokens" -> "partial"
           [] stop = "refusal"    -> "refused"
           [] stop = "cancelled"  -> "cancelled"
           [] OTHER               -> "failed"

(* Mutant: the task row is given the turn's status.                        *)
MirrorTurnStatus(o) == o

MirrorStatus(o) ==
    CASE o \in {"completed", "partial"} -> "idle"
      [] o = "cancelled"                -> "cancelled"
      [] OTHER                          -> "failed"
=============================================================================
