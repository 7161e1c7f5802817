-------------------------- MODULE HistoryRetention --------------------------
(***************************************************************************)
(* Which conversations stay in history.sqlite3: tasks that start and are   *)
(* continued, the end of a turn, leases (storage/leases.rs) and the sweep  *)
(* of the GUI (storage/retention.rs), each on a connection of its own, one *)
(* autocommit statement or transaction per step.                           *)
(*                                                                         *)
(* A task row keeps what a sweep looks at: whether the status is a         *)
(* protected one, the session state, retention_protect_until and           *)
(* created_at.  Turns and timelines go with their task (ON DELETE CASCADE).*)
(* Times are ticks of one clock.                                           *)
(***************************************************************************)
EXTENDS Integers, FiniteSets

CONSTANTS
    Tasks,          \* ids of tasks: a task never gets an id that was used
    Followers,      \* connections that continue tasks
    Holders,        \* (connection, lease id) pairs
    Scope,          \* [Holders -> Tasks]: a lease's scope does not change
    Limits,         \* history limits the user sets; 0 clears the history
    Protect,        \* 30 minutes from the end of a turn
    LeaseTTL,       \* DEFAULT_TTL_MS
    MaxNow,         \* bound on the clock
    Nothing         \* no task

ASSUME HistoryAssumption ==
    /\ Protect \in Nat /\ LeaseTTL \in Nat /\ MaxNow \in Nat
    /\ Limits \subseteq Nat
    /\ Nothing \notin Tasks
    /\ Scope \in [Holders -> Tasks]

VARIABLES
    now,            \* the clock
    tasks,          \* [present tasks -> TaskRow]
    leases,         \* [present holders -> Lease]
    gone,           \* ids of deleted tasks, which no new task gets
    client,         \* [Followers -> the task to queue, or Nothing]
    holder,         \* [Holders -> lease request]
    ending,         \* ends of turns whose protection is not written yet
    sweep           \* the sweep of the GUI

rows  == <<tasks, gone, leases>>
hvars == <<now, rows, client, holder, ending, sweep>>

-----------------------------------------------------------------------------
Time == 0..MaxNow

(* active: queued, starting, running, cancelling, recovering, interrupted.
   Times a row does not have (NULL) are 0.                                 *)
TaskRow == [active : BOOLEAN, session : {"cold", "warm"}, protect : Nat,
            created : Time]

NewTask(created) == [active |-> TRUE, session |-> "cold", protect |-> 0,
                     created |-> created]
Ended(row)          == [row EXCEPT !.active = FALSE]
Protected(row, end) == [row EXCEPT !.protect = end]
Queued(row)         == [row EXCEPT !.active = TRUE]
Warm(row)           == [row EXCEPT !.session = "warm"]

Lease == [expires : Nat]

Put(f, x, y) == [z \in DOMAIN f \cup {x} |-> IF z = x THEN y ELSE f[z]]
Drop(f, S)   == [z \in DOMAIN f \ S |-> f[z]]
Nowhere      == [z \in {} |-> z]

(* An UPDATE of a row that is gone changes nothing.                        *)
UpdateTask(t, row) == tasks' = [z \in DOMAIN tasks |-> IF z = t THEN row ELSE tasks[z]]

LeaseRequest == [pc : {"idle", "inserting", "updating"}, expires : Nat]
NoLeaseRequest == [pc |-> "idle", expires |-> 0]

(* at: the time run_retention was given; todo: the candidates; remaining:
   COUNT of the tasks, counted down.  touched is history: the tasks whose
   row or lease was written since the candidates were read.                *)
Sweep == [pc : {"idle", "counting", "deleting"}, limit : Nat, at : Time,
          todo : SUBSET [task : Tasks, created : Time], remaining : Nat,
          touched : SUBSET Tasks]
NoSweep == [pc |-> "idle", limit |-> 0, at |-> 0, todo |-> {}, remaining |-> 0,
            touched |-> {}]

Touch(t) == sweep' = IF sweep.pc = "idle" THEN sweep
                     ELSE [sweep EXCEPT !.touched = @ \cup {t}]

HistoryInit ==
    /\ now = 0
    /\ tasks = Nowhere /\ leases = Nowhere /\ gone = {}
    /\ client = [c \in Followers |-> Nothing]
    /\ holder = [h \in Holders |-> NoLeaseRequest]
    /\ ending = {}
    /\ sweep = NoSweep

Tick == /\ now < MaxNow
        /\ now' = now + 1
        /\ UNCHANGED <<rows, client, holder, ending, sweep>>

-----------------------------------------------------------------------------
(* accept_start_submission: a task with a new id (TurnLifecycle and
   StartRequests have the request around it).                              *)
StartTask(t) ==
    /\ t \notin DOMAIN tasks \cup gone
    /\ tasks' = Put(tasks, t, NewTask(now))
    /\ Touch(t)
    /\ UNCHANGED <<now, gone, leases, client, holder, ending>>

(* task.continue: the row is read and must not be active, ...              *)
ContinueRead(c, t) ==
    /\ client[c] = Nothing
    /\ t \in DOMAIN tasks /\ ~tasks[t].active
    /\ client' = [client EXCEPT ![c] = t]
    /\ UNCHANGED <<now, rows, holder, ending, sweep>>

(* Mutant: the task is written whole, present or not.                      *)
ContinueQueueWhole(c) ==
    LET t == client[c]
    IN  /\ t # Nothing
        /\ tasks' = Put(tasks, t, NewTask(now))
        /\ client' = [client EXCEPT ![c] = Nothing]
        /\ Touch(t)
        /\ UNCHANGED <<now, gone, leases, holder, ending>>

(* ... then the turn is inserted, which its foreign key refuses when the task
   has gone, and the task is queued.  The prompt and the worker that follow
   belong to TurnLifecycle.                                                *)
ContinueQueue(c) ==
    LET t == client[c]
    IN  /\ t # Nothing
        /\ IF t \in DOMAIN tasks THEN UpdateTask(t, Queued(tasks[t]))
                                 ELSE UNCHANGED tasks
        /\ client' = [client EXCEPT ![c] = Nothing]
        /\ Touch(t)
        /\ UNCHANGED <<now, gone, leases, holder, ending>>

-----------------------------------------------------------------------------
(* The turn of an active task: its session is warm once the agent has opened
   it, and no statement of the program makes it cold again.                *)
OpenWarm(t) ==
    /\ t \in DOMAIN tasks /\ tasks[t].active
    /\ UpdateTask(t, Warm(tasks[t]))
    /\ Touch(t)
    /\ UNCHANGED <<now, gone, leases, client, holder, ending>>

(* persist_run_result: the status, ...  The ends of two turns
   of one task do not overlap here (TurnLifecycle has overlapping turns).   *)
EndTurn(t) ==
    /\ t \in DOMAIN tasks /\ tasks[t].active
    /\ \A e \in ending : e.task # t
    /\ UpdateTask(t, Ended(tasks[t]))
    /\ Touch(t)
    /\ ending' = ending \cup {[task |-> t, at |-> now]}
    /\ UNCHANGED <<now, gone, leases, client, holder>>

(* ... then retention_protect_until, in a statement of its own.            *)
ProtectTask(e) ==
    /\ e \in ending
    /\ ending' = ending \ {e}
    /\ IF e.task \in DOMAIN tasks
       THEN UpdateTask(e.task, Protected(tasks[e.task], e.at + Protect))
       ELSE UNCHANGED tasks
    /\ Touch(e.task)
    /\ UNCHANGED <<now, gone, leases, client, holder>>

-----------------------------------------------------------------------------
(* leases.rs: acquire, renew, release and expiry.                          *)
Hold(h, request) == holder' = [holder EXCEPT ![h] = request]

(* acquire and renew: the expiry is computed from the caller's time and the
   existing lease is read, ...                                             *)
Acquire(h) ==
    /\ holder[h].pc = "idle"
    /\ Hold(h, [pc |-> IF h \in DOMAIN leases THEN "updating" ELSE "inserting",
                expires |-> now + LeaseTTL])
    /\ UNCHANGED <<now, rows, client, ending, sweep>>

(* ... then the lease is inserted or, if it is still there, prolonged.     *)
WriteLease(h) ==
    /\ holder[h].pc # "idle"
    /\ IF holder[h].pc = "inserting" \/ h \in DOMAIN leases
       THEN leases' = Put(leases, h, [expires |-> holder[h].expires])
       ELSE UNCHANGED leases
    /\ Hold(h, NoLeaseRequest)
    /\ Touch(Scope[h])
    /\ UNCHANGED <<now, tasks, gone, client, ending>>

(* release, release_connection and expire_stale.                           *)
DropLeases(S) ==
    /\ S # {}
    /\ leases' = Drop(leases, S)
    /\ UNCHANGED <<now, tasks, gone, client, holder, ending, sweep>>
Release(h)  == holder[h].pc = "idle" /\ DropLeases({h} \cap DOMAIN leases)
Disconnect  == (\A h \in Holders : holder[h].pc = "idle") /\ DropLeases(DOMAIN leases)
ExpireStale == DropLeases({h \in DOMAIN leases : leases[h].expires <= now})

-----------------------------------------------------------------------------
(* The sweep: settings_set_history_limit and history_clear, both run_retention
   on the GUI's main thread, so one at a time.                             *)
Leased(t, at) == \E h \in DOMAIN leases : Scope[h] = t /\ leases[h].expires > at

(* Mutant: retention_protect_until is not looked at.                       *)
EligibleUnprotected(t, at) ==
    ~tasks[t].active /\ tasks[t].session # "warm" /\ ~Leased(t, at)

(* The WHERE clause of the candidates.                                     *)
Eligible(t, at) ==
    /\ ~tasks[t].active
    /\ tasks[t].protect <= at
    /\ tasks[t].session # "warm"
    /\ ~Leased(t, at)

(* The time is taken before the SELECT.                                    *)
BeginSweep(limit) ==
    /\ sweep.pc = "idle"
    /\ sweep' = [NoSweep EXCEPT !.pc = "counting", !.limit = limit, !.at = now,
                                !.todo = {[task |-> t, created |-> tasks[t].created] :
                                          t \in {v \in DOMAIN tasks : Eligible(v, now)}}]
    /\ UNCHANGED <<now, rows, client, holder, ending>>

CountTasks ==
    /\ sweep.pc = "counting"
    /\ sweep' = [sweep EXCEPT !.pc = "deleting", !.remaining = Cardinality(DOMAIN tasks)]
    /\ UNCHANGED <<now, rows, client, holder, ending>>

More == sweep.todo # {} /\ (sweep.limit = 0 \/ sweep.remaining > sweep.limit)

(* Mutant: the newest candidate first.                                     *)
OldestReversed(c) == \A d \in sweep.todo : c.created >= d.created

(* ORDER BY created_at ASC: candidates of one time come in any order.       *)
Oldest(c) == \A d \in sweep.todo : c.created <= d.created

(* Mutant: remaining is not counted down.                                  *)
DeleteUncounted(c) ==
    /\ sweep.pc = "deleting" /\ More /\ Oldest(c)
    /\ tasks' = Drop(tasks, {c.task})
    /\ gone' = gone \cup {c.task}
    /\ sweep' = [sweep EXCEPT !.todo = @ \ {c}]
    /\ UNCHANGED <<now, leases, client, holder, ending>>

(* DELETE by id: nothing is looked at again, and a lease of the task stays.  *)
Delete(c) ==
    /\ sweep.pc = "deleting" /\ More /\ Oldest(c)
    /\ tasks' = Drop(tasks, {c.task})
    /\ gone' = gone \cup {c.task}
    /\ sweep' = [sweep EXCEPT !.todo = @ \ {c},
                     !.remaining = IF sweep.limit # 0 /\ c.task \in DOMAIN tasks THEN @ - 1 ELSE @]
    /\ UNCHANGED <<now, leases, client, holder, ending>>

(* The command returns, or the GUI dies.                                   *)
EndSweep ==
    /\ sweep.pc # "idle"
    /\ sweep' = NoSweep
    /\ UNCHANGED <<now, rows, client, holder, ending>>

-----------------------------------------------------------------------------
Continue(c) == \/ \E t \in Tasks : ContinueRead(c, t)
               \/ ContinueQueue(c)

Turn == \/ \E t \in Tasks : OpenWarm(t) \/ EndTurn(t)
        \/ \E e \in ending : ProtectTask(e)

Retention ==
    \/ \E limit \in Limits : BeginSweep(limit)
    \/ CountTasks \/ EndSweep
    \/ \E c \in sweep.todo : Delete(c)

HistoryNext ==
    \/ Tick
    \/ \E t \in Tasks : StartTask(t)
    \/ \E c \in Followers : Continue(c)
    \/ Turn
    \/ \E h \in Holders : Acquire(h) \/ WriteLease(h) \/ Release(h)
    \/ Disconnect \/ ExpireStale
    \/ Retention

HistorySpec == HistoryInit /\ [][HistoryNext]_hvars
-----------------------------------------------------------------------------
(* Safety.                                                                 *)

(* Types; a continue that inserted its turn, and a sweep, may find the task
   gone.                                                                   *)
HistoryTypeOK ==
    /\ now \in Time
    /\ DOMAIN tasks \subseteq Tasks
    /\ \A t \in DOMAIN tasks : tasks[t] \in TaskRow
    /\ gone \subseteq Tasks \ DOMAIN tasks
    /\ DOMAIN leases \subseteq Holders
    /\ \A h \in DOMAIN leases : leases[h] \in Lease
    /\ client \in [Followers -> Tasks \cup {Nothing}]
    /\ holder \in [Holders -> LeaseRequest]
    /\ ending \subseteq [task : Tasks, at : Time]
    /\ sweep \in Sweep

Deleted == DOMAIN tasks \ DOMAIN tasks'

(* A sweep with a limit leaves at least that many tasks, also when tasks
   start and turns end while it deletes (remaining, counted before).       *)
LimitKept ==
    [][Deleted # {} => sweep.limit = 0 \/ Cardinality(DOMAIN tasks) > sweep.limit]_hvars

(* Of the tasks a sweep chose the oldest go first, so what a limit spares is
   the newest of them (ORDER BY created_at ASC).                           *)
OldestGoFirst ==
    [][\A t \in Deleted : \A d \in sweep.todo :
          d.task \in DOMAIN tasks => tasks[t].created <= tasks[d.task].created]_hvars

(* Only a write that came after the sweep's one look at the rows can get a
   protected task deleted: a task that goes is otherwise ended and cold, past
   its protection and not leased (retention.rs:1 "never delete active /
   leased / protect-until tasks").                                         *)
ProtectedSurvives ==
    [][\A t \in Deleted :
          \/ t \in sweep.touched
          \/ /\ ~tasks[t].active /\ tasks[t].session = "cold"
             /\ tasks[t].protect <= sweep.at
             /\ \A h \in DOMAIN leases : Scope[h] = t => leases[h].expires <= sweep.at]_hvars

-----------------------------------------------------------------------------
(* What the documents say and the code does not keep (see the README).     *)

(* A sweep that is through with its candidates has trimmed the history to the
   limit, or what is left is active, protected or leased
   (docs/specs/persistence-ipc.md:262: idle tasks are made cold, then the
   oldest without protection are deleted).                                 *)
TrimmedToLimit ==
    sweep.pc = "deleting" /\ ~More /\ ending = {} =>
        \/ Cardinality(DOMAIN tasks) <= sweep.limit
        \/ \E t \in DOMAIN tasks :
              tasks[t].active \/ tasks[t].protect > sweep.at
              \/ Leased(t, sweep.at) \/ t \in sweep.touched
=============================================================================
