---------------------- MODULE HistoryProofs ----------------------
(***************************************************************************)
(* The history that the daemon keeps and the requests that reach it: the    *)
(* retention sweep, the start requests and the callers' processes, each for *)
(* every value of its constants, and together as MCHistory runs them.       *)
(***************************************************************************)
EXTENDS MCHistory, FiniteSetTheorems, TLAPS

-----------------------------------------------------------------------------
(***************************************************************************)
(* For any number of tasks, followers and leases, any limits and times:    *)
(* types, and what a sweep may delete.  A sweep looks at the rows once and *)
(* deletes by id later, so its theorems rest on what stays true of the     *)
(* candidates meanwhile: ids do not come back (Known), created_at does not *)
(* change (SameAge), a candidate whose row and leases nobody wrote is as   *)
(* it was found (AsFound), and tasks only come while the sweep counts down *)
(* (Counted).                                                              *)
(***************************************************************************)

Resting == sweep.pc = "idle" => sweep.todo = {}

Known == \A d \in sweep.todo : d.task \in DOMAIN tasks \cup gone

SameAge == \A d \in sweep.todo :
              d.task \in DOMAIN tasks => tasks[d.task].created = d.created

AsFound == \A d \in sweep.todo :
              d.task \in DOMAIN tasks \ sweep.touched => Eligible(d.task, sweep.at)

Counted == sweep.pc = "deleting" /\ sweep.limit # 0 =>
              sweep.remaining <= Cardinality(DOMAIN tasks)

SweepInv == Resting /\ Known /\ SameAge /\ AsFound /\ Counted

RetentionInv == HistoryTypeOK /\ IsFiniteSet(DOMAIN tasks) /\ SweepInv

USE HistoryAssumption

-----------------------------------------------------------------------------
(* What a step does to the candidates.                                     *)

(* Touch adds t to the written tasks of a sweep and leaves all else.       *)
LEMMA TouchSweep ==
    ASSUME sweep \in Sweep, NEW t \in Tasks, Touch(t)
    PROVE  /\ sweep' \in Sweep
           /\ sweep'.pc = sweep.pc /\ sweep'.limit = sweep.limit /\ sweep'.at = sweep.at
           /\ sweep'.todo = sweep.todo /\ sweep'.remaining = sweep.remaining
           /\ sweep.touched \subseteq sweep'.touched
           /\ sweep.pc # "idle" => t \in sweep'.touched
    BY DEF Touch, Sweep

(* The sweep's part survives a step that leaves the sweep, but for the touched
   tasks, and of the candidates only what was touched.                     *)
LEMMA SweepKept ==
    ASSUME RetentionInv, UNCHANGED gone, DOMAIN tasks \subseteq DOMAIN tasks',
           DOMAIN tasks' \cap gone = {}, IsFiniteSet(DOMAIN tasks'),
           sweep'.pc = sweep.pc, sweep'.limit = sweep.limit, sweep'.at = sweep.at,
           sweep'.todo = sweep.todo, sweep'.remaining = sweep.remaining,
           sweep \in Sweep,
           \A v \in DOMAIN tasks : tasks'[v].created = tasks[v].created,
           sweep.pc # "idle" =>
              /\ sweep.touched \subseteq sweep'.touched
              /\ \A v \in DOMAIN tasks \ sweep'.touched :
                    Eligible(v, sweep.at) => Eligible(v, sweep.at)'
    PROVE  SweepInv'
    <1>1. Resting' BY DEF RetentionInv, SweepInv, Resting
    <1>2. Known' BY DEF RetentionInv, SweepInv, Known
    <1>3. \A d \in sweep.todo : d.task \in DOMAIN tasks' => d.task \in DOMAIN tasks
        BY DEF RetentionInv, SweepInv, Known
    <1>4. SameAge' BY <1>3 DEF RetentionInv, SweepInv, SameAge
    <1>5. AsFound'
        <2>1. CASE sweep.pc = "idle" BY <2>1 DEF RetentionInv, SweepInv, Resting, AsFound
        <2>2. CASE sweep.pc # "idle"
            <3> SUFFICES ASSUME NEW d \in sweep'.todo, d.task \in DOMAIN tasks' \ sweep'.touched
                         PROVE  Eligible(d.task, sweep.at)'
                BY DEF AsFound
            <3>1. d \in sweep.todo /\ d.task \in DOMAIN tasks \ sweep.touched BY <1>3, <2>2
            <3>2. Eligible(d.task, sweep.at) BY <3>1 DEF RetentionInv, SweepInv, AsFound
            <3>3. QED BY <2>2, <3>1, <3>2
        <2>3. QED BY <2>1, <2>2
    <1>6. Counted'
        <2>1. Cardinality(DOMAIN tasks) <= Cardinality(DOMAIN tasks') BY FS_Subset
        <2>2. Cardinality(DOMAIN tasks) \in Nat /\ Cardinality(DOMAIN tasks') \in Nat
            BY FS_CardinalityType DEF RetentionInv
        <2>3. sweep.remaining \in Nat BY DEF Sweep
        <2>4. QED BY <2>1, <2>2, <2>3 DEF RetentionInv, SweepInv, Counted
    <1>7. QED BY <1>1, <1>2, <1>4, <1>5, <1>6 DEF SweepInv

(* A step that leaves rows and sweep.                                      *)
LEMMA RetentionAside ==
    ASSUME RetentionInv, HistoryTypeOK', UNCHANGED <<rows, sweep>>
    PROVE  RetentionInv'
    BY DEF RetentionInv, SweepInv, Resting, Known, SameAge, AsFound, Counted, Eligible, Leased, rows

(* A step that writes the row of a task, if it is there, with one of the same
   age.                                                                    *)
LEMMA RowInv ==
    ASSUME RetentionInv, NEW t \in Tasks, NEW row, t \in DOMAIN tasks => row \in TaskRow,
           t \in DOMAIN tasks => row.created = tasks[t].created,
           IF t \in DOMAIN tasks THEN UpdateTask(t, row) ELSE UNCHANGED tasks,
           Touch(t), UNCHANGED <<now, gone, leases, holder>>,
           client' \in [Followers -> Tasks \cup {Nothing}],
           ending' \subseteq [task : Tasks, at : Time]
    PROVE  RetentionInv'
    <1>0. sweep \in Sweep /\ t \in Tasks BY DEF RetentionInv, HistoryTypeOK
    <1>1. DOMAIN tasks' = DOMAIN tasks BY DEF UpdateTask
    <1>2. /\ t \in DOMAIN tasks => tasks'[t] = row
          /\ \A v \in DOMAIN tasks \ {t} : tasks'[v] = tasks[v]
        BY DEF UpdateTask
    <1>3. sweep' \in Sweep BY <1>0, TouchSweep
    <1>4. HistoryTypeOK' BY <1>1, <1>2, <1>3 DEF RetentionInv, HistoryTypeOK
    <1>5. \A v \in DOMAIN tasks : tasks'[v].created = tasks[v].created BY <1>2
    <1>6. \A v \in DOMAIN tasks \ {t} : Eligible(v, sweep.at) => Eligible(v, sweep.at)'
        <2>1. sweep'.at = sweep.at BY <1>0, TouchSweep
        <2>2. QED BY <1>2, <2>1 DEF Eligible, Leased
    <1>7. SweepInv'
        BY <1>0, <1>1, <1>5, <1>6, TouchSweep, SweepKept DEF RetentionInv, HistoryTypeOK
    <1>8. QED BY <1>1, <1>4, <1>7 DEF RetentionInv

(* A step that writes leases of scopes it touched, or drops leases.        *)
LEMMA LeaseInv ==
    ASSUME RetentionInv, HistoryTypeOK', UNCHANGED <<tasks, gone>>,
           sweep'.pc = sweep.pc, sweep'.limit = sweep.limit, sweep'.at = sweep.at,
           sweep'.todo = sweep.todo, sweep'.remaining = sweep.remaining,
           sweep.touched \subseteq sweep'.touched,
           \A h \in DOMAIN leases' : \/ h \in DOMAIN leases /\ leases'[h] = leases[h]
                                     \/ sweep.pc # "idle" => Scope[h] \in sweep'.touched
    PROVE  RetentionInv'
    <1>0. sweep \in Sweep /\ DOMAIN tasks \cap gone = {} BY DEF RetentionInv, HistoryTypeOK
    <1>1. ASSUME sweep.pc # "idle", NEW v \in DOMAIN tasks \ sweep'.touched,
                 Eligible(v, sweep.at)
          PROVE  Eligible(v, sweep.at)'
        <2>1. ~Leased(v, sweep.at) BY <1>1 DEF Eligible
        <2>2. ~Leased(v, sweep.at)' BY <1>1, <2>1 DEF Leased
        <2>3. QED BY <1>1, <2>2 DEF Eligible
    <1>2. SweepInv' BY <1>0, <1>1, SweepKept DEF RetentionInv
    <1>3. QED BY <1>2 DEF RetentionInv

-----------------------------------------------------------------------------
LEMMA RetentionInitInv == HistoryInit => RetentionInv
    <1> SUFFICES ASSUME HistoryInit PROVE RetentionInv OBVIOUS
    <1>1. DOMAIN tasks = {} /\ DOMAIN leases = {} BY DEF HistoryInit, Nowhere
    <1>2. NoSweep \in Sweep /\ NoSweep.pc = "idle" /\ NoSweep.todo = {}
        BY DEF NoSweep, Sweep, Time
    <1>3. NoLeaseRequest \in LeaseRequest BY DEF NoLeaseRequest, LeaseRequest
    <1>4. now \in Time BY DEF HistoryInit, Time
    <1>5. HistoryTypeOK BY <1>1, <1>2, <1>3, <1>4 DEF HistoryInit, HistoryTypeOK
    <1>6. SweepInv
        BY <1>2 DEF HistoryInit, SweepInv, Resting, Known, SameAge, AsFound, Counted
    <1>7. QED BY <1>1, <1>5, <1>6, FS_EmptySet DEF RetentionInv

LEMMA TickInv ==
    ASSUME RetentionInv, Tick
    PROVE  RetentionInv'
    <1>1. now' \in Time BY DEF Tick, RetentionInv, HistoryTypeOK, Time
    <1>2. HistoryTypeOK' BY <1>1 DEF Tick, RetentionInv, HistoryTypeOK, rows
    <1>3. QED BY <1>2, RetentionAside DEF Tick

LEMMA StartInv ==
    ASSUME RetentionInv, NEW t \in Tasks, StartTask(t)
    PROVE  RetentionInv'
    <1>0. sweep \in Sweep BY DEF RetentionInv, HistoryTypeOK
    <1>1. DOMAIN tasks' = DOMAIN tasks \cup {t} BY DEF StartTask, Put
    <1>2. \A v \in DOMAIN tasks : tasks'[v] = tasks[v] BY DEF StartTask, Put
    <1>3. NewTask(now) \in TaskRow BY DEF NewTask, TaskRow, RetentionInv, HistoryTypeOK
    <1>4. tasks'[t] = NewTask(now) BY DEF StartTask, Put
    <1>5. Touch(t) BY DEF StartTask
    <1>6. sweep' \in Sweep BY <1>0, <1>5, TouchSweep
    <1>7. \A v \in DOMAIN tasks' : tasks'[v] \in TaskRow
        BY <1>1, <1>2, <1>3, <1>4 DEF RetentionInv, HistoryTypeOK
    <1>8. HistoryTypeOK'
        BY <1>1, <1>6, <1>7 DEF StartTask, RetentionInv, HistoryTypeOK
    <1>9. IsFiniteSet(DOMAIN tasks') BY <1>1, FS_AddElement DEF RetentionInv
    <1>10. \A v \in DOMAIN tasks : Eligible(v, sweep.at) => Eligible(v, sweep.at)'
        <2>1. sweep'.at = sweep.at BY <1>0, <1>5, TouchSweep
        <2>2. QED BY <1>2, <2>1 DEF StartTask, Eligible, Leased
    <1>11. \A v \in DOMAIN tasks : tasks'[v].created = tasks[v].created BY <1>2
    <1>12. DOMAIN tasks' \cap gone = {} BY <1>1 DEF StartTask, RetentionInv, HistoryTypeOK
    <1>13. UNCHANGED gone BY DEF StartTask
    <1>14. SweepInv'
        BY <1>0, <1>1, <1>5, <1>9, <1>10, <1>11, <1>12, <1>13, TouchSweep, SweepKept
    <1>15. QED BY <1>8, <1>9, <1>14 DEF RetentionInv

LEMMA ContinueInv ==
    ASSUME RetentionInv, NEW c \in Followers, Continue(c)
    PROVE  RetentionInv'
    <1>1. ASSUME NEW t \in Tasks, ContinueRead(c, t) PROVE RetentionInv'
        <2>1. HistoryTypeOK' BY <1>1 DEF ContinueRead, RetentionInv, HistoryTypeOK, rows
        <2>2. QED BY <1>1, <2>1, RetentionAside DEF ContinueRead
    <1>2. CASE ContinueQueue(c)
        <2> DEFINE t == client[c]
        <2>1. t \in Tasks BY <1>2 DEF ContinueQueue, RetentionInv, HistoryTypeOK
        <2>2. t \in DOMAIN tasks =>
                Queued(tasks[t]) \in TaskRow /\ Queued(tasks[t]).created = tasks[t].created
            <3>1. t \in DOMAIN tasks => tasks[t] \in TaskRow BY DEF RetentionInv, HistoryTypeOK
            <3>2. QED BY <3>1 DEF Queued, TaskRow
        <2>3. client' \in [Followers -> Tasks \cup {Nothing}]
            BY <1>2 DEF ContinueQueue, RetentionInv, HistoryTypeOK
        <2>4. ending' \subseteq [task : Tasks, at : Time]
            BY <1>2 DEF ContinueQueue, RetentionInv, HistoryTypeOK
        <2>5. /\ IF t \in DOMAIN tasks THEN UpdateTask(t, Queued(tasks[t])) ELSE UNCHANGED tasks
              /\ Touch(t) /\ UNCHANGED <<now, gone, leases, holder>>
            BY <1>2 DEF ContinueQueue
        <2> HIDE DEF t
        <2>6. QED BY <2>1, <2>2, <2>3, <2>4, <2>5, RowInv
    <1>3. QED BY <1>1, <1>2 DEF Continue

LEMMA TurnInv ==
    ASSUME RetentionInv, Turn
    PROVE  RetentionInv'
    <1>0. /\ \A t \in DOMAIN tasks : tasks[t] \in TaskRow
          /\ client \in [Followers -> Tasks \cup {Nothing}]
          /\ ending \subseteq [task : Tasks, at : Time] /\ now \in Time
        BY DEF RetentionInv, HistoryTypeOK
    <1>1. ASSUME NEW t \in Tasks, OpenWarm(t) PROVE RetentionInv'
        <2>1. t \in DOMAIN tasks BY <1>1 DEF OpenWarm
        <2>2. Warm(tasks[t]) \in TaskRow /\ Warm(tasks[t]).created = tasks[t].created
            <3>1. tasks[t] \in TaskRow BY <1>0, <2>1
            <3>2. QED BY <3>1 DEF Warm, TaskRow
        <2>3. /\ UpdateTask(t, Warm(tasks[t])) /\ Touch(t)
              /\ UNCHANGED <<now, gone, leases, client, holder, ending>>
            BY <1>1 DEF OpenWarm
        <2>4. QED BY <1>0, <2>1, <2>2, <2>3, RowInv
    <1>2. ASSUME NEW t \in Tasks, EndTurn(t) PROVE RetentionInv'
        <2>1. t \in DOMAIN tasks BY <1>2 DEF EndTurn
        <2>2. Ended(tasks[t]) \in TaskRow /\ Ended(tasks[t]).created = tasks[t].created
            <3>1. tasks[t] \in TaskRow BY <1>0, <2>1
            <3>2. QED BY <3>1 DEF Ended, TaskRow
        <2>3. /\ UpdateTask(t, Ended(tasks[t])) /\ Touch(t)
              /\ UNCHANGED <<now, gone, leases, client, holder>>
            BY <1>2 DEF EndTurn
        <2>4. ending' \subseteq [task : Tasks, at : Time] BY <1>0, <1>2 DEF EndTurn
        <2>5. QED BY <1>0, <2>1, <2>2, <2>3, <2>4, RowInv
    <1>3. ASSUME NEW e \in ending, ProtectTask(e) PROVE RetentionInv'
        <2> DEFINE row == Protected(tasks[e.task], e.at + Protect)
        <2>1. e \in [task : Tasks, at : Time] BY <1>0
        <2>2. e.task \in Tasks /\ e.at + Protect \in Nat BY <2>1 DEF Time
        <2>3. e.task \in DOMAIN tasks =>
                row \in TaskRow /\ row.created = tasks[e.task].created
            <3>1. e.task \in DOMAIN tasks => tasks[e.task] \in TaskRow BY <1>0
            <3>2. QED BY <2>2, <3>1 DEF Protected, TaskRow
        <2>4. /\ IF e.task \in DOMAIN tasks THEN UpdateTask(e.task, row) ELSE UNCHANGED tasks
              /\ Touch(e.task) /\ UNCHANGED <<now, gone, leases, client, holder>>
            BY <1>3 DEF ProtectTask
        <2>5. ending' \subseteq [task : Tasks, at : Time] BY <1>0, <1>3 DEF ProtectTask
        <2> HIDE DEF row
        <2>6. QED BY <1>0, <2>2, <2>3, <2>4, <2>5, RowInv
    <1>4. QED BY <1>1, <1>2, <1>3 DEF Turn

LEMMA LeasesInv ==
    ASSUME RetentionInv,
           (\E h \in Holders : Acquire(h) \/ WriteLease(h) \/ Release(h)) \/ Disconnect \/ ExpireStale
    PROVE  RetentionInv'
    <1>0. /\ now \in Time /\ holder \in [Holders -> LeaseRequest] /\ sweep \in Sweep
          /\ DOMAIN leases \subseteq Holders
          /\ \A h \in DOMAIN leases : leases[h] \in Lease
        BY DEF RetentionInv, HistoryTypeOK
    <1>1. ASSUME NEW h \in Holders, Acquire(h) PROVE RetentionInv'
        <2>1. now + LeaseTTL \in Nat BY <1>0 DEF Time
        <2>2. holder' \in [Holders -> LeaseRequest]
            BY <1>0, <1>1, <2>1 DEF Acquire, Hold, LeaseRequest
        <2>3. HistoryTypeOK' BY <1>1, <2>2 DEF Acquire, RetentionInv, HistoryTypeOK, rows
        <2>4. QED BY <1>1, <2>3, RetentionAside DEF Acquire
    <1>2. ASSUME NEW h \in Holders, WriteLease(h) PROVE RetentionInv'
        <2>1. Scope[h] \in Tasks /\ Touch(Scope[h]) BY <1>2 DEF WriteLease
        <2>2. holder[h].expires \in Nat BY <1>0 DEF LeaseRequest
        <2>3. leases' \in {leases, Put(leases, h, [expires |-> holder[h].expires])}
            BY <1>2 DEF WriteLease
        <2>4. /\ DOMAIN leases' \subseteq Holders
              /\ \A g \in DOMAIN leases' : leases'[g] \in Lease
              /\ \A g \in DOMAIN leases' : g = h \/ (g \in DOMAIN leases /\ leases'[g] = leases[g])
            <3>1. CASE leases' = leases BY <1>0, <3>1
            <3>2. CASE leases' = Put(leases, h, [expires |-> holder[h].expires])
                BY <1>0, <2>2, <3>2 DEF Put, Lease
            <3>3. QED BY <2>3, <3>1, <3>2
        <2>5. NoLeaseRequest \in LeaseRequest BY DEF NoLeaseRequest, LeaseRequest
        <2>6. holder' \in [Holders -> LeaseRequest] BY <1>0, <1>2, <2>5 DEF WriteLease, Hold
        <2>7. sweep' \in Sweep BY <1>0, <2>1, TouchSweep
        <2>8. UNCHANGED <<now, tasks, gone, client, ending>> BY <1>2 DEF WriteLease
        <2>9. HistoryTypeOK' BY <2>4, <2>6, <2>7, <2>8 DEF RetentionInv, HistoryTypeOK
        <2>10. QED BY <1>0, <2>1, <2>4, <2>8, <2>9, TouchSweep, LeaseInv
    <1>3. ASSUME NEW S, DropLeases(S) PROVE RetentionInv'
        <2>1. leases' = Drop(leases, S) BY <1>3 DEF DropLeases
        <2>2. \A h \in DOMAIN leases' : h \in DOMAIN leases /\ leases'[h] = leases[h]
            BY <2>1 DEF Drop
        <2>3. UNCHANGED <<now, tasks, gone, client, holder, ending, sweep>>
            BY <1>3 DEF DropLeases
        <2>4. /\ DOMAIN leases' \subseteq Holders
              /\ \A h \in DOMAIN leases' : leases'[h] \in Lease
            BY <1>0, <2>2
        <2>5. HistoryTypeOK' BY <2>3, <2>4 DEF RetentionInv, HistoryTypeOK
        <2>6. QED BY <2>2, <2>3, <2>5, LeaseInv
    <1>4. QED BY <1>1, <1>2, <1>3 DEF Release, Disconnect, ExpireStale

-----------------------------------------------------------------------------
(* The sweep.                                                              *)

LEMMA BeginInv ==
    ASSUME RetentionInv, NEW limit \in Limits, BeginSweep(limit)
    PROVE  RetentionInv'
    <1> DEFINE todo == {[task |-> t, created |-> tasks[t].created] :
                        t \in {v \in DOMAIN tasks : Eligible(v, now)}}
    <1>1. sweep' = [NoSweep EXCEPT !.pc = "counting", !.limit = limit, !.at = now, !.todo = todo]
        BY DEF BeginSweep
    <1>2. todo \subseteq [task : Tasks, created : Time]
        <2>1. \A t \in DOMAIN tasks : t \in Tasks /\ tasks[t] \in TaskRow
            BY DEF RetentionInv, HistoryTypeOK
        <2>2. \A t \in DOMAIN tasks : tasks[t].created \in Time BY <2>1 DEF TaskRow
        <2>3. QED BY <2>1, <2>2
    <1>3. \A d \in todo : /\ d.task \in DOMAIN tasks /\ tasks[d.task].created = d.created
                          /\ Eligible(d.task, now)
        OBVIOUS
    <1> HIDE DEF todo
    <1>4. /\ sweep'.pc = "counting" /\ sweep'.at = now /\ sweep'.todo = todo
        BY <1>1 DEF NoSweep
    <1>5. sweep' \in Sweep BY <1>1, <1>2 DEF NoSweep, Sweep, RetentionInv, HistoryTypeOK
    <1>6. UNCHANGED <<now, tasks, gone, leases, client, holder, ending>>
        BY DEF BeginSweep, rows
    <1>7. HistoryTypeOK' BY <1>5, <1>6 DEF RetentionInv, HistoryTypeOK
    <1>8. \A v \in DOMAIN tasks : Eligible(v, now)' <=> Eligible(v, now)
        BY <1>6 DEF Eligible, Leased
    <1>9. AsFound'
        <2> SUFFICES ASSUME NEW d \in todo PROVE Eligible(d.task, now)'
            BY <1>4, <1>6 DEF AsFound
        <2>1. QED BY <1>3, <1>8
    <1>10. Resting' /\ Known' /\ SameAge' /\ Counted'
        BY <1>3, <1>4, <1>6 DEF Resting, Known, SameAge, Counted
    <1>11. QED BY <1>6, <1>7, <1>9, <1>10 DEF RetentionInv, SweepInv

LEMMA CountInv ==
    ASSUME RetentionInv, CountTasks
    PROVE  RetentionInv'
    <1>0. sweep \in Sweep /\ Cardinality(DOMAIN tasks) \in Nat
        BY FS_CardinalityType DEF RetentionInv, HistoryTypeOK
    <1>1. /\ sweep' \in Sweep /\ sweep'.pc = "deleting" /\ sweep'.at = sweep.at
          /\ sweep'.todo = sweep.todo /\ sweep'.touched = sweep.touched
          /\ sweep'.remaining = Cardinality(DOMAIN tasks)
        BY <1>0 DEF CountTasks, Sweep
    <1>2. UNCHANGED <<now, tasks, gone, leases, client, holder, ending>>
        BY DEF CountTasks, rows
    <1>3. HistoryTypeOK' BY <1>1, <1>2 DEF RetentionInv, HistoryTypeOK
    <1>4. AsFound' BY <1>1, <1>2 DEF RetentionInv, SweepInv, AsFound, Eligible, Leased
    <1>5. Resting' /\ Known' /\ SameAge' /\ Counted'
        BY <1>0, <1>1, <1>2 DEF RetentionInv, SweepInv, Resting, Known, SameAge, Counted
    <1>6. QED BY <1>2, <1>3, <1>4, <1>5 DEF RetentionInv, SweepInv

LEMMA EndInv ==
    ASSUME RetentionInv, EndSweep
    PROVE  RetentionInv'
    <1>1. NoSweep \in Sweep /\ NoSweep.pc = "idle" /\ NoSweep.todo = {}
        BY DEF NoSweep, Sweep, Time
    <1>2. sweep' = NoSweep /\ UNCHANGED <<now, tasks, gone, leases, client, holder, ending>>
        BY DEF EndSweep, rows
    <1>3. HistoryTypeOK' BY <1>1, <1>2 DEF RetentionInv, HistoryTypeOK
    <1>4. SweepInv'
        BY <1>1, <1>2 DEF SweepInv, Resting, Known, SameAge, AsFound, Counted
    <1>5. QED BY <1>2, <1>3, <1>4 DEF RetentionInv

LEMMA DeleteInv ==
    ASSUME RetentionInv, NEW c \in sweep.todo, Delete(c)
    PROVE  RetentionInv'
    <1>0. sweep \in Sweep /\ c.task \in Tasks BY DEF RetentionInv, HistoryTypeOK, Sweep
    <1>1. /\ DOMAIN tasks' = DOMAIN tasks \ {c.task}
          /\ \A v \in DOMAIN tasks' : tasks'[v] = tasks[v]
        BY DEF Delete, Drop
    <1>2. gone' = gone \cup {c.task} /\ UNCHANGED <<now, leases, client, holder, ending>>
        BY DEF Delete
    <1> DEFINE left == IF sweep.limit # 0 /\ c.task \in DOMAIN tasks
                       THEN sweep.remaining - 1 ELSE sweep.remaining
    <1>3. sweep' = [sweep EXCEPT !.todo = sweep.todo \ {c}, !.remaining = left]
        BY DEF Delete
    <1>4. left \in Nat
        <2>1. sweep.remaining \in Nat /\ sweep.limit \in Nat BY <1>0 DEF Sweep
        <2>2. sweep.limit # 0 => sweep.remaining > sweep.limit BY DEF Delete, More
        <2>3. QED BY <2>1, <2>2
    <1> HIDE DEF left
    <1>5. /\ sweep' \in Sweep /\ sweep'.todo = sweep.todo \ {c} /\ sweep'.remaining = left
          /\ sweep'.pc = "deleting" /\ sweep'.limit = sweep.limit /\ sweep'.at = sweep.at
          /\ sweep'.touched = sweep.touched
        BY <1>0, <1>3, <1>4 DEF Delete, Sweep
    <1>6. HistoryTypeOK' BY <1>0, <1>1, <1>2, <1>5 DEF RetentionInv, HistoryTypeOK
    <1>7. IsFiniteSet(DOMAIN tasks') BY <1>1, FS_RemoveElement DEF RetentionInv
    <1>8. Resting' /\ Known' /\ SameAge'
        BY <1>1, <1>2, <1>5 DEF RetentionInv, SweepInv, Resting, Known, SameAge
    <1>9. AsFound'
        <2>1. \A v \in DOMAIN tasks' : Eligible(v, sweep.at) => Eligible(v, sweep.at)'
            BY <1>1, <1>2, <1>5 DEF Eligible, Leased
        <2>2. QED BY <1>1, <1>5, <2>1 DEF RetentionInv, SweepInv, AsFound
    <1>10. Counted'
        <2>1. sweep.pc = "deleting" BY DEF Delete
        <2>2. Cardinality(DOMAIN tasks') =
                IF c.task \in DOMAIN tasks THEN Cardinality(DOMAIN tasks) - 1
                                           ELSE Cardinality(DOMAIN tasks)
            BY <1>1, FS_RemoveElement DEF RetentionInv
        <2>3. Cardinality(DOMAIN tasks) \in Nat BY FS_CardinalityType DEF RetentionInv
        <2>4. sweep.remaining \in Nat BY <1>0 DEF Sweep
        <2>5. sweep.limit # 0 => left <= Cardinality(DOMAIN tasks')
            BY <2>1, <2>2, <2>3, <2>4 DEF left, RetentionInv, SweepInv, Counted
        <2>6. QED BY <1>5, <2>5 DEF Counted
    <1>11. QED BY <1>6, <1>7, <1>8, <1>9, <1>10 DEF RetentionInv, SweepInv

LEMMA RetentionNextInv == RetentionInv /\ [HistoryNext]_hvars => RetentionInv'
    <1> SUFFICES ASSUME RetentionInv, [HistoryNext]_hvars PROVE RetentionInv' OBVIOUS
    <1>1. CASE Tick BY <1>1, TickInv
    <1>2. ASSUME NEW t \in Tasks, StartTask(t) PROVE RetentionInv' BY <1>2, StartInv
    <1>3. ASSUME NEW c \in Followers, Continue(c) PROVE RetentionInv' BY <1>3, ContinueInv
    <1>4. CASE Turn BY <1>4, TurnInv
    <1>5. CASE \/ \E h \in Holders : Acquire(h) \/ WriteLease(h) \/ Release(h)
               \/ Disconnect \/ ExpireStale
        BY <1>5, LeasesInv
    <1>6. CASE Retention BY <1>6, BeginInv, CountInv, EndInv, DeleteInv DEF Retention
    <1>7. CASE UNCHANGED hvars
        <2>1. HistoryTypeOK' BY <1>7 DEF hvars, rows, RetentionInv, HistoryTypeOK
        <2>2. QED BY <1>7, <2>1, RetentionAside DEF hvars
    <1>8. QED BY <1>1, <1>2, <1>3, <1>4, <1>5, <1>6, <1>7 DEF HistoryNext

LEMMA RetentionInvariance == HistorySpec => []RetentionInv
    BY RetentionInitInv, RetentionNextInv, PTL DEF HistorySpec

-----------------------------------------------------------------------------
(* What a deletion is.                                                     *)

(* A task that goes is a candidate the sweep deletes.                      *)
LEMMA DeletedByDelete ==
    ASSUME RetentionInv, [HistoryNext]_hvars, NEW t \in Deleted
    PROVE  \E c \in sweep.todo : Delete(c) /\ c.task = t
    <1>1. CASE Tick BY <1>1 DEF Tick, rows, Deleted
    <1>2. ASSUME NEW v \in Tasks, StartTask(v) PROVE FALSE
        BY <1>2 DEF StartTask, Put, Deleted
    <1>3. ASSUME NEW c \in Followers, Continue(c) PROVE FALSE
        BY <1>3 DEF Continue, ContinueRead, ContinueQueue, UpdateTask, rows, Deleted
    <1>4. CASE Turn
        BY <1>4 DEF Turn, OpenWarm, EndTurn, ProtectTask, UpdateTask, Deleted
    <1>5. CASE \/ \E h \in Holders : Acquire(h) \/ WriteLease(h) \/ Release(h)
               \/ Disconnect \/ ExpireStale
        BY <1>5 DEF Acquire, WriteLease, Release, Disconnect, ExpireStale, DropLeases, rows, Deleted
    <1>6. CASE Retention
        <2>1. PICK c \in sweep.todo : Delete(c)
            BY <1>6 DEF Retention, BeginSweep, CountTasks, EndSweep, rows, Deleted
        <2>2. t = c.task BY <2>1 DEF Delete, Drop, Deleted
        <2>3. QED BY <2>1, <2>2
    <1>7. CASE UNCHANGED hvars BY <1>7 DEF hvars, rows, Deleted
    <1>8. QED BY <1>1, <1>2, <1>3, <1>4, <1>5, <1>6, <1>7 DEF HistoryNext

(* Rows, leases, requests and the sweep stay of their types.  In particular no
   continue, turn or lease that races the sweep brings a deleted row back
   (UPDATE and INSERT by id).                                              *)
THEOREM RetentionTypes == HistorySpec => []HistoryTypeOK
    <1>1. RetentionInv => HistoryTypeOK BY DEF RetentionInv
    <1>2. QED BY RetentionInvariance, <1>1, PTL

(* A sweep with a limit leaves at least that many tasks, whatever starts and
   ends while it deletes (run_retention's remaining).                      *)
THEOREM KeepsLimit == HistorySpec => LimitKept
    <1>1. ASSUME RetentionInv, [HistoryNext]_hvars
          PROVE  [Deleted # {} => sweep.limit = 0 \/ Cardinality(DOMAIN tasks) > sweep.limit]_hvars
        <2> SUFFICES ASSUME NEW t \in Deleted, sweep.limit # 0
                     PROVE  Cardinality(DOMAIN tasks) > sweep.limit
            OBVIOUS
        <2>1. PICK c \in sweep.todo : Delete(c) BY <1>1, DeletedByDelete
        <2>2. sweep.remaining > sweep.limit /\ sweep.pc = "deleting" BY <2>1 DEF Delete, More
        <2>3. sweep.remaining \in Nat /\ sweep.limit \in Nat
            BY <1>1 DEF RetentionInv, HistoryTypeOK, Sweep
        <2>4. Cardinality(DOMAIN tasks) \in Nat BY <1>1, FS_CardinalityType DEF RetentionInv
        <2>5. sweep.remaining <= Cardinality(DOMAIN tasks)
            BY <1>1, <2>2 DEF RetentionInv, SweepInv, Counted
        <2>6. QED BY <2>2, <2>3, <2>4, <2>5
    <1>2. QED BY RetentionInvariance, <1>1, PTL DEF HistorySpec, LimitKept

(* Of its candidates a sweep deletes the oldest first (ORDER BY created_at). *)
THEOREM DeletesOldest == HistorySpec => OldestGoFirst
    <1>1. ASSUME RetentionInv, [HistoryNext]_hvars
          PROVE  [\A t \in Deleted : \A d \in sweep.todo :
                    d.task \in DOMAIN tasks => tasks[t].created <= tasks[d.task].created]_hvars
        <2> SUFFICES ASSUME NEW t \in Deleted, NEW d \in sweep.todo, d.task \in DOMAIN tasks
                     PROVE  tasks[t].created <= tasks[d.task].created
            OBVIOUS
        <2>1. PICK c \in sweep.todo : Delete(c) /\ c.task = t BY <1>1, DeletedByDelete
        <2>2. c.created <= d.created BY <2>1 DEF Delete, Oldest
        <2>3. t \in DOMAIN tasks BY DEF Deleted
        <2>4. tasks[t].created = c.created /\ tasks[d.task].created = d.created
            BY <1>1, <2>1, <2>3 DEF RetentionInv, SweepInv, SameAge
        <2>5. QED BY <2>2, <2>4
    <1>2. QED BY RetentionInvariance, <1>1, PTL DEF HistorySpec, OldestGoFirst

(* A task that is active, warm, protected or leased is deleted only when its
   row or a lease of it was written after the sweep had looked at the rows
   (run_retention, retention.rs:1).                                        *)
THEOREM SparesProtected == HistorySpec => ProtectedSurvives
    <1>1. ASSUME RetentionInv, [HistoryNext]_hvars
          PROVE  [\A t \in Deleted :
                    \/ t \in sweep.touched
                    \/ /\ ~tasks[t].active /\ tasks[t].session = "cold"
                       /\ tasks[t].protect <= sweep.at
                       /\ \A h \in DOMAIN leases :
                             Scope[h] = t => leases[h].expires <= sweep.at]_hvars
        <2> SUFFICES ASSUME NEW t \in Deleted, t \notin sweep.touched
                     PROVE  /\ ~tasks[t].active /\ tasks[t].session = "cold"
                            /\ tasks[t].protect <= sweep.at
                            /\ \A h \in DOMAIN leases :
                                  Scope[h] = t => leases[h].expires <= sweep.at
            OBVIOUS
        <2>1. PICK c \in sweep.todo : Delete(c) /\ c.task = t BY <1>1, DeletedByDelete
        <2>2. t \in DOMAIN tasks BY DEF Deleted
        <2>3. Eligible(t, sweep.at) BY <1>1, <2>1, <2>2 DEF RetentionInv, SweepInv, AsFound
        <2>4. tasks[t] \in TaskRow BY <1>1, <2>2 DEF RetentionInv, HistoryTypeOK
        <2>5. tasks[t].session = "cold" BY <2>3, <2>4 DEF Eligible, TaskRow
        <2>6. \A h \in DOMAIN leases : leases[h].expires \in Nat
            BY <1>1 DEF RetentionInv, HistoryTypeOK, Lease
        <2>7. sweep.at \in Nat BY <1>1 DEF RetentionInv, HistoryTypeOK, Sweep, Time
        <2>8. QED BY <2>3, <2>5, <2>6, <2>7 DEF Eligible, Leased
    <1>2. QED BY RetentionInvariance, <1>1, PTL DEF HistorySpec, ProtectedSurvives

-----------------------------------------------------------------------------
(***************************************************************************)
(* For any number of callers, submission ids, inputs and any expiry:       *)
(* types, one task for each submission id, and no answer about another     *)
(* input.  An answer that has not expired has its row (Remembered), every  *)
(* row was an answer (Answered), and tasks are numbered without gaps, so   *)
(* that the next number is new (Numbered).                                 *)
(***************************************************************************)

Told == {a.task : a \in answers}

RowOf(a) == [input |-> a.input, task |-> a.task, expires |-> a.expires]

Remembered ==
    \A a \in answers : a.expires >= clock =>
        a.sub \in DOMAIN submissions /\ submissions[a.sub] = RowOf(a)

Answered ==
    \A s \in DOMAIN submissions : \E a \in answers :
        a.task = submissions[s].task /\ a.input = submissions[s].input

Numbered == \E n \in Nat : Told = 1..n

RequestsInv == /\ StartTypeOK /\ IsFiniteSet(answers) /\ Remembered /\ Answered /\ Numbered
        /\ OneTaskPerSubmission /\ AnsweredAsAsked

USE StartAssumption

-----------------------------------------------------------------------------
(* new_id: no answer is about the next task.                               *)
LEMMA FreshIsNew ==
    ASSUME Numbered
    PROVE  /\ FreshTask \in Nat \ {0} /\ FreshTask \notin Told
           /\ \E n \in Nat : Told \cup {FreshTask} = 1..n
    <1>1. PICK n \in Nat : Told = 1..n BY DEF Numbered
    <1>2. Cardinality(1..n) = n BY FS_Interval
    <1>3. FreshTask = n + 1
        <2>1. FreshTask = 1 + Cardinality(Told) BY Zenon DEF FreshTask, Told
        <2>2. Cardinality(Told) = n BY <1>1, <1>2
        <2>3. QED BY <2>1, <2>2
    <1>4. (1..n) \cup {n + 1} = 1..(n + 1) OBVIOUS
    <1>5. n + 1 \in Nat \ {0} /\ n + 1 \notin 1..n OBVIOUS
    <1>6. QED BY <1>1, <1>3, <1>4, <1>5

LEMMA NotAskingType == NotAsking \in Asking
    <1>1. NotAsking.sub \in Submissions /\ NotAsking.input \in Inputs BY DEF NotAsking
    <1>2. QED BY <1>1 DEF NotAsking, Asking, Ticks

(* There are no more tasks than answers.                                   *)
LEMMA FreshBounded ==
    ASSUME IsFiniteSet(answers)
    PROVE  FreshTask <= Cardinality(answers) + 1
    <1> DEFINE f == [a \in answers |-> a.task]
    <1>1. f \in Surjection(answers, Told) BY DEF Surjection, Told
    <1>2. IsFiniteSet(Told) /\ Cardinality(Told) <= Cardinality(answers)
        BY <1>1, FS_Surjection
    <1>3. Cardinality(Told) \in Nat /\ Cardinality(answers) \in Nat
        BY <1>2, FS_CardinalityType
    <1>4. QED BY <1>2, <1>3 DEF FreshTask, Told

(* A step that leaves submissions, answers and clock.                      *)
LEMMA RequestsAside ==
    ASSUME RequestsInv, UNCHANGED <<clock, submissions, answers>>, asking' \in [Callers -> Asking]
    PROVE  RequestsInv'
    BY DEF RequestsInv, StartTypeOK, Remembered, Answered, Numbered, Told, RowOf,
           OneTaskPerSubmission, AnsweredAsAsked

-----------------------------------------------------------------------------
LEMMA RequestsInitInv ==
    ASSUME StartInit
    PROVE  RequestsInv
    <1>1. answers = {} /\ DOMAIN submissions = {} BY DEF StartInit
    <1>2. StartTypeOK BY <1>1, NotAskingType DEF StartInit, StartTypeOK, Ticks
    <1>3. Numbered
        <2>1. Told = {} /\ 1..0 = {} BY <1>1 DEF Told
        <2>2. QED BY <2>1 DEF Numbered
    <1>4. QED
        BY <1>1, <1>2, <1>3, FS_EmptySet
        DEF RequestsInv, Remembered, Answered, OneTaskPerSubmission, AnsweredAsAsked

LEMMA ElapseInv ==
    ASSUME RequestsInv, Elapse
    PROVE  RequestsInv'
    <1>1. clock' = clock + 1 /\ clock \in Nat /\ clock' \in Ticks
        BY DEF Elapse, RequestsInv, StartTypeOK, Ticks
    <1>2. \A a \in answers : a.expires \in Nat BY DEF RequestsInv, StartTypeOK, Answer
    <1>3. StartTypeOK' BY <1>1 DEF Elapse, RequestsInv, StartTypeOK
    <1>4. Remembered' BY <1>1, <1>2 DEF Elapse, RequestsInv, Remembered, RowOf
    <1>5. QED
        BY <1>3, <1>4
        DEF Elapse, RequestsInv, Answered, Numbered, Told, OneTaskPerSubmission, AnsweredAsAsked

LEMMA PurgeInv ==
    ASSUME RequestsInv, Purge
    PROVE  RequestsInv'
    <1>1. /\ DOMAIN submissions' = {s \in DOMAIN submissions : submissions[s].expires >= clock}
          /\ \A s \in DOMAIN submissions' : submissions'[s] = submissions[s]
          /\ UNCHANGED <<clock, asking, answers>>
        BY DEF Purge
    <1>2. StartTypeOK' BY <1>1 DEF RequestsInv, StartTypeOK
    <1>3. Remembered' BY <1>1 DEF RequestsInv, Remembered, RowOf
    <1>4. Answered' BY <1>1 DEF RequestsInv, Answered
    <1>5. QED
        BY <1>1, <1>2, <1>3, <1>4 DEF RequestsInv, Numbered, Told, OneTaskPerSubmission, AnsweredAsAsked

-----------------------------------------------------------------------------
(* What an answer adds to the old ones.                                    *)

LEMMA KnownInv ==
    ASSUME RequestsInv, NEW c \in Callers, NEW s \in Submissions, NEW i \in Inputs,
           AnswerKnown(c, s, i)
    PROVE  RequestsInv'
    <1> DEFINE row == submissions[s]
               new == [sub |-> s, input |-> i, task |-> row.task, expires |-> row.expires,
                       at |-> clock]
    <1>1. /\ s \in DOMAIN submissions /\ row.input = i /\ answers' = answers \cup {new}
          /\ UNCHANGED <<clock, submissions, asking>>
        BY DEF AnswerKnown, Reply
    <1>2. row \in SubmissionRow BY <1>1 DEF RequestsInv, StartTypeOK
    <1>3. new \in Answer BY <1>2 DEF SubmissionRow, Answer, RequestsInv, StartTypeOK
    <1>4. row = RowOf(new) BY <1>1, <1>2 DEF SubmissionRow, RowOf
    <1>5. /\ new.sub = s /\ new.input = i /\ new.task = row.task /\ new.expires = row.expires
          /\ new.at = clock
        OBVIOUS
    <1> HIDE DEF new
    <1>6. StartTypeOK' /\ IsFiniteSet(answers')
        BY <1>1, <1>3, FS_AddElement DEF RequestsInv, StartTypeOK
    <1>7. Remembered' BY <1>1, <1>4, <1>5 DEF RequestsInv, Remembered, RowOf
    <1>8. PICK a \in answers : a.task = row.task /\ a.input = i
        BY <1>1 DEF RequestsInv, Answered
    <1>9. Answered' BY <1>1 DEF RequestsInv, Answered
    <1>10. Numbered'
        <2>1. Told' = Told BY <1>1, <1>5, <1>8 DEF Told
        <2>2. QED BY <2>1 DEF RequestsInv, Numbered
    <1>11. AnsweredAsAsked'
        BY <1>1, <1>5, <1>8 DEF RequestsInv, AnsweredAsAsked
    <1>12. OneTaskPerSubmission'
        <2>1. \A y \in answers : y.sub = s /\ y.task # row.task => y.expires < clock
            <3> SUFFICES ASSUME NEW y \in answers, y.sub = s, y.expires >= clock
                         PROVE  y.task = row.task
                BY DEF RequestsInv, StartTypeOK, Answer, Ticks
            <3>1. row = RowOf(y) BY DEF RequestsInv, Remembered
            <3>2. QED BY <3>1 DEF RowOf
        <2>2. QED BY <1>1, <1>5, <2>1 DEF RequestsInv, OneTaskPerSubmission
    <1>13. QED BY <1>6, <1>7, <1>9, <1>10, <1>11, <1>12 DEF RequestsInv

LEMMA AcceptInv ==
    ASSUME RequestsInv, NEW c \in Callers, Accept(c)
    PROVE  RequestsInv'
    <1>0. asking[c] \in Asking BY DEF RequestsInv, StartTypeOK
    <1>1. asking[c].sub \in Submissions /\ asking[c].input \in Inputs BY <1>0 DEF Asking
    <1>2. asking' \in [Callers -> Asking]
        BY <1>1, NotAskingType DEF Accept, Forget, RequestsInv, StartTypeOK
    <1>3. CASE asking[c].sub \in DOMAIN submissions
        BY <1>2, <1>3, RequestsAside DEF Accept
    <1>4. CASE asking[c].sub \notin DOMAIN submissions
        <2> DEFINE s == asking[c].sub
                   i == asking[c].input
                   row == Row(c)
                   new == [sub |-> s, input |-> i, task |-> row.task,
                           expires |-> row.expires, at |-> clock]
        <2>1. /\ submissions' = [v \in DOMAIN submissions \cup {s} |->
                                    IF v = s THEN row ELSE submissions[v]]
              /\ answers' = answers \cup {new} /\ UNCHANGED clock
              /\ Cardinality(answers) < MaxAnswers
            BY <1>4 DEF Accept, Insert, Reply
        <2>2. row = [input |-> i, task |-> FreshTask, expires |-> asking[c].at + SubmissionTTL]
            BY DEF Row
        <2>3. asking[c].at + SubmissionTTL \in Nat BY <1>0 DEF Asking, Ticks
        <2>4. FreshTask \in Task
            <3>1. FreshTask \in Nat \ {0} BY FreshIsNew DEF RequestsInv
            <3>2. FreshTask <= Cardinality(answers) + 1 BY FreshBounded DEF RequestsInv
            <3>3. Cardinality(answers) \in Nat BY FS_CardinalityType DEF RequestsInv
            <3>4. QED BY <2>1, <3>1, <3>2, <3>3 DEF Task
        <2>5. row \in SubmissionRow BY <1>1, <2>2, <2>3, <2>4 DEF SubmissionRow
        <2>6. new \in Answer
            BY <1>1, <2>5 DEF SubmissionRow, Answer, RequestsInv, StartTypeOK
        <2>7. /\ new.sub = s /\ new.input = i /\ new.task = FreshTask
              /\ new.at = clock /\ row.task = FreshTask /\ row.input = i
              /\ new.expires = row.expires
            BY <2>2
        <2>8. row = RowOf(new) BY <2>2, <2>7 DEF RowOf
        <2>9. \A a \in answers : a.task # FreshTask BY FreshIsNew DEF RequestsInv, Told
        <2>10. \A a \in answers : a.sub = s => a.expires < clock
            <3>1. \A a \in answers : a.expires \in Nat BY DEF RequestsInv, StartTypeOK, Answer
            <3>2. clock \in Nat BY DEF RequestsInv, StartTypeOK, Ticks
            <3>3. QED BY <1>4, <3>1, <3>2 DEF RequestsInv, Remembered
        <2> HIDE DEF new, row, s, i
        <2>11. /\ DOMAIN submissions' = DOMAIN submissions \cup {s} /\ submissions'[s] = row
               /\ \A v \in DOMAIN submissions \ {s} : submissions'[v] = submissions[v]
            BY <2>1
        <2>12. s \in Submissions BY <1>1 DEF s
        <2>13. StartTypeOK' /\ IsFiniteSet(answers')
            <3>1. \A v \in DOMAIN submissions' : submissions'[v] \in SubmissionRow
                BY <2>5, <2>11 DEF RequestsInv, StartTypeOK
            <3>2. QED
                BY <1>2, <2>1, <2>6, <2>11, <2>12, <3>1, FS_AddElement DEF RequestsInv, StartTypeOK
        <2>14. Remembered'
            <3> SUFFICES ASSUME NEW a \in answers', a.expires >= clock'
                         PROVE  /\ a.sub \in DOMAIN submissions'
                                /\ submissions'[a.sub] = RowOf(a)
                BY DEF Remembered, RowOf
            <3>1. CASE a = new BY <2>7, <2>8, <2>11, <3>1
            <3>2. CASE a \in answers
                <4>1. a.expires >= clock BY <2>1
                <4>2. a.sub \in DOMAIN submissions /\ submissions[a.sub] = RowOf(a)
                    BY <3>2, <4>1 DEF RequestsInv, Remembered
                <4>3. a.sub # s BY <1>4, <4>2 DEF s
                <4>4. QED BY <2>11, <4>2, <4>3
            <3>3. QED BY <2>1, <3>1, <3>2
        <2>15. Answered'
            <3>1. new \in answers' /\ answers \subseteq answers' BY <2>1
            <3>2. QED BY <2>7, <2>11, <3>1 DEF RequestsInv, Answered
        <2>16. Numbered'
            <3>1. Told' = Told \cup {FreshTask} BY <2>1, <2>7 DEF Told
            <3>2. QED BY <3>1, FreshIsNew DEF RequestsInv, Numbered
        <2>17. AnsweredAsAsked' BY <2>1, <2>7, <2>9 DEF RequestsInv, AnsweredAsAsked
        <2>18. OneTaskPerSubmission'
            BY <2>1, <2>7, <2>10 DEF RequestsInv, OneTaskPerSubmission
        <2>19. QED BY <2>13, <2>14, <2>15, <2>16, <2>17, <2>18 DEF RequestsInv
    <1>5. QED BY <1>3, <1>4

LEMMA RequestsNextInv == RequestsInv /\ [StartNext]_svars => RequestsInv'
    <1> SUFFICES ASSUME RequestsInv, [StartNext]_svars PROVE RequestsInv' OBVIOUS
    <1>1. CASE Elapse BY <1>1, ElapseInv
    <1>2. CASE Purge BY <1>2, PurgeInv
    <1>3. CASE DaemonDies
        <2>1. asking' \in [Callers -> Asking] BY <1>3, NotAskingType DEF DaemonDies
        <2>2. QED BY <1>3, <2>1, RequestsAside DEF DaemonDies
    <1>4. ASSUME NEW c \in Callers, Accept(c) PROVE RequestsInv' BY <1>4, AcceptInv
    <1>5. ASSUME NEW c \in Callers, NEW s \in Submissions, NEW i \in Inputs,
                 AnswerKnown(c, s, i)
          PROVE  RequestsInv'
        BY <1>5, KnownInv
    <1>6. ASSUME NEW c \in Callers, NEW s \in Submissions, NEW i \in Inputs, Look(c, s, i)
          PROVE  RequestsInv'
        <2>1. [sub |-> s, input |-> i, at |-> clock, pc |-> "accepting"] \in Asking
            BY DEF Asking, RequestsInv, StartTypeOK
        <2>2. asking' \in [Callers -> Asking] BY <1>6, <2>1 DEF Look, RequestsInv, StartTypeOK
        <2>3. QED BY <1>6, <2>2, RequestsAside DEF Look
    <1>7. CASE UNCHANGED svars BY <1>7, RequestsAside DEF svars, RequestsInv, StartTypeOK
    <1>8. QED BY <1>1, <1>2, <1>3, <1>4, <1>5, <1>6, <1>7 DEF StartNext

LEMMA RequestsInvariance == StartSpec => []RequestsInv
    BY RequestsInitInv, RequestsNextInv, PTL DEF StartSpec

-----------------------------------------------------------------------------
(* The rows, the requests and the answers stay of their types.             *)
THEOREM RequestsTypes == StartSpec => []StartTypeOK
    <1>1. RequestsInv => StartTypeOK BY DEF RequestsInv
    <1>2. QED BY RequestsInvariance, <1>1, PTL

(* Two callers that use one submission id are told of one task, unless the
   answer about the first had expired before the second was accepted
   (get_submission, accept_start_submission).                              *)
THEOREM OneTask == StartSpec => []OneTaskPerSubmission
    <1>1. RequestsInv => OneTaskPerSubmission BY DEF RequestsInv
    <1>2. QED BY RequestsInvariance, <1>1, PTL

(* Nobody is told of a task that runs another input than the one asked for
   (input_hash).                                                           *)
THEOREM AsAsked == StartSpec => []AnsweredAsAsked
    <1>1. RequestsInv => AnsweredAsAsked BY DEF RequestsInv
    <1>2. QED BY RequestsInvariance, <1>1, PTL

-----------------------------------------------------------------------------
(***************************************************************************)
(* For any number of commands, binaries and hello attempts: types, and that *)
(* no request is handled twice.  HandledOnce is not inductive by itself: a  *)
(* call that was answered goes on to its next request only if a daemon had  *)
(* handled the one before, and the hellos that are left bound the attempts  *)
(* (RowOnce).                                                               *)
(***************************************************************************)

\* What the row of a call says of the requests a daemon was given.
RowOnce(row) ==
  /\ row.handled <= row.step
  /\ row.pc \in {"ensuring", "dialing", "restarting", "sent"} => row.handled = row.step - 1
  /\ row.pc = "working" => row.handled = row.step
  /\ row.pc = "answered" /\ row.outcome = "ok" => row.handled = row.step
  /\ row.pc \in {"ensuring", "dialing", "restarting"} => row.hellos < MaxHellos

\* What the MCP server was sent and what it answered.
Dialogues == [lines : Seq(Lines), answers : Seq({"result", "error"})]

CallsInv == ClientTypeOK /\ \A c \in Programs : RowOnce(call[c])

USE CallAssumption

-----------------------------------------------------------------------------
LEMMA NoCallRow == NoCall \in CallRow /\ RowOnce(NoCall)
  BY DEF NoCall, CallRow, CallPc, McpOps, ShellOps, Outcomes, Codes, RowOnce

\* A step that gives one call such a row.
LEMMA SetCallInv ==
  ASSUME CallsInv, NEW c \in Programs, NEW row \in CallRow, RowOnce(row), SetCall(c, row),
         serving' \in {"none", "older", "newer"}, giving' \in BOOLEAN,
         stdio' \in Dialogues
  PROVE  CallsInv'
  <1>1. call' = [call EXCEPT ![c] = row] /\ call \in [Programs -> CallRow]
    BY DEF SetCall, CallsInv, ClientTypeOK
  <1>2. \A d \in Programs : call'[d] = IF d = c THEN row ELSE call[d] BY <1>1
  <1>3. \A d \in Programs : RowOnce(call'[d]) BY <1>2 DEF CallsInv
  <1>4. ClientTypeOK' BY <1>1 DEF ClientTypeOK, Dialogues
  <1>5. QED BY <1>3, <1>4 DEF CallsInv, RowOnce

\* A row of the type that says the same, but for where the call is.
LEMMA AtRow ==
  ASSUME NEW row \in CallRow, NEW pc \in CallPc
  PROVE  LET new == [row EXCEPT !.pc = pc]
         IN /\ new \in CallRow /\ new.pc = pc /\ new.handled = row.handled
            /\ new.step = row.step /\ new.hellos = row.hellos /\ new.outcome = row.outcome
  BY DEF CallRow

LEMMA GiveUpInv ==
  ASSUME CallsInv, NEW c \in Programs, GiveUp(c),
         serving' \in {"none", "older", "newer"}, giving' \in BOOLEAN, UNCHANGED stdio
  PROVE  CallsInv'
  <1> DEFINE old == call[c]
             row == [old EXCEPT !.pc = "answered", !.outcome = "daemon_error"]
  <1>1. old \in CallRow /\ RowOnce(old) BY DEF CallsInv, ClientTypeOK
  <1>2. /\ row \in CallRow /\ row.pc = "answered" /\ row.outcome = "daemon_error"
        /\ row.handled = old.handled /\ row.step = old.step
    BY <1>1 DEF CallRow, CallPc, Outcomes
  <1> HIDE DEF row
  <1>3. RowOnce(row) BY <1>1, <1>2 DEF RowOnce
  <1>4. SetCall(c, row) BY DEF GiveUp, row
  <1>5. stdio' \in Dialogues BY DEF CallsInv, ClientTypeOK, Dialogues
  <1>6. QED BY <1>2, <1>3, <1>4, <1>5, SetCallInv

\* The end of a daemon keeps what the rows say.
LEMMA CutRows ==
  ASSUME CallsInv
  PROVE  Cut(call) \in [Programs -> CallRow] /\ \A c \in Programs : RowOnce(Cut(call)[c])
  <1> SUFFICES ASSUME NEW c \in Programs
               PROVE  Cut(call)[c] \in CallRow /\ RowOnce(Cut(call)[c])
    BY DEF Cut
  <1>1. call[c] \in CallRow /\ RowOnce(call[c]) BY DEF CallsInv, ClientTypeOK
  <1>2. CASE call[c].pc \in {"sent", "working"}
    <2> DEFINE row == [call[c] EXCEPT !.pc = "eof"]
    <2>1. "eof" \in CallPc BY DEF CallPc
    <2>2. /\ row \in CallRow /\ row.pc = "eof" /\ row.handled = call[c].handled
          /\ row.step = call[c].step
      BY <1>1, <2>1, AtRow
    <2>3. Cut(call)[c] = row BY <1>2 DEF Cut
    <2> HIDE DEF row
    <2>4. QED BY <1>1, <2>2, <2>3 DEF RowOnce
  <1>3. CASE call[c].pc \notin {"sent", "working"} BY <1>1, <1>3 DEF Cut
  <1>4. QED BY <1>2, <1>3

-----------------------------------------------------------------------------
LEMMA CallsInitInv == ClientInit => CallsInv
  <1> SUFFICES ASSUME ClientInit PROVE CallsInv OBVIOUS
  <1>1. call \in [Programs -> CallRow] /\ \A c \in Programs : RowOnce(call[c])
    BY NoCallRow DEF ClientInit
  <1>2. stdio = [lines |-> <<>>, answers |-> <<>>] BY DEF ClientInit
  <1>3. stdio \in Dialogues BY <1>2 DEF Dialogues
  <1>4. serving \in {"none", "older", "newer"} /\ giving \in BOOLEAN BY DEF ClientInit
  <1>5. QED BY <1>1, <1>3, <1>4 DEF CallsInv, ClientTypeOK, Dialogues

LEMMA TypeCommandInv ==
  ASSUME CallsInv, NEW c \in Shells, TypeCommand(c)
  PROVE  CallsInv'
  <1>1. PICK op \in ShellOps, json \in BOOLEAN :
          \/ SetCall(c, [NoCall EXCEPT !.pc = "ended", !.op = op, !.json = json, !.code = "1"])
          \/ SetCall(c, [NoCall EXCEPT !.pc = "ensuring", !.op = op, !.json = json])
    BY DEF TypeCommand
  <1> DEFINE wrong == [NoCall EXCEPT !.pc = "ended", !.op = op, !.json = json, !.code = "1"]
             asked == [NoCall EXCEPT !.pc = "ensuring", !.op = op, !.json = json]
  <1>2. wrong \in CallRow /\ asked \in CallRow
    BY NoCallRow DEF CallRow, CallPc, McpOps, Codes
  <1>3. RowOnce(wrong) /\ RowOnce(asked) BY DEF RowOnce, NoCall
  <1> HIDE DEF wrong, asked
  <1>4. SetCall(c, wrong) \/ SetCall(c, asked) BY <1>1 DEF wrong, asked
  <1>5. UNCHANGED <<serving, giving, stdio>> /\ c \in Programs BY DEF TypeCommand, Programs
  <1>6. QED BY <1>2, <1>3, <1>4, <1>5, SetCallInv DEF CallsInv, ClientTypeOK, Dialogues

LEMMA ReadLineInv ==
  ASSUME CallsInv, ReadLine
  PROVE  CallsInv'
  <1>1. PICK line \in Lines :
          /\ stdio' = [lines |-> Append(stdio.lines, line),
                       answers |-> CASE line = "local" -> Append(stdio.answers, "result")
                                     [] line = "refused" -> Append(stdio.answers, "error")
                                     [] OTHER -> stdio.answers]
          /\ IF line \in McpOps
             THEN SetCall(Mcp, [NoCall EXCEPT !.pc = "ensuring", !.op = line])
             ELSE UNCHANGED call
    BY DEF ReadLine
  <1>2. stdio.lines \in Seq(Lines) /\ stdio.answers \in Seq({"result", "error"})
    BY DEF CallsInv, ClientTypeOK
  <1>3. stdio'.lines \in Seq(Lines)
    <2>1. stdio'.lines = Append(stdio.lines, line) BY <1>1
    <2>2. QED BY <1>2, <2>1
  <1>4. stdio'.answers \in Seq({"result", "error"})
    <2>1. stdio'.answers \in {Append(stdio.answers, "result"), Append(stdio.answers, "error"),
                              stdio.answers}
      BY <1>1
    <2>2. /\ Append(stdio.answers, "result") \in Seq({"result", "error"})
          /\ Append(stdio.answers, "error") \in Seq({"result", "error"})
      BY <1>2
    <2>3. QED BY <1>2, <2>1, <2>2
  <1>5. stdio' \in Dialogues /\ UNCHANGED <<serving, giving>>
    <2>1. stdio' = [lines |-> stdio'.lines, answers |-> stdio'.answers] BY <1>1
    <2>2. QED BY <1>3, <1>4, <2>1 DEF ReadLine, Dialogues
  <1>6. CASE line \in McpOps
    <2> DEFINE row == [NoCall EXCEPT !.pc = "ensuring", !.op = line]
    <2>1. row \in CallRow BY <1>6, NoCallRow DEF CallRow, CallPc
    <2>2. RowOnce(row) BY DEF RowOnce, NoCall
    <2> HIDE DEF row
    <2>3. SetCall(Mcp, row) /\ Mcp \in Programs BY <1>1, <1>6 DEF row, Programs
    <2>4. QED BY <1>5, <2>1, <2>2, <2>3, SetCallInv DEF CallsInv, ClientTypeOK, Dialogues
  <1>7. CASE line \notin McpOps
    BY <1>1, <1>5, <1>7 DEF CallsInv, ClientTypeOK, RowOnce, Dialogues
  <1>8. QED BY <1>6, <1>7

LEMMA StdinEndsInv ==
  ASSUME CallsInv, StdinEnds
  PROVE  CallsInv'
  <1> DEFINE row == [NoCall EXCEPT !.pc = "ended", !.code = "0"]
  <1>1. row \in CallRow BY NoCallRow DEF CallRow, CallPc, Codes
  <1>2. RowOnce(row) BY DEF RowOnce, NoCall
  <1> HIDE DEF row
  <1>3. SetCall(Mcp, row) /\ Mcp \in Programs /\ UNCHANGED <<serving, giving, stdio>>
    BY DEF StdinEnds, row, Programs
  <1>4. QED BY <1>1, <1>2, <1>3, SetCallInv DEF CallsInv, ClientTypeOK, Dialogues

-----------------------------------------------------------------------------
(* request_blocking *)

LEMMA EnsureInv ==
  ASSUME CallsInv, NEW c \in Programs, EnsureDaemon(c)
  PROVE  CallsInv'
  <1>1. UNCHANGED <<giving, stdio>> BY DEF EnsureDaemon
  <1>2. CASE GiveUp(c) /\ UNCHANGED serving
    BY <1>1, <1>2, GiveUpInv DEF CallsInv, ClientTypeOK
  <1>3. CASE /\ serving' \in (IF serving = "none" THEN {"none", Binary(c)} ELSE {serving})
             /\ SetCall(c, [call[c] EXCEPT !.pc = "dialing"])
    <2> DEFINE row == [call[c] EXCEPT !.pc = "dialing"]
    <2>1. call[c] \in CallRow /\ RowOnce(call[c]) /\ call[c].pc = "ensuring"
      BY DEF CallsInv, ClientTypeOK, EnsureDaemon, CallAt
    <2>2. "dialing" \in CallPc BY DEF CallPc
    <2>3. /\ row \in CallRow /\ row.pc = "dialing" /\ row.handled = call[c].handled
          /\ row.step = call[c].step /\ row.hellos = call[c].hellos
      BY <2>1, <2>2, AtRow
    <2> HIDE DEF row
    <2>4. RowOnce(row) BY <2>1, <2>3 DEF RowOnce
    <2>5. serving' \in {"none", "older", "newer"} BY <1>3 DEF Binary, CallsInv, ClientTypeOK
    <2>6. SetCall(c, row) BY <1>3 DEF row
    <2>7. QED BY <1>1, <2>3, <2>4, <2>5, <2>6, SetCallInv DEF CallsInv, ClientTypeOK, Dialogues
  <1>4. QED BY <1>2, <1>3 DEF EnsureDaemon

LEMMA HelloInv ==
  ASSUME CallsInv, NEW c \in Programs, SayHello(c)
  PROVE  CallsInv'
  <1>1. UNCHANGED <<serving, stdio>> BY DEF SayHello
  <1>2. call[c] \in CallRow /\ RowOnce(call[c]) /\ call[c].pc = "dialing"
    BY DEF CallsInv, ClientTypeOK, SayHello, CallAt
  <1>3. CASE GiveUp(c) /\ UNCHANGED giving
    BY <1>1, <1>3, GiveUpInv DEF CallsInv, ClientTypeOK
  <1>4. ASSUME NEW pc \in {"sent", "restarting"}, SetCall(c, [call[c] EXCEPT !.pc = pc]),
               giving' \in BOOLEAN
        PROVE  CallsInv'
    <2> DEFINE row == [call[c] EXCEPT !.pc = pc]
    <2>1. pc \in CallPc BY DEF CallPc
    <2>2. /\ row \in CallRow /\ row.pc = pc /\ row.handled = call[c].handled
          /\ row.step = call[c].step /\ row.hellos = call[c].hellos
      BY <1>2, <2>1, AtRow
    <2> HIDE DEF row
    <2>3. RowOnce(row) BY <1>2, <2>2 DEF RowOnce
    <2>4. SetCall(c, row) BY <1>4 DEF row
    <2>5. QED BY <1>1, <1>4, <2>2, <2>3, <2>4, SetCallInv DEF CallsInv, ClientTypeOK, Dialogues
  <1>5. QED BY <1>3, <1>4 DEF SayHello, CallsInv, ClientTypeOK

LEMMA RestartInv ==
  ASSUME CallsInv, NEW c \in Programs, RestartDaemon(c)
  PROVE  CallsInv'
  <1> DEFINE hellos == call[c].hellos + 1
             row == [call[c] EXCEPT !.hellos = hellos,
                       !.pc = IF HellosSpent(hellos) THEN "answered" ELSE "ensuring",
                       !.outcome = IF HellosSpent(hellos) THEN "daemon_error"
                                   ELSE call[c].outcome]
  <1>1. call[c] \in CallRow /\ RowOnce(call[c]) /\ call[c].pc = "restarting"
    BY DEF CallsInv, ClientTypeOK, RestartDaemon, CallAt
  <1>2. hellos \in 0..MaxHellos /\ (~HellosSpent(hellos) => hellos < MaxHellos)
    BY <1>1 DEF RowOnce, CallRow, HellosSpent
  <1> HIDE DEF hellos
  <1>3. /\ row \in CallRow /\ row.hellos = hellos /\ row.handled = call[c].handled
        /\ row.step = call[c].step
        /\ row.pc = IF HellosSpent(hellos) THEN "answered" ELSE "ensuring"
        /\ HellosSpent(hellos) => row.outcome = "daemon_error"
    BY <1>1, <1>2 DEF CallRow, CallPc, Outcomes
  <1>4. \/ /\ call' = [Cut(call) EXCEPT ![c] = row] /\ serving' \in {"none", Binary(c)}
           /\ giving' = FALSE
        \/ SetCall(c, row) /\ UNCHANGED <<serving, giving>>
    BY DEF RestartDaemon, hellos
  <1> HIDE DEF row
  <1>5. RowOnce(row) BY <1>1, <1>2, <1>3 DEF RowOnce
  <1>6. UNCHANGED stdio BY DEF RestartDaemon
  <1>7. CASE SetCall(c, row) /\ UNCHANGED <<serving, giving>>
    BY <1>3, <1>5, <1>6, <1>7, SetCallInv DEF CallsInv, ClientTypeOK, Dialogues
  <1>8. CASE /\ call' = [Cut(call) EXCEPT ![c] = row] /\ serving' \in {"none", Binary(c)}
             /\ giving' = FALSE
    <2>1. call' \in [Programs -> CallRow] BY <1>3, <1>8, CutRows
    <2>2. \A d \in Programs : call'[d] = IF d = c THEN row ELSE Cut(call)[d]
      BY <1>8, CutRows
    <2>3. \A d \in Programs : RowOnce(call'[d]) BY <1>5, <2>2, CutRows
    <2>4. ClientTypeOK' BY <1>6, <1>8, <2>1 DEF CallsInv, ClientTypeOK, Binary
    <2>5. QED BY <2>3, <2>4 DEF CallsInv, RowOnce
  <1>9. QED BY <1>4, <1>7, <1>8

LEMMA HandleInv ==
  ASSUME CallsInv, NEW c \in Programs, HandleRequest(c)
  PROVE  CallsInv'
  <1> DEFINE row == [call[c] EXCEPT !.pc = "working", !.handled = call[c].handled + 1]
  <1>1. call[c] \in CallRow /\ RowOnce(call[c]) /\ call[c].pc = "sent"
    BY DEF CallsInv, ClientTypeOK, HandleRequest, CallAt
  <1>2. call[c].step \in 1..2 /\ call[c].handled = call[c].step - 1
    BY <1>1 DEF CallRow, RowOnce
  <1>3. /\ row \in CallRow /\ row.pc = "working" /\ row.handled = call[c].step
        /\ row.step = call[c].step
    <2> DEFINE handled == call[c].handled + 1
    <2>1. handled = call[c].step /\ handled \in 0..2 BY <1>2
    <2>2. "working" \in CallPc BY DEF CallPc
    <2>3. row = [call[c] EXCEPT !.pc = "working", !.handled = handled] OBVIOUS
    <2> HIDE DEF handled, row
    <2>4. QED BY <1>1, <2>1, <2>2, <2>3 DEF CallRow
  <1>4. SetCall(c, row) /\ UNCHANGED <<serving, giving, stdio>> BY DEF HandleRequest
  <1> HIDE DEF row
  <1>5. RowOnce(row) BY <1>2, <1>3 DEF RowOnce
  <1>6. QED BY <1>3, <1>4, <1>5, SetCallInv DEF CallsInv, ClientTypeOK, Dialogues

LEMMA RespondInv ==
  ASSUME CallsInv, NEW c \in Programs, Respond(c)
  PROVE  CallsInv'
  <1>1. PICK outcome \in {"ok", "failed", "timed_out", "error"} :
          SetCall(c, [call[c] EXCEPT !.pc = "answered", !.outcome = outcome])
    BY DEF Respond
  <1> DEFINE row == [call[c] EXCEPT !.pc = "answered", !.outcome = outcome]
  <1>2. call[c] \in CallRow /\ RowOnce(call[c]) /\ call[c].pc = "working"
    BY DEF CallsInv, ClientTypeOK, Respond, CallAt
  <1>3. /\ row \in CallRow /\ row.pc = "answered" /\ row.handled = call[c].handled
        /\ row.step = call[c].step
    BY <1>2 DEF CallRow, CallPc, Outcomes
  <1>4. SetCall(c, row) /\ UNCHANGED <<serving, giving, stdio>> BY <1>1 DEF Respond
  <1> HIDE DEF row
  <1>5. RowOnce(row) BY <1>2, <1>3 DEF RowOnce
  <1>6. QED BY <1>3, <1>4, <1>5, SetCallInv DEF CallsInv, ClientTypeOK, Dialogues

LEMMA RequestInv ==
  ASSUME CallsInv, NEW c \in Programs, RequestStep(c)
  PROVE  CallsInv'
  <1>1. CASE LoseAnswer(c) BY <1>1, GiveUpInv DEF LoseAnswer, CallsInv, ClientTypeOK
  <1>2. QED
    BY <1>1, EnsureInv, HelloInv, RestartInv, HandleInv, RespondInv DEF RequestStep

LEMMA DaemonEndsInv ==
  ASSUME CallsInv, DaemonEnds
  PROVE  CallsInv'
  <1>1. call' = Cut(call) BY DEF DaemonEnds
  <1>2. ClientTypeOK' BY <1>1, CutRows DEF DaemonEnds, CallsInv, ClientTypeOK
  <1>3. QED BY <1>1, <1>2, CutRows DEF CallsInv, RowOnce

-----------------------------------------------------------------------------
(* The end of a call *)

LEMMA ExitInv ==
  ASSUME CallsInv, NEW c \in Shells, ExitCommand(c)
  PROVE  CallsInv'
  <1> DEFINE code == ExitCode(call[c])
             row == [call[c] EXCEPT !.pc = "ended", !.code = code]
  <1>1. c \in Programs BY DEF Programs
  <1>2. call[c] \in CallRow /\ RowOnce(call[c]) BY <1>1 DEF CallsInv, ClientTypeOK
  <1>3. code \in Codes BY DEF ExitCode, Codes
  <1> HIDE DEF code
  <1>4. /\ row \in CallRow /\ row.pc = "ended" /\ row.handled = call[c].handled
        /\ row.step = call[c].step
    BY <1>2, <1>3 DEF CallRow, CallPc
  <1>5. SetCall(c, row) /\ UNCHANGED <<serving, giving, stdio>> BY DEF ExitCommand, code
  <1> HIDE DEF row
  <1>6. RowOnce(row) BY <1>2, <1>4 DEF RowOnce
  <1>7. QED BY <1>1, <1>4, <1>5, <1>6, SetCallInv DEF CallsInv, ClientTypeOK, Dialogues

LEMMA WaitInv ==
  ASSUME CallsInv, WaitForTurn
  PROVE  CallsInv'
  <1> DEFINE old == call[Mcp]
             row == [old EXCEPT !.pc = "ensuring", !.step = old.step + 1, !.hellos = 0,
                                !.outcome = "none"]
  <1>1. Mcp \in Programs BY DEF Programs
  <1>2. /\ old \in CallRow /\ RowOnce(old) /\ old.pc = "answered" /\ old.outcome = "ok"
    BY <1>1 DEF CallsInv, ClientTypeOK, WaitForTurn, CallAt
  <1>3. old.step + 1 \in 1..2 /\ old.handled = old.step
    <2>1. old.step \in 1..2 /\ old.step < LastStep(old.op) BY <1>2 DEF WaitForTurn, CallRow
    <2>2. LastStep(old.op) \in {1, 2} BY DEF LastStep
    <2>3. QED BY <1>2, <2>1, <2>2 DEF RowOnce
  <1>4. /\ row \in CallRow /\ row.pc = "ensuring" /\ row.handled = old.handled
        /\ row.step = old.step + 1 /\ row.hellos = 0
    <2> DEFINE step == old.step + 1
    <2>1. step \in 1..2 /\ 0 \in 0..MaxHellos BY <1>3 DEF CallAssumption
    <2>2. "ensuring" \in CallPc /\ "none" \in Outcomes BY DEF CallPc, Outcomes
    <2>3. old \in CallRow BY <1>2
    <2>4. row = [old EXCEPT !.pc = "ensuring", !.step = step, !.hellos = 0, !.outcome = "none"]
      OBVIOUS
    <2> HIDE DEF old, row, step
    <2>5. /\ row \in CallRow /\ row.pc = "ensuring" /\ row.handled = old.handled
          /\ row.step = step /\ row.hellos = 0
      BY <2>1, <2>2, <2>3, <2>4 DEF CallRow
    <2>6. QED BY <2>5 DEF step
  <1>5. SetCall(Mcp, row) /\ UNCHANGED <<serving, giving, stdio>> BY DEF WaitForTurn
  <1> HIDE DEF row
  <1>6. RowOnce(row)
    <2>1. old.step \in Int BY <1>2 DEF CallRow
    <2>2. QED BY <1>3, <1>4, <2>1 DEF RowOnce
  <1>7. QED BY <1>1, <1>4, <1>5, <1>6, SetCallInv DEF CallsInv, ClientTypeOK, Dialogues

LEMMA AnswerInv ==
  ASSUME CallsInv, AnswerCall
  PROVE  CallsInv'
  <1>1. SetCall(Mcp, NoCall) /\ Mcp \in Programs /\ UNCHANGED <<serving, giving>>
    BY DEF AnswerCall, Programs
  <1>2. stdio' = [stdio EXCEPT !.answers = Append(stdio.answers, ToolAnswer(call[Mcp]))]
    BY DEF AnswerCall
  <1>3. ToolAnswer(call[Mcp]) \in {"result", "error"} BY DEF ToolAnswer
  <1>4. stdio.lines \in Seq(Lines) /\ stdio.answers \in Seq({"result", "error"})
    BY DEF CallsInv, ClientTypeOK
  <1>5. Append(stdio.answers, ToolAnswer(call[Mcp])) \in Seq({"result", "error"})
    BY <1>3, <1>4
  <1>6. stdio' \in Dialogues
    BY <1>2, <1>5 DEF CallsInv, ClientTypeOK, Dialogues
  <1>7. QED BY <1>1, <1>6, NoCallRow, SetCallInv DEF CallsInv, ClientTypeOK, Dialogues

LEMMA CallsNextInv == CallsInv /\ [ClientNext]_cvars => CallsInv'
  <1> SUFFICES ASSUME CallsInv, [ClientNext]_cvars PROVE CallsInv' OBVIOUS
  <1>1. CASE DaemonEnds BY <1>1, DaemonEndsInv
  <1>2. CASE ReadLine BY <1>2, ReadLineInv
  <1>3. CASE StdinEnds BY <1>3, StdinEndsInv
  <1>4. CASE WaitForTurn BY <1>4, WaitInv
  <1>5. CASE AnswerCall BY <1>5, AnswerInv
  <1>6. ASSUME NEW c \in Shells, TypeCommand(c) \/ ExitCommand(c) PROVE CallsInv'
    BY <1>6, TypeCommandInv, ExitInv
  <1>7. ASSUME NEW c \in Programs, RequestStep(c) PROVE CallsInv' BY <1>7, RequestInv
  <1>8. CASE UNCHANGED cvars BY <1>8 DEF cvars, CallsInv, ClientTypeOK, RowOnce
  <1>9. QED BY <1>1, <1>2, <1>3, <1>4, <1>5, <1>6, <1>7, <1>8 DEF ClientNext

LEMMA CallsInvariance == ClientSpec => []CallsInv
  BY CallsInitInv, CallsNextInv, PTL DEF ClientSpec

-----------------------------------------------------------------------------
\* The daemon, the calls and the lines stay of their types; the hellos of a
\* call never exceed their limit (request_blocking).
THEOREM CallsTypes == ClientSpec => []ClientTypeOK
  <1>1. CallsInv => ClientTypeOK BY DEF CallsInv
  <1>2. QED BY CallsInvariance, <1>1, PTL

\* However daemons end, give way and are restarted, each request of a program
\* reaches a daemon at most once (request_blocking, tool_continue).
THEOREM RequestsOnce == ClientSpec => []HandledOnce
  <1>1. CallsInv => HandledOnce BY DEF CallsInv, RowOnce, HandledOnce
  <1>2. QED BY CallsInvariance, <1>1, PTL

-----------------------------------------------------------------------------
(***************************************************************************)
(* For any number of commands, binaries and lines: a program tells what     *)
(* happened.  What the exit code and the answer are derived from is the     *)
(* outcome in the row of the call, so the invariant says what an outcome    *)
(* says of the requests (Tells), and that the lines the MCP server has not  *)
(* answered are the one it is at (Answers).                                 *)
(***************************************************************************)
Busy(row) == row.pc \notin {"idle", "ended"}

Tells(c, row) ==
  /\ c # Mcp => row.step = 1
  /\ row.pc \notin {"answered", "ended"} => row.outcome = "none"
  /\ row.pc = "answered" => row.outcome # "none"
  /\ row.pc = "answered" /\ row.outcome \in {"ok", "failed", "timed_out", "error"}
       => row.handled = row.step
  /\ row.outcome \in {"failed", "timed_out"} => row.step = LastStep(row.op)

\* What the exit code of a command that ends says.
CodeTells(row) ==
  CASE row.code = "1" -> row.handled = 0
    [] row.code = "0" -> row.handled = 1 /\ (row.outcome = "failed" => row.json)
    [] row.code = "2" -> row.handled = 1 /\ row.outcome \in {"error", "failed"}
    [] OTHER -> row.outcome = "daemon_error"

Answers ==
  Len(stdio.answers) = Cardinality(Asked(stdio.lines)) - (IF Busy(call[Mcp]) THEN 1 ELSE 0)

ToldInv == CallsInv /\ (\A c \in Programs : Tells(c, call[c])) /\ Answers

-----------------------------------------------------------------------------
LEMMA NoCallTells ==
  ASSUME NEW c \in Programs
  PROVE  Tells(c, NoCall) /\ ~Busy(NoCall) /\ NoCall.outcome = "none" /\ NoCall.handled = 0
  BY DEF Tells, NoCall, Busy

LEMMA ToldIs ==
  ASSUME ToldInv, NEW c \in Programs
  PROVE  /\ call[c] \in CallRow /\ RowOnce(call[c]) /\ Tells(c, call[c])
         /\ call \in [Programs -> CallRow]
  BY DEF ToldInv, CallsInv, ClientTypeOK

\* A daemon's end leaves what the rows tell.
LEMMA CutTells ==
  ASSUME ToldInv, NEW c \in Programs
  PROVE  /\ Tells(c, Cut(call)[c]) /\ Busy(Cut(call)[c]) = Busy(call[c])
         /\ Cut(call)[c].pc = "ended" => call[c].pc = "ended"
  <1>1. call[c] \in CallRow /\ Tells(c, call[c]) BY ToldIs
  <1>2. CASE call[c].pc \in {"sent", "working"}
    <2> DEFINE old == call[c]
               row == [old EXCEPT !.pc = "eof"]
    <2>1. /\ row.pc = "eof" /\ row.handled = old.handled /\ row.outcome = old.outcome
          /\ row.step = old.step /\ row.op = old.op
      BY <1>1 DEF CallRow
    <2>2. Cut(call)[c] = row BY <1>2 DEF Cut
    <2>3. Tells(c, old) /\ old.pc \in {"sent", "working"} BY <1>1, <1>2
    <2> HIDE DEF row, old
    <2>4. Tells(c, row) BY <2>1, <2>3 DEF Tells
    <2>5. Busy(row) /\ Busy(old) BY <2>1, <2>3 DEF Busy
    <2>6. QED BY <2>1, <2>2, <2>4, <2>5 DEF old
  <1>3. CASE call[c].pc \notin {"sent", "working"}
    <2>1. Cut(call)[c] = call[c] BY <1>3 DEF Cut
    <2>2. QED BY <1>1, <2>1
  <1>4. QED BY <1>2, <1>3

-----------------------------------------------------------------------------
(* request_blocking: the call goes on, and tells what it did. *)
GoesOn(c, row) ==
  /\ Busy(call[c]) /\ Busy(row) /\ Tells(c, row) /\ UNCHANGED stdio
  /\ \A d \in Programs : call'[d] = (IF d = c THEN row ELSE call[d])
                         \/ call'[d] = (IF d = c THEN row ELSE Cut(call)[d])

LEMMA SetGoesOn ==
  ASSUME ToldInv, NEW c \in Programs, NEW row, Busy(call[c]), Busy(row), Tells(c, row),
         SetCall(c, row), UNCHANGED stdio
  PROVE  GoesOn(c, row)
  BY ToldIs DEF GoesOn, SetCall

LEMMA GiveUpGoesOn ==
  ASSUME ToldInv, NEW c \in Programs, GiveUp(c), Busy(call[c]), UNCHANGED stdio,
         call[c].outcome = "none"
  PROVE  \E row : GoesOn(c, row)
  <1> DEFINE old == call[c]
             row == [old EXCEPT !.pc = "answered", !.outcome = "daemon_error"]
  <1>1. old \in CallRow /\ Tells(c, old) BY ToldIs
  <1>2. row.pc = "answered" /\ row.outcome = "daemon_error" /\ row.step = old.step
    BY <1>1 DEF CallRow
  <1>3. SetCall(c, row) BY DEF GiveUp
  <1> HIDE DEF row
  <1>4. Tells(c, row) /\ Busy(row) BY <1>1, <1>2 DEF Tells, Busy
  <1>5. QED BY <1>3, <1>4, SetGoesOn

\* A step that only moves the call on.
LEMMA MoveGoesOn ==
  ASSUME ToldInv, NEW c \in Programs, NEW pc \in CallPc \ {"answered", "ended", "idle"},
         Busy(call[c]), call[c].outcome = "none", UNCHANGED stdio,
         SetCall(c, [call[c] EXCEPT !.pc = pc])
  PROVE  \E row : GoesOn(c, row)
  <1> DEFINE old == call[c]
             row == [old EXCEPT !.pc = pc]
  <1>1. old \in CallRow /\ Tells(c, old) BY ToldIs
  <1>2. row.pc = pc /\ row.outcome = "none" /\ row.step = old.step
    BY <1>1 DEF CallRow
  <1> HIDE DEF row
  <1>3. Tells(c, row) /\ Busy(row) BY <1>1, <1>2 DEF Tells, Busy
  <1>4. QED BY <1>3, SetGoesOn DEF row

\* A call that waits for its answer has no outcome.
LEMMA AtNone ==
  ASSUME ToldInv, NEW c \in Programs, call[c].pc \notin {"idle", "answered", "ended"}
  PROVE  Busy(call[c]) /\ call[c].outcome = "none"
  BY ToldIs DEF Tells, Busy

LEMMA EnsureTells ==
  ASSUME ToldInv, NEW c \in Programs, EnsureDaemon(c)
  PROVE  \E row : GoesOn(c, row)
  <1>1. Busy(call[c]) /\ call[c].outcome = "none" BY AtNone DEF EnsureDaemon, CallAt
  <1>2. UNCHANGED stdio BY DEF EnsureDaemon
  <1>3. CASE GiveUp(c) BY <1>1, <1>2, <1>3, GiveUpGoesOn
  <1>4. CASE SetCall(c, [call[c] EXCEPT !.pc = "dialing"])
    BY <1>1, <1>2, <1>4, MoveGoesOn DEF CallPc
  <1>5. QED BY <1>3, <1>4 DEF EnsureDaemon

LEMMA HelloTells ==
  ASSUME ToldInv, NEW c \in Programs, SayHello(c)
  PROVE  \E row : GoesOn(c, row)
  <1>1. Busy(call[c]) /\ call[c].outcome = "none" BY AtNone DEF SayHello, CallAt
  <1>2. UNCHANGED stdio BY DEF SayHello
  <1>3. CASE GiveUp(c) BY <1>1, <1>2, <1>3, GiveUpGoesOn
  <1>4. CASE SetCall(c, [call[c] EXCEPT !.pc = "sent"])
    BY <1>1, <1>2, <1>4, MoveGoesOn DEF CallPc
  <1>5. CASE SetCall(c, [call[c] EXCEPT !.pc = "restarting"])
    BY <1>1, <1>2, <1>5, MoveGoesOn DEF CallPc
  <1>6. QED BY <1>3, <1>4, <1>5 DEF SayHello

LEMMA RestartTells ==
  ASSUME ToldInv, NEW c \in Programs, RestartDaemon(c)
  PROVE  \E row : GoesOn(c, row)
  <1> DEFINE old == call[c]
             hellos == old.hellos + 1
             spent == HellosSpent(hellos)
             row == [old EXCEPT !.hellos = hellos,
                       !.pc = IF spent THEN "answered" ELSE "ensuring",
                       !.outcome = IF spent THEN "daemon_error" ELSE old.outcome]
  <1>1. old \in CallRow /\ Tells(c, old) /\ call \in [Programs -> CallRow] BY ToldIs
  <1>2. Busy(old) /\ old.outcome = "none" BY AtNone DEF RestartDaemon, CallAt
  <1> HIDE DEF spent, hellos
  <1>3. /\ row.pc = IF spent THEN "answered" ELSE "ensuring"
        /\ row.outcome = IF spent THEN "daemon_error" ELSE old.outcome
        /\ row.step = old.step
    BY <1>1 DEF CallRow
  <1>4. call' = [Cut(call) EXCEPT ![c] = row] \/ SetCall(c, row)
    BY DEF RestartDaemon, hellos, spent
  <1>5. UNCHANGED stdio BY DEF RestartDaemon
  <1> HIDE DEF row
  <1>6. Tells(c, row) /\ Busy(row) BY <1>1, <1>2, <1>3 DEF Tells, Busy
  <1>7. CASE SetCall(c, row) BY <1>2, <1>5, <1>6, <1>7, SetGoesOn
  <1>8. CASE call' = [Cut(call) EXCEPT ![c] = row]
    <2>1. \A d \in Programs : call'[d] = IF d = c THEN row ELSE Cut(call)[d]
      BY <1>8 DEF Cut
    <2>2. QED BY <1>2, <1>5, <1>6, <2>1 DEF GoesOn
  <1>9. QED BY <1>4, <1>7, <1>8

LEMMA HandleTells ==
  ASSUME ToldInv, NEW c \in Programs, HandleRequest(c)
  PROVE  \E row : GoesOn(c, row)
  <1> DEFINE old == call[c]
             row == [old EXCEPT !.pc = "working", !.handled = old.handled + 1]
  <1>1. old \in CallRow /\ Tells(c, old) BY ToldIs
  <1>2. Busy(old) /\ old.outcome = "none" BY AtNone DEF HandleRequest, CallAt
  <1>3. row.pc = "working" /\ row.outcome = "none" /\ row.step = old.step
    BY <1>1, <1>2 DEF CallRow
  <1>4. SetCall(c, row) /\ UNCHANGED stdio BY DEF HandleRequest
  <1> HIDE DEF row
  <1>5. Tells(c, row) /\ Busy(row) BY <1>1, <1>3 DEF Tells, Busy
  <1>6. QED BY <1>2, <1>4, <1>5, SetGoesOn

LEMMA RespondTells ==
  ASSUME ToldInv, NEW c \in Programs, Respond(c)
  PROVE  \E row : GoesOn(c, row)
  <1> DEFINE old == call[c]
  <1>1. PICK outcome \in {"ok", "failed", "timed_out", "error"} :
          /\ outcome \in {"failed", "timed_out"} => old.step = LastStep(old.op)
          /\ SetCall(c, [old EXCEPT !.pc = "answered", !.outcome = outcome])
    BY DEF Respond
  <1> DEFINE row == [old EXCEPT !.pc = "answered", !.outcome = outcome]
  <1>2. old \in CallRow /\ Tells(c, old) /\ RowOnce(old) BY ToldIs
  <1>3. old.pc = "working" BY DEF Respond, CallAt
  <1>4. Busy(old) /\ old.handled = old.step BY <1>2, <1>3 DEF Busy, RowOnce
  <1>5. /\ row.pc = "answered" /\ row.outcome = outcome /\ row.step = old.step
        /\ row.handled = old.handled /\ row.op = old.op
    BY <1>2 DEF CallRow
  <1>6. SetCall(c, row) /\ UNCHANGED stdio BY <1>1 DEF Respond
  <1> HIDE DEF row
  <1>7. Tells(c, row) /\ Busy(row) BY <1>1, <1>2, <1>4, <1>5 DEF Tells, Busy
  <1>8. QED BY <1>4, <1>6, <1>7, SetGoesOn

LEMMA RequestTells ==
  ASSUME ToldInv, NEW c \in Programs, RequestStep(c)
  PROVE  \E row : GoesOn(c, row)
  <1>1. CASE LoseAnswer(c)
    <2>1. Busy(call[c]) /\ call[c].outcome = "none" BY <1>1, AtNone DEF LoseAnswer, CallAt
    <2>2. QED BY <1>1, <2>1, GiveUpGoesOn DEF LoseAnswer
  <1>2. QED BY <1>1, EnsureTells, HelloTells, RestartTells, HandleTells, RespondTells
            DEF RequestStep

-----------------------------------------------------------------------------
\* A step of ToldWhatHappened.
ToldStep ==
  /\ \A c \in Shells : call[c].pc # "ended" /\ call'[c].pc = "ended" => CodeTells(call'[c])
  /\ stdio' # stdio => Len(stdio'.answers) =
       Cardinality(Asked(stdio'.lines)) - (IF call'[Mcp].pc = "idle" THEN 0 ELSE 1)
  /\ stdio'.answers # stdio.answers /\ ~CallAt(Mcp, "idle") =>
       (Last(stdio'.answers) = "result" <=>
          call[Mcp].handled = LastStep(call[Mcp].op)
          /\ call[Mcp].outcome \in {"ok", "failed", "timed_out"})

TellsOn == (\A c \in Programs : Tells(c, call'[c])) /\ Answers' /\ ToldStep

\* Steps that change no line and end no command.
LEMMA QuietTells ==
  ASSUME ToldInv, UNCHANGED stdio,
         \A c \in Programs : /\ Tells(c, call'[c]) /\ Busy(call'[c]) = Busy(call[c])
                             /\ call'[c].pc = "ended" => call[c].pc = "ended"
  PROVE  TellsOn
  <1>1. Answers' BY DEF ToldInv, Answers, Programs, Asked
  <1>2. ToldStep BY DEF ToldStep, Programs
  <1>3. QED BY <1>1, <1>2 DEF TellsOn

LEMMA GoesOnTells ==
  ASSUME ToldInv, NEW c \in Programs, NEW row, GoesOn(c, row)
  PROVE  TellsOn
  <1>1. ASSUME NEW d \in Programs
        PROVE  /\ Tells(d, call'[d]) /\ Busy(call'[d]) = Busy(call[d])
               /\ call'[d].pc = "ended" => call[d].pc = "ended"
    <2>1. CASE d = c
      <3>1. call'[d] = row BY <2>1 DEF GoesOn
      <3>2. Busy(row) /\ Busy(call[d]) /\ Tells(d, row) BY <2>1 DEF GoesOn
      <3>3. row.pc # "ended" BY <3>2 DEF Busy
      <3>4. QED BY <3>1, <3>2, <3>3
    <2>2. CASE d # c
      <3>1. call'[d] = call[d] \/ call'[d] = Cut(call)[d] BY <2>2 DEF GoesOn
      <3>2. QED BY <3>1, CutTells, ToldIs
    <2>3. QED BY <2>1, <2>2
  <1>2. UNCHANGED stdio BY DEF GoesOn
  <1>3. QED BY <1>1, <1>2, QuietTells

LEMMA EndsTells == ToldInv /\ DaemonEnds => TellsOn
  <1> SUFFICES ASSUME ToldInv, DaemonEnds PROVE TellsOn OBVIOUS
  <1>1. call' = Cut(call) /\ UNCHANGED stdio BY DEF DaemonEnds
  <1>2. QED BY <1>1, CutTells, QuietTells

\* Steps of one call that change no line.
LEMMA OneTells ==
  ASSUME ToldInv, UNCHANGED stdio, NEW c \in Programs, NEW row, SetCall(c, row), Tells(c, row),
         Busy(row) = Busy(call[c]) \/ c # Mcp,
         c \in Shells /\ row.pc = "ended" => CodeTells(row)
  PROVE  TellsOn
  <1>1. \A d \in Programs : call'[d] = IF d = c THEN row ELSE call[d]
    BY ToldIs DEF SetCall
  <1>2. \A d \in Programs : Tells(d, call'[d]) BY <1>1, ToldIs
  <1>3. Mcp \in Programs /\ Shells \subseteq Programs BY DEF Programs
  <1>4. Answers'
    <2>1. Busy(call'[Mcp]) = Busy(call[Mcp]) BY <1>1, <1>3
    <2>2. (Busy(call[Mcp]))' = Busy(call'[Mcp]) BY DEF Busy
    <2>3. QED BY <2>1, <2>2 DEF ToldInv, Answers, Asked
  <1>5. \A d \in Shells : call[d].pc # "ended" /\ call'[d].pc = "ended" => CodeTells(call'[d])
    BY <1>1, <1>3
  <1>6. QED BY <1>2, <1>4, <1>5 DEF TellsOn, ToldStep

LEMMA TypeTells ==
  ASSUME ToldInv, NEW c \in Shells, TypeCommand(c)
  PROVE  TellsOn
  <1>1. PICK op \in ShellOps, json \in BOOLEAN :
          \/ SetCall(c, [NoCall EXCEPT !.pc = "ended", !.op = op, !.json = json, !.code = "1"])
          \/ SetCall(c, [NoCall EXCEPT !.pc = "ensuring", !.op = op, !.json = json])
    BY DEF TypeCommand
  <1> DEFINE wrong == [NoCall EXCEPT !.pc = "ended", !.op = op, !.json = json, !.code = "1"]
             asked == [NoCall EXCEPT !.pc = "ensuring", !.op = op, !.json = json]
  <1>2. Tells(c, wrong) /\ CodeTells(wrong) BY DEF Tells, CodeTells, NoCall
  <1>3. Tells(c, asked) /\ asked.pc # "ended" BY DEF Tells, NoCall
  <1>4. c \in Programs /\ c # Mcp /\ UNCHANGED stdio BY DEF Programs, TypeCommand
  <1> HIDE DEF wrong, asked
  <1>5. CASE SetCall(c, wrong) BY <1>2, <1>4, <1>5, OneTells
  <1>6. CASE SetCall(c, asked) BY <1>3, <1>4, <1>6, OneTells
  <1>7. QED BY <1>1, <1>5, <1>6 DEF wrong, asked

LEMMA ExitTells ==
  ASSUME ToldInv, NEW c \in Shells, ExitCommand(c)
  PROVE  TellsOn
  <1> DEFINE old == call[c]
             code == ExitCode(old)
             row == [old EXCEPT !.pc = "ended", !.code = code]
  <1>1. c \in Programs /\ c # Mcp /\ UNCHANGED stdio BY DEF Programs, ExitCommand
  <1>2. old \in CallRow /\ Tells(c, old) BY <1>1, ToldIs
  <1>3. old.pc = "answered" BY DEF ExitCommand, CallAt
  <1>4. old.step = 1 /\ (old.outcome # "daemon_error" => old.handled = 1)
    BY <1>1, <1>2, <1>3 DEF Tells, CallRow, Outcomes
  <1>5. /\ code \in {"0", "2", "3"}
        /\ code = "3" => old.outcome = "daemon_error"
        /\ code # "3" => old.outcome # "daemon_error"
        /\ code = "2" => old.outcome \in {"error", "failed"}
        /\ code = "0" => (old.outcome = "failed" => old.json)
    BY DEF ExitCode
  <1>6. SetCall(c, row) BY DEF ExitCommand
  <1> HIDE DEF code
  <1>7. /\ row.pc = "ended" /\ row.code = code /\ row.outcome = old.outcome /\ row.op = old.op
        /\ row.step = old.step /\ row.handled = old.handled /\ row.json = old.json
    BY <1>2 DEF CallRow
  <1> HIDE DEF row
  <1>8. Tells(c, row) BY <1>2, <1>7 DEF Tells
  <1>9. CodeTells(row) BY <1>4, <1>5, <1>7 DEF CodeTells
  <1>10. QED BY <1>1, <1>6, <1>8, <1>9, OneTells

LEMMA WaitTells ==
  ASSUME ToldInv, WaitForTurn
  PROVE  TellsOn
  <1> DEFINE old == call[Mcp]
             row == [old EXCEPT !.pc = "ensuring", !.step = old.step + 1, !.hellos = 0,
                                !.outcome = "none"]
  <1>1. Mcp \in Programs /\ Mcp \notin Shells /\ UNCHANGED stdio BY DEF Programs, WaitForTurn
  <1>2. old \in CallRow BY <1>1, ToldIs
  <1>3. row.pc = "ensuring" /\ row.outcome = "none"
    BY <1>2 DEF CallRow
  <1>4. SetCall(Mcp, row) /\ Busy(old) BY DEF WaitForTurn, CallAt, Busy
  <1> HIDE DEF row
  <1>5. Tells(Mcp, row) /\ Busy(row) BY <1>3 DEF Tells, Busy
  <1>6. QED BY <1>1, <1>4, <1>5, OneTells

LEMMA StdinTells ==
  ASSUME ToldInv, StdinEnds
  PROVE  TellsOn
  <1> DEFINE row == [NoCall EXCEPT !.pc = "ended", !.code = "0"]
  <1>1. Mcp \in Programs /\ Mcp \notin Shells /\ UNCHANGED stdio BY DEF Programs, StdinEnds
  <1>2. SetCall(Mcp, row) /\ ~Busy(call[Mcp]) BY DEF StdinEnds, CallAt, Busy
  <1>3. Tells(Mcp, row) /\ ~Busy(row) BY DEF Tells, NoCall, Busy
  <1>4. Busy(row) = Busy(call[Mcp]) BY <1>2, <1>3 DEF Busy
  <1> HIDE DEF row
  <1>5. QED BY <1>1, <1>2, <1>3, <1>4, OneTells

-----------------------------------------------------------------------------
\* A line that is read waits for an answer unless it is noise.
LEMMA AskedMore ==
  ASSUME NEW lines \in Seq(Lines), NEW line \in Lines
  PROVE  /\ Cardinality(Asked(lines)) \in Nat
         /\ Cardinality(Asked(Append(lines, line))) =
              Cardinality(Asked(lines)) + (IF line \in {"noise", "initialized"} THEN 0 ELSE 1)
  <1> DEFINE n == Len(lines) + 1
             more == Append(lines, line)
  <1>1. IsFiniteSet(Asked(lines))
    <2>1. IsFiniteSet(1..Len(lines)) BY FS_Interval
    <2>2. Asked(lines) \subseteq 1..Len(lines) BY DEF Asked
    <2>3. QED BY <2>1, <2>2, FS_Subset
  <1>2. n \notin Asked(lines) BY DEF Asked
  <1>3. DOMAIN more = 1..n /\ more[n] = line /\ \A j \in 1..Len(lines) : more[j] = lines[j]
    OBVIOUS
  <1>4. DOMAIN lines = 1..Len(lines) /\ 1..n = (1..Len(lines)) \cup {n} OBVIOUS
  <1>5. Asked(more) = Asked(lines) \cup (IF line \in {"noise", "initialized"} THEN {} ELSE {n})
    <2> HIDE DEF more, n
    <2>1. \A j : j \in Asked(more) <=> j \in 1..n /\ more[j] \notin {"noise", "initialized"}
      BY <1>3 DEF Asked
    <2>2. \A j : j \in Asked(lines)
                   <=> j \in 1..Len(lines) /\ lines[j] \notin {"noise", "initialized"}
      BY <1>4 DEF Asked
    <2>3. \A j : j \in Asked(more)
                   <=> j \in Asked(lines) \/ (j = n /\ line \notin {"noise", "initialized"})
      BY <1>3, <1>4, <2>1, <2>2
    <2>4. QED BY <2>3
  <1>6. Cardinality(Asked(lines) \cup {n}) = Cardinality(Asked(lines)) + 1
    BY <1>1, <1>2, FS_AddElement
  <1>7. Cardinality(Asked(lines)) \in Nat BY <1>1, FS_CardinalityType
  <1> HIDE DEF more, n
  <1>8. CASE line \in {"noise", "initialized"}
    <2>1. Asked(more) = Asked(lines) BY <1>5, <1>8
    <2>2. QED BY <1>7, <1>8, <2>1 DEF more
  <1>9. CASE line \notin {"noise", "initialized"}
    <2>1. Asked(more) = Asked(lines) \cup {n} BY <1>5, <1>9
    <2>2. QED BY <1>6, <1>7, <1>9, <2>1 DEF more
  <1>10. QED BY <1>8, <1>9

LEMMA ReadTells ==
  ASSUME ToldInv, ReadLine
  PROVE  TellsOn
  <1>1. PICK line \in Lines :
          /\ stdio' = [lines |-> Append(stdio.lines, line),
                       answers |-> CASE line = "local" -> Append(stdio.answers, "result")
                                     [] line = "refused" -> Append(stdio.answers, "error")
                                     [] OTHER -> stdio.answers]
          /\ IF line \in McpOps
             THEN SetCall(Mcp, [NoCall EXCEPT !.pc = "ensuring", !.op = line])
             ELSE UNCHANGED call
    BY DEF ReadLine
  <1> DEFINE row == [NoCall EXCEPT !.pc = "ensuring", !.op = line]
             asked == Cardinality(Asked(stdio.lines))
             askedNow == Cardinality(Asked(stdio'.lines))
  <1>2. Mcp \in Programs /\ Mcp \notin Shells /\ Shells \subseteq Programs BY DEF Programs
  <1>3. call[Mcp].pc = "idle" /\ call \in [Programs -> CallRow] BY <1>2, ToldIs DEF ReadLine, CallAt
  <1>4. stdio.lines \in Seq(Lines) /\ stdio.answers \in Seq({"result", "error"})
    BY DEF ToldInv, CallsInv, ClientTypeOK
  <1>5. /\ asked \in Nat
        /\ askedNow = asked + (IF line \in {"noise", "initialized"} THEN 0 ELSE 1)
    <2>1. stdio'.lines = Append(stdio.lines, line) BY <1>1
    <2>2. QED BY <1>4, <2>1, AskedMore
  <1>6. Len(stdio.answers) = asked BY <1>3, <1>5 DEF ToldInv, Answers, Busy
  <1>7. Len(stdio'.answers) = asked + (IF line \in {"local", "refused"} THEN 1 ELSE 0)
    <2>1. CASE line = "local"
      <3>1. stdio'.answers = Append(stdio.answers, "result") BY <1>1, <2>1
      <3>2. QED BY <1>4, <1>6, <2>1, <3>1
    <2>2. CASE line = "refused"
      <3>1. stdio'.answers = Append(stdio.answers, "error") BY <1>1, <2>2
      <3>2. QED BY <1>4, <1>6, <2>2, <3>1
    <2>3. CASE line \notin {"local", "refused"}
      <3>1. stdio'.answers = stdio.answers BY <1>1, <2>3
      <3>2. QED BY <1>5, <1>6, <2>3, <3>1
    <2>4. QED BY <2>1, <2>2, <2>3
  <1>8. \A d \in Programs :
           call'[d] = IF d = Mcp /\ line \in McpOps THEN row ELSE call[d]
    BY <1>1, <1>3 DEF SetCall
  <1>9. row.pc = "ensuring" /\ Tells(Mcp, row) BY DEF NoCall, Tells
  <1> HIDE DEF row, asked, askedNow
  <1>10. \A d \in Programs : Tells(d, call'[d]) BY <1>2, <1>8, <1>9, ToldIs
  <1>11. line \in McpOps <=> line \notin {"noise", "initialized", "local", "refused"}
    BY DEF Lines, McpOps, ShellOps
  <1>12. call'[Mcp].pc = IF line \in McpOps THEN "ensuring" ELSE "idle"
    BY <1>2, <1>3, <1>8, <1>9
  <1>13. Len(stdio'.answers) = askedNow - (IF line \in McpOps THEN 1 ELSE 0)
    BY <1>5, <1>7, <1>11
  <1>14. Answers'
    <2>1. Answers' <=> Len(stdio'.answers) =
                         askedNow - (IF call'[Mcp].pc \notin {"idle", "ended"} THEN 1 ELSE 0)
      BY DEF Answers, Busy, askedNow
    <2>2. QED BY <1>12, <1>13, <2>1
  <1>15. ToldStep
    <2>1. \A d \in Shells : call'[d].pc = call[d].pc BY <1>2, <1>8
    <2>2. Len(stdio'.answers) = askedNow - (IF call'[Mcp].pc = "idle" THEN 0 ELSE 1)
      BY <1>12, <1>13
    <2>3. CallAt(Mcp, "idle") BY <1>3 DEF CallAt
    <2>4. QED BY <2>1, <2>2, <2>3 DEF ToldStep, askedNow
  <1>16. QED BY <1>10, <1>14, <1>15 DEF TellsOn

LEMMA AnswerTells ==
  ASSUME ToldInv, AnswerCall
  PROVE  TellsOn
  <1> DEFINE old == call[Mcp]
             answer == ToolAnswer(old)
             asked == Cardinality(Asked(stdio.lines))
  <1>1. Mcp \in Programs /\ Mcp \notin Shells /\ Shells \subseteq Programs BY DEF Programs
  <1>2. /\ old \in CallRow /\ Tells(Mcp, old) /\ RowOnce(old) /\ old.pc = "answered"
        /\ call \in [Programs -> CallRow]
    BY <1>1, ToldIs DEF AnswerCall, CallAt
  <1>3. stdio.lines \in Seq(Lines) /\ stdio.answers \in Seq({"result", "error"})
    BY DEF ToldInv, CallsInv, ClientTypeOK
  <1>4. stdio' = [stdio EXCEPT !.answers = Append(stdio.answers, answer)] BY DEF AnswerCall
  <1>5. ASSUME NEW d \in Programs
        PROVE  call'[d] = IF d = Mcp THEN NoCall ELSE call[d]
    BY <1>2 DEF AnswerCall, SetCall
  <1>6. \A d \in Programs : Tells(d, call'[d]) BY <1>5, NoCallTells, ToldIs
  <1>7. call'[Mcp].pc = "idle" BY <1>1, <1>5 DEF NoCall
  <1>8. Len(stdio.answers) = asked - 1 BY <1>2 DEF ToldInv, Answers, Busy
  <1>9. answer \in {"result", "error"} BY DEF ToolAnswer
  <1>10. asked \in Nat BY <1>3, AskedMore DEF Lines
  <1>11. answer = "result" <=>
           old.handled = LastStep(old.op) /\ old.outcome \in {"ok", "failed", "timed_out"}
    <2>1. old.outcome \in {"ok", "failed", "timed_out", "error", "daemon_error"}
      BY <1>2 DEF Tells, CallRow, Outcomes
    <2>2. old.outcome = "ok" => old.step = LastStep(old.op) BY DEF AnswerCall
    <2>3. QED BY <1>2, <2>1, <2>2 DEF ToolAnswer, Tells
  <1> HIDE DEF old, answer
  <1>12. /\ stdio'.answers = Append(stdio.answers, answer) /\ stdio'.lines = stdio.lines
    <2>1. stdio \in Dialogues BY DEF ToldInv, CallsInv, ClientTypeOK, Dialogues
    <2>2. QED BY <1>4, <2>1 DEF Dialogues
  <1>13. Len(stdio'.answers) = asked /\ Last(stdio'.answers) = answer
    BY <1>3, <1>8, <1>9, <1>10, <1>12 DEF Last
  <1>14. Answers' BY <1>7, <1>12, <1>13 DEF Answers, Busy
  <1>15. ToldStep
    <2>1. \A d \in Shells : call'[d] = call[d] BY <1>1, <1>5
    <2>2. Len(stdio'.answers) =
            Cardinality(Asked(stdio'.lines)) - (IF call'[Mcp].pc = "idle" THEN 0 ELSE 1)
      BY <1>7, <1>10, <1>12, <1>13
    <2>3. QED BY <1>11, <1>13, <2>1, <2>2 DEF ToldStep, old
  <1>16. QED BY <1>6, <1>14, <1>15 DEF TellsOn

-----------------------------------------------------------------------------
LEMMA ToldInitInv == ClientInit => ToldInv
  <1> SUFFICES ASSUME ClientInit PROVE ToldInv OBVIOUS
  <1>1. CallsInv BY CallsInitInv
  <1>2. Mcp \in Programs BY DEF Programs
  <1>3. \A c \in Programs : call[c] = NoCall BY DEF ClientInit
  <1>4. \A c \in Programs : Tells(c, call[c]) BY <1>3, NoCallTells
  <1>5. Answers
    <2>1. stdio.lines = <<>> /\ stdio.answers = <<>> BY DEF ClientInit
    <2>2. Asked(stdio.lines) = {} BY <2>1 DEF Asked
    <2>3. ~Busy(call[Mcp]) BY <1>2, <1>3, NoCallTells
    <2>4. Cardinality({}) = 0 BY FS_EmptySet
    <2>5. Cardinality(Asked(stdio.lines)) = 0 /\ Len(stdio.answers) = 0 BY <2>1, <2>2, <2>4
    <2>6. 0 = 0 - 0 OBVIOUS
    <2>7. QED BY <2>3, <2>5, <2>6 DEF Answers
  <1>6. QED BY <1>1, <1>4, <1>5 DEF ToldInv

LEMMA ToldNext == ToldInv /\ ClientNext => TellsOn
  <1> SUFFICES ASSUME ToldInv, ClientNext PROVE TellsOn OBVIOUS
  <1>1. CASE DaemonEnds BY <1>1, EndsTells
  <1>2. CASE ReadLine BY <1>2, ReadTells
  <1>3. CASE StdinEnds BY <1>3, StdinTells
  <1>4. CASE WaitForTurn BY <1>4, WaitTells
  <1>5. CASE AnswerCall BY <1>5, AnswerTells
  <1>6. ASSUME NEW c \in Shells, TypeCommand(c) \/ ExitCommand(c) PROVE TellsOn
    BY <1>6, TypeTells, ExitTells
  <1>7. ASSUME NEW c \in Programs, RequestStep(c) PROVE TellsOn
    BY <1>7, RequestTells, GoesOnTells
  <1>8. QED BY <1>1, <1>2, <1>3, <1>4, <1>5, <1>6, <1>7 DEF ClientNext

LEMMA ToldNextInv == ToldInv /\ [ClientNext]_cvars => ToldInv'
  <1> SUFFICES ASSUME ToldInv, [ClientNext]_cvars PROVE ToldInv' OBVIOUS
  <1>1. CallsInv' BY CallsNextInv DEF ToldInv
  <1>2. CASE ClientNext
    <2>1. TellsOn BY <1>2, ToldNext
    <2>2. QED BY <1>1, <2>1 DEF TellsOn, ToldInv, Tells
  <1>3. CASE UNCHANGED cvars
    BY <1>1, <1>3 DEF cvars, ToldInv, Tells, Answers, Busy, Asked
  <1>4. QED BY <1>2, <1>3

LEMMA ToldInvariance == ClientSpec => []ToldInv
  BY ToldInitInv, ToldNextInv, PTL DEF ClientSpec

\* Exit codes and answers say what became of the requests, and every request
\* of an MCP client is answered, in turn, by one line (exit_code, call_tool).
THEOREM TellsWhatHappened == ClientSpec => ToldWhatHappened
  <1>1. ToldInv /\ [ClientNext]_cvars => [ToldStep]_cvars
    BY ToldNext DEF TellsOn
  <1>2. ClientSpec => [][ToldStep]_cvars
    BY <1>1, ToldInvariance, PTL DEF ClientSpec
  <1>3. QED BY <1>2 DEF ToldWhatHappened, ToldStep, CodeTells

-----------------------------------------------------------------------------
(***************************************************************************)
(* The parts together: a step of one leaves the variables of the others.    *)
(***************************************************************************)

RecordsInv == part \in Topics /\ RequestsInv /\ CallsInv

LEMMA RecordsInitInv == RecordsInit => RecordsInv
  BY RequestsInitInv, CallsInitInv DEF RecordsInit, RecordsInv

LEMMA RecordsNextInv == RecordsInv /\ [RecordsNext]_rvars => RecordsInv'
  <1> SUFFICES ASSUME RecordsInv, [RecordsNext]_rvars PROVE RecordsInv' OBVIOUS
  <1>1. [StartNext]_svars /\ [ClientNext]_cvars /\ UNCHANGED part
    BY DEF RecordsNext, rvars, svars, cvars
  <1>2. RequestsInv' /\ CallsInv'
    BY <1>1, RequestsNextInv, CallsNextInv DEF RecordsInv
  <1>3. QED BY <1>1, <1>2 DEF RecordsInv

LEMMA RecordsInvariance == RecordsSpec => []RecordsInv
  BY RecordsInitInv, RecordsNextInv, PTL DEF RecordsSpec

(* The variables of the requests stay of their types in a history in which
   sweeps, start requests, feeds and callers each go on (accept_start,
   request_existing).                                                       *)
THEOREM RecordsTypes == RecordsSpec => []RequestsTypeOK
  <1>1. RecordsInv => RequestsTypeOK
    BY DEF RecordsInv, RequestsInv, CallsInv, RequestsTypeOK
  <1>2. QED BY RecordsInvariance, <1>1, PTL
=============================================================================
