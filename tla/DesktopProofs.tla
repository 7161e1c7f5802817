---------------------- MODULE DesktopProofs ----------------------
(***************************************************************************)
(* The processes around the daemon: the supervised agents, the GUI host,    *)
(* the MCP entry and the managed block, each for every value of its         *)
(* constants, and together as MCDesktop runs them.                          *)
(***************************************************************************)
EXTENDS MCDesktop, SequenceLemmas, FiniteSetTheorems

-----------------------------------------------------------------------------
(***************************************************************************)
(* For any number of trees: types, and that the trees that carry others'    *)
(* control pipes form no ring.  A child takes along the pipes that are not  *)
(* yet close-on-exec, and a tree whose pipe is in that state has not        *)
(* forked, so it carries nothing (TakenEarly): the new edges end no ring.   *)
(***************************************************************************)

\* Whoever carries a pipe has forked.
TakenEarly ==
  \A u \in Trees : tree[u].carries # {} => tree[u].spawn \in {"forked", "held", "dropped"}

SupervisorInv == SupervisorTypeOK /\ TakenEarly /\ CarryingOneWay

-----------------------------------------------------------------------------
\* A step that sets one row to a row of the type keeps the types.
LEMMA SetTreeType ==
  ASSUME SupervisorTypeOK, NEW t \in Trees, NEW row \in Tree, SetTree(t, row),
         UNCHANGED owner
  PROVE  SupervisorTypeOK'
  BY DEF SupervisorTypeOK, SetTree

\* A step of tree t that leaves what t carries and does not undo its fork.
LEMMA SpawnForward ==
  ASSUME SupervisorInv, NEW t \in Trees, NEW row \in Tree, SetTree(t, row),
         row.carries = tree[t].carries,
         \/ row.spawn = tree[t].spawn
         \/ tree[t].spawn \in {"none", "pipe"}
         \/ row.spawn \in {"forked", "held", "dropped"}
  PROVE  TakenEarly' /\ CarryingOneWay'
  <1>1. \A u \in Trees : tree'[u].carries = tree[u].carries
    BY DEF SupervisorInv, SupervisorTypeOK, SetTree
  <1>2. TakenEarly' BY DEF SupervisorInv, SupervisorTypeOK, TakenEarly, SetTree
  <1>3. CarryingOneWay' BY <1>1 DEF SupervisorInv, CarryingOneWay
  <1>4. QED BY <1>2, <1>3

-----------------------------------------------------------------------------
LEMMA SupervisorInitInv == SupervisorInit => SupervisorInv
  BY DEF SupervisorInit, SupervisorInv, SupervisorTypeOK, TakenEarly, CarryingOneWay, NoTree, Tree,
         Spawning, Supervising, Process, Members

LEMMA ForkInv ==
  ASSUME SupervisorInv, NEW t \in Trees, Fork(t)
  PROVE  SupervisorInv'
  <1> DEFINE row == [tree[t] EXCEPT !.spawn = "forked", !.sup = "spawning",
                                    !.carries = Inheritable]
  <1>1. tree[t] \in Tree BY DEF SupervisorInv, SupervisorTypeOK
  <1>2. row \in Tree BY <1>1 DEF Tree, Inheritable, Spawning, Supervising
  <1>3. SetTree(t, row) /\ UNCHANGED owner BY DEF Fork
  <1>4. SupervisorTypeOK' BY <1>2, <1>3, SetTreeType DEF SupervisorInv
  <1>5. tree' = [tree EXCEPT ![t] = row] BY <1>3 DEF SetTree
  <1>6. row.carries = {u \in Trees : tree[u].spawn = "pipe"} /\ row.spawn = "forked"
    BY <1>1 DEF Tree, Inheritable
  <1>7. tree[t].spawn = "flagged" BY DEF Fork
  <1> HIDE DEF row
  <1>8. TakenEarly' BY <1>5, <1>6 DEF SupervisorInv, SupervisorTypeOK, TakenEarly
  <1>9. CarryingOneWay'
    <2> SUFFICES ASSUME NEW S \in (SUBSET Trees) \ {{}}
                 PROVE  \E v \in S : tree'[v].carries \cap S = {}
      BY DEF CarryingOneWay
    <2>1. \A v \in Trees : v # t => tree'[v] = tree[v]
      BY <1>5 DEF SupervisorInv, SupervisorTypeOK
    <2>2. tree'[t] = row BY <1>5 DEF SupervisorInv, SupervisorTypeOK
    <2>3. CASE t \notin S
      <3>1. PICK v \in S : tree[v].carries \cap S = {} BY DEF SupervisorInv, CarryingOneWay
      <3>2. QED BY <2>1, <2>3, <3>1
    \* No pipe of S is newly carried: t itself carries none.
    <2>4. CASE t \in S /\ row.carries \cap S = {}
      BY <2>2, <2>4
    \* A newly carried one belongs to a tree that has not forked.
    <2>5. CASE row.carries \cap S # {}
      <3>1. PICK u \in S : tree[u].spawn = "pipe" BY <1>6, <2>5
      <3>2. u # t /\ tree[u].carries = {} BY <3>1, <1>7 DEF SupervisorInv, TakenEarly
      <3>3. QED BY <2>1, <3>2
    <2>6. QED BY <2>3, <2>4, <2>5
  <1>10. QED BY <1>4, <1>8, <1>9 DEF SupervisorInv

LEMMA OwnerInv ==
  ASSUME SupervisorInv, NEW t \in Trees, MakePipe(t) \/ SetFlags(t) \/ KeepControl(t) \/ DropControl(t)
  PROVE  SupervisorInv'
  <1>1. tree[t] \in Tree BY DEF SupervisorInv, SupervisorTypeOK
  <1>2. PICK state \in Spawning \ {"none"} :
          /\ SetTree(t, [tree[t] EXCEPT !.spawn = state]) /\ UNCHANGED owner
          /\ \/ tree[t].spawn \in {"none", "pipe"}
             \/ state \in {"forked", "held", "dropped"}
    BY DEF MakePipe, SetFlags, KeepControl, DropControl, Spawning
  <1> DEFINE row == [tree[t] EXCEPT !.spawn = state]
  <1>3. row \in Tree /\ row.carries = tree[t].carries /\ row.spawn = state
    BY <1>1 DEF Tree
  <1> HIDE DEF row
  <1>4. SetTree(t, row) BY <1>2 DEF row
  <1>5. QED BY <1>2, <1>3, <1>4, SetTreeType, SpawnForward DEF SupervisorInv

\* A step that sets one row and leaves its spawn and what it carries alone.
LEMMA RowInv ==
  ASSUME SupervisorInv, NEW t \in Trees, NEW row \in Tree, SetTree(t, row), UNCHANGED owner,
         row.carries = tree[t].carries, row.spawn = tree[t].spawn
  PROVE  SupervisorInv'
  BY SetTreeType, SpawnForward DEF SupervisorInv

\* The steps of the supervisor and of the group are such steps.
LEMMA SuperviseInv ==
  ASSUME SupervisorInv, NEW t \in Trees, Supervise(t)
  PROVE  SupervisorInv'
  <1> DEFINE old == tree[t]
  <1>0. old \in Tree BY DEF SupervisorInv, SupervisorTypeOK
  <1>1. CASE SpawnManaged(t)
    <2>1. UNCHANGED owner BY <1>1 DEF SpawnManaged
    <2>2. ASSUME NEW deaf \in SUBSET Members,
                 SetTree(t, [old EXCEPT !.sup = "polling", !.leader = "alive", !.deaf = deaf])
          PROVE  SupervisorInv'
      <3> DEFINE row == [old EXCEPT !.sup = "polling", !.leader = "alive", !.deaf = deaf]
      <3>1. row \in Tree /\ row.carries = old.carries /\ row.spawn = old.spawn
        BY <1>0 DEF Tree, Supervising, Process
      <3>2. QED BY <2>1, <2>2, <3>1, RowInv
    <2>3. ASSUME SetTree(t, [old EXCEPT !.sup = "done"])
          PROVE  SupervisorInv'
      <3> DEFINE row == [old EXCEPT !.sup = "done"]
      <3>1. row \in Tree /\ row.carries = old.carries /\ row.spawn = old.spawn
        BY <1>0 DEF Tree, Supervising
      <3>2. QED BY <2>1, <2>3, <3>1, RowInv
    <2>4. QED BY <1>1, <2>2, <2>3 DEF SpawnManaged
  <1>2. CASE WatchControl(t)
    <2> DEFINE row == [old EXCEPT !.stop = TRUE]
    <2>1. row \in Tree /\ row.carries = old.carries /\ row.spawn = old.spawn
      BY <1>0 DEF Tree
    <2>2. SetTree(t, row) /\ UNCHANGED owner BY <1>2 DEF WatchControl
    <2>3. QED BY <2>1, <2>2, RowInv
  <1>3. CASE Terminate(t)
    <2> DEFINE row == [old EXCEPT !.sup = "term", !.leader = Termed(old.leader),
                                  !.helper = Termed(old.helper)]
    <2>1. row \in Tree /\ row.carries = old.carries /\ row.spawn = old.spawn
      BY <1>0 DEF Tree, Supervising, Process, Termed
    <2>2. SetTree(t, row) /\ UNCHANGED owner BY <1>3 DEF Terminate
    <2>3. QED BY <2>1, <2>2, RowInv
  <1>4. CASE AfterGrace(t)
    <2>1. UNCHANGED owner BY <1>4 DEF AfterGrace
    <2>2. ASSUME SetTree(t, [old EXCEPT !.sup = "joining"])
          PROVE  SupervisorInv'
      <3> DEFINE row == [old EXCEPT !.sup = "joining"]
      <3>1. row \in Tree /\ row.carries = old.carries /\ row.spawn = old.spawn
        BY <1>0 DEF Tree, Supervising
      <3>2. QED BY <2>1, <2>2, <3>1, RowInv
    <2>3. ASSUME SetTree(t, [old EXCEPT !.sup = "joining", !.leader = "dead",
                                        !.helper = Killed(old.helper)])
          PROVE  SupervisorInv'
      <3> DEFINE row == [old EXCEPT !.sup = "joining", !.leader = "dead",
                                    !.helper = Killed(old.helper)]
      <3>1. row \in Tree /\ row.carries = old.carries /\ row.spawn = old.spawn
        BY <1>0 DEF Tree, Supervising, Process, Killed
      <3>2. QED BY <2>1, <2>3, <3>1, RowInv
    <2>4. QED BY <1>4, <2>2, <2>3 DEF AfterGrace
  <1>5. CASE SeeExit(t) \/ Join(t)
    <2> DEFINE row(state) == [old EXCEPT !.sup = state]
    <2>1. \A state \in Supervising : /\ row(state) \in Tree
                                     /\ row(state).carries = old.carries
                                     /\ row(state).spawn = old.spawn
      BY <1>0 DEF Tree
    <2>2. SetTree(t, row("joining")) \/ SetTree(t, row("done"))
      BY <1>5 DEF SeeExit, Join
    <2>3. UNCHANGED owner BY <1>5 DEF SeeExit, Join
    <2>4. "joining" \in Supervising /\ "done" \in Supervising BY DEF Supervising
    <2> HIDE DEF row
    <2>5. QED BY <2>1, <2>2, <2>3, <2>4, RowInv
  <1>6. QED BY <1>1, <1>2, <1>3, <1>4, <1>5 DEF Supervise

LEMMA GroupInv ==
  ASSUME SupervisorInv, NEW t \in Trees, GroupStep(t)
  PROVE  SupervisorInv'
  <1> DEFINE old == tree[t]
             led(state) == [old EXCEPT !.leader = state]
             helped(state) == [old EXCEPT !.helper = state]
  <1>1. old \in Tree BY DEF SupervisorInv, SupervisorTypeOK
  <1>2. "alive" \in Process /\ "dead" \in Process BY DEF Process
  <1>3. \A state \in Process : /\ led(state) \in Tree /\ helped(state) \in Tree
                               /\ led(state).carries = old.carries
                               /\ led(state).spawn = old.spawn
                               /\ helped(state).carries = old.carries
                               /\ helped(state).spawn = old.spawn
    BY <1>1 DEF Tree
  <1>4. UNCHANGED owner BY DEF GroupStep, SpawnHelper, Obey, EndsAlone
  <1>5. CASE SpawnHelper(t)
    <2>1. SetTree(t, helped("alive")) BY <1>5 DEF SpawnHelper
    <2> HIDE DEF helped
    <2>2. QED BY <1>2, <1>3, <1>4, <2>1, RowInv
  <1>6. ASSUME NEW member \in Members, Obey(t, member) \/ EndsAlone(t, member)
        PROVE  SupervisorInv'
    <2>1. SetTree(t, led("dead")) \/ SetTree(t, helped("dead"))
      <3>1. CASE member = "leader" BY <1>6, <3>1 DEF Obey, EndsAlone
      <3>2. CASE member = "helper" BY <1>6, <3>2 DEF Obey, EndsAlone
      <3>3. QED BY <3>1, <3>2 DEF Members
    <2> HIDE DEF led, helped
    <2>2. QED BY <1>2, <1>3, <1>4, <2>1, RowInv
  <1>7. QED BY <1>5, <1>6 DEF GroupStep

LEMMA SupervisorNextInv == SupervisorInv /\ [SupervisorNext]_uvars => SupervisorInv'
  <1> SUFFICES ASSUME SupervisorInv, [SupervisorNext]_uvars PROVE SupervisorInv' OBVIOUS
  <1>1. CASE OwnerDies BY <1>1 DEF OwnerDies, SupervisorInv, SupervisorTypeOK, TakenEarly, CarryingOneWay
  <1>2. ASSUME NEW t \in Trees, OwnerStep(t) PROVE SupervisorInv'
    BY <1>2, ForkInv, OwnerInv DEF OwnerStep
  <1>3. ASSUME NEW t \in Trees, Supervise(t) \/ GroupStep(t) PROVE SupervisorInv'
    BY <1>3, SuperviseInv, GroupInv
  <1>4. CASE UNCHANGED uvars BY <1>4 DEF uvars, SupervisorInv, SupervisorTypeOK, TakenEarly, CarryingOneWay
  <1>5. QED BY <1>1, <1>2, <1>3, <1>4 DEF SupervisorNext

LEMMA SupervisorInvariance == SupervisorSpec => []SupervisorInv
  BY SupervisorInitInv, SupervisorNextInv, PTL DEF SupervisorSpec

-----------------------------------------------------------------------------
\* Every tree's owner, supervisor, leader and helper stay of their types
\* (SupervisedChild, run_inner).
THEOREM SupervisorTypes == SupervisorSpec => []SupervisorTypeOK
  <1>1. SupervisorInv => SupervisorTypeOK BY DEF SupervisorInv
  <1>2. QED BY SupervisorInvariance, <1>1, PTL

\* However many threads of the owner spawn trees at once, no supervisors hold
\* each other's control pipes open in a ring and none its own, so that the end
\* of the owner reaches all of them (SupervisedChild::spawn, watch_control_eof).
THEOREM CarriesOneWay == SupervisorSpec => []CarryingOneWay
  <1>1. SupervisorInv => CarryingOneWay BY DEF SupervisorInv
  <1>2. QED BY SupervisorInvariance, <1>1, PTL

-----------------------------------------------------------------------------
(***************************************************************************)
(* For any number of hosts, navigators, attempts and saved modes: types,    *)
(* that the host that serves owns the lock and the endpoint, and that a     *)
(* host follows config.json.  All of it rests on LockKept: a process that   *)
(* is past the lock holds it, so there is at most one, which alone binds,   *)
(* saves and synchronises (OneHost).                                        *)
(***************************************************************************)

\* Is the process past acquire_lock_at?
Past(h) == host[h].pc \notin {"off", "locking"}

LockKept == \A h \in Hosts : Past(h) => hostLock = h

\* The thread of the endpoint lives in a host, and the file is the serving one's.
EndpointKept ==
  \A h \in Hosts : /\ host[h].ipc # "off" => Past(h)
                   /\ host[h].ipc = "serving" => endpoint = h

\* What a host knows at each step of a settings command: row is its own,
\* loaded the mode of config.json, item the autostart entry.
Following(row, loaded, item) ==
  /\ row.pc \in {"running", "loaded", "saved", "resynced"} /\ ~row.edited => row.mode = loaded
  /\ row.pc \in {"running", "loaded"} => (row.tray = "absent" <=> row.mode = "off")
  /\ row.pc \in {"running", "loaded", "resynced"} /\ row.synced => item = ItemFor(row.mode)

Follows(h) == Following(host[h], Loaded, loginItem)

GuiInv == GuiTypeOK /\ LockKept /\ EndpointKept /\ \A h \in Hosts : Follows(h)

USE GuiAssumption

-----------------------------------------------------------------------------
\* Two hosts past the lock are one.
LEMMA OneHost ==
  ASSUME LockKept, NEW g \in Hosts, NEW h \in Hosts, Past(g), Past(h)
  PROVE  g = h
  BY DEF LockKept

LEMMA NavAtType == \A pc \in NavPc : NavAt(pc) \in NavRow
  BY DEF NavAt, NavRow, Commands

LEMMA NoHostType == NoHost \in HostRow
  BY DEF NoHost, HostRow, HostPc, Ipc, TrayModes, TrayIcon

\* No icon exactly in mode off, but one may be wanted that failed.
LEMMA ReconciledIcon ==
  ASSUME NEW old, NEW mode, NEW tray \in Reconciled(old, mode)
  PROVE  tray \in TrayIcon /\ (tray = "absent" <=> mode = "off")
  BY DEF Reconciled, TrayIcon

LEMMA GuiInitInv == GuiInit => GuiInv
  <1> SUFFICES ASSUME GuiInit PROVE GuiInv OBVIOUS
  <1>1. GuiTypeOK
    <2>1. "idle" \in NavPc BY DEF NavPc
    <2>2. QED BY <2>1, NavAtType, NoHostType DEF GuiInit, GuiTypeOK
  <1>2. LockKept BY DEF GuiInit, LockKept, Past, NoHost
  <1>3. EndpointKept BY DEF GuiInit, EndpointKept, NoHost
  <1>4. \A h \in Hosts : Follows(h) BY DEF GuiInit, Follows, Following, NoHost
  <1>5. QED BY <1>1, <1>2, <1>3, <1>4 DEF GuiInv

-----------------------------------------------------------------------------
(* A step of one process that leaves the settings alone *)

\* The step gives h the row, which keeps what the invariant says of h, and
\* leaves the endpoint of every other host.
LEMMA HostStepInv ==
  ASSUME GuiInv, NEW h \in Hosts, NEW row \in HostRow, SetHost(h, row),
         config' \in TrayModes \cup {"broken"}, hostLock' \in Hosts \cup {Nobody}, endpoint' \in Hosts \cup {Nobody},
         loginItem' \in {"none", "current", "outdated"}, nav' \in [Navigators -> NavRow],
         row.pc \notin {"off", "locking"} => hostLock' = h,
         \A g \in Hosts \ {h} : Past(g) => hostLock' = g,
         row.ipc # "off" => row.pc \notin {"off", "locking"},
         row.ipc = "serving" => endpoint' = h,
         \A g \in Hosts \ {h} : host[g].ipc = "serving" => endpoint' = g,
         \A g \in Hosts \ {h} : Past(g) => loginItem' = loginItem /\ config' = config,
         Following(row, Loaded', loginItem')
  PROVE  GuiInv'
  <1>1. host' = [host EXCEPT ![h] = row] /\ host \in [Hosts -> HostRow]
    BY DEF SetHost, GuiInv, GuiTypeOK
  <1>2. host'[h] = row /\ \A g \in Hosts \ {h} : host'[g] = host[g] BY <1>1
  <1>3. GuiTypeOK' BY <1>1 DEF GuiInv, GuiTypeOK
  <1>4. LockKept' BY <1>2 DEF LockKept, Past
  <1>5. EndpointKept' BY <1>2 DEF GuiInv, EndpointKept, Past
  <1>6. \A g \in Hosts : Follows(g)'
    <2> SUFFICES ASSUME NEW g \in Hosts PROVE Follows(g)' OBVIOUS
    <2>1. CASE g = h BY <1>2, <2>1 DEF Follows
    <2>2. CASE g # h /\ Past(g)
      <3>1. loginItem' = loginItem /\ Loaded' = Loaded BY <2>2 DEF Loaded
      <3>2. QED BY <1>2, <2>2, <3>1 DEF GuiInv, Follows
    <2>3. CASE g # h /\ ~Past(g)
      BY <1>2, <2>3 DEF Follows, Following, Past
    <2>4. QED BY <2>1, <2>2, <2>3
  <1>7. QED BY <1>3, <1>4, <1>5, <1>6 DEF GuiInv

\* The row of the host only gets another queue.
LEMMA QueueInv ==
  ASSUME GuiInv, NEW h \in Hosts, NEW queue \in Seq(Navigators),
         SetHost(h, [host[h] EXCEPT !.queue = queue]),
         UNCHANGED <<hostLock, endpoint, config, loginItem>>, nav' \in [Navigators -> NavRow]
  PROVE  GuiInv'
  <1> DEFINE old == host[h]
             row == [old EXCEPT !.queue = queue]
  <1>1. old \in HostRow BY DEF GuiInv, GuiTypeOK
  <1>2. /\ row \in HostRow /\ row.pc = old.pc /\ row.ipc = old.ipc /\ row.mode = old.mode
        /\ row.tray = old.tray /\ row.synced = old.synced /\ row.edited = old.edited
    BY <1>1 DEF HostRow
  <1> HIDE DEF row
  <1>3. SetHost(h, row) BY DEF row
  <1>4. Following(row, Loaded', loginItem') BY <1>2 DEF GuiInv, Follows, Following, Loaded
  <1>5. QED
    BY <1>2, <1>3, <1>4, HostStepInv DEF GuiInv, GuiTypeOK, LockKept, EndpointKept, Past

\* A process starts, is refused the lock, or ends.
LEMMA OutsideInv ==
  ASSUME GuiInv, NEW h \in Hosts, NEW pc \in {"off", "locking"},
         SetHost(h, [NoHost EXCEPT !.pc = pc]),
         hostLock' \in {hostLock, Nobody}, hostLock \in Hosts \ {h} => hostLock' = hostLock,
         UNCHANGED <<endpoint, config, loginItem>>, nav' \in [Navigators -> NavRow]
  PROVE  GuiInv'
  <1> DEFINE row == [NoHost EXCEPT !.pc = pc]
  <1>1. row \in HostRow /\ row.pc = pc /\ row.ipc = "off"
    BY NoHostType DEF HostRow, NoHost, HostPc, Ipc
  <1> HIDE DEF row
  <1>2. SetHost(h, row) BY DEF row
  <1>3. \A g \in Hosts \ {h} : Past(g) => hostLock' = g BY DEF GuiInv, LockKept
  <1>4. Following(row, Loaded', loginItem') BY <1>1 DEF Following
  <1>5. QED
    BY <1>1, <1>2, <1>3, <1>4, HostStepInv DEF GuiInv, GuiTypeOK, EndpointKept

\* Only the navigators change.
LEMMA NavInv ==
  ASSUME GuiInv, UNCHANGED <<hostLock, endpoint, config, loginItem, host>>,
         nav' \in [Navigators -> NavRow]
  PROVE  GuiInv'
  BY DEF GuiInv, GuiTypeOK, LockKept, Past, EndpointKept, Follows, Loaded

\* What the end of a host leaves of the navigators' rows.
LEMMA EndedInv ==
  ASSUME GuiInv, NEW h \in Hosts, NEW applied \in SUBSET Navigators, Ended(h, applied),
         UNCHANGED <<endpoint, config, loginItem>>
  PROVE  GuiInv'
  <1>1. nav' \in [Navigators -> NavRow]
    <2> DEFINE gone(n) ==
          IF n \in applied THEN NavAt("applied")
          ELSE CASE nav[n].host = h /\ nav[n].pc = "sent" -> [nav[n] EXCEPT !.pc = "cut"]
                 [] nav[n].host = h /\ nav[n].pc = "acked" -> NavAt("lost")
                 [] OTHER -> nav[n]
    <2>1. \A n \in Navigators : nav[n] \in NavRow BY DEF GuiInv, GuiTypeOK
    <2>2. \A n \in Navigators : [nav[n] EXCEPT !.pc = "cut"] \in NavRow
      BY <2>1 DEF NavRow, NavPc
    <2>3. NavAt("applied") \in NavRow /\ NavAt("lost") \in NavRow BY NavAtType DEF NavPc
    <2>4. \A n \in Navigators :
            gone(n) \in {NavAt("applied"), [nav[n] EXCEPT !.pc = "cut"], NavAt("lost"), nav[n]}
      OBVIOUS
    <2>5. \A n \in Navigators : gone(n) \in NavRow BY <2>1, <2>2, <2>3, <2>4
    <2>6. nav' = [n \in Navigators |-> gone(n)] BY DEF Ended
    <2> HIDE DEF gone
    <2>7. QED BY <2>5, <2>6
  <1>2. SetHost(h, [NoHost EXCEPT !.pc = "off"]) BY DEF Ended, NoHost
  <1>3. hostLock' \in {hostLock, Nobody} /\ (hostLock \in Hosts \ {h} => hostLock' = hostLock)
    BY DEF Ended
  <1>4. QED BY <1>1, <1>2, <1>3, OutsideInv

-----------------------------------------------------------------------------
LEMMA StartInv ==
  ASSUME GuiInv, NEW h \in Hosts, Start(h)
  PROVE  GuiInv'
  <1> DEFINE old == host[h]
  <1>0. old \in HostRow /\ nav \in [Navigators -> NavRow] BY DEF GuiInv, GuiTypeOK
  <1>1. CASE LockHost(h)
    <2>1. CASE hostLock = Nobody
      <3> DEFINE row == [old EXCEPT !.pc = "loading"]
      <3>1. /\ row \in HostRow /\ row.pc = "loading" /\ row.ipc = old.ipc
        BY <1>0 DEF HostRow, HostPc
      <3>2. SetHost(h, row) /\ hostLock' = h /\ UNCHANGED <<endpoint, config, loginItem, nav>>
        BY <1>1, <2>1 DEF LockHost
      <3> HIDE DEF row
      <3>3. \A g \in Hosts : ~Past(g) BY <2>1 DEF GuiInv, LockKept
      <3>4. Following(row, Loaded', loginItem') BY <3>1 DEF Following
      <3>5. QED
        BY <1>0, <3>1, <3>2, <3>3, <3>4, HostStepInv DEF GuiInv, GuiTypeOK, EndpointKept
    <2>2. CASE hostLock # Nobody
      <3>1. SetHost(h, [NoHost EXCEPT !.pc = "off"]) /\ UNCHANGED hostLock
        BY <1>1, <2>2 DEF LockHost, NoHost
      <3>2. QED BY <1>0, <1>1, <3>1, OutsideInv DEF LockHost
    <2>3. QED BY <2>1, <2>2
  <1>2. CASE StartUp(h)
    <2>1. PICK synced \in BOOLEAN, tray \in Reconciled(old.tray, Loaded) :
            /\ loginItem' = IF synced THEN ItemFor(Loaded) ELSE loginItem
            /\ SetHost(h, Started(h, synced, tray))
      BY <1>2 DEF StartUp
    <2> DEFINE row == Started(h, synced, tray)
    <2>2. Loaded \in TrayModes BY DEF GuiInv, GuiTypeOK, Loaded, TrayModes
    <2>3. tray \in TrayIcon /\ (tray = "absent" <=> Loaded = "off") BY ReconciledIcon
    <2>4. /\ row \in HostRow /\ row.pc = "running" /\ row.ipc = "binding"
          /\ row.mode = Loaded /\ row.tray = tray /\ row.synced = synced
      BY <1>0, <2>2, <2>3 DEF Started, HostRow, HostPc, Ipc
    <2> HIDE DEF row
    <2>5. SetHost(h, row) BY <2>1 DEF row
    <2>6. UNCHANGED <<hostLock, endpoint, config, nav>> BY <1>2 DEF StartUp
    <2>7. Past(h) BY <1>2 DEF StartUp, HostAt, Past
    <2>8. loginItem' \in {"none", "current", "outdated"}
      BY <2>1 DEF GuiInv, GuiTypeOK, ItemFor
    <2>9. \A g \in Hosts \ {h} : ~Past(g) BY <2>7, OneHost DEF GuiInv
    <2>10. Following(row, Loaded', loginItem')
      BY <2>1, <2>3, <2>4, <2>6 DEF Following, Loaded
    <2>11. QED
      BY <1>0, <2>4, <2>5, <2>6, <2>7, <2>8, <2>9, <2>10, HostStepInv
      DEF GuiInv, GuiTypeOK, LockKept, EndpointKept
  <1>3. CASE BindEndpoint(h)
    <2>1. PICK ipc \in {"serving", "failed"} :
            /\ SetHost(h, [old EXCEPT !.ipc = ipc])
            /\ endpoint' = IF ipc = "serving" THEN h ELSE Nobody
      BY <1>3 DEF BindEndpoint
    <2> DEFINE row == [old EXCEPT !.ipc = ipc]
    <2>2. /\ row \in HostRow /\ row.pc = old.pc /\ row.ipc = ipc /\ row.mode = old.mode
          /\ row.tray = old.tray /\ row.synced = old.synced /\ row.edited = old.edited
      BY <1>0 DEF HostRow, Ipc
    <2> HIDE DEF row
    <2>3. SetHost(h, row) BY <2>1 DEF row
    <2>4. UNCHANGED <<hostLock, config, loginItem, nav>> BY <1>3 DEF BindEndpoint
    <2>5. Past(h) BY <1>3 DEF BindEndpoint, GuiInv, EndpointKept
    <2>6. \A g \in Hosts \ {h} : host[g].ipc # "serving"
      BY <2>5, OneHost DEF GuiInv, EndpointKept
    <2>7. Following(row, Loaded', loginItem')
      BY <2>2, <2>4 DEF GuiInv, Follows, Following, Loaded
    <2>8. QED
      BY <1>0, <2>1, <2>2, <2>3, <2>4, <2>5, <2>6, <2>7, HostStepInv
      DEF GuiInv, GuiTypeOK, LockKept, Past
  <1>4. QED BY <1>1, <1>2, <1>3 DEF Start

LEMMA ServeInv ==
  ASSUME GuiInv, NEW h \in Hosts, Serve(h)
  PROVE  GuiInv'
  <1> DEFINE old == host[h]
  <1>0. old \in HostRow /\ nav \in [Navigators -> NavRow] BY DEF GuiInv, GuiTypeOK
  <1>1. CASE Resync(h)
    <2>1. PICK synced \in BOOLEAN :
            /\ loginItem' = IF synced THEN ItemFor(old.mode) ELSE loginItem
            /\ SetHost(h, [old EXCEPT !.pc = "resynced", !.synced = synced])
      BY <1>1 DEF Resync
    <2> DEFINE row == [old EXCEPT !.pc = "resynced", !.synced = synced]
    <2>2. /\ row \in HostRow /\ row.pc = "resynced" /\ row.ipc = old.ipc
          /\ row.mode = old.mode /\ row.synced = synced /\ row.edited = old.edited
      BY <1>0 DEF HostRow, HostPc
    <2> HIDE DEF row
    <2>3. SetHost(h, row) BY <2>1 DEF row
    <2>4. UNCHANGED <<hostLock, endpoint, config, nav>> BY <1>1 DEF Resync
    <2>5. Past(h) /\ old.pc = "saved" BY <1>1 DEF Resync, HostAt, Past
    <2>6. \A g \in Hosts \ {h} : ~Past(g) BY <2>5, OneHost DEF GuiInv
    <2>7. loginItem' \in {"none", "current", "outdated"}
      BY <2>1 DEF GuiInv, GuiTypeOK, ItemFor
    <2>8. Following(row, Loaded', loginItem')
      BY <2>1, <2>2, <2>4, <2>5 DEF GuiInv, Follows, Following, Loaded
    <2>9. QED
      BY <1>0, <2>2, <2>3, <2>4, <2>5, <2>6, <2>7, <2>8, HostStepInv
      DEF GuiInv, GuiTypeOK, LockKept, EndpointKept
  <1>2. CASE ApplyMode(h)
    <2>1. PICK tray \in Reconciled(old.tray, old.mode) :
            SetHost(h, [old EXCEPT !.pc = "running", !.tray = tray])
      BY <1>2 DEF ApplyMode
    <2> DEFINE row == [old EXCEPT !.pc = "running", !.tray = tray]
    <2>2. tray \in TrayIcon /\ (tray = "absent" <=> old.mode = "off") BY ReconciledIcon
    <2>3. /\ row \in HostRow /\ row.pc = "running" /\ row.ipc = old.ipc /\ row.tray = tray
          /\ row.mode = old.mode /\ row.synced = old.synced /\ row.edited = old.edited
      BY <1>0, <2>2 DEF HostRow, HostPc
    <2> HIDE DEF row
    <2>4. SetHost(h, row) /\ UNCHANGED <<hostLock, endpoint, config, loginItem, nav>>
      BY <1>2, <2>1 DEF ApplyMode, row
    <2>5. Past(h) /\ old.pc = "resynced" BY <1>2 DEF ApplyMode, HostAt, Past
    <2>6. Following(row, Loaded', loginItem')
      BY <2>2, <2>3, <2>4, <2>5 DEF GuiInv, Follows, Following, Loaded
    <2>7. QED
      BY <1>0, <2>3, <2>4, <2>5, <2>6, HostStepInv DEF GuiInv, GuiTypeOK, LockKept, EndpointKept
  <1>3. CASE ApplyNav(h)
    <2> DEFINE n == Head(old.queue)
    <2>1. old.queue \in Seq(Navigators) /\ old.queue # <<>>
      BY <1>0, <1>3 DEF HostRow, ApplyNav
    <2>2. n \in Navigators /\ Tail(old.queue) \in Seq(Navigators) BY <2>1
    <2> HIDE DEF n
    <2>3. CASE nav[n].cmd # "quit"
      <3>1. /\ SetHost(h, [old EXCEPT !.queue = Tail(old.queue)]) /\ SetNav(n, NavAt("applied"))
            /\ UNCHANGED <<hostLock, endpoint, config, loginItem>>
        BY <1>3, <2>3 DEF ApplyNav, n
      <3>2. nav' \in [Navigators -> NavRow] BY <1>0, <3>1, NavAtType DEF SetNav, NavPc
      <3>3. QED BY <2>2, <3>1, <3>2, QueueInv
    <2>4. CASE nav[n].cmd = "quit"
      <3>1. Ended(h, {n}) /\ UNCHANGED <<endpoint, config, loginItem>>
        BY <1>3, <2>4 DEF ApplyNav, n
      <3>2. QED BY <2>2, <3>1, EndedInv
    <2>5. QED BY <2>3, <2>4
  <1>4. ASSUME NEW n \in Navigators, TakeCommand(h, n) PROVE GuiInv'
    <2>1. Append(old.queue, n) \in Seq(Navigators) BY <1>0 DEF HostRow
    <2>2. SetHost(h, [old EXCEPT !.queue = Append(old.queue, n)])
      BY <1>4 DEF TakeCommand
    <2>3. [nav[n] EXCEPT !.pc = "acked", !.tries = 0] \in NavRow
      <3>1. nav[n] \in NavRow /\ 0 \in 0..MaxTries BY <1>0
      <3>2. QED BY <3>1 DEF NavRow, NavPc
    <2>4. nav' \in [Navigators -> NavRow] BY <1>0, <1>4, <2>3 DEF TakeCommand, SetNav
    <2>5. QED BY <1>4, <2>1, <2>2, <2>4, QueueInv DEF TakeCommand
  <1>5. QED BY <1>1, <1>2, <1>3, <1>4 DEF Serve

LEMMA UserInv ==
  ASSUME GuiInv, NEW h \in Hosts, UserStep(h)
  PROVE  GuiInv'
  <1> DEFINE old == host[h]
  <1>0. old \in HostRow /\ nav \in [Navigators -> NavRow] BY DEF GuiInv, GuiTypeOK
  <1>1. CASE OpenBundle(h) \/ LogIn(h)
    BY <1>0, <1>1, OutsideInv DEF OpenBundle, LogIn
  <1>2. CASE HostEnds(h) BY <1>2, EndedInv DEF HostEnds
  <1>3. CASE LoadSettings(h)
    <2> DEFINE row == [old EXCEPT !.pc = "loaded"]
    <2>1. /\ row \in HostRow /\ row.pc = "loaded" /\ row.ipc = old.ipc /\ row.tray = old.tray
          /\ row.mode = old.mode /\ row.synced = old.synced /\ row.edited = old.edited
      BY <1>0 DEF HostRow, HostPc
    <2> HIDE DEF row
    <2>2. SetHost(h, row) /\ UNCHANGED <<hostLock, endpoint, config, loginItem, nav>>
      BY <1>3 DEF LoadSettings, row
    <2>3. Past(h) /\ old.pc = "running" BY <1>3 DEF LoadSettings, HostAt, Past
    <2>4. Following(row, Loaded', loginItem')
      BY <2>1, <2>2, <2>3 DEF GuiInv, Follows, Following, Loaded
    <2>5. QED
      BY <1>0, <2>1, <2>2, <2>3, <2>4, HostStepInv DEF GuiInv, GuiTypeOK, LockKept, EndpointKept
  <1>4. CASE SaveMode(h)
    <2>1. UNCHANGED <<hostLock, endpoint, loginItem, nav>> /\ Past(h) /\ old.pc = "loaded"
      BY <1>4 DEF SaveMode, HostAt, Past
    <2>2. \A g \in Hosts \ {h} : ~Past(g) BY <2>1, OneHost DEF GuiInv
    <2>3. ASSUME NEW mode \in SavedModes, config' = mode,
                 SetHost(h, [old EXCEPT !.pc = "saved", !.mode = mode, !.edited = FALSE])
          PROVE  GuiInv'
      <3> DEFINE row == [old EXCEPT !.pc = "saved", !.mode = mode, !.edited = FALSE]
      <3>1. row \in HostRow /\ row.pc = "saved" /\ row.ipc = old.ipc /\ row.mode = mode
        BY <1>0 DEF HostRow, HostPc
      <3> HIDE DEF row
      <3>2. SetHost(h, row) BY <2>3 DEF row
      <3>3. mode \in TrayModes /\ mode # "broken" BY DEF TrayModes
      <3>4. Following(row, Loaded', loginItem') BY <2>3, <3>1, <3>3 DEF Following, Loaded
      <3>5. QED
        BY <1>0, <2>1, <2>2, <2>3, <3>1, <3>2, <3>3, <3>4, HostStepInv
        DEF GuiInv, GuiTypeOK, LockKept, EndpointKept
    <2>4. ASSUME SetHost(h, [old EXCEPT !.pc = "running"]), UNCHANGED config
          PROVE  GuiInv'
      <3> DEFINE row == [old EXCEPT !.pc = "running"]
      <3>1. /\ row \in HostRow /\ row.pc = "running" /\ row.ipc = old.ipc /\ row.tray = old.tray
            /\ row.mode = old.mode /\ row.synced = old.synced /\ row.edited = old.edited
        BY <1>0 DEF HostRow, HostPc
      <3> HIDE DEF row
      <3>2. SetHost(h, row) BY <2>4 DEF row
      <3>3. Following(row, Loaded', loginItem')
        BY <2>1, <2>4, <3>1 DEF GuiInv, Follows, Following, Loaded
      <3>4. QED
        BY <1>0, <2>1, <2>2, <2>4, <3>1, <3>2, <3>3, HostStepInv
        DEF GuiInv, GuiTypeOK, LockKept, EndpointKept
    <2>5. QED BY <1>4, <2>3, <2>4 DEF SaveMode
  <1>5. QED BY <1>1, <1>2, <1>3, <1>4 DEF UserStep

LEMMA NavigatorInv ==
  ASSUME GuiInv, NEW n \in Navigators, Ask(n) \/ Connect(n) \/ Retry(n) \/ TakeEofForAck(n)
  PROVE  GuiInv'
  <1>0. nav \in [Navigators -> NavRow] /\ nav[n] \in NavRow BY DEF GuiInv, GuiTypeOK
  <1>1. CASE Ask(n)
    <2>1. \A cmd \in Commands : [nav[n] EXCEPT !.pc = "connecting", !.cmd = cmd] \in NavRow
      BY <1>0 DEF NavRow, NavPc
    <2>2. nav' \in [Navigators -> NavRow] BY <1>0, <1>1, <2>1 DEF Ask, SetNav
    <2>3. QED BY <1>1, <2>2, NavInv DEF Ask
  <1>2. CASE Connect(n)
    <2>1. [nav[n] EXCEPT !.pc = "sent", !.host = endpoint] \in NavRow
      BY <1>0 DEF NavRow, NavPc, GuiInv, GuiTypeOK
    <2>2. nav' \in [Navigators -> NavRow] BY <1>0, <1>2, <2>1 DEF Connect, SetNav
    <2>3. QED BY <1>2, <2>2, NavInv DEF Connect
  <1>3. CASE Retry(n)
    <2>1. ~OutOfTries(n) => nav[n].tries + 1 \in 0..MaxTries
      BY <1>0 DEF OutOfTries, NavRow
    <2>2. ~OutOfTries(n) =>
            [nav[n] EXCEPT !.pc = "connecting", !.host = Nobody, !.tries = nav[n].tries + 1]
              \in NavRow
      BY <1>0, <2>1 DEF NavRow, NavPc
    <2>3. NavAt("failed") \in NavRow BY NavAtType DEF NavPc
    <2>4. nav' \in [Navigators -> NavRow] BY <1>0, <1>3, <2>2, <2>3 DEF Retry, SetNav
    <2>5. UNCHANGED <<hostLock, endpoint, config, loginItem>> BY <1>3 DEF Retry
    <2>6. \/ UNCHANGED host
          \/ \E h \in Hosts : SetHost(h, [NoHost EXCEPT !.pc = "locking"])
      BY <1>3 DEF Retry
    <2>7. QED BY <2>4, <2>5, <2>6, NavInv, OutsideInv
  <1>4. CASE TakeEofForAck(n)
    <2>1. nav' \in [Navigators -> NavRow]
      BY <1>0, <1>4, NavAtType DEF TakeEofForAck, SetNav, NavPc
    <2>2. QED BY <1>4, <2>1, NavInv DEF TakeEofForAck
  <1>5. QED BY <1>1, <1>2, <1>3, <1>4

LEMMA GuiNextInv == GuiInv /\ [GuiNext]_gvars => GuiInv'
  <1> SUFFICES ASSUME GuiInv, [GuiNext]_gvars PROVE GuiInv' OBVIOUS
  <1>1. CASE EditConfig
    <2>1. /\ config' \in TrayModes \cup {"broken"}
          /\ UNCHANGED <<hostLock, endpoint, loginItem, nav>>
      BY <1>1 DEF EditConfig
    <2>2. ASSUME NEW h \in Hosts
          PROVE  /\ host'[h] \in HostRow
                 /\ host'[h].pc = host[h].pc /\ host'[h].ipc = host[h].ipc
                 /\ Following(host'[h], Loaded', loginItem')
      <3>1. host[h] \in HostRow /\ Following(host[h], Loaded, loginItem)
        BY DEF GuiInv, GuiTypeOK, Follows
      <3>2. CASE Up(h)
        <4>1. host'[h] = [host[h] EXCEPT !.edited = TRUE] BY <1>1, <3>2 DEF EditConfig
        <4> DEFINE row == [host[h] EXCEPT !.edited = TRUE]
        <4>2. /\ row \in HostRow /\ row.pc = host[h].pc /\ row.ipc = host[h].ipc
              /\ row.tray = host[h].tray /\ row.mode = host[h].mode
              /\ row.synced = host[h].synced /\ row.edited
          BY <3>1 DEF HostRow
        <4> HIDE DEF row
        <4>3. host'[h] = row BY <4>1 DEF row
        <4>4. Following(row, Loaded', loginItem') BY <2>1, <3>1, <4>2 DEF Following
        <4>5. QED BY <4>2, <4>3, <4>4
      <3>3. CASE ~Up(h)
        <4>1. host'[h] = host[h] BY <1>1, <3>3 DEF EditConfig
        <4>2. QED BY <3>1, <3>3, <4>1 DEF Following, Up
      <3>4. QED BY <3>2, <3>3
    <2>3. host' \in [Hosts -> HostRow] BY <1>1, <2>2 DEF EditConfig
    <2>4. GuiTypeOK' /\ LockKept' /\ EndpointKept'
      BY <2>1, <2>2, <2>3 DEF GuiInv, GuiTypeOK, LockKept, EndpointKept, Past
    <2>5. QED BY <2>2, <2>4 DEF GuiInv, Follows
  <1>2. ASSUME NEW h \in Hosts, Start(h) \/ Serve(h) \/ UserStep(h) PROVE GuiInv'
    BY <1>2, StartInv, ServeInv, UserInv
  <1>3. ASSUME NEW n \in Navigators, Ask(n) \/ Connect(n) \/ Retry(n) \/ TakeEofForAck(n)
        PROVE  GuiInv'
    BY <1>3, NavigatorInv
  <1>4. CASE UNCHANGED gvars BY <1>4, NavInv DEF gvars, GuiInv, GuiTypeOK
  <1>5. QED BY <1>1, <1>2, <1>3, <1>4 DEF GuiNext

LEMMA GuiInvariance == GuiSpec => []GuiInv
  BY GuiInitInv, GuiNextInv, PTL DEF GuiSpec

-----------------------------------------------------------------------------
\* The lock, the endpoint, the settings, the hosts and the navigators stay of
\* their types (run_impl, ensure_and_navigate).
THEOREM GuiTypes == GuiSpec => []GuiTypeOK
  <1>1. GuiInv => GuiTypeOK BY DEF GuiInv
  <1>2. QED BY GuiInvariance, <1>1, PTL

\* A host that serves holds the lock and the endpoint is its own, however many
\* launches, logins, retries and deaths overlap (run_impl, bind_gui_host).
THEOREM ServingHostOwns == GuiSpec => []HostOwnsEndpoint
  <1>1. GuiInv => HostOwnsEndpoint
    BY DEF GuiInv, LockKept, EndpointKept, HostOwnsEndpoint
  <1>2. QED BY GuiInvariance, <1>1, PTL

\* A host between two settings commands has the mode of config.json unless the
\* file was edited since it read or saved it; by that mode it has no tray icon
\* exactly in mode off, where it may have failed to get one in the others, and
\* the autostart entry is as the mode wants it unless the last synchronisation
\* failed (settings_set_tray_mode, run_impl, reconcile_tray).
THEOREM RunningHostFollows == GuiSpec => []HostFollowsConfig
  <1>1. GuiInv => HostFollowsConfig
    BY DEF GuiInv, Follows, Following, HostFollowsConfig, HostAt
  <1>2. QED BY GuiInvariance, <1>1, PTL

-----------------------------------------------------------------------------
(***************************************************************************)
(* For any number of writers, servers of the user's and saves of the agent: *)
(* types, and that a writer changes nothing but the groktask entry.  What a *)
(* writer will write was computed from a file the operation accepted when   *)
(* it was read (Accepted), whatever stands there by now.                    *)
(***************************************************************************)

\* What a writer read: a file of the agent's, that its operation handles.
Accepted(w) ==
  /\ Consistent(job[w].mcp, agent)
  /\ job[w].op = "install" => Installable(job[w].mcp, agent)
  /\ job[w].op = "remove" => Removable(job[w].mcp, agent)

EntryInv ==
  /\ EntryTypeOK
  /\ job \in [Writers -> [op: {"install", "remove", "none"}, mcp: McpFile]]
  /\ \A w \in Writers : Accepted(w)

USE EntryAssumption

-----------------------------------------------------------------------------
(* What the two operations make of a file *)

LEMMA NoFileType == NoFile \in McpFile /\ \A a \in {"claude", "codex"} : Consistent(NoFile, a)
  <1>1. 0 \in 0..MaxEdits /\ {} \in SUBSET UserServers BY DEF EntryAssumption
  <1>2. QED BY <1>1 DEF NoFile, McpFile, Consistent

LEMMA InstalledFile ==
  ASSUME NEW a \in {"claude", "codex"}, NEW f \in McpFile, Consistent(f, a), Installable(f, a)
  PROVE  LET file == Installed(f)
         IN /\ file \in McpFile /\ Consistent(file, a) /\ f.kind # "broken"
            /\ file.kind = "parsed" /\ file.others = f.others /\ file.rest = f.rest
  BY DEF McpFile, Consistent, Installable, Installed

LEMMA UninstalledFile ==
  ASSUME NEW a \in {"claude", "codex"}, NEW f \in McpFile, Consistent(f, a), Removable(f, a)
  PROVE  LET file == Uninstalled(f)
         IN /\ file \in McpFile /\ Consistent(file, a) /\ f.kind # "broken"
            /\ file.kind = "parsed" /\ file.others = f.others /\ file.rest = f.rest
  <1>1. CASE f.servers # "table" BY <1>1 DEF Removable, Uninstalled
  <1>2. CASE f.servers = "table"
    <2> DEFINE servers == IF f.others = {} THEN "none" ELSE "table"
               file == [f EXCEPT !.entry = "absent", !.servers = servers]
    <2>1. Uninstalled(f) = file BY <1>2 DEF Uninstalled, McpFile
    <2>2. servers \in {"none", "table"} /\ (servers = "none" => f.others = {}) OBVIOUS
    <2> HIDE DEF servers
    <2>3. /\ file \in McpFile /\ file.kind = f.kind /\ file.others = f.others
          /\ file.rest = f.rest /\ file.servers = servers /\ file.entry = "absent"
      BY <2>2 DEF McpFile
    <2> HIDE DEF file
    <2>4. Consistent(file, a) BY <2>2, <2>3 DEF Removable, Consistent
    <2>5. QED BY <2>1, <2>3, <2>4 DEF Removable
  <1>3. QED BY <1>1, <1>2

-----------------------------------------------------------------------------
LEMMA EntryInitInv == EntryInit => EntryInv
  <1> SUFFICES ASSUME EntryInit PROVE EntryInv OBVIOUS
  <1>1. \A w \in Writers : job[w] = NoJob BY DEF EntryInit
  <1>2. job \in [Writers -> [op: {"install", "remove", "none"}, mcp: McpFile]]
    BY NoFileType DEF EntryInit, NoJob
  <1>3. EntryTypeOK BY <1>1, <1>2 DEF EntryInit, EntryTypeOK
  <1>4. \A w \in Writers : Accepted(w)
    BY <1>1, NoFileType DEF EntryInit, Accepted, NoJob
  <1>5. QED BY <1>2, <1>3, <1>4 DEF EntryInv

\* A step that leaves the file and gives one writer such a job.
LEMMA SetJobInv ==
  ASSUME EntryInv, NEW w \in Writers,
         NEW row \in [op: {"install", "remove", "none"}, mcp: McpFile],
         job' = [job EXCEPT ![w] = row], UNCHANGED agent,
         mcp' \in McpFile, Consistent(mcp', agent), Consistent(row.mcp, agent),
         row.op = "install" => Installable(row.mcp, agent),
         row.op = "remove" => Removable(row.mcp, agent)
  PROVE  EntryInv'
  <1>1. job' \in [Writers -> [op: {"install", "remove", "none"}, mcp: McpFile]] BY DEF EntryInv
  <1>2. \A v \in Writers : job'[v] = IF v = w THEN row ELSE job[v] BY DEF EntryInv
  <1>3. \A v \in Writers : Accepted(v)' BY <1>2 DEF EntryInv, Accepted
  <1>4. EntryTypeOK' BY <1>1 DEF EntryInv, EntryTypeOK
  <1>5. QED BY <1>1, <1>3, <1>4 DEF EntryInv

LEMMA NoJobType == NoJob \in [op: {"install", "remove", "none"}, mcp: McpFile]
  BY NoFileType DEF NoJob

LEMMA ReadInv ==
  ASSUME EntryInv, NEW w \in Writers, ReadEntry(w)
  PROVE  EntryInv'
  <1>1. PICK op \in {"install", "remove"} :
          /\ op = "install" => Installable(mcp, agent)
          /\ op = "remove" => Removable(mcp, agent)
          /\ job' = [job EXCEPT ![w] = [op |-> op, mcp |-> mcp]]
    BY DEF ReadEntry
  <1>2. mcp \in McpFile /\ Consistent(mcp, agent) /\ UNCHANGED <<agent, mcp>>
    BY DEF EntryInv, EntryTypeOK, ReadEntry
  <1> DEFINE row == [op |-> op, mcp |-> mcp]
  <1>3. row \in [op: {"install", "remove", "none"}, mcp: McpFile] BY <1>2
  <1>4. row.op = op /\ row.mcp = mcp OBVIOUS
  <1> HIDE DEF row
  <1>5. job' = [job EXCEPT ![w] = row] BY <1>1 DEF row
  <1>6. QED BY <1>1, <1>2, <1>3, <1>4, <1>5, SetJobInv

\* The file after a write: the one that stood there, or one of the writer's.
LEMMA WriteFile ==
  ASSUME EntryInv, NEW w \in Writers, WriteEntry(w)
  PROVE  /\ mcp' \in McpFile /\ Consistent(mcp', agent)
         /\ mcp = job[w].mcp /\ mcp' # mcp =>
              /\ mcp'.others = mcp.others /\ mcp'.rest = mcp.rest
              /\ mcp'.kind = "parsed" /\ mcp.kind # "broken"
  <1> DEFINE seen == job[w].mcp
  <1>1. /\ agent \in {"claude", "codex"} /\ mcp \in McpFile /\ Consistent(mcp, agent)
        /\ seen \in McpFile /\ Consistent(seen, agent)
    BY DEF EntryInv, EntryTypeOK, Accepted
  <1>2. CASE job[w].op = "install"
    <2>1. Installable(seen, agent) BY <1>2 DEF EntryInv, Accepted
    <2>2. mcp' = IF Installed(seen) = seen THEN mcp ELSE Installed(seen)
      BY <1>2 DEF WriteEntry
    <2> HIDE DEF seen
    <2>3. QED BY <1>1, <2>1, <2>2, InstalledFile DEF seen
  <1>3. CASE job[w].op # "install"
    <2>1. Removable(seen, agent) BY <1>3 DEF EntryInv, Accepted, WriteEntry
    <2>2. mcp' = IF Uninstalled(seen) = seen THEN mcp ELSE Uninstalled(seen)
      BY <1>3 DEF WriteEntry
    <2> HIDE DEF seen
    <2>3. QED BY <1>1, <2>1, <2>2, UninstalledFile DEF seen
  <1>4. QED BY <1>2, <1>3

LEMMA SavesInv ==
  ASSUME EntryInv, AgentSaves
  PROVE  EntryInv'
  <1>1. mcp \in McpFile /\ Consistent(mcp, agent) /\ mcp.rest < MaxEdits /\ mcp.kind = "parsed"
    BY DEF EntryInv, EntryTypeOK, AgentSaves
  <1>2. PICK others \in SUBSET UserServers :
          mcp' = [mcp EXCEPT !.rest = @ + 1,
                    !.others = IF mcp.servers \in {"table", "inline"} THEN others ELSE @]
    BY DEF AgentSaves
  <1> DEFINE rest == mcp.rest + 1
             servers == IF mcp.servers \in {"table", "inline"} THEN others ELSE mcp.others
  <1>3. rest \in 0..MaxEdits BY <1>1 DEF McpFile, EntryAssumption
  <1>4. servers \in SUBSET UserServers /\ (mcp.servers \notin {"table", "inline"} => servers = mcp.others)
    BY <1>1 DEF McpFile
  <1>5. mcp' = [mcp EXCEPT !.rest = rest, !.others = servers] BY <1>1, <1>2 DEF McpFile
  <1> HIDE DEF rest, servers
  <1>6. /\ mcp' \in McpFile /\ mcp'.kind = mcp.kind /\ mcp'.servers = mcp.servers
        /\ mcp'.entry = mcp.entry /\ mcp'.others = servers
    BY <1>1, <1>3, <1>4, <1>5 DEF McpFile
  <1>7. Consistent(mcp', agent) BY <1>1, <1>4, <1>6 DEF Consistent
  <1>8. UNCHANGED <<agent, job>> BY DEF AgentSaves
  <1>9. QED BY <1>6, <1>7, <1>8 DEF EntryInv, EntryTypeOK, Accepted

LEMMA EntryNextInv == EntryInv /\ [EntryNext]_avars => EntryInv'
  <1> SUFFICES ASSUME EntryInv, [EntryNext]_avars PROVE EntryInv' OBVIOUS
  <1>1. CASE AgentSaves BY <1>1, SavesInv
  <1>2. ASSUME NEW w \in Writers, ReadEntry(w) PROVE EntryInv' BY <1>2, ReadInv
  <1>3. ASSUME NEW w \in Writers, WriteEntry(w) \/ AbandonEntry(w) PROVE EntryInv'
    <2>1. mcp' \in McpFile /\ Consistent(mcp', agent)
      BY <1>3, WriteFile DEF AbandonEntry, EntryInv, EntryTypeOK
    <2>2. job' = [job EXCEPT ![w] = NoJob] /\ UNCHANGED agent
      BY <1>3 DEF WriteEntry, AbandonEntry
    <2>3. NoJob.op = "none" /\ Consistent(NoJob.mcp, agent)
      BY NoFileType DEF NoJob, EntryInv, EntryTypeOK
    <2>4. QED BY <2>1, <2>2, <2>3, NoJobType, SetJobInv
  <1>4. CASE UNCHANGED avars BY <1>4 DEF avars, EntryInv, EntryTypeOK, Accepted
  <1>5. QED BY <1>1, <1>2, <1>3, <1>4 DEF EntryNext

LEMMA EntryInvariance == EntrySpec => []EntryInv
  BY EntryInitInv, EntryNextInv, PTL DEF EntrySpec

-----------------------------------------------------------------------------
\* The file of an agent stays one its format allows, and a writer holds a file
\* that was one (ClaudeIntegration, CodexIntegration).
THEOREM EntryTypes == EntrySpec => []EntryTypeOK
  <1>1. EntryInv => EntryTypeOK BY DEF EntryInv
  <1>2. QED BY EntryInvariance, <1>1, PTL

\* A writer whose file nobody changed meanwhile leaves the user's servers and
\* the rest, and never replaces a file it could not parse (install, remove).
THEOREM OthersSurvive == EntrySpec => OnlyOwnEntryChanges
  <1>1. ASSUME EntryInv, [EntryNext]_avars, NEW w \in Writers,
               job[w].op # "none", job'[w].op = "none", mcp = job[w].mcp, mcp' # mcp
        PROVE  /\ mcp'.others = mcp.others /\ mcp'.rest = mcp.rest
               /\ mcp'.kind = "parsed" /\ mcp.kind # "broken"
    <2>1. PICK v \in Writers : WriteEntry(v)
      BY <1>1 DEF EntryNext, avars, AgentSaves, ReadEntry, AbandonEntry
    <2>2. v = w
      <3>1. job' = [job EXCEPT ![v] = NoJob] BY <2>1 DEF WriteEntry
      <3>2. QED BY <1>1, <3>1 DEF EntryInv
    <2>3. QED BY <1>1, <2>1, <2>2, WriteFile
  <1>2. EntryInv /\ [EntryNext]_avars =>
          [\A w \in Writers :
             job[w].op # "none" /\ job'[w].op = "none" /\ mcp = job[w].mcp /\ mcp' # mcp
             => mcp'.others = mcp.others /\ mcp'.rest = mcp.rest /\ mcp'.kind = "parsed"
                /\ mcp.kind # "broken"]_avars
    BY <1>1
  <1>3. QED BY EntryInvariance, <1>2, PTL DEF EntrySpec, OnlyOwnEntryChanges
-----------------------------------------------------------------------------
(***************************************************************************)
(* For any number of editors and any file: types.  Only a file with no       *)
(* block or one is edited, so the lines before and after it are lines of    *)
(* the file (Located), and to tidy them only leaves some out (TidyLines).   *)
(***************************************************************************)

\* What an editor read and how it will write it.
BlockInv ==
  /\ BlockTypeOK
  /\ edit \in [Editors -> [op: {"enable", "disable", "none"}, text: Seq(Line)]]
  /\ \A w \in Editors : edit[w].op # "none" => MarkerState(edit[w].text) # "malformed"

USE BlockAssumption

LEMMA PositionsOf ==
  ASSUME NEW t \in Seq(Line), NEW line
  PROVE  /\ Positions(t, line) \in SUBSET (1..Len(t)) /\ Len(t) \in Nat
         /\ \A i \in Positions(t, line) : t[i] = line
  BY DEF Positions

LEMMA EmptyLines == <<>> \in Seq(Line) /\ <<"blank">> \in Seq(Line) /\ Block \in Seq(Line)
  BY DEF Line, Block

\* What is trimmed is what follows the last line that is not blank.
LEMMA TrimEndIs ==
  ASSUME NEW t \in Seq(Line)
  PROVE  \E m \in 0..Len(t) :
           /\ TrimEnd(t) = SubSeq(t, 1, m)
           /\ \A i \in DOMAIN t \ Positions(t, "blank") : i <= m
  <1> DEFINE kept == {0} \cup (DOMAIN t \ Positions(t, "blank"))
  <1>1. kept \in SUBSET (0..Len(t)) /\ 0 \in kept /\ Len(t) \in Nat OBVIOUS
  <1>2. Max(kept) \in kept /\ \A i \in kept : i <= Max(kept)
    <2> HIDE DEF kept
    <2>1. CASE kept = {0}
      <3>1. \A x \in kept : x = 0 /\ x <= x BY <2>1
      <3>2. QED BY <1>1, <3>1 DEF Max
    <2>2. CASE kept # {0}
      <3> DEFINE I == kept \ {0}
                 n == Len(t)
      <3>1. n \in Nat /\ I \in SUBSET (1..n) /\ I # {} BY <1>1, <2>2
      <3> HIDE DEF n
      <3>2. Max(I) \in I /\ \A i \in I : i <= Max(I) BY <3>1, LastPosition
      <3>3. Max(I) \in kept /\ Max(I) \in 1..n /\ \A i \in kept : i = 0 \/ i \in I
        BY <3>1, <3>2
      <3> HIDE DEF I
      <3>4. ASSUME NEW i \in kept PROVE i <= Max(I)
        <4>1. CASE i = 0 BY ONLY <3>1, <3>3, <4>1
        <4>2. CASE i \in I BY ONLY <3>2, <4>2
        <4>3. QED BY <3>3, <4>1, <4>2
      <3>5. \E x \in kept : \A i \in kept : i <= x BY ONLY <3>3, <3>4
      <3>6. QED BY ONLY <3>5 DEF Max
    <2>3. QED BY <2>1, <2>2
  <1>3. Max(kept) \in 0..Len(t) BY <1>1, <1>2
  <1>4. TrimEnd(t) = SubSeq(t, 1, Max(kept)) BY DEF TrimEnd
  <1>5. \A i \in DOMAIN t \ Positions(t, "blank") : i \in kept OBVIOUS
  <1> HIDE DEF kept
  <1>6. QED BY <1>2, <1>3, <1>4, <1>5

LEMMA TrimEndLines ==
  ASSUME NEW t \in Seq(Line)
  PROVE  TrimEnd(t) \in Seq(Line)
  <1>1. PICK m \in 0..Len(t) : TrimEnd(t) = SubSeq(t, 1, m) BY TrimEndIs
  <1>2. QED BY <1>1

\* The lines kept by the tidying of a prefix, one line more at a time.
LEMMA CollapseFold ==
  ASSUME NEW t \in Seq(Line)
  PROVE  \E kept \in [0..Len(t) -> Seq(Line)] :
           /\ kept[0] = <<>>
           /\ \A k \in 1..Len(t) : kept[k] = Collapse(kept[k - 1], t[k])
           /\ FoldLeft(Collapse, <<>>, t) = kept[Len(t)]
  <1> DEFINE n == Len(t)
             V == Seq(Line)
             base == <<>>
             K == [k \in 1..n |-> [x \in V |-> Collapse(x, t[k])]]
             Eq(g) == g = [s \in SUBSET DOMAIN t |->
                             IF s = {} THEN <<>>
                             ELSE Collapse(g[s \ {Max(s)}], t[Max(s)])]
             u == CHOOSE g : Eq(g)
             kept == [k \in 0..n |-> u[1..k]]
  <1>1. n \in Nat /\ base \in V /\ DOMAIN t = 1..n OBVIOUS
  <1>2. \A k \in 1..n : \A x \in V : Collapse(x, t[k]) \in V
    BY <1>1 DEF Collapse
  <1>3. \A k \in 1..n : \A x \in V : K[k][x] = Collapse(x, t[k]) /\ K[k][x] \in V
    BY <1>2
  <1>4. PICK g \in [SUBSET (1..n) -> V] : Folds(g, n, base, K)
    <2> HIDE DEF n, V, base, K
    <2>1. \A k \in 1..n : \A x \in V : K[k][x] \in V BY <1>3
    <2>2. QED BY ONLY <1>1, <2>1, FoldExists
  <1>5. \A s \in SUBSET (1..n) :
          g[s] = IF s = {} THEN <<>> ELSE Collapse(g[s \ {Max(s)}], t[Max(s)])
    <2> SUFFICES ASSUME NEW s \in SUBSET (1..n)
                 PROVE  g[s] = IF s = {} THEN <<>> ELSE Collapse(g[s \ {Max(s)}], t[Max(s)])
      OBVIOUS
    <2>1. g[s] = IF s = {} THEN base ELSE K[Max(s)][g[s \ {Max(s)}]] BY <1>4 DEF Folds
    <2>2. CASE s = {} BY <2>1, <2>2
    <2>3. CASE s # {}
      <3>1. Max(s) \in 1..n BY <1>1, <2>3, LastPosition
      <3>2. g[s \ {Max(s)}] \in V BY <1>4
      <3> HIDE DEF K, V
      <3>3. K[Max(s)][g[s \ {Max(s)}]] = Collapse(g[s \ {Max(s)}], t[Max(s)])
        BY <1>3, <3>1, <3>2
      <3>4. QED BY <2>1, <2>3, <3>3
    <2>4. QED BY <2>2, <2>3
  <1>6. Eq(g)
    <2>1. g = [s \in SUBSET (1..n) |-> g[s]] BY <1>4
    <2>2. QED BY <1>1, <1>5, <2>1
  <1>7. Eq(u)
    <2> HIDE DEF Eq
    <2>1. QED BY <1>6
  <1>8. FoldLeft(Collapse, <<>>, t) = u[1..n]
    BY <1>1 DEF FoldLeft, MapThenFoldSet
  <1> HIDE DEF u, K
  <1>9. \A s \in SUBSET (1..n) :
          u[s] = IF s = {} THEN <<>> ELSE Collapse(u[s \ {Max(s)}], t[Max(s)])
    BY <1>1, <1>7
  <1>10. u[1..0] = <<>>
    <2>1. 1..0 = {} /\ 1..0 \in SUBSET (1..n) OBVIOUS
    <2>2. QED BY <1>9, <2>1
  <1>11. \A k \in 1..n : u[1..k] = Collapse(u[1..(k - 1)], t[k])
    <2> SUFFICES ASSUME NEW k \in 1..n PROVE u[1..k] = Collapse(u[1..(k - 1)], t[k])
      OBVIOUS
    <2>1. k \in Nat \ {0} /\ 1..k \in SUBSET (1..n) BY <1>1
    <2>2. 1..k # {} /\ Max(1..k) = k /\ (1..k) \ {k} = 1..(k - 1) BY <2>1, PrefixPositions
    <2>3. QED BY <1>9, <2>1, <2>2
  <1>12. \A k \in 0..n : kept[k] = u[1..k] OBVIOUS
  <1>13. \A k \in 0..n : kept[k] \in V
    <2> DEFINE S == {k \in Nat : k <= n => u[1..k] \in V}
    <2>1. 0 \in S BY <1>1, <1>10
    <2>2. ASSUME NEW k \in Nat, k \in S PROVE k + 1 \in S
      <3>1. k + 1 \in 1..n => k <= n /\ (k + 1) - 1 = k BY <1>1
      <3>2. k + 1 \in 1..n => u[1..(k + 1)] = Collapse(u[1..k], t[k + 1]) BY <1>11, <3>1
      <3>3. k + 1 <= n => k + 1 \in 1..n BY <1>1
      <3> HIDE DEF V
      <3>4. QED BY <1>2, <2>2, <3>1, <3>2, <3>3
    <2> HIDE DEF S
    <2>3. \A k \in Nat : k \in S BY <2>1, <2>2, Induction
    <2>4. \A k \in 0..n : k \in Nat /\ k <= n BY <1>1
    <2>5. QED BY <1>12, <2>3, <2>4 DEF S
  <1>14. kept \in [0..n -> V] BY <1>13
  <1>15. kept[0] = <<>> /\ kept[n] = u[1..n] BY <1>1, <1>10, <1>12
  <1>16. \A k \in 1..n : kept[k] = Collapse(kept[k - 1], t[k])
    <2>1. \A k \in 1..n : k \in 0..n /\ k - 1 \in 0..n BY <1>1
    <2> HIDE DEF kept
    <2>2. QED BY <1>11, <1>12, <2>1
  <1> HIDE DEF kept
  <1>17. QED BY <1>8, <1>14, <1>15, <1>16

\* To tidy lines leaves lines.
LEMMA TidyLines ==
  ASSUME NEW t \in Seq(Line)
  PROVE  Tidy(t) \in Seq(Line)
  <1>1. FoldLeft(Collapse, <<>>, t) \in Seq(Line)
    <2>1. PICK kept \in [0..Len(t) -> Seq(Line)] : FoldLeft(Collapse, <<>>, t) = kept[Len(t)]
      BY CollapseFold
    <2>2. Len(t) \in 0..Len(t) OBVIOUS
    <2>3. QED BY <2>1, <2>2
  <1> DEFINE lines == FoldLeft(Collapse, <<>>, t)
  <1>2. lines \in Seq(Line) /\ Tidy(t) = TrimEnd(lines) BY <1>1 DEF Tidy
  <1> HIDE DEF lines
  <1>3. QED BY <1>2, TrimEndLines

\* The lines around the one block.
LEMMA Located ==
  ASSUME NEW t \in Seq(Line), MarkerState(t) = "well_formed"
  PROVE  Before(t) \in Seq(Line) /\ After(t) \in Seq(Line)
  <1> DEFINE n == Len(t)
             B == Positions(t, "begin")
             E == Positions(t, "end")
  <1>1. n \in Nat /\ B \in SUBSET (1..n) /\ E \in SUBSET (1..n) BY PositionsOf
  <1>2. B # {} /\ E # {} BY DEF MarkerState
  <1>3. Before(t) = SubSeq(t, 1, Min(B) - 1) /\ After(t) = SubSeq(t, Max(E) + 1, n)
    BY DEF Before, After
  <1> HIDE DEF B, E
  <1>4. Min(B) \in B /\ Max(E) \in E
    <2> HIDE DEF n
    <2>1. QED BY <1>1, <1>2, FirstPosition, LastPosition
  <1>5. Min(B) \in 1..n /\ Max(E) \in 1..n BY <1>1, <1>4
  <1>6. SubSeq(t, 1, Min(B) - 1) \in Seq(Line)
    BY <1>5
  <1>7. SubSeq(t, Max(E) + 1, n) \in Seq(Line)
    BY <1>5
  <1>8. QED BY <1>3, <1>6, <1>7

LEMMA WrittenLines ==
  ASSUME NEW t \in Seq(Line), MarkerState(t) # "malformed"
  PROVE  Enabled(t) \in Seq(Line) /\ Disabled(t) \in Seq(Line)
  <1>1. TrimEnd(t) \in Seq(Line) BY TrimEndLines
  <1>2. CASE MarkerState(t) = "well_formed"
    <2> DEFINE b == Before(t)
               a == After(t)
    <2>1. b \in Seq(Line) /\ a \in Seq(Line) BY <1>2, Located
    <2>2. Enabled(t) = b \o Block \o a BY <1>2 DEF Enabled
    <2>3. Disabled(t) = Tidy(b \o <<"blank">> \o a) BY <1>2 DEF Disabled
    <2> HIDE DEF b, a
    <2>4. b \o Block \o a \in Seq(Line) /\ b \o <<"blank">> \o a \in Seq(Line)
      BY <2>1, EmptyLines
    <2>5. QED BY <2>2, <2>3, <2>4, TidyLines
  <1>3. CASE MarkerState(t) # "well_formed"
    <2>1. Enabled(t) = IF TrimEnd(t) = <<>> THEN Block ELSE TrimEnd(t) \o <<"blank">> \o Block
      BY <1>3 DEF Enabled
    <2>2. MarkerState(t) = "absent" BY <1>3 DEF MarkerState
    <2>3. Disabled(t) = t BY <2>2 DEF Disabled
    <2>4. QED BY <1>1, <2>1, <2>3, EmptyLines
  <1>4. QED BY <1>2, <1>3

-----------------------------------------------------------------------------
LEMMA BlockInitInv == BlockInit => BlockInv
  <1> SUFFICES ASSUME BlockInit PROVE BlockInv OBVIOUS
  <1>1. text \in Seq(Line)
    <2>1. text \in Texts BY DEF BlockInit
    <2>2. PICK n \in 0..MaxLines : text \in [1..n -> Line] BY <2>1 DEF Texts
    <2>3. n \in Nat BY DEF BlockAssumption
    <2>4. QED BY <2>2, <2>3
  <1>2. edit = [w \in Editors |-> NoEdit] /\ userEdits = 0 BY DEF BlockInit
  <1>3. NoEdit \in [op: {"enable", "disable", "none"}, text: Seq(Line)] /\ NoEdit.op = "none"
    BY DEF NoEdit
  <1>4. QED BY <1>1, <1>2, <1>3 DEF BlockInv, BlockTypeOK, BlockAssumption

\* A step that leaves lines in the file and gives one editor such an edit.
LEMMA SetEditInv ==
  ASSUME BlockInv, NEW w \in Editors,
         NEW row \in [op: {"enable", "disable", "none"}, text: Seq(Line)],
         edit' = [edit EXCEPT ![w] = row], text' \in Seq(Line), UNCHANGED userEdits,
         row.op # "none" => MarkerState(row.text) # "malformed"
  PROVE  BlockInv'
  <1>1. edit' \in [Editors -> [op: {"enable", "disable", "none"}, text: Seq(Line)]]
    BY DEF BlockInv
  <1>2. \A v \in Editors : edit'[v] = IF v = w THEN row ELSE edit[v] BY DEF BlockInv
  <1>3. \A v \in Editors : edit'[v].op # "none" => MarkerState(edit'[v].text) # "malformed"
    BY <1>2 DEF BlockInv
  <1>4. BlockTypeOK' BY <1>1 DEF BlockInv, BlockTypeOK
  <1>5. QED BY <1>1, <1>3, <1>4 DEF BlockInv

LEMMA ReadBlockInv ==
  ASSUME BlockInv, NEW w \in Editors, ReadBlock(w)
  PROVE  BlockInv'
  <1>1. PICK op \in {"enable", "disable"} :
          edit' = [edit EXCEPT ![w] = [op |-> op, text |-> text]]
    BY DEF ReadBlock
  <1> DEFINE row == [op |-> op, text |-> text]
  <1>2. /\ text \in Seq(Line) /\ MarkerState(text) # "malformed"
        /\ UNCHANGED <<text, userEdits>>
    BY DEF BlockInv, BlockTypeOK, ReadBlock
  <1>3. row \in [op: {"enable", "disable", "none"}, text: Seq(Line)] /\ row.text = text
    BY <1>2
  <1> HIDE DEF row
  <1>4. edit' = [edit EXCEPT ![w] = row] BY <1>1 DEF row
  <1>5. QED BY <1>2, <1>3, <1>4, SetEditInv

LEMMA EndEditInv ==
  ASSUME BlockInv, NEW w \in Editors, WriteBlock(w) \/ AbandonBlock(w)
  PROVE  BlockInv'
  <1> DEFINE seen == edit[w].text
  <1>1. text \in Seq(Line) /\ seen \in Seq(Line) BY DEF BlockInv, BlockTypeOK
  <1>2. MarkerState(seen) # "malformed" BY DEF BlockInv, WriteBlock, AbandonBlock
  <1>3. text' \in {text, Enabled(seen), Disabled(seen)} BY DEF WriteBlock, AbandonBlock
  <1>4. UNCHANGED userEdits /\ edit' = [edit EXCEPT ![w] = NoEdit]
    BY DEF WriteBlock, AbandonBlock
  <1> HIDE DEF seen
  <1>5. text' \in Seq(Line) BY <1>1, <1>2, <1>3, WrittenLines
  <1>6. NoEdit \in [op: {"enable", "disable", "none"}, text: Seq(Line)] /\ NoEdit.op = "none"
    BY DEF NoEdit
  <1>7. QED BY <1>4, <1>5, <1>6, SetEditInv

LEMMA BlockNextInv == BlockInv /\ [BlockNext]_bvars => BlockInv'
  <1> SUFFICES ASSUME BlockInv, [BlockNext]_bvars PROVE BlockInv' OBVIOUS
  <1>1. CASE UserEdits
    <2>1. text \in Seq(Line) /\ userEdits \in 0..MaxUserEdits BY DEF BlockInv, BlockTypeOK
    <2>2. "user" \in Line BY DEF Line
    <2>3. \A i \in DOMAIN text : RemoveAt(text, i) \in Seq(Line)
      BY <2>1 DEF RemoveAt
    <2>4. text' = Append(text, "user") \/ \E i \in DOMAIN text : text' = RemoveAt(text, i)
      BY <1>1 DEF UserEdits
    <2>5. Append(text, "user") \in Seq(Line) BY <2>1, <2>2
    <2>6. text' \in Seq(Line) BY ONLY <2>3, <2>4, <2>5
    <2>7. userEdits' \in 0..MaxUserEdits BY <1>1, <2>1 DEF UserEdits, BlockAssumption
    <2>8. UNCHANGED edit BY <1>1 DEF UserEdits
    <2>9. QED BY <2>6, <2>7, <2>8 DEF BlockInv, BlockTypeOK
  <1>2. ASSUME NEW w \in Editors, ReadBlock(w) \/ WriteBlock(w) \/ AbandonBlock(w) PROVE BlockInv'
    BY <1>2, ReadBlockInv, EndEditInv
  <1>3. CASE UNCHANGED bvars BY <1>3 DEF bvars, BlockInv, BlockTypeOK
  <1>4. QED BY <1>1, <1>2, <1>3 DEF BlockNext

-----------------------------------------------------------------------------
(***************************************************************************)
(* What is written has the user's lines: the positions of those that stood   *)
(* in the file are matched, in order, with positions of the new file that   *)
(* hold the same lines (Matches).                                           *)
(***************************************************************************)
NonBlank(t) == {i \in DOMAIN t : t[i] # "blank"}

Matches(t, S, u, T, f) ==
  /\ f \in [S -> T]
  /\ \A i, j \in S : i < j => f[i] < f[j]
  /\ \A k \in T : \E i \in S : f[i] = k
  /\ \A i \in S : u[f[i]] = t[i]

Upto(S, i) == {k \in S : k <= i}

LEMMA UptoFinite ==
  ASSUME NEW n \in Nat, NEW S \in SUBSET (1..n)
  PROVE  /\ IsFiniteSet(S) /\ Cardinality(S) \in Nat
         /\ \A i \in S : /\ IsFiniteSet(Upto(S, i)) /\ Cardinality(Upto(S, i)) \in 1..Cardinality(S)
  <1>1. IsFiniteSet(S)
    <2>1. IsFiniteSet(1..n) BY FS_Interval
    <2>2. QED BY <2>1, FS_Subset
  <1>2. Cardinality(S) \in Nat BY <1>1, FS_CardinalityType
  <1>3. ASSUME NEW i \in S
        PROVE  IsFiniteSet(Upto(S, i)) /\ Cardinality(Upto(S, i)) \in 1..Cardinality(S)
    <2>1. Upto(S, i) \subseteq S /\ i \in Upto(S, i) BY DEF Upto
    <2>2. IsFiniteSet(Upto(S, i)) /\ Cardinality(Upto(S, i)) <= Cardinality(S)
      BY <1>1, <2>1, FS_Subset
    <2>3. Cardinality(Upto(S, i)) \in Nat BY <2>2, FS_CardinalityType
    <2>4. Cardinality(Upto(S, i)) # 0 BY <2>1, <2>2, FS_EmptySet
    <2>5. QED BY <1>2, <2>2, <2>3, <2>4
  <1>4. QED BY <1>1, <1>2, <1>3

\* Positions are told apart by how many there are up to them.
LEMMA UptoCounts ==
  ASSUME NEW n \in Nat, NEW S \in SUBSET (1..n), NEW i \in S, NEW j \in S, i < j
  PROVE  Cardinality(Upto(S, i)) # Cardinality(Upto(S, j))
  <1>1. Upto(S, i) \subseteq Upto(S, j) /\ j \in Upto(S, j) /\ j \notin Upto(S, i)
    <2>1. \A k \in S : k \in Int OBVIOUS
    <2>2. i \in Int /\ j \in Int /\ ~(j <= i) /\ j <= j BY <2>1
    <2>3. \A k \in S : k <= i => k <= j BY <2>1, <2>2
    <2>4. QED BY <2>2, <2>3 DEF Upto
  <1>2. IsFiniteSet(Upto(S, j)) BY UptoFinite
  <1>3. Upto(S, i) # Upto(S, j) BY <1>1
  <1>4. QED BY <1>1, <1>2, <1>3, FS_Subset

LEMMA NthPosition ==
  ASSUME NEW n \in Nat, NEW S \in SUBSET (1..n), NEW c \in 1..Cardinality(S)
  PROVE  \E i \in S : Cardinality(Upto(S, i)) = c
  <1> DEFINE C == 1..Cardinality(S)
             f == [i \in S |-> Cardinality(Upto(S, i))]
  <1>1. /\ IsFiniteSet(S) /\ Cardinality(S) \in Nat
        /\ \A i \in S : Cardinality(Upto(S, i)) \in C
    BY UptoFinite
  <1>2. f \in [S -> C] /\ \A i \in S : f[i] = Cardinality(Upto(S, i)) BY <1>1
  <1>3. \A i, j \in S : i # j => f[i] # f[j]
    <2> SUFFICES ASSUME NEW i \in S, NEW j \in S, i # j PROVE f[i] # f[j] OBVIOUS
    <2>1. i < j \/ j < i OBVIOUS
    <2>2. QED BY <1>2, <2>1, UptoCounts
  <1> HIDE DEF f
  <1>4. f \in Injection(S, C) BY <1>2, <1>3 DEF Injection, IsInjective
  <1>5. IsFiniteSet(C) /\ Cardinality(C) = Cardinality(S)
    <2>1. 1 \in Int /\ Cardinality(S) \in Int BY <1>1
    <2>2. IsFiniteSet(C) BY <2>1, FS_Interval
    <2>3. Cardinality(C) = IF 1 > Cardinality(S) THEN 0 ELSE Cardinality(S) - 1 + 1
      BY <2>1, FS_Interval
    <2>4. QED BY <1>1, <2>2, <2>3
  <1>6. f \in Surjection(S, C) BY <1>4, <1>5, FS_Injection
  <1>7. PICK i \in S : f[i] = c BY <1>6 DEF Surjection
  <1>8. QED BY <1>2, <1>7

\* Positions that match hold the same lines in the same order.
Places(S) == \E n \in Nat : S \in SUBSET (1..n)

LEMMA MatchSelected ==
  ASSUME NEW t, NEW u, NEW S, NEW T, NEW f, Places(S), Places(T), Matches(t, S, u, T, f)
  PROVE  Selected(t, S) = Selected(u, T)
  <1> PICK n \in Nat : S \in SUBSET (1..n) BY DEF Places
  <1> PICK m \in Nat : T \in SUBSET (1..m) BY DEF Places
  <1>1. /\ f \in [S -> T] /\ \A i, j \in S : i < j => f[i] < f[j]
        /\ \A k \in T : \E i \in S : f[i] = k
        /\ \A i \in S : u[f[i]] = t[i]
    BY DEF Matches
  <1>0. (\A i \in S : i \in Int) /\ \A k \in T : k \in Int OBVIOUS
  <1>2. \A i, j \in S : i <= j <=> f[i] <= f[j]
    <2> SUFFICES ASSUME NEW i \in S, NEW j \in S PROVE i <= j <=> f[i] <= f[j] OBVIOUS
    <2>1. f[i] \in Int /\ f[j] \in Int /\ i \in Int /\ j \in Int
      BY ONLY <1>0, <1>1, i \in S, j \in S
    <2>2. i < j \/ i = j \/ j < i BY <2>1
    <2>3. QED BY <1>1, <2>1, <2>2
  <1>3. \A i, j \in S : f[i] = f[j] => i = j
    <2> SUFFICES ASSUME NEW i \in S, NEW j \in S, f[i] = f[j] PROVE i = j OBVIOUS
    <2>1. f[i] \in Int /\ f[j] \in Int /\ i \in Int /\ j \in Int
      BY ONLY <1>0, <1>1, i \in S, j \in S
    <2>2. i <= j /\ j <= i BY <1>2, <2>1
    <2>3. QED BY <2>1, <2>2
  <1>4. ASSUME NEW i \in S
        PROVE  Cardinality(Upto(T, f[i])) = Cardinality(Upto(S, i))
    <2> DEFINE A == Upto(S, i)
               B == Upto(T, f[i])
               g == [k \in A |-> f[k]]
    <2>1. \A k \in A : k \in S /\ f[k] \in B BY <1>1, <1>2 DEF Upto
    <2>2. \A y \in B : \E k \in A : f[k] = y BY <1>1, <1>2 DEF Upto
    <2>3. IsFiniteSet(A) BY UptoFinite
    <2> HIDE DEF A, B
    <2>4. g \in Bijection(A, B)
      <3>1. g \in [A -> B] /\ \A k \in A : g[k] = f[k] BY <2>1
      <3>2. \A k, l \in A : k # l => g[k] # g[l] BY <1>3, <2>1, <3>1
      <3>3. \A y \in B : \E k \in A : g[k] = y BY <2>2, <3>1
      <3> HIDE DEF g
      <3>4. g \in Injection(A, B) BY <3>1, <3>2 DEF Injection, IsInjective
      <3>5. g \in Surjection(A, B) BY <3>1, <3>3 DEF Surjection
      <3>6. QED BY <3>4, <3>5 DEF Bijection
    <2>5. ExistsBijection(A, B) BY <2>4 DEF ExistsBijection
    <2>6. Cardinality(B) = Cardinality(A) BY <2>3, <2>5, FS_Bijection
    <2>7. QED BY <2>6 DEF A, B
  <1>5. Cardinality(T) = Cardinality(S)
    <2>1. f \in Injection(S, T) BY <1>1, <1>3 DEF Injection, IsInjective
    <2>2. f \in Surjection(S, T) BY <1>1 DEF Surjection
    <2>3. f \in Bijection(S, T) BY <2>1, <2>2 DEF Bijection
    <2>4. ExistsBijection(S, T) BY <2>3 DEF ExistsBijection
    <2>5. QED BY <2>4, UptoFinite, FS_Bijection
  <1>6. ASSUME NEW c \in 1..Cardinality(S)
        PROVE  t[CHOOSE i \in S : Cardinality(Upto(S, i)) = c]
                 = u[CHOOSE k \in T : Cardinality(Upto(T, k)) = c]
    <2> DEFINE p == CHOOSE i \in S : Cardinality(Upto(S, i)) = c
               q == CHOOSE k \in T : Cardinality(Upto(T, k)) = c
    <2>1. p \in S /\ Cardinality(Upto(S, p)) = c BY NthPosition
    <2>2. f[p] \in T /\ Cardinality(Upto(T, f[p])) = c BY <1>1, <1>4, <2>1
    <2>3. q \in T /\ Cardinality(Upto(T, q)) = c BY <2>2
    <2> HIDE DEF p, q
    <2>4. q = f[p]
      <3>1. q \in Int /\ f[p] \in Int BY ONLY <1>0, <2>2, <2>3
      <3>2. q < f[p] \/ f[p] < q \/ q = f[p] BY <3>1
      <3>3. ~(q < f[p]) BY <2>2, <2>3, UptoCounts
      <3>4. ~(f[p] < q) BY <2>2, <2>3, UptoCounts
      <3>5. QED BY <3>2, <3>3, <3>4
    <2>5. u[q] = t[p] BY <1>1, <2>1, <2>4
    <2>6. QED BY <2>5 DEF p, q
  <1>7. /\ Selected(t, S) = [c \in 1..Cardinality(S) |->
                              t[CHOOSE i \in S : Cardinality(Upto(S, i)) = c]]
        /\ Selected(u, T) = [c \in 1..Cardinality(T) |->
                              u[CHOOSE k \in T : Cardinality(Upto(T, k)) = c]]
    BY DEF Selected, Upto
  <1>8. QED BY ONLY <1>5, <1>6, <1>7

\* Lines that are not blank go on matching when lines are put after them.
LEMMA MatchSame ==
  ASSUME NEW t, NEW S, NEW u, NEW T, NEW f, NEW v, Matches(t, S, u, T, f),
         \A k \in T : v[k] = u[k]
  PROVE  Matches(t, S, v, T, f)
  BY DEF Matches

LEMMA NonBlankAppend ==
  ASSUME NEW u \in Seq(Line), NEW x \in Line
  PROVE  /\ NonBlank(u) \in SUBSET (1..Len(u)) /\ Len(u) \in Nat
         /\ NonBlank(Append(u, x)) = NonBlank(u) \cup (IF x = "blank" THEN {} ELSE {Len(u) + 1})
         /\ \A k \in NonBlank(u) : Append(u, x)[k] = u[k]
         /\ Append(u, x)[Len(u) + 1] = x
  <1> DEFINE v == Append(u, x)
             n == Len(u)
  <1>1. n \in Nat /\ DOMAIN u = 1..n /\ DOMAIN v = 1..(n + 1) /\ v[n + 1] = x
    OBVIOUS
  <1>2. \A k \in 1..n : v[k] = u[k] /\ k \in 1..(n + 1) /\ k # n + 1 OBVIOUS
  <1>3. \A k : k \in 1..(n + 1) <=> k \in 1..n \/ k = n + 1 BY <1>1
  <1> HIDE DEF v, n
  <1>4. \A k : k \in NonBlank(v) <=> k \in 1..(n + 1) /\ v[k] # "blank" BY <1>1 DEF NonBlank
  <1>5. \A k : k \in NonBlank(u) <=> k \in 1..n /\ u[k] # "blank" BY <1>1 DEF NonBlank
  <1>6. NonBlank(v) = NonBlank(u) \cup (IF x = "blank" THEN {} ELSE {n + 1})
    BY <1>1, <1>2, <1>3, <1>4, <1>5
  <1>7. QED BY <1>1, <1>2, <1>5, <1>6 DEF v, n

LEMMA MatchMore ==
  ASSUME NEW t, NEW n \in Nat, NEW S \in SUBSET (1..n), NEW u \in Seq(Line), NEW x \in Line,
         x # "blank", t[n + 1] = x, NEW f, Matches(t, S, u, NonBlank(u), f)
  PROVE  \E g : Matches(t, S \cup {n + 1}, Append(u, x), NonBlank(Append(u, x)), g)
  <1> DEFINE m == Len(u) + 1
             v == Append(u, x)
             T == NonBlank(u)
             R == S \cup {n + 1}
             g == [i \in R |-> IF i = n + 1 THEN m ELSE f[i]]
  <1>1. /\ T \in SUBSET (1..Len(u)) /\ Len(u) \in Nat /\ NonBlank(v) = T \cup {m}
        /\ (\A k \in T : v[k] = u[k]) /\ v[m] = x
    BY NonBlankAppend
  <1>2. /\ f \in [S -> T] /\ \A i, j \in S : i < j => f[i] < f[j]
        /\ \A k \in T : \E i \in S : f[i] = k
        /\ \A i \in S : u[f[i]] = t[i]
    BY DEF Matches
  <1>3. m \in Nat /\ \A k \in T : k \in Nat /\ k < m BY <1>1
  <1>4. \A i \in S : i \in Nat /\ i < n + 1 /\ i # n + 1 OBVIOUS
  <1> HIDE DEF m, v, T
  <1>5. g[n + 1] = m /\ \A i \in S : g[i] = f[i] BY <1>4
  <1>6. DOMAIN g = R /\ \A i \in R : i \in S \/ i = n + 1 OBVIOUS
  <1>7. g \in [R -> T \cup {m}] BY <1>2
  <1> HIDE DEF g
  <1>8. ASSUME NEW i \in R, NEW j \in R, i < j PROVE g[i] < g[j]
    <2>1. i \in S BY <1>4, <1>6, <1>8
    <2>2. CASE j \in S BY <1>2, <1>5, <1>8, <2>1, <2>2
    <2>3. CASE j = n + 1
      <3>1. f[i] \in T BY <1>2, <2>1
      <3>2. f[i] < m BY <1>3, <3>1
      <3>3. QED BY <1>5, <2>1, <2>3, <3>2
    <2>4. QED BY <1>6, <2>2, <2>3
  <1>9. \A k \in T \cup {m} : \E i \in R : g[i] = k BY <1>2, <1>5
  <1>10. ASSUME NEW i \in R PROVE v[g[i]] = t[i]
    <2>1. CASE i \in S
      <3>1. f[i] \in T /\ u[f[i]] = t[i] BY <1>2, <2>1
      <3>2. QED BY <1>1, <1>5, <2>1, <3>1
    <2>2. CASE i = n + 1 BY <1>1, <1>5, <2>2
    <2>3. QED BY <1>6, <2>1, <2>2
  <1>11. Matches(t, R, v, T \cup {m}, g) BY <1>7, <1>8, <1>9, <1>10 DEF Matches
  <1>12. QED BY <1>1, <1>11 DEF v

\* Collapsing leaves out blank lines only.
LEMMA CollapseMatches ==
  ASSUME NEW t \in Seq(Line)
  PROVE  LET u == FoldLeft(Collapse, <<>>, t)
         IN  u \in Seq(Line) /\ \E f : Matches(t, NonBlank(t), u, NonBlank(u), f)
  <1> DEFINE n == Len(t)
             S(k) == {i \in NonBlank(t) : i <= k}
  <1>1. PICK kept \in [0..n -> Seq(Line)] :
           /\ kept[0] = <<>>
           /\ \A k \in 1..n : kept[k] = Collapse(kept[k - 1], t[k])
           /\ FoldLeft(Collapse, <<>>, t) = kept[n]
    BY CollapseFold
  <1>2. n \in Nat /\ NonBlank(t) \in SUBSET (1..n) /\ n \in 0..n BY DEF NonBlank
  <1> DEFINE P == {k \in Nat : k <= n =>
                     \E f : Matches(t, S(k), kept[k], NonBlank(kept[k]), f)}
  <1>3. 0 \in P
    <2>1. S(0) = {} BY <1>2
    <2>2. NonBlank(<<>>) = {} BY DEF NonBlank
    <2> DEFINE f == [i \in {} |-> 0]
    <2>3. Matches(t, {}, <<>>, {}, f) BY DEF Matches
    <2>4. Matches(t, S(0), kept[0], NonBlank(kept[0]), f) BY <1>1, <2>1, <2>2, <2>3
    <2>5. QED BY <2>4
  <1>4. ASSUME NEW k \in Nat, k \in P PROVE k + 1 \in P
    <2> SUFFICES ASSUME k + 1 <= n
                 PROVE  \E f : Matches(t, S(k + 1), kept[k + 1], NonBlank(kept[k + 1]), f)
      OBVIOUS
    <2> DEFINE u == kept[k]
               x == t[k + 1]
               v == kept[k + 1]
    <2>1. k \in 0..n /\ k + 1 \in 1..n /\ (k + 1) - 1 = k BY <1>2
    <2>0. k <= n BY <1>2
    <2>2. PICK f : Matches(t, S(k), u, NonBlank(u), f) BY <1>4, <2>0
    <2>3. u \in Seq(Line) /\ x \in Line /\ v = Collapse(u, x) BY <1>1, <2>1
    <2>4. CASE x = "blank"
      <3>1. S(k + 1) = S(k)
        <4>1. k + 1 \notin NonBlank(t) BY <2>4 DEF NonBlank
        <4>2. \A i \in NonBlank(t) : i \in Nat /\ i # k + 1 BY <1>2, <4>1
        <4>3. QED BY <4>2
      <3>2. v = u \/ v = Append(u, x) BY <2>3 DEF Collapse
      <3>3. CASE v = u BY <2>2, <3>1, <3>3
      <3>4. CASE v = Append(u, x)
        <4> HIDE DEF S, u, v, x
        <4>1. NonBlank(v) = NonBlank(u) /\ \A j \in NonBlank(u) : v[j] = u[j]
          <5>1. NonBlank(v) = NonBlank(u) \cup (IF x = "blank" THEN {} ELSE {Len(u) + 1})
            BY ONLY <2>3, <3>4, NonBlankAppend
          <5>2. \A j \in NonBlank(u) : v[j] = u[j] BY ONLY <2>3, <3>4, NonBlankAppend
          <5>3. QED BY ONLY <2>4, <5>1, <5>2
        <4>2. Matches(t, S(k), v, NonBlank(u), f) BY <2>2, <4>1, MatchSame
        <4>3. QED BY <3>1, <4>1, <4>2 DEF v
      <3>5. QED BY <3>2, <3>3, <3>4
    <2>5. CASE x # "blank"
      <3>1. S(k + 1) = S(k) \cup {k + 1}
        <4>1. k + 1 \in NonBlank(t) BY <2>1, <2>5 DEF NonBlank
        <4>2. \A i \in NonBlank(t) : i \in Nat BY <1>2
        <4>3. QED BY <4>1, <4>2
      <3>2. v = Append(u, x) BY <2>3, <2>5 DEF Collapse
      <3>3. S(k) \in SUBSET (1..k) BY <1>2
      <3> HIDE DEF S, u, v, x
      <3>4. t[k + 1] = x BY DEF x
      <3>5. \E g : Matches(t, S(k) \cup {k + 1}, Append(u, x), NonBlank(Append(u, x)), g)
        BY <2>2, <2>3, <2>5, <3>3, <3>4, MatchMore
      <3>6. QED BY <3>1, <3>2, <3>5 DEF v
    <2>6. QED BY <2>4, <2>5
  <1>5. n \in P
    <2> HIDE DEF P
    <2>1. QED BY <1>2, <1>3, <1>4, Induction
  <1>6. S(n) = NonBlank(t) BY <1>2
  <1>7. \E f : Matches(t, NonBlank(t), kept[n], NonBlank(kept[n]), f) BY <1>2, <1>5, <1>6
  <1>8. kept[n] \in Seq(Line) BY <1>2
  <1>9. QED BY <1>1, <1>7, <1>8

LEMMA SameSelected ==
  ASSUME NEW t, NEW u, NEW n \in Nat, NEW S \in SUBSET (1..n), \A i \in S : u[i] = t[i]
  PROVE  Selected(t, S) = Selected(u, S)
  <1> DEFINE f == [i \in S |-> i]
  <1>1. f \in [S -> S] /\ \A i \in S : f[i] = i OBVIOUS
  <1> HIDE DEF f
  <1>2. Matches(t, S, u, S, f) BY <1>1 DEF Matches
  <1>3. Places(S) BY DEF Places
  <1>4. QED BY ONLY <1>2, <1>3, MatchSelected

LEMMA TrimEndSame ==
  ASSUME NEW t \in Seq(Line)
  PROVE  /\ TrimEnd(t) \in Seq(Line) /\ NonBlank(TrimEnd(t)) = NonBlank(t)
         /\ \A k \in NonBlank(t) : TrimEnd(t)[k] = t[k]
  <1>1. PICK m \in 0..Len(t) :
          /\ TrimEnd(t) = SubSeq(t, 1, m)
          /\ \A i \in DOMAIN t \ Positions(t, "blank") : i <= m
    BY TrimEndIs
  <1> DEFINE u == TrimEnd(t)
  <1>2. u \in Seq(Line) /\ DOMAIN u = 1..m /\ \A k \in 1..m : u[k] = t[k] BY <1>1
  <1>3. NonBlank(t) = DOMAIN t \ Positions(t, "blank") BY DEF NonBlank, Positions
  <1>4. \A k \in NonBlank(t) : k \in 1..m BY <1>1, <1>3
  <1>5. \A k \in 1..m : k \in DOMAIN t OBVIOUS
  <1> HIDE DEF u
  <1>6. NonBlank(u) = NonBlank(t) BY <1>2, <1>4, <1>5 DEF NonBlank
  <1>7. QED BY <1>2, <1>4, <1>6 DEF u

LEMMA NonBlankPositions ==
  ASSUME NEW t \in Seq(Line)
  PROVE  NonBlank(t) \in SUBSET (1..Len(t)) /\ Len(t) \in Nat
  BY DEF NonBlank

\* To tidy lines leaves the ones that are not blank.
LEMMA TidyKeeps ==
  ASSUME NEW t \in Seq(Line)
  PROVE  /\ Tidy(t) \in Seq(Line)
         /\ Selected(Tidy(t), NonBlank(Tidy(t))) = Selected(t, NonBlank(t))
         /\ \A k \in NonBlank(Tidy(t)) : \E i \in NonBlank(t) : Tidy(t)[k] = t[i]
  <1> DEFINE u == FoldLeft(Collapse, <<>>, t)
             v == TrimEnd(u)
  <1>1. u \in Seq(Line) /\ \E f : Matches(t, NonBlank(t), u, NonBlank(u), f)
    BY CollapseMatches
  <1>2. Tidy(t) = v BY DEF Tidy
  <1> HIDE DEF u
  <1>3. v \in Seq(Line) /\ NonBlank(v) = NonBlank(u) /\ \A k \in NonBlank(u) : v[k] = u[k]
    BY <1>1, TrimEndSame
  <1> HIDE DEF v
  <1>4. /\ NonBlank(u) \in SUBSET (1..Len(u)) /\ Len(u) \in Nat
        /\ NonBlank(t) \in SUBSET (1..Len(t)) /\ Len(t) \in Nat
    BY <1>1, NonBlankPositions
  <1>0. Places(NonBlank(u)) /\ Places(NonBlank(t)) BY <1>4 DEF Places
  <1>5. PICK f : Matches(t, NonBlank(t), u, NonBlank(u), f) BY <1>1
  <1>6. Matches(t, NonBlank(t), v, NonBlank(u), f) BY <1>3, <1>5, MatchSame
  <1>7. Selected(t, NonBlank(t)) = Selected(v, NonBlank(u))
    BY ONLY <1>0, <1>6, MatchSelected
  <1>8. \A k \in NonBlank(v) : \E i \in NonBlank(t) : v[k] = t[i]
    BY <1>3, <1>6 DEF Matches
  <1>9. QED BY <1>2, <1>3, <1>7, <1>8

-----------------------------------------------------------------------------
\* The user's lines of a file with one block and of one with none.
Kept(t) == {i \in DOMAIN t : t[i] # "blank" /\ Outside(t, i)}

LEMMA KeptNone ==
  ASSUME NEW t \in Seq(Line), Positions(t, "begin") = {}
  PROVE  Kept(t) = NonBlank(t)
  <1>1. \A k \in DOMAIN t : t[k] # "begin" BY DEF Positions
  <1>2. \A i \in DOMAIN t : Outside(t, i) BY <1>1 DEF Outside
  <1>3. QED BY <1>2 DEF Kept, NonBlank

LEMMA KeptOne ==
  ASSUME NEW t \in Seq(Line), NEW b \in 1..Len(t), NEW e \in 1..Len(t),
         Positions(t, "begin") = {b}, Positions(t, "end") = {e}
  PROVE  Kept(t) = {i \in 1..Len(t) : t[i] # "blank" /\ ~(b <= i /\ i <= e)}
  <1>1. DOMAIN t = 1..Len(t) OBVIOUS
  <1>2. /\ \A k \in DOMAIN t : t[k] = "begin" <=> k = b
        /\ \A k \in DOMAIN t : t[k] = "end" <=> k = e
    BY DEF Positions
  <1>3. \A i \in DOMAIN t : Outside(t, i) <=> ~(b <= i /\ i <= e)
    BY <1>1, <1>2 DEF Outside
  <1>4. QED BY <1>1, <1>3 DEF Kept

LEMMA LocatedAt ==
  ASSUME NEW t \in Seq(Line), MarkerState(t) = "well_formed"
  PROVE  \E b, e \in 1..Len(t) :
           /\ b < e /\ Positions(t, "begin") = {b} /\ Positions(t, "end") = {e}
           /\ Before(t) = SubSeq(t, 1, b - 1) /\ After(t) = SubSeq(t, e + 1, Len(t))
  <1> DEFINE n == Len(t)
             B == Positions(t, "begin")
             E == Positions(t, "end")
  <1>1. n \in Nat /\ B \in SUBSET (1..n) /\ E \in SUBSET (1..n) BY PositionsOf
  <1>2. PICK b, e \in DOMAIN t : b < e /\ B = {b} /\ E = {e} BY DEF MarkerState
  <1>3. Before(t) = SubSeq(t, 1, Min(B) - 1) /\ After(t) = SubSeq(t, Max(E) + 1, n)
    BY DEF Before, After
  <1>4. b \in 1..n /\ e \in 1..n OBVIOUS
  <1> HIDE DEF B, E
  <1>5. Min(B) = b /\ Max(E) = e
    <2> HIDE DEF n
    <2>1. Min(B) \in B /\ Max(E) \in E BY <1>1, <1>2, FirstPosition, LastPosition
    <2>2. QED BY <1>2, <2>1
  <1>6. QED BY <1>2, <1>3, <1>4, <1>5 DEF B, E

\* The file with X where the lines b to e stood.
Replacing(t, b, e, X) == (SubSeq(t, 1, b - 1) \o X) \o SubSeq(t, e + 1, Len(t))

LEMMA ConcatIs ==
  ASSUME NEW p \in Seq(Line), NEW q \in Seq(Line)
  PROVE  /\ p \o q \in Seq(Line) /\ Len(p) \in Nat /\ Len(q) \in Nat
         /\ Len(p \o q) = Len(p) + Len(q)
         /\ \A k \in 1..Len(p) : (p \o q)[k] = p[k]
         /\ \A k \in 1..Len(q) : (p \o q)[Len(p) + k] = q[k]
  OBVIOUS

Span(t, b, e) ==
  /\ t \in Seq(Line) /\ b \in 1..Len(t) /\ e \in 1..Len(t) /\ b < e

\* Before b and after e the lines are those of t.
Replaces(t, b, e, X, d, u) ==
  /\ u \in Seq(Line) /\ Len(u) = Len(t) + d /\ Len(u) \in Nat
  /\ \A k \in 1..(b - 1) : u[k] = t[k]
  /\ \A k \in 1..Len(X) : u[b - 1 + k] = X[k]
  /\ \A k \in (e + 1)..Len(t) : u[k + d] = t[k]

LEMMA ReplacingIs ==
  ASSUME NEW t, NEW b, NEW e, Span(t, b, e), NEW X \in Seq(Line),
         NEW d, d = b - 1 + Len(X) - e
  PROVE  Replaces(t, b, e, X, d, Replacing(t, b, e, X))
  <1> DEFINE x == Len(X)
  <1>0. /\ t \in Seq(Line) /\ b \in 1..Len(t) /\ e \in 1..Len(t) /\ b < e
        /\ x \in Nat /\ x = Len(X) /\ d = b - 1 + x - e /\ d \in Int
    BY DEF Span
  <1> HIDE DEF x
  <1> DEFINE p == SubSeq(t, 1, b - 1)
             q == SubSeq(t, e + 1, Len(t))
             n == Len(t)
  <1>1. /\ p \in Seq(Line) /\ Len(p) = b - 1 /\ \A k \in 1..(b - 1) : p[k] = t[k]
    BY <1>0
  <1>2. /\ q \in Seq(Line) /\ Len(q) = n - e /\ \A k \in 1..(n - e) : q[k] = t[e + k]
    BY <1>0
  <1>3. Replacing(t, b, e, X) = (p \o X) \o q BY DEF Replacing
  <1>4. n \in Nat /\ b \in 1..n /\ e \in 1..n /\ b < e /\ x \in Nat BY <1>0
  <1> HIDE DEF p, q, n
  <1>5. /\ p \o X \in Seq(Line) /\ Len(p \o X) = b - 1 + x
        /\ \A k \in 1..(b - 1) : (p \o X)[k] = t[k]
        /\ \A k \in 1..x : (p \o X)[b - 1 + k] = X[k]
    <2>1. /\ p \o X \in Seq(Line) /\ Len(p \o X) = Len(p) + Len(X)
          /\ \A k \in 1..Len(p) : (p \o X)[k] = p[k]
          /\ \A k \in 1..Len(X) : (p \o X)[Len(p) + k] = X[k]
      BY ONLY <1>1, X \in Seq(Line), ConcatIs
    <2>2. QED BY ONLY <1>0, <1>1, <2>1
  <1> DEFINE r == p \o X
  <1> HIDE DEF r
  <1>6. /\ r \in Seq(Line) /\ Len(r) = b - 1 + x /\ \A k \in 1..(b - 1) : r[k] = t[k]
        /\ \A k \in 1..x : r[b - 1 + k] = X[k]
    BY <1>5 DEF r
  <1> DEFINE u == r \o q
  <1>7. /\ u \in Seq(Line) /\ Len(u) = b - 1 + x + (n - e)
        /\ \A k \in 1..(b - 1 + x) : u[k] = r[k]
        /\ \A k \in 1..(n - e) : u[b - 1 + x + k] = q[k]
    <2>1. /\ r \o q \in Seq(Line) /\ Len(r \o q) = Len(r) + Len(q)
          /\ \A k \in 1..Len(r) : (r \o q)[k] = r[k]
          /\ \A k \in 1..Len(q) : (r \o q)[Len(r) + k] = q[k]
      BY ONLY <1>2, <1>6, ConcatIs
    <2>2. QED BY ONLY <1>2, <1>6, <2>1
  <1> HIDE DEF u
  <1>8. Len(u) = n + d /\ Len(u) \in Nat BY <1>0, <1>4, <1>7
  <1>9. \A k \in 1..(b - 1) : u[k] = t[k]
    <2>1. \A k \in 1..(b - 1) : k \in 1..(b - 1 + x) BY <1>4
    <2>2. QED BY <1>6, <1>7, <2>1
  <1>10. \A k \in 1..x : u[b - 1 + k] = X[k]
    <2>1. \A k \in 1..x : b - 1 + k \in 1..(b - 1 + x) BY <1>4
    <2>2. QED BY <1>6, <1>7, <2>1
  <1>11. ASSUME NEW k \in (e + 1)..n PROVE u[k + d] = t[k]
    <2>1. k - e \in 1..(n - e) /\ k + d = b - 1 + x + (k - e) /\ e + (k - e) = k
      BY <1>0, <1>4
    <2>2. u[b - 1 + x + (k - e)] = q[k - e] BY <1>7, <2>1
    <2>3. q[k - e] = t[e + (k - e)] BY <1>2, <2>1
    <2>4. QED BY <2>1, <2>2, <2>3
  <1>12. Replaces(t, b, e, X, d, u)
    BY <1>0, <1>7, <1>8, <1>9, <1>10, <1>11 DEF Replaces, n
  <1>13. QED BY <1>3, <1>12 DEF u, r

\* The lines around the block stand where X leaves them.
Around(u, b, x) == {k \in 1..Len(u) : u[k] # "blank" /\ ~(b <= k /\ k < b + x)}

LEMMA ReplacingKeeps ==
  ASSUME NEW t \in Seq(Line), NEW b \in 1..Len(t), NEW e \in 1..Len(t), b < e,
         Positions(t, "begin") = {b}, Positions(t, "end") = {e},
         NEW X \in Seq(Line), NEW x \in Nat, x = Len(X)
  PROVE  LET u == Replacing(t, b, e, X) IN
         /\ Selected(t, Kept(t)) = Selected(u, Around(u, b, x))
         /\ \A k \in Around(u, b, x) : u[k] \notin {"begin", "end"}
  <1> DEFINE u == Replacing(t, b, e, X)
             d == b - 1 + x - e
             n == Len(t)
             S == Kept(t)
             T == Around(u, b, x)
             f == [i \in S |-> IF i < b THEN i ELSE i + d]
  <1>1. n \in Nat /\ d \in Int /\ b \in 1..n /\ e \in 1..n OBVIOUS
  <1>2. /\ u \in Seq(Line) /\ Len(u) = n + d /\ Len(u) \in Nat
        /\ \A k \in 1..(b - 1) : u[k] = t[k]
        /\ \A k \in (e + 1)..n : u[k + d] = t[k]
    <2>1. Span(t, b, e) /\ X \in Seq(Line) /\ d = b - 1 + Len(X) - e BY DEF Span
    <2> HIDE DEF d, u
    <2>2. Replaces(t, b, e, X, d, Replacing(t, b, e, X)) BY ONLY <2>1, ReplacingIs
    <2>3. QED BY <2>2 DEF Replaces, u
  <1>3. S = {i \in 1..n : t[i] # "blank" /\ ~(b <= i /\ i <= e)} BY KeptOne
  <1>4. T = {k \in 1..Len(u) : u[k] # "blank" /\ ~(b <= k /\ k < b + x)} BY DEF Around
  <1>5. \A i \in 1..n : t[i] \in {"begin", "end"} => b <= i /\ i <= e
    <2>1. \A i \in 1..n : (t[i] = "begin" => i = b) /\ (t[i] = "end" => i = e)
      BY DEF Positions
    <2>2. QED BY <1>1, <2>1
  <1> DEFINE m == Len(u)
  <1>6. m = n + d /\ m \in Nat BY <1>2
  <1> HIDE DEF S, T, u, n, m
  <1>7. \A i \in S : f[i] = IF i < b THEN i ELSE i + d OBVIOUS
  <1>8. DOMAIN f = S /\ f = [i \in S |-> f[i]] OBVIOUS
  <1> HIDE DEF f
  <1>9. ASSUME NEW i \in S
        PROVE  /\ i \in Int /\ f[i] \in T /\ u[f[i]] = t[i]
               /\ (i < b /\ f[i] = i) \/ (i > e /\ f[i] = i + d)
    <2>1. i \in 1..n /\ t[i] # "blank" /\ (i < b \/ i > e) BY <1>1, <1>3
    <2>2. CASE i < b
      <3>1. i \in 1..(b - 1) /\ i \in 1..m /\ f[i] = i BY <1>1, <1>6, <1>7, <2>1, <2>2
      <3>2. u[i] = t[i] BY <1>2, <3>1
      <3>3. i \in T BY <1>1, <1>4, <2>1, <2>2, <3>1, <3>2 DEF m
      <3>4. QED BY <2>1, <2>2, <3>1, <3>2, <3>3
    <2>3. CASE i > e
      <3>1. i \in (e + 1)..n /\ i + d \in 1..m /\ f[i] = i + d /\ ~(i + d < b + x)
        BY <1>1, <1>6, <1>7, <2>1, <2>3
      <3>2. u[i + d] = t[i] BY <1>2, <3>1
      <3>3. i + d \in T BY <1>1, <1>4, <2>1, <3>1, <3>2 DEF m
      <3>4. QED BY <2>1, <2>3, <3>1, <3>2, <3>3
    <2>4. QED BY <2>1, <2>2, <2>3
  <1>10. ASSUME NEW k \in T
         PROVE  \E i \in S : f[i] = k /\ i \in 1..n
    <2>1. k \in 1..m /\ u[k] # "blank" /\ (k < b \/ k >= b + x) BY <1>1, <1>4 DEF m
    <2>2. CASE k < b
      <3>1. k \in 1..(b - 1) /\ k \in 1..n BY <1>1, <2>1, <2>2
      <3>2. u[k] = t[k] BY <1>2, <3>1
      <3>3. k \in S BY <1>1, <1>3, <2>1, <2>2, <3>1, <3>2
      <3>4. QED BY <1>7, <2>2, <3>1, <3>3
    <2>3. CASE k >= b + x
      <3> DEFINE j == k - d
      <3>1. j \in (e + 1)..n /\ j \in 1..n /\ j + d = k /\ ~(j < b) /\ ~(j <= e)
        BY <1>1, <1>6, <2>1, <2>3
      <3> HIDE DEF j
      <3>2. u[k] = t[j] BY <1>2, <3>1
      <3>3. j \in S BY <1>3, <2>1, <3>1, <3>2
      <3>4. QED BY <1>7, <3>1, <3>3
    <2>4. QED BY <2>1, <2>2, <2>3
  <1>11. ASSUME NEW i \in S, NEW j \in S, i < j PROVE f[i] < f[j]
    <2>1. i \in Int /\ j \in Int /\ ((i < b /\ f[i] = i) \/ (i > e /\ f[i] = i + d))
          /\ ((j < b /\ f[j] = j) \/ (j > e /\ f[j] = j + d))
      BY <1>9
    <2>2. QED BY <1>1, <1>11, <2>1
  <1>12. Matches(t, S, u, T, f)
    <2>1. f \in [S -> T] BY <1>8, <1>9
    <2>2. QED BY <1>9, <1>10, <1>11, <2>1 DEF Matches
  <1>13. Places(S) /\ Places(T)
    <2>1. S \in SUBSET (1..n) /\ T \in SUBSET (1..m) BY <1>3, <1>4 DEF m
    <2>2. QED BY <1>1, <1>6, <2>1 DEF Places
  <1>14. Selected(t, S) = Selected(u, T) BY ONLY <1>12, <1>13, MatchSelected
  <1>15. \A k \in T : u[k] \notin {"begin", "end"}
    <2> SUFFICES ASSUME NEW k \in T PROVE u[k] \notin {"begin", "end"} OBVIOUS
    <2>1. PICK i \in S : f[i] = k /\ i \in 1..n BY <1>10
    <2>2. u[k] = t[i] /\ ~(b <= i /\ i <= e) BY <1>3, <1>9, <2>1
    <2>3. QED BY <1>5, <2>1, <2>2
  <1>16. QED BY <1>14, <1>15 DEF S, T, u

\* A file with one marker of each kind, and one with none.
OneBlock(u) == \E b, e \in 1..Len(u) : Positions(u, "begin") = {b} /\ Positions(u, "end") = {e}
NoBlock(u) == Positions(u, "begin") = {} /\ Positions(u, "end") = {}

LEMMA BlockLines ==
  /\ Block \in Seq(Line) /\ Len(Block) = 3
  /\ Block[1] = "begin" /\ Block[2] = "body" /\ Block[3] = "end"
  BY DEF Block, Line

LEMMA UserLinesAre == \A t : UserLines(t) = Selected(t, Kept(t))
  BY DEF UserLines, Kept

\* A file whose markers are at b and b + 2.
LEMMA BlockAt ==
  ASSUME NEW u \in Seq(Line), NEW b \in 1..Len(u), b + 2 \in 1..Len(u),
         u[b] = "begin", u[b + 1] = "body", u[b + 2] = "end",
         \A k \in Around(u, b, 3) : u[k] \notin {"begin", "end"}
  PROVE  OneBlock(u) /\ Kept(u) = Around(u, b, 3)
  <1> DEFINE n == Len(u)
             e == b + 2
  <1>1. n \in Nat /\ b \in 1..n /\ e \in 1..n /\ DOMAIN u = 1..n OBVIOUS
  <1>2. \A k \in 1..n : u[k] # "blank" /\ ~(b <= k /\ k < b + 3) => u[k] \notin {"begin", "end"}
    BY DEF Around
  <1>3. \A k \in 1..n : b <= k /\ k < b + 3 => k = b \/ k = b + 1 \/ k = e
    BY <1>1
  <1>4. u[b] = "begin" /\ u[b + 1] = "body" /\ u[e] = "end" OBVIOUS
  <1>5. ASSUME NEW k \in 1..n
        PROVE  /\ u[k] = "begin" <=> k = b
               /\ u[k] = "end" <=> k = e
    <2>1. CASE b <= k /\ k < b + 3 BY ONLY <1>1, <1>3, <1>4, <1>5, <2>1
    <2>2. CASE ~(b <= k /\ k < b + 3)
      <3>1. k # b /\ k # e BY <1>1, <2>2
      <3>2. u[k] \notin {"begin", "end"}
        <4> HIDE DEF n, e
        <4>1. QED BY <1>2, <2>2
      <3>3. QED BY <3>1, <3>2
    <2>3. QED BY <2>1, <2>2
  <1>6. Positions(u, "begin") = {b} /\ Positions(u, "end") = {e}
    <2> HIDE DEF n, e
    <2>1. QED BY <1>1, <1>5 DEF Positions
  <1>7. Kept(u) = {i \in 1..n : u[i] # "blank" /\ ~(b <= i /\ i <= e)}
    <2> HIDE DEF e
    <2>1. u \in Seq(Line) /\ b \in 1..Len(u) /\ e \in 1..Len(u) BY <1>1
    <2>2. QED BY ONLY <1>6, <2>1, KeptOne DEF n
  <1>8. \A i \in 1..n : (b <= i /\ i <= e) <=> (b <= i /\ i < b + 3) BY <1>1
  <1>9. QED BY <1>1, <1>6, <1>7, <1>8 DEF OneBlock, Around

LEMMA EnabledWell ==
  ASSUME NEW t \in Seq(Line), MarkerState(t) = "well_formed"
  PROVE  UserLines(Enabled(t)) = UserLines(t) /\ OneBlock(Enabled(t))
  <1>1. PICK b \in 1..Len(t), e \in 1..Len(t) :
           /\ b < e /\ Positions(t, "begin") = {b} /\ Positions(t, "end") = {e}
           /\ Before(t) = SubSeq(t, 1, b - 1) /\ After(t) = SubSeq(t, e + 1, Len(t))
    BY LocatedAt
  <1> DEFINE u == Replacing(t, b, e, Block)
             n == Len(t)
             d == b + 2 - e
             x == 3
  <1>2. Enabled(t) = u BY <1>1 DEF Enabled, Replacing
  <1>3. n \in Nat /\ b \in 1..n /\ e \in 1..n /\ b < e /\ t \in Seq(Line) BY <1>1
  <1>4. x \in Nat /\ x = Len(Block) /\ Block \in Seq(Line) BY BlockLines
  <1>5. Replaces(t, b, e, Block, d, u)
    <2>1. Span(t, b, e) BY <1>1 DEF Span
    <2>2. d = b - 1 + Len(Block) - e
      <3>1. Len(Block) = 3 BY BlockLines
      <3>2. QED BY <1>3, <3>1
    <2> HIDE DEF d, u
    <2>3. QED BY ONLY <1>4, <2>1, <2>2, ReplacingIs DEF u
  <1>6. /\ u \in Seq(Line) /\ Len(u) = n + d /\ Len(u) \in Nat
        /\ \A k \in 1..3 : u[b - 1 + k] = Block[k]
    <2> HIDE DEF u, d
    <2>1. QED BY <1>4, <1>5 DEF Replaces
  <1>7. b \in 1..Len(u) /\ b + 2 \in 1..Len(u)
    <2> HIDE DEF u
    <2>1. QED BY <1>3, <1>6
  <1>8. u[b] = "begin" /\ u[b + 1] = "body" /\ u[b + 2] = "end"
    <2>1. b - 1 + 1 = b /\ b - 1 + 2 = b + 1 /\ b - 1 + 3 = b + 2 BY <1>3
    <2> HIDE DEF u
    <2>2. u[b - 1 + 1] = Block[1] /\ u[b - 1 + 2] = Block[2] /\ u[b - 1 + 3] = Block[3]
      BY <1>6
    <2>3. QED BY <2>1, <2>2, BlockLines
  <1>9. /\ Selected(t, Kept(t)) = Selected(u, Around(u, b, x))
        /\ \A k \in Around(u, b, x) : u[k] \notin {"begin", "end"}
    <2>1. Positions(t, "begin") = {b} /\ Positions(t, "end") = {e} BY <1>1
    <2> HIDE DEF x, n
    <2>2. b \in 1..Len(t) /\ e \in 1..Len(t) OBVIOUS
    <2>3. QED BY ONLY <1>3, <1>4, <2>1, <2>2, ReplacingKeeps
  <1>10. OneBlock(u) /\ Kept(u) = Around(u, b, 3)
    <2> HIDE DEF u
    <2>1. QED BY ONLY <1>6, <1>7, <1>8, <1>9, BlockAt DEF x
  <1>11. QED BY <1>2, <1>9, <1>10, UserLinesAre

LEMMA EnabledNone ==
  ASSUME NEW t \in Seq(Line), MarkerState(t) = "absent"
  PROVE  UserLines(Enabled(t)) = UserLines(t) /\ OneBlock(Enabled(t))
  <1>1. NoBlock(t)
    <2>1. CASE NoBlock(t) BY <2>1
    <2>2. CASE ~NoBlock(t) BY <2>2 DEF MarkerState, NoBlock
    <2>3. QED BY <2>1, <2>2
  <1> DEFINE v == TrimEnd(t)
             m == Len(v)
  <1>2. /\ v \in Seq(Line) /\ NonBlank(v) = NonBlank(t) /\ m \in Nat
        /\ \A k \in NonBlank(t) : v[k] = t[k]
    BY TrimEndSame
  <1>3. Kept(t) = NonBlank(t) BY <1>1, KeptNone DEF NoBlock
  <1> HIDE DEF v
  <1>4. NonBlank(v) = {i \in 1..m : v[i] # "blank"} BY <1>2 DEF NonBlank
  <1>5. \A k \in 1..m : v[k] \notin {"begin", "end"}
    <2> SUFFICES ASSUME NEW k \in 1..m PROVE v[k] \notin {"begin", "end"} OBVIOUS
    <2>1. CASE v[k] = "blank" BY <2>1
    <2>2. CASE v[k] # "blank"
      <3>1. k \in NonBlank(t) /\ v[k] = t[k] BY <1>2, <1>4, <2>2
      <3>2. QED BY <1>1, <3>1 DEF NoBlock, NonBlank, Positions
    <2>3. QED BY <2>1, <2>2
  <1>6. ASSUME NEW u \in Seq(Line), NEW b \in Nat \ {0}, b > m, Len(u) = b + 2,
               u[b] = "begin", u[b + 1] = "body", u[b + 2] = "end",
               \A k \in 1..m : u[k] = v[k],
               \A k \in 1..(b - 1) : k > m => u[k] = "blank"
        PROVE  Selected(u, Kept(u)) = Selected(t, Kept(t)) /\ OneBlock(u)
    <2> HIDE DEF m
    <2>1. b \in 1..Len(u) /\ b + 2 \in 1..Len(u) BY <1>6
    <2>2. Around(u, b, 3) = NonBlank(v)
      <3>1. \A k \in 1..Len(u) : ~(b <= k /\ k < b + 3) => k \in 1..(b - 1) BY <1>6
      <3>2. \A k \in 1..m : k \in 1..Len(u) /\ ~(b <= k /\ k < b + 3) BY <1>2, <1>6
      <3>3. \A k \in 1..(b - 1) : k > m \/ k \in 1..m BY <1>2, <1>6
      <3>4. ASSUME NEW k \in Around(u, b, 3) PROVE k \in NonBlank(v)
        <4>1. k \in 1..(b - 1) /\ u[k] # "blank" BY <3>1 DEF Around
        <4>2. k \in 1..m BY <1>6, <3>3, <4>1
        <4>3. QED BY <1>4, <1>6, <4>1, <4>2
      <3>5. ASSUME NEW k \in NonBlank(v) PROVE k \in Around(u, b, 3)
        <4>1. k \in 1..m /\ v[k] # "blank" BY <1>4
        <4>2. QED BY <1>6, <3>2, <4>1 DEF Around
      <3>6. QED BY <3>4, <3>5
    <2>3. \A k \in Around(u, b, 3) : u[k] \notin {"begin", "end"}
      BY <1>4, <1>5, <1>6, <2>2
    <2>4. OneBlock(u) /\ Kept(u) = Around(u, b, 3)
      <3>1. /\ u \in Seq(Line) /\ b \in 1..Len(u) /\ b + 2 \in 1..Len(u)
            /\ u[b] = "begin" /\ u[b + 1] = "body" /\ u[b + 2] = "end"
        BY <1>6, <2>1
      <3>2. QED BY ONLY <2>3, <3>1, BlockAt
    <2>5. \A k \in NonBlank(v) : u[k] = t[k] BY <1>2, <1>4, <1>6
    <2>6. m \in Nat /\ NonBlank(v) \in SUBSET (1..m) BY <1>2, <1>4
    <2>7. Selected(t, NonBlank(v)) = Selected(u, NonBlank(v))
      BY ONLY <2>5, <2>6, SameSelected
    <2>8. QED BY <1>2, <1>3, <2>2, <2>4, <2>7
  <1>7. CASE v = <<>>
    <2>1. Enabled(t) = Block
      <3>1. MarkerState(t) # "well_formed" OBVIOUS
      <3>2. QED BY <1>7, <3>1 DEF Enabled, v
    <2>2. m = 0 BY <1>7
    <2>3. Selected(Block, Kept(Block)) = Selected(t, Kept(t)) /\ OneBlock(Block)
      <3> DEFINE b == 1
      <3>1. /\ Block \in Seq(Line) /\ Len(Block) = b + 2 /\ Block[b] = "begin"
            /\ Block[b + 1] = "body" /\ Block[b + 2] = "end"
        BY BlockLines
      <3>2. /\ b \in Nat \ {0} /\ b > m /\ \A k \in 1..m : Block[k] = v[k]
            /\ \A k \in 1..(b - 1) : k > m => Block[k] = "blank"
        BY <2>2
      <3> HIDE DEF b, m
      <3>3. QED BY <1>6, <3>1, <3>2
    <2>4. QED BY <2>1, <2>3, UserLinesAre
  <1>8. CASE v # <<>>
    <2> DEFINE r == v \o <<"blank">>
               u == r \o Block
               b == m + 2
    <2>1. Enabled(t) = u
      <3>1. MarkerState(t) # "well_formed" OBVIOUS
      <3>2. QED BY <1>8, <3>1 DEF Enabled, v
    <2>2. /\ r \in Seq(Line) /\ Len(r) = m + 1 /\ r[m + 1] = "blank"
          /\ \A k \in 1..m : r[k] = v[k]
      BY <1>2 DEF Line
    <2> HIDE DEF r
    <2>3. /\ r \o Block \in Seq(Line) /\ Len(r \o Block) = Len(r) + Len(Block)
          /\ \A k \in 1..Len(r) : (r \o Block)[k] = r[k]
          /\ \A k \in 1..Len(Block) : (r \o Block)[Len(r) + k] = Block[k]
      <3>1. r \in Seq(Line) /\ Block \in Seq(Line) BY <2>2, BlockLines
      <3>2. QED BY ONLY <3>1, ConcatIs
    <2>4. /\ u \in Seq(Line) /\ Len(u) = m + 4 /\ \A k \in 1..(m + 1) : u[k] = r[k]
          /\ \A k \in 1..3 : u[m + 1 + k] = Block[k]
      <3> HIDE DEF m
      <3>1. Len(r) = m + 1 /\ Len(Block) = 3 /\ m \in Nat BY <1>2, <2>2, BlockLines
      <3>2. QED BY <2>3, <3>1
    <2> HIDE DEF u, m
    <2>5. m \in Nat /\ m + 1 + 1 = b /\ m + 1 + 2 = b + 1 /\ m + 1 + 3 = b + 2
      BY <1>2
    <2>6. u[b] = "begin" /\ u[b + 1] = "body" /\ u[b + 2] = "end"
      <3> HIDE DEF b
      <3>1. u[m + 1 + 1] = Block[1] /\ u[m + 1 + 2] = Block[2] /\ u[m + 1 + 3] = Block[3]
        BY <2>4
      <3>2. QED BY <2>5, <3>1, BlockLines
    <2>7. b \in Nat \ {0} /\ b > m /\ Len(u) = b + 2 BY <2>4, <2>5
    <2>8. \A k \in 1..m : u[k] = v[k]
      <3>1. \A k \in 1..m : k \in 1..(m + 1) BY <2>5
      <3>2. QED BY <2>2, <2>4, <3>1
    <2>9. \A k \in 1..(b - 1) : k > m => u[k] = "blank"
      <3>1. \A k \in 1..(b - 1) : k > m => k = m + 1 BY <2>5
      <3>2. u[m + 1] = "blank" BY <2>2, <2>4, <2>5
      <3> HIDE DEF b
      <3>3. QED BY <3>1, <3>2
    <2>10. Selected(u, Kept(u)) = Selected(t, Kept(t)) /\ OneBlock(u)
      <3> HIDE DEF b
      <3>1. u \in Seq(Line) BY <2>4
      <3>2. QED BY <1>6, <2>6, <2>7, <2>8, <2>9, <3>1
    <2>11. QED BY <2>1, <2>10, UserLinesAre
  <1>9. QED BY <1>7, <1>8

LEMMA DisabledKeeps ==
  ASSUME NEW t \in Seq(Line), MarkerState(t) = "well_formed"
  PROVE  UserLines(Disabled(t)) = UserLines(t) /\ NoBlock(Disabled(t))
  <1>1. PICK b \in 1..Len(t), e \in 1..Len(t) :
           /\ b < e /\ Positions(t, "begin") = {b} /\ Positions(t, "end") = {e}
           /\ Before(t) = SubSeq(t, 1, b - 1) /\ After(t) = SubSeq(t, e + 1, Len(t))
    BY LocatedAt
  <1> DEFINE X == <<"blank">>
             w == Replacing(t, b, e, X)
             n == Len(t)
             d == b - e
             x == 1
             z == Tidy(w)
  <1>2. Disabled(t) = z BY <1>1 DEF Disabled, Replacing
  <1>3. n \in Nat /\ b \in 1..n /\ e \in 1..n /\ b < e /\ t \in Seq(Line) BY <1>1
  <1>4. x \in Nat /\ x = Len(X) /\ X \in Seq(Line) /\ X[1] = "blank" BY DEF Line
  <1>5. Replaces(t, b, e, X, d, w)
    <2>1. Span(t, b, e) BY <1>1 DEF Span
    <2>2. d = b - 1 + Len(X) - e
      <3>1. Len(X) = 1 OBVIOUS
      <3> HIDE DEF X
      <3>2. QED BY <1>3, <3>1
    <2> HIDE DEF d, w, X
    <2>3. QED BY ONLY <1>4, <2>1, <2>2, ReplacingIs DEF w
  <1> HIDE DEF X
  <1>6. w \in Seq(Line) /\ Len(w) \in Nat /\ w[b] = "blank"
    <2> HIDE DEF w, d
    <2>0. 1 \in 1..Len(X)
      <3>1. Len(X) = 1 BY <1>4
      <3>2. QED BY <3>1
    <2>1. w[b - 1 + 1] = X[1]
      <3> HIDE DEF x
      <3>1. QED BY <2>0, <1>5 DEF Replaces
    <2>2. b - 1 + 1 = b BY <1>3
    <2>3. QED BY <1>4, <1>5, <2>1, <2>2 DEF Replaces
  <1>7. /\ Selected(t, Kept(t)) = Selected(w, Around(w, b, x))
        /\ \A k \in Around(w, b, x) : w[k] \notin {"begin", "end"}
    <2>1. Positions(t, "begin") = {b} /\ Positions(t, "end") = {e} BY <1>1
    <2>2. b \in 1..Len(t) /\ e \in 1..Len(t) OBVIOUS
    <2> HIDE DEF x, n
    <2>3. QED BY ONLY <1>3, <1>4, <2>1, <2>2, ReplacingKeeps
  <1> HIDE DEF w
  <1>8. Around(w, b, x) = NonBlank(w)
    <2>1. \A k \in 1..Len(w) : (b <= k /\ k < b + 1) => k = b BY <1>3, <1>6
    <2>2. DOMAIN w = 1..Len(w) BY <1>6
    <2>3. QED BY <1>6, <2>1, <2>2 DEF Around, NonBlank
  <1>9. /\ z \in Seq(Line) /\ Selected(z, NonBlank(z)) = Selected(w, NonBlank(w))
        /\ \A k \in NonBlank(z) : \E i \in NonBlank(w) : z[k] = w[i]
    BY ONLY <1>6, TidyKeeps
  <1> HIDE DEF z
  <1>10. NoBlock(z)
    <2>1. \A k \in NonBlank(z) : z[k] \notin {"begin", "end"} BY <1>7, <1>8, <1>9
    <2>2. \A k \in DOMAIN z : z[k] \in {"begin", "end"} => k \in NonBlank(z) BY DEF NonBlank
    <2>3. QED BY <2>1, <2>2 DEF NoBlock, Positions
  <1>11. Kept(z) = NonBlank(z)
    <2>1. Positions(z, "begin") = {} BY <1>10 DEF NoBlock
    <2>2. QED BY ONLY <1>9, <2>1, KeptNone
  <1>12. QED BY <1>2, <1>7, <1>8, <1>9, <1>10, <1>11, UserLinesAre

\* What an editor writes over the file it read.
LEMMA WrittenKeeps ==
  ASSUME BlockInv, NEW w \in Editors, WriteBlock(w), text = edit[w].text, text' # text
  PROVE  /\ UserLines(text') = UserLines(text)
         /\ IF edit[w].op = "enable" THEN OneBlock(text') ELSE NoBlock(text')
  <1> DEFINE t == text
  <1>1. t \in Seq(Line) /\ MarkerState(t) # "malformed"
    BY DEF BlockInv, BlockTypeOK, WriteBlock
  <1>2. MarkerState(t) \in {"absent", "well_formed"} BY <1>1 DEF MarkerState
  <1>3. CASE edit[w].op = "enable"
    <2>1. text' = Enabled(t) BY <1>3 DEF WriteBlock
    <2>2. UserLines(Enabled(t)) = UserLines(t) /\ OneBlock(Enabled(t))
      <3> HIDE DEF t
      <3>1. QED BY ONLY <1>1, <1>2, EnabledWell, EnabledNone
    <2>3. QED BY <1>3, <2>1, <2>2
  <1>4. CASE edit[w].op # "enable"
    <2>1. text' = Disabled(t) BY <1>4 DEF WriteBlock
    <2>2. MarkerState(t) # "absent" BY <2>1 DEF Disabled
    <2>3. UserLines(Disabled(t)) = UserLines(t) /\ NoBlock(Disabled(t))
      <3> HIDE DEF t
      <3>1. QED BY ONLY <1>1, <1>2, <2>2, DisabledKeeps
    <2>4. QED BY <1>4, <2>1, <2>3
  <1>5. QED BY <1>3, <1>4

\* The file has as many markers of each kind as it has blocks.
LEMMA MarkersCounted ==
  ASSUME NEW u, NEW line \in {"begin", "end"}
  PROVE  /\ OneBlock(u) => Cardinality(Positions(u, line)) = 1
         /\ NoBlock(u) => Cardinality(Positions(u, line)) = 0
  <1>1. ASSUME OneBlock(u) PROVE Cardinality(Positions(u, line)) = 1
    <2>1. \E i : Positions(u, line) = {i} BY <1>1 DEF OneBlock
    <2>2. QED BY <2>1, FS_Singleton
  <1>2. ASSUME NoBlock(u) PROVE Cardinality(Positions(u, line)) = 0
    <2>1. Positions(u, line) = {} BY <1>2 DEF NoBlock
    <2>2. QED BY <2>1, FS_EmptySet
  <1>3. QED BY <1>1, <1>2

LEMMA BlockStepKeeps ==
  ASSUME BlockInv, [BlockNext]_bvars, NEW w \in Editors,
         edit[w].op # "none", edit'[w].op = "none", text = edit[w].text, text' # text
  PROVE  /\ UserLines(text') = UserLines(text)
         /\ \A line \in {"begin", "end"} :
              Cardinality({i \in DOMAIN text' : text'[i] = line})
                = (IF edit[w].op = "enable" THEN 1 ELSE 0)
  <1>1. PICK v \in Editors : WriteBlock(v)
    BY DEF BlockNext, bvars, UserEdits, ReadBlock, AbandonBlock
  <1>2. v = w
    <2>1. edit' = [edit EXCEPT ![v] = NoEdit] BY <1>1 DEF WriteBlock
    <2>2. QED BY <2>1 DEF BlockInv
  <1>3. /\ UserLines(text') = UserLines(text)
        /\ IF edit[w].op = "enable" THEN OneBlock(text') ELSE NoBlock(text')
    BY <1>1, <1>2, WrittenKeeps
  <1>4. ASSUME NEW line \in {"begin", "end"}
        PROVE  Cardinality(Positions(text', line)) = (IF edit[w].op = "enable" THEN 1 ELSE 0)
    <2> DEFINE u == text'
    <2>1. /\ OneBlock(u) => Cardinality(Positions(u, line)) = 1
          /\ NoBlock(u) => Cardinality(Positions(u, line)) = 0
      <3> HIDE DEF u
      <3>1. QED BY ONLY <1>4, MarkersCounted
    <2>2. QED BY <1>3, <2>1
  <1>5. \A line : Positions(text', line) = {i \in DOMAIN text' : text'[i] = line}
    BY DEF Positions
  <1>6. QED BY <1>3, <1>4, <1>5

-----------------------------------------------------------------------------
(***************************************************************************)
(* The parts together: a step of one leaves the variables of the others.    *)
(***************************************************************************)

DesktopInv == part \in Parts /\ SupervisorInv /\ GuiInv /\ EntryInv /\ BlockInv

LEMMA DesktopInitInv == DesktopInit => DesktopInv
  BY SupervisorInitInv, GuiInitInv, EntryInitInv, BlockInitInv DEF DesktopInit, DesktopInv

LEMMA DesktopNextInv == DesktopInv /\ [DesktopNext]_dvars => DesktopInv'
  <1> SUFFICES ASSUME DesktopInv, [DesktopNext]_dvars PROVE DesktopInv' OBVIOUS
  <1>1. /\ [SupervisorNext]_uvars /\ [GuiNext]_gvars /\ [EntryNext]_avars
        /\ [BlockNext]_bvars /\ UNCHANGED part
    BY DEF DesktopNext, dvars, uvars, gvars, avars, bvars
  <1>2. SupervisorInv' /\ GuiInv' /\ EntryInv' /\ BlockInv'
    BY <1>1, SupervisorNextInv, GuiNextInv, EntryNextInv, BlockNextInv DEF DesktopInv
  <1>3. QED BY <1>1, <1>2 DEF DesktopInv

LEMMA DesktopInvariance == DesktopSpec => []DesktopInv
  BY DesktopInitInv, DesktopNextInv, PTL DEF DesktopSpec

\* The processes around the daemon and the files they share keep their types,
\* whatever an editor of the managed block read before the user changed the
\* file (write_instruction, write_config, run_impl, run_inner).
THEOREM DesktopTypes == DesktopSpec => []DesktopTypeOK
  <1>1. DesktopInv => DesktopTypeOK
    BY DEF DesktopInv, SupervisorInv, GuiInv, EntryInv, BlockInv, DesktopTypeOK
  <1>2. QED BY DesktopInvariance, <1>1, PTL

\* A configuration that status calls writable is one that install accepts, but
\* for the inline tables of TOML (can_write, apply_install_toml).
THEOREM StatusTrue == DesktopSpec => []StatusHolds
  <1>1. DesktopInv => StatusHolds
    BY DEF DesktopInv, EntryInv, EntryTypeOK, StatusHolds, CanWrite, Installable
  <1>2. QED BY DesktopInvariance, <1>1, PTL

\* An editor whose file nobody changed since it was read keeps every line of
\* the user's that is not blank, in order, however long the file is, and leaves
\* one managed block or none (upsert_block, remove_block).
THEOREM LinesSurvive == DesktopSpec => UserLinesKept
  <1>1. ASSUME DesktopInv, [DesktopNext]_dvars, NEW w \in Editors,
               edit[w].op # "none", edit'[w].op = "none", text = edit[w].text, text' # text
        PROVE  /\ UserLines(text') = UserLines(text)
               /\ \A line \in {"begin", "end"} :
                    Cardinality({i \in DOMAIN text' : text'[i] = line})
                      = (IF edit[w].op = "enable" THEN 1 ELSE 0)
    <2>1. BlockInv /\ [BlockNext]_bvars
      BY <1>1 DEF DesktopInv, DesktopNext, dvars, bvars
    <2>2. QED BY <1>1, <2>1, BlockStepKeeps
  <1>2. DesktopInv /\ [DesktopNext]_dvars =>
          [\A w \in Editors :
             edit[w].op # "none" /\ edit'[w].op = "none" /\ text = edit[w].text /\ text' # text
             => UserLines(text') = UserLines(text)
                /\ \A line \in {"begin", "end"} :
                     Cardinality({i \in DOMAIN text' : text'[i] = line})
                       = (IF edit[w].op = "enable" THEN 1 ELSE 0)]_bvars
    BY <1>1
  <1>3. QED BY DesktopInvariance, <1>2, PTL DEF DesktopSpec, UserLinesKept
=============================================================================
