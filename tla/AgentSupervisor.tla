------------------------- MODULE AgentSupervisor -------------------------
(***************************************************************************)
(* The `--task-supervisor` role of supervisor/mod.rs on Unix: an owner      *)
(* opens a control pipe for every tree it starts (SupervisedChild::spawn),  *)
(* the supervisor keeps the agent in a process group of its own, proxies    *)
(* its stdio, and ends the group when the pipe reports end of file.         *)
(*                                                                          *)
(* A tree is a supervisor, the agent it spawned (the leader of the group)   *)
(* and one helper the agent may start.  Threads of the owner spawn trees    *)
(* concurrently, so a child can be forked while the write end of another    *)
(* tree's pipe is not yet close-on-exec: it then carries that end, and so   *)
(* does everything it spawns.                                               *)
(***************************************************************************)
EXTENDS Integers, FiniteSets

CONSTANT Trees          \* the supervised trees the owner starts

VARIABLES owner,        \* the process that calls SupervisedChild::spawn
          tree          \* every tree: its owner's, supervisor's and agent's state

uvars == <<owner, tree>>

Spawning == {"none", "pipe", "flagged", "forked", "held", "dropped"}
Supervising == {"none", "spawning", "polling", "term", "joining", "done"}
Process == {"none", "alive", "termed", "dead"}
Members == {"leader", "helper"}

Tree == [spawn: Spawning, sup: Supervising, stop: BOOLEAN, leader: Process,
         helper: Process, deaf: SUBSET Members, carries: SUBSET Trees]

NoTree == [spawn |-> "none", sup |-> "none", stop |-> FALSE, leader |-> "none",
           helper |-> "none", deaf |-> {}, carries |-> {}]

SupervisorInit == owner = "up" /\ tree = [t \in Trees |-> NoTree]

Running(state) == state \in {"alive", "termed"}
Supervised(t) == tree[t].sup \notin {"none", "done"}
Processes(t) == Supervised(t) \/ Running(tree[t].leader) \/ Running(tree[t].helper)

\* Is some write end of t's pipe open in the owner?
OwnerHolds(t) == owner = "up" /\ tree[t].spawn \notin {"none", "dropped"}

\* A read of the control pipe returns 0 once nobody holds a write end.
ControlEof(t) ==
  /\ ~OwnerHolds(t)
  /\ \A u \in Trees : t \in tree[u].carries => ~Processes(u)

SetTree(t, row) == tree' = [tree EXCEPT ![t] = row]

-----------------------------------------------------------------------------
(* The owner: one thread per tree *)

\* pipe(): both ends are inheritable until fcntl.
MakePipe(t) ==
  /\ owner = "up" /\ tree[t].spawn = "none"
  /\ SetTree(t, [tree[t] EXCEPT !.spawn = "pipe"])
  /\ UNCHANGED owner

\* The write end becomes close-on-exec, the read end stays inheritable.
SetFlags(t) ==
  /\ owner = "up" /\ tree[t].spawn = "pipe"
  /\ SetTree(t, [tree[t] EXCEPT !.spawn = "flagged"])
  /\ UNCHANGED owner

\* Mutant: the write end is left inheritable, the supervisor's own included.
InheritableAll == {u \in Trees : tree[u].spawn \notin {"none", "dropped"}}

\* Write ends that a child forked now takes along.
Inheritable == {u \in Trees : tree[u].spawn = "pipe"}

\* cmd.spawn(): the supervisor starts.
Fork(t) ==
  /\ owner = "up" /\ tree[t].spawn = "flagged"
  /\ SetTree(t, [tree[t] EXCEPT !.spawn = "forked", !.sup = "spawning",
                                !.carries = Inheritable])
  /\ UNCHANGED owner

\* The owner closes its copy of the read end and keeps the write end.
KeepControl(t) ==
  /\ owner = "up" /\ tree[t].spawn = "forked"
  /\ SetTree(t, [tree[t] EXCEPT !.spawn = "held"])
  /\ UNCHANGED owner

\* The owner drops SupervisedChild.
DropControl(t) ==
  /\ owner = "up" /\ tree[t].spawn = "held"
  /\ SetTree(t, [tree[t] EXCEPT !.spawn = "dropped"])
  /\ UNCHANGED owner

OwnerDies == owner = "up" /\ owner' = "dead" /\ UNCHANGED tree

-----------------------------------------------------------------------------
(* The supervisor *)

\* spawn_managed puts the agent into a group of its own; which members
\* ignore SIGTERM is theirs to choose.
SpawnManaged(t) ==
  /\ tree[t].sup = "spawning"
  /\ \/ \E deaf \in SUBSET Members :
          SetTree(t, [tree[t] EXCEPT !.sup = "polling", !.leader = "alive", !.deaf = deaf])
     \/ SetTree(t, [tree[t] EXCEPT !.sup = "done"])
  /\ UNCHANGED owner

\* watch_control_eof, a thread of its own.
WatchControl(t) ==
  /\ tree[t].sup = "polling" /\ ~tree[t].stop /\ ControlEof(t)
  /\ SetTree(t, [tree[t] EXCEPT !.stop = TRUE])
  /\ UNCHANGED owner

Termed(state) == IF state = "alive" THEN "termed" ELSE state
Killed(state) == IF Running(state) THEN "dead" ELSE state

\* The loop of run_inner sees the flag first: SIGTERM to the group.
Terminate(t) ==
  /\ tree[t].sup = "polling" /\ tree[t].stop
  /\ SetTree(t, [tree[t] EXCEPT !.sup = "term", !.leader = Termed(@), !.helper = Termed(@)])
  /\ UNCHANGED owner

\* Mutant: the supervisor trusts the SIGTERM and never looks again.
TerminateOnly(t) ==
  /\ tree[t].sup = "term"
  /\ SetTree(t, [tree[t] EXCEPT !.sup = "joining"])
  /\ UNCHANGED owner

\* 500 ms later: a group whose leader is gone is left alone, any other gets
\* SIGKILL.
AfterGrace(t) ==
  /\ tree[t].sup = "term"
  /\ \/ /\ tree[t].leader = "dead"
        /\ SetTree(t, [tree[t] EXCEPT !.sup = "joining"])
     \/ /\ Running(tree[t].leader)
        /\ SetTree(t, [tree[t] EXCEPT !.sup = "joining", !.leader = "dead", !.helper = Killed(@)])
  /\ UNCHANGED owner

\* try_wait finds the agent gone before anybody asked.
SeeExit(t) ==
  /\ tree[t].sup = "polling" /\ ~tree[t].stop /\ tree[t].leader = "dead"
  /\ SetTree(t, [tree[t] EXCEPT !.sup = "joining"])
  /\ UNCHANGED owner

\* The stdin thread ends with the owner's end of stdin, the output threads
\* when no member of the group holds the pipes any more.
Join(t) ==
  /\ tree[t].sup = "joining" /\ (owner = "dead" \/ tree[t].spawn = "dropped")
  /\ ~Running(tree[t].leader) /\ ~Running(tree[t].helper)
  /\ SetTree(t, [tree[t] EXCEPT !.sup = "done"])
  /\ UNCHANGED owner

-----------------------------------------------------------------------------
(* The agent and its helper *)

SpawnHelper(t) ==
  /\ tree[t].leader = "alive" /\ tree[t].helper = "none"
  /\ SetTree(t, [tree[t] EXCEPT !.helper = "alive"])
  /\ UNCHANGED owner

Obey(t, member) ==
  /\ tree[t][member] = "termed" /\ member \notin tree[t].deaf
  /\ SetTree(t, [tree[t] EXCEPT ![member] = "dead"])
  /\ UNCHANGED owner

EndsAlone(t, member) ==
  /\ tree[t][member] = "alive"
  /\ SetTree(t, [tree[t] EXCEPT ![member] = "dead"])
  /\ UNCHANGED owner

-----------------------------------------------------------------------------
OwnerStep(t) == MakePipe(t) \/ SetFlags(t) \/ Fork(t) \/ KeepControl(t) \/ DropControl(t)
Supervise(t) ==
  SpawnManaged(t) \/ WatchControl(t) \/ Terminate(t) \/ AfterGrace(t) \/ SeeExit(t) \/ Join(t)
GroupStep(t) == SpawnHelper(t) \/ \E member \in Members : Obey(t, member) \/ EndsAlone(t, member)

SupervisorNext == OwnerDies \/ \E t \in Trees : OwnerStep(t) \/ Supervise(t) \/ GroupStep(t)

SupervisorSpec == SupervisorInit /\ [][SupervisorNext]_uvars

\* The supervisor's threads are scheduled; a process that does not ignore
\* SIGTERM ends of it.  Neither the owner nor the agent owes anything else.
SupervisorFairness ==
  \A t \in Trees : /\ WF_uvars(Supervise(t))
                   /\ \A member \in Members : WF_uvars(Obey(t, member))

-----------------------------------------------------------------------------
SupervisorTypeOK == owner \in {"up", "dead"} /\ tree \in [Trees -> Tree]

\* A helper that ignored the SIGTERM its leader died of, or was left by a
\* leader that ended alone.
Outlived(t) == ~Running(tree[t].leader) /\ Running(tree[t].helper)

\* Such a helper is left in a tree that holds t's pipe open, itself or by way
\* of the pipes it holds: in every set with t and whoever carries one of it.
HeldUp(t) ==
  \A S \in SUBSET Trees :
    /\ t \in S
    /\ \A s \in S, u \in Trees : s \in tree[u].carries => u \in S
    => \E u \in S : Outlived(u)

(***************************************************************************)
(* Once the owner is dead every agent ends and stays gone, although         *)
(* supervisors forked while a pipe was being set up carry other trees'      *)
(* write ends and postpone their end of file.  Excepted is an agent whose   *)
(* pipe a tree with a helper left behind holds open.  Of helpers it says    *)
(* nothing: one that outlives its leader is signalled no more (mod.rs:186), *)
(* although supervisor/mod.rs:4-5 has the whole tree killed.                *)
(***************************************************************************)
AgentsFollowOwner ==
  <>[](owner = "dead" => \A t \in Trees : Running(tree[t].leader) => HeldUp(t))

(***************************************************************************)
(* There is no ring of supervisors that hold each other's control pipes     *)
(* open, none holds its own, so the pipes close one after the other: any    *)
(* set of trees has one that carries no pipe of the set.                    *)
(***************************************************************************)
CarryingOneWay ==
  \A S \in (SUBSET Trees) \ {{}} : \E t \in S : tree[t].carries \cap S = {}
=============================================================================
