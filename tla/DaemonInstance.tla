--------------------------- MODULE DaemonInstance ---------------------------
(***************************************************************************)
(* The one daemon of a user (daemon/lifecycle.rs, run_async and the start, *)
(* stop, restart and status calls of daemon/mod.rs, ensure_daemon and the  *)
(* hello of ipc/client.rs): processes that compete for daemon.lock, and    *)
(* clients that read daemon.json, probe the process and the socket, and    *)
(* remove both files when they look stale.                                 *)
(*                                                                         *)
(* The Unix branch: the endpoint is a socket file, SIGTERM has no handler  *)
(* and kills. A pid is not used again. Every system call is a step.        *)
(***************************************************************************)
EXTENDS Integers

CONSTANTS
    Procs,      \* daemon processes that may be spawned
    Clients,    \* programs that manage the daemon
    BinaryOf,   \* the fingerprint of each process' and client's executable
    Allowed,    \* [Clients -> SUBSET Operation]
    MaxCalls,   \* bound on the calls of a client
    MaxCrashes, \* bound on the daemons that die unasked
    None

(* daemon start, stop, restart and status, and request_blocking.           *)
Operation == {"start", "stop", "restart", "status", "request"}

ASSUME InstanceAssumption ==
    /\ None \notin Procs
    /\ Allowed \in [Clients -> SUBSET Operation]
    /\ MaxCalls \in Nat
    /\ MaxCrashes \in Nat

VARIABLES
    daemon,     \* [Procs -> DaemonPc]
    lock,       \* the process that holds daemon.lock
    sock,       \* the process whose socket is at the endpoint's path
    meta,       \* the process daemon.json names
    signalled,  \* processes sent SIGTERM
    client,     \* [Clients -> Client]
    crashes

files == <<lock, sock, meta>>
vars == <<daemon, lock, sock, meta, signalled, client, crashes>>

-----------------------------------------------------------------------------
DaemonPc == {"unborn", "starting", "clearing", "binding", "registering",
             "serving", "draining", "unlocking", "exiting", "closed", "dead"}

(* From the bind until run_async returns, which is after it dropped the
   lock: connections succeed whether or not the accept loop runs.          *)
Listening(p) ==
    daemon[p] \in {"registering", "serving", "draining", "unlocking", "exiting"}

(* process_is_live: a zombie does not count.                               *)
Live(p) == daemon[p] \notin {"unborn", "dead"}

(* A call is a list of phases. All but kill, await, spawn and hello inspect
   the daemon, and remove the files if their rule says so.                 *)
Phase == {"idle", "restart_reclaim", "restart_check", "stop_reclaim", "stop_check",
          "kill", "await", "start_reclaim", "start_check", "spawn", "status_check",
          "hello"}

(* The next system call of the phase.                                      *)
At == {"exists", "open", "live", "connect", "clear_meta", "clear_sock"}

Client == [op : Operation, phase : Phase, at : At, seen : Procs \cup {None},
           calls : Nat]
NoClient == [op |-> "status", phase |-> "idle", at |-> "exists", seen |-> None,
             calls |-> 0]

(* Absent, stale, running, or an error: the file went away during the read. *)
Verdict == {"absent", "stale", "running", "vanished"}

(* Every variable has its type: the shape of the two files, the lock, the
   processes and the clients of daemon/lifecycle.rs.                       *)
TypeOK ==
    /\ daemon \in [Procs -> DaemonPc]
    /\ lock \in Procs \cup {None}
    /\ sock \in Procs \cup {None}
    /\ meta \in Procs \cup {None}
    /\ signalled \in SUBSET Procs
    /\ client \in [Clients -> Client]
    /\ crashes \in 0..MaxCrashes

Init ==
    /\ daemon = [p \in Procs |-> "unborn"]
    /\ lock = None /\ sock = None /\ meta = None
    /\ signalled = {}
    /\ client = [c \in Clients |-> NoClient]
    /\ crashes = 0

-----------------------------------------------------------------------------
(* A daemon process.                                                       *)

Move(p, from, to) ==
    /\ daemon[p] = from
    /\ daemon' = [daemon EXCEPT ![p] = to]

(* Mutant: the lock is opened and not contended for.                       *)
LockBlindly(p) ==
    /\ Move(p, "starting", "clearing")
    /\ lock' = p
    /\ UNCHANGED <<sock, meta, signalled, client, crashes>>

(* acquire_lock: a second daemon ends with "already running".              *)
Lock(p) ==
    /\ \/ lock = None /\ Move(p, "starting", "clearing") /\ lock' = p
       \/ lock # None /\ Move(p, "starting", "dead") /\ UNCHANGED lock
    /\ UNCHANGED <<sock, meta, signalled, client, crashes>>

(* Mutant: daemon.json is written before the endpoint is bound.            *)
RegisterEarly(p) ==
    /\ Move(p, "clearing", "binding")
    /\ sock' = None
    /\ meta' = p
    /\ UNCHANGED <<lock, signalled, client, crashes>>

RemoveStaleEndpoint(p) ==
    /\ Move(p, "clearing", "binding")
    /\ sock' = None
    /\ UNCHANGED <<lock, meta, signalled, client, crashes>>

(* bind_socket removes what is at the path first.                          *)
Bind(p) ==
    /\ Move(p, "binding", "registering")
    /\ sock' = p
    /\ UNCHANGED <<lock, meta, signalled, client, crashes>>

Register(p) ==
    /\ Move(p, "registering", "serving")
    /\ meta' = p
    /\ UNCHANGED <<lock, sock, signalled, client, crashes>>

(* After the accept loop daemon.json is written again, as draining.        *)
Drain(p) ==
    /\ Move(p, "draining", "unlocking")
    /\ meta' = p
    /\ UNCHANGED <<lock, sock, signalled, client, crashes>>

Unlock(p) ==
    /\ Move(p, "unlocking", "exiting")
    /\ lock' = None
    /\ UNCHANGED <<sock, meta, signalled, client, crashes>>

CloseListener(p) ==
    /\ Move(p, "exiting", "closed")
    /\ UNCHANGED <<files, signalled, client, crashes>>

(* The runtime is dropped, which waits for its blocking work.              *)
Exit(p) ==
    /\ Move(p, "closed", "dead")
    /\ UNCHANGED <<files, signalled, client, crashes>>

(* The kernel releases the lock of a process that dies; its files stay.    *)
Die(p) ==
    /\ Live(p)
    /\ daemon' = [daemon EXCEPT ![p] = "dead"]
    /\ lock' = IF lock = p THEN None ELSE lock
    /\ UNCHANGED <<sock, meta, signalled, client>>

DieOfSignal(p) == p \in signalled /\ Die(p) /\ UNCHANGED crashes

(* A crash, or an error of run_async before the accept loop.               *)
DieUnasked(p) == crashes < MaxCrashes /\ Die(p) /\ crashes' = crashes + 1

DaemonStep(p) ==
    \/ Lock(p) \/ RemoveStaleEndpoint(p) \/ Bind(p) \/ Register(p)
    \/ Drain(p) \/ Unlock(p) \/ CloseListener(p) \/ Exit(p) \/ DieOfSignal(p)

-----------------------------------------------------------------------------
(* A client.                                                               *)

FirstPhase(op) ==
    CASE op = "restart" -> "restart_reclaim"
      [] op = "stop"    -> "stop_reclaim"
      [] op = "status"  -> "status_check"
      [] OTHER          -> "start_reclaim"

AfterStop(op)  == IF op = "stop" THEN "idle" ELSE "start_reclaim"
AfterStart(op) == IF op = "request" THEN "hello" ELSE "idle"

(* prepare_restart ignores what its reclaim and its stop return, and
   prepare_detached_start what its reclaim does.                           *)
NextPhase(op, phase, verdict) ==
    CASE phase = "restart_reclaim" -> "restart_check"
      [] phase = "restart_check"   -> CASE verdict = "running"  -> "stop_reclaim"
                                        [] verdict = "vanished" -> "idle"
                                        [] OTHER                -> "start_reclaim"
      [] phase = "stop_reclaim"    -> IF verdict \in {"stale", "vanished"}
                                      THEN AfterStop(op) ELSE "stop_check"
      [] phase = "stop_check"      -> IF verdict = "running" THEN "kill"
                                                             ELSE AfterStop(op)
      [] phase \in {"kill", "await"} -> AfterStop(op)
      [] phase = "start_reclaim"   -> "start_check"
      [] phase = "start_check"     -> CASE verdict = "running"  -> AfterStart(op)
                                        [] verdict = "vanished" -> "idle"
                                        [] OTHER                -> "spawn"
      [] OTHER                     -> "idle"

Stepped(k, at) == [k EXCEPT !.at = at]
Step(c, at) == client' = [client EXCEPT ![c] = Stepped(@, at)]

(* Begin a phase; kill and await go on with the process just inspected.    *)
Entered(k, phase) ==
    [k EXCEPT !.phase = phase, !.at = "exists",
              !.seen = IF phase \in {"kill", "await"} THEN @ ELSE None]
Enter(c, phase) == client' = [client EXCEPT ![c] = Entered(@, phase)]

(* A stale verdict removes the files, except in the second look of
   prepare_detached_start, which only decides to spawn.                    *)
Conclude(c, verdict) ==
    IF verdict = "stale" /\ client[c].phase # "start_check"
    THEN Step(c, "clear_meta")
    ELSE Enter(c, NextPhase(client[c].op, client[c].phase, verdict))

Called(k, op) == [k EXCEPT !.op = op, !.phase = FirstPhase(op), !.calls = @ + 1]

Call(c, op) ==
    /\ client[c].phase = "idle"
    /\ op \in Allowed[c]
    /\ client[c].calls < MaxCalls
    /\ client' = [client EXCEPT ![c] = Called(@, op)]
    /\ UNCHANGED <<daemon, files, signalled, crashes>>

Inspecting(c, at) ==
    /\ client[c].phase \notin {"idle", "kill", "await", "spawn", "hello"}
    /\ client[c].at = at

(* read_meta: the path exists, and then is read.                           *)
FindMeta(c) ==
    /\ Inspecting(c, "exists")
    /\ IF meta = None THEN Conclude(c, "absent") ELSE Step(c, "open")
    /\ UNCHANGED <<daemon, files, signalled, crashes>>

ReadMeta(c) ==
    /\ Inspecting(c, "open")
    /\ IF meta = None
       THEN Conclude(c, "vanished")
       ELSE client' = [client EXCEPT ![c] = [@ EXCEPT !.at = "live", !.seen = meta]]
    /\ UNCHANGED <<daemon, files, signalled, crashes>>

ProbeProcess(c) ==
    /\ Inspecting(c, "live")
    /\ IF Live(client[c].seen) THEN Step(c, "connect") ELSE Conclude(c, "stale")
    /\ UNCHANGED <<daemon, files, signalled, crashes>>

(* Any listener at the path will do.                                       *)
ProbeEndpoint(c) ==
    /\ Inspecting(c, "connect")
    /\ Conclude(c, IF sock # None /\ Listening(sock) THEN "running" ELSE "stale")
    /\ UNCHANGED <<daemon, files, signalled, crashes>>

(* clear_daemon_runtime_files: first daemon.json, then the socket.         *)
ClearMeta(c) ==
    /\ client[c].at = "clear_meta"
    /\ meta' = None
    /\ Step(c, "clear_sock")
    /\ UNCHANGED <<daemon, lock, sock, signalled, crashes>>

ClearSock(c) ==
    /\ client[c].at = "clear_sock"
    /\ sock' = None
    /\ Enter(c, NextPhase(client[c].op, client[c].phase, "stale"))
    /\ UNCHANGED <<daemon, lock, meta, signalled, crashes>>

(* Mutant: the pid is read again, and not checked.                          *)
KillNamed(c) ==
    /\ client[c].phase = "kill"
    /\ signalled' = signalled \cup {meta}
    /\ Enter(c, "await")
    /\ UNCHANGED <<daemon, files, crashes>>

(* SIGTERM. It also succeeds on a zombie; no such process is an error that
   ends the stop.                                                          *)
Kill(c) ==
    /\ client[c].phase = "kill"
    /\ \/ /\ signalled' = signalled \cup {client[c].seen}
          /\ Enter(c, "await")
       \/ /\ ~Live(client[c].seen)
          /\ Enter(c, NextPhase(client[c].op, "kill", "stale"))
          /\ UNCHANGED signalled
    /\ UNCHANGED <<daemon, files, crashes>>

(* The process is gone, or is sent SIGKILL after 5 s; if it went just
   before, that signal fails and the files are left.                       *)
Await(c) ==
    /\ client[c].phase = "await" /\ client[c].at = "exists"
    /\ \/ Step(c, "clear_meta")
       \/ /\ ~Live(client[c].seen)
          /\ Enter(c, NextPhase(client[c].op, "await", "stale"))
    /\ UNCHANGED <<daemon, files, signalled, crashes>>

(* spawn_detached runs the client's own executable. The polls that follow
   only read; they end when a daemon answers, after 5 s, or with an error.  *)
Spawn(c, p) ==
    /\ client[c].phase = "spawn"
    /\ BinaryOf[p] = BinaryOf[c]
    /\ Move(p, "unborn", "starting")
    /\ \E phase \in {AfterStart(client[c].op), "idle"} : Enter(c, phase)
    /\ UNCHANGED <<files, signalled, crashes>>

Connect(c) ==
    /\ client[c].phase = "hello" /\ client[c].at = "exists"
    /\ IF sock # None /\ Listening(sock)
       THEN client' = [client EXCEPT ![c] = [@ EXCEPT !.at = "connect", !.seen = sock]]
       ELSE Enter(c, "idle")
    /\ UNCHANGED <<daemon, files, signalled, crashes>>

(* The hello is answered Ok, and the request follows; or the fingerprints
   differ, the replacement barrier (whose counters nothing raises) lets the
   daemon leave its accept loop, and the client restarts it and tries again
   (its next call); or the connection is lost.                             *)
Restarting(c, p) ==
    /\ BinaryOf[p] # BinaryOf[c]
    /\ daemon[p] \in {"serving", "draining", "unlocking", "exiting", "closed"}
    /\ daemon' = [daemon EXCEPT ![p] = IF @ = "serving" THEN "draining" ELSE @]
    /\ client' = [client EXCEPT ![c] =
           [@ EXCEPT !.op = "restart", !.phase = "restart_reclaim",
                     !.at = "exists", !.seen = None]]

Hello(c) ==
    /\ client[c].phase = "hello" /\ client[c].at = "connect"
    /\ \/ Restarting(c, client[c].seen)
       \/ /\ \/ BinaryOf[client[c].seen] = BinaryOf[c] /\ daemon[client[c].seen] = "serving"
             \/ daemon[client[c].seen] \notin {"registering", "serving"}
          /\ Enter(c, "idle")
          /\ UNCHANGED daemon
    /\ UNCHANGED <<files, signalled, crashes>>

ClientStep(c) ==
    \/ FindMeta(c) \/ ReadMeta(c) \/ ProbeProcess(c) \/ ProbeEndpoint(c)
    \/ ClearMeta(c) \/ ClearSock(c) \/ Kill(c) \/ Await(c)
    \/ \E p \in Procs : Spawn(c, p)
    \/ Connect(c) \/ Hello(c)

Next ==
    \/ \E p \in Procs : DaemonStep(p) \/ DieUnasked(p)
    \/ \E c \in Clients : ClientStep(c) \/ \E op \in Operation : Call(c, op)

Spec == Init /\ [][Next]_vars

(* Processes run. Nobody has to make a call, and no daemon has to crash.   *)
FairSpec ==
    /\ Spec
    /\ \A p \in Procs : WF_vars(DaemonStep(p))
    /\ \A c \in Clients : WF_vars(ClientStep(c))

-----------------------------------------------------------------------------
(* A daemon that serves holds the lock, and the endpoint and daemon.json are
   its own or missing: whatever the clients remove, and whichever processes
   start or drain beside it, a client that connects or reads the pid never
   meets another daemon's. (Holding the lock is what makes it safe for
   run_async to remove the endpoint without looking.)                      *)
ServingOwnsFiles ==
    \A p \in Procs : daemon[p] = "serving" =>
        lock = p /\ sock \in {p, None} /\ meta \in {p, None}

(* stop and restart never signal a daemon that is still starting, even when
   the endpoint they probed belongs to another process than the pid they
   read: they can only end one that has served.                            *)
StopSparesStarting ==
    [][\A p \in signalled' \ signalled :
         daemon[p] \in {"serving", "draining", "unlocking", "exiting", "closed", "dead"}]_vars

Reachable(p) == daemon[p] = "serving" /\ sock = p /\ meta = p

(* "Ensure a daemon is reachable, starting one if needed" (ipc/client.rs:18):
   a client that finds none and spawns one is followed by a reachable
   daemon, unless all of them died. Refuted: files judged stale are removed
   after another client's daemon wrote its own.                            *)
EnsureReaches ==
    \A c \in Clients :
        client[c].phase = "spawn"
            ~> (\E p \in Procs : Reachable(p)) \/ (\A p \in Procs : ~Live(p))
=============================================================================
