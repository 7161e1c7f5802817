------------------------ MODULE DaemonInstanceProofs ------------------------
(***************************************************************************)
(* The inductive invariant of DaemonInstance and what follows from it, for *)
(* every number of daemons, clients, calls and crashes.                    *)
(***************************************************************************)
EXTENDS DaemonInstance, TLAPS

-----------------------------------------------------------------------------
(* The inductive invariant, in named parts.                                *)

Locked == {"clearing", "binding", "registering", "serving", "draining", "unlocking"}
Bound == {"registering", "serving", "draining", "unlocking"}
Named == {"serving", "draining", "unlocking"}
Served == {"serving", "draining", "unlocking", "exiting", "closed", "dead"}

(* From the lock on, a daemon holds it; from the bind on, the endpoint is
   its own or gone; from daemon.json on, so is daemon.json.                *)
HolderOK(p) ==
    /\ daemon[p] \in Locked => lock = p
    /\ daemon[p] \in Bound => sock \in {p, None}
    /\ daemon[p] \in Named => meta \in {p, None}
HoldersOK == \A p \in Procs : HolderOK(p)

(* daemon.json names a process that has served.                            *)
MetaOK == meta # None => daemon[meta] \in Served

(* So does what a client has read from it.                                 *)
SeenOK(c) ==
    /\ (client[c].at \in {"live", "connect"} \/ client[c].phase \in {"kill", "await"})
          => client[c].seen \in Procs
    /\ (client[c].phase # "hello" /\ client[c].seen # None)
          => daemon[client[c].seen] \in Served
ClientsOK == \A c \in Clients : SeenOK(c)

IInv == TypeOK /\ HoldersOK /\ MetaOK /\ ClientsOK

-----------------------------------------------------------------------------
(* The client's moves.                                                     *)

Deciding == {"restart_reclaim", "restart_check", "stop_reclaim", "stop_check",
             "start_reclaim", "start_check", "status_check"}

(* Every verdict leads to a phase; only a daemon found running is killed,
   and none is awaited before.                                             *)
LEMMA PhaseTypes ==
    ASSUME NEW op \in Operation, NEW phase \in Phase, NEW verdict \in Verdict
    PROVE  /\ FirstPhase(op) \in Deciding
           /\ NextPhase(op, phase, verdict) \in Phase
           /\ NextPhase(op, phase, verdict) # "await"
           /\ NextPhase(op, phase, verdict) = "kill" => verdict = "running"
  BY DEF FirstPhase, NextPhase, AfterStop, AfterStart, Operation, Phase, Verdict,
         Deciding

(* What a client becomes by Step, by Enter and by Conclude.                *)
LEMMA EnteredFields ==
    ASSUME NEW k \in Client, NEW phase \in Phase
    PROVE  /\ Entered(k, phase) \in Client
           /\ Entered(k, phase).phase = phase
           /\ Entered(k, phase).at = "exists"
           /\ Entered(k, phase).seen \in {k.seen, None}
           /\ phase \in {"kill", "await"} => Entered(k, phase).seen = k.seen
           /\ phase \notin {"kill", "await"} => Entered(k, phase).seen = None
  BY DEF Entered, Client, At

LEMMA SteppedFields ==
    ASSUME NEW k \in Client, NEW at \in At
    PROVE  /\ Stepped(k, at) \in Client
           /\ Stepped(k, at).phase = k.phase
           /\ Stepped(k, at).at = at
           /\ Stepped(k, at).seen = k.seen
  BY DEF Stepped, Client, At

(* A client whose new record refers to a process that has served, or to
   none, keeps SeenOK whatever the daemons do meanwhile: a process that has
   served has served for good.                                             *)
SeenFits(k) ==
    /\ (k.at \in {"live", "connect"} \/ k.phase \in {"kill", "await"}) => k.seen \in Procs
    /\ (k.phase # "hello" /\ k.seen # None) => daemon[k.seen] \in Served

KeepsServed == \A p \in Procs : daemon[p] \in Served => daemon'[p] \in Served

LEMMA ClientMoves ==
    ASSUME TypeOK, ClientsOK, NEW c \in Clients, NEW k \in Client, SeenFits(k),
           client' = [client EXCEPT ![c] = k], KeepsServed
    PROVE  client' \in [Clients -> Client] /\ ClientsOK'
  <1>1. client' \in [Clients -> Client]
    BY DEF TypeOK
  <1>2. ASSUME NEW d \in Clients PROVE SeenOK(d)'
    <2> DEFINE e == IF d = c THEN k ELSE client[d]
    <2>1. client'[d] = e
      BY DEF TypeOK
    <2>2. SeenFits(e)
      BY DEF ClientsOK, SeenOK, SeenFits
    <2>3. e \in Client /\ e.seen \in Procs \cup {None}
      BY DEF TypeOK, Client
    <2> HIDE DEF e
    <2> QED BY <2>1, <2>2, <2>3 DEF SeenOK, SeenFits, KeepsServed
  <1> QED BY <1>1, <1>2 DEF ClientsOK

(* Entering a phase: kill and await need the process just inspected.       *)
LEMMA EnterMoves ==
    ASSUME TypeOK, ClientsOK, NEW c \in Clients, NEW phase \in Phase,
           Enter(c, phase), KeepsServed,
           phase \in {"kill", "await"} =>
               client[c].seen \in Procs /\ client[c].phase # "hello"
    PROVE  client' \in [Clients -> Client] /\ ClientsOK'
  <1> DEFINE k == Entered(client[c], phase)
  <1>1. client[c] \in Client /\ SeenOK(c)
    BY DEF TypeOK, ClientsOK
  <1>2. client' = [client EXCEPT ![c] = k]
    BY DEF Enter
  <1>3. /\ k \in Client /\ k.phase = phase /\ k.at = "exists"
        /\ phase \in {"kill", "await"} => k.seen = client[c].seen
        /\ phase \notin {"kill", "await"} => k.seen = None
    BY <1>1, EnteredFields
  <1> HIDE DEF k
  <1>4. SeenFits(k)
    BY <1>1, <1>3 DEF SeenFits, SeenOK
  <1> QED BY <1>2, <1>3, <1>4, ClientMoves

(* Going on inside a phase: the probes need the process read.              *)
LEMMA StepMoves ==
    ASSUME TypeOK, ClientsOK, NEW c \in Clients, NEW at \in At,
           Step(c, at), KeepsServed,
           at \in {"live", "connect"} => client[c].seen \in Procs
    PROVE  client' \in [Clients -> Client] /\ ClientsOK'
  <1> DEFINE k == Stepped(client[c], at)
  <1>1. client[c] \in Client /\ SeenOK(c)
    BY DEF TypeOK, ClientsOK
  <1>2. client' = [client EXCEPT ![c] = k]
    BY DEF Step
  <1>3. k \in Client /\ SeenFits(k)
    BY <1>1, SteppedFields DEF SeenFits, SeenOK
  <1> HIDE DEF k
  <1> QED BY <1>2, <1>3, ClientMoves

LEMMA ConcludeMoves ==
    ASSUME TypeOK, ClientsOK, NEW c \in Clients, NEW verdict \in Verdict,
           Conclude(c, verdict), KeepsServed,
           client[c].phase # "hello",
           verdict = "running" => client[c].seen \in Procs
    PROVE  client' \in [Clients -> Client] /\ ClientsOK'
  <1> DEFINE next == NextPhase(client[c].op, client[c].phase, verdict)
  <1>1. client[c] \in Client
    BY DEF TypeOK
  <1>2. client[c].op \in Operation /\ client[c].phase \in Phase
    BY <1>1 DEF Client
  <1>3. /\ next \in Phase /\ next # "await"
        /\ next = "kill" => verdict = "running"
    BY <1>2, PhaseTypes
  <1>4. CASE Step(c, "clear_meta")
    BY <1>4, StepMoves DEF At
  <1>5. CASE Enter(c, next)
    <2> HIDE DEF next
    <2> QED BY <1>3, <1>5, EnterMoves
  <1> QED BY <1>4, <1>5 DEF Conclude

-----------------------------------------------------------------------------
(* The steps of a daemon.                                                  *)

LEMMA DaemonStepKeeps ==
    ASSUME IInv, NEW p \in Procs, DaemonStep(p) \/ DieUnasked(p)
    PROVE  IInv'
  <1> USE InstanceAssumption
  <1>1. UNCHANGED client
    BY DEF DaemonStep, Lock, RemoveStaleEndpoint, Bind, Register, Drain, Unlock,
           CloseListener, Exit, DieOfSignal, DieUnasked, Die
  <1>2. TypeOK'
    BY DEF IInv, TypeOK, DaemonPc, Live, Move, files, DaemonStep, Lock,
           RemoveStaleEndpoint, Bind, Register, Drain, Unlock, CloseListener, Exit,
           DieOfSignal, DieUnasked, Die
  <1>3. KeepsServed /\ HoldersOK' /\ MetaOK'
    <2>1. CASE Lock(p)
      BY <2>1 DEF IInv, TypeOK, DaemonPc, Move, Lock, KeepsServed, HoldersOK,
                  HolderOK, MetaOK, Locked, Bound, Named, Served
    <2>2. CASE RemoveStaleEndpoint(p)
      BY <2>2 DEF IInv, TypeOK, DaemonPc, Move, RemoveStaleEndpoint, KeepsServed,
                  HoldersOK, HolderOK, MetaOK, Locked, Bound, Named, Served
    <2>3. CASE Bind(p)
      BY <2>3 DEF IInv, TypeOK, DaemonPc, Move, Bind, KeepsServed, HoldersOK,
                  HolderOK, MetaOK, Locked, Bound, Named, Served
    <2>4. CASE Register(p)
      BY <2>4 DEF IInv, TypeOK, DaemonPc, Move, Register, KeepsServed, HoldersOK,
                  HolderOK, MetaOK, Locked, Bound, Named, Served
    <2>5. CASE Drain(p)
      BY <2>5 DEF IInv, TypeOK, DaemonPc, Move, Drain, KeepsServed, HoldersOK,
                  HolderOK, MetaOK, Locked, Bound, Named, Served
    <2>6. CASE Unlock(p)
      BY <2>6 DEF IInv, TypeOK, DaemonPc, Move, Unlock, KeepsServed, HoldersOK,
                  HolderOK, MetaOK, Locked, Bound, Named, Served
    <2>7. CASE CloseListener(p) \/ Exit(p)
      BY <2>7 DEF IInv, TypeOK, DaemonPc, Move, CloseListener, Exit, files,
                  KeepsServed, HoldersOK, HolderOK, MetaOK, Locked, Bound, Named,
                  Served
    <2>8. CASE Die(p)
      BY <2>8 DEF IInv, TypeOK, DaemonPc, Die, Live, KeepsServed, HoldersOK,
                  HolderOK, MetaOK, Locked, Bound, Named, Served
    <2> QED BY <2>1, <2>2, <2>3, <2>4, <2>5, <2>6, <2>7, <2>8
            DEF DaemonStep, DieOfSignal, DieUnasked
  <1>4. ClientsOK'
    <2>1. ASSUME NEW c \in Clients PROVE SeenOK(c)'
      <3>1. SeenOK(c) /\ client[c].seen \in Procs \cup {None}
        BY DEF IInv, TypeOK, Client, ClientsOK
      <3> QED BY <1>1, <1>3, <3>1 DEF SeenOK, KeepsServed
    <2> QED BY <2>1 DEF ClientsOK
  <1> QED BY <1>2, <1>3, <1>4 DEF IInv
-----------------------------------------------------------------------------
(* The steps of a client. They leave the lock alone, and of the daemons only
   begin a new one or make one that serves drain.                          *)

LEMMA InspectKeeps ==
    ASSUME IInv, NEW c \in Clients,
           \/ FindMeta(c) \/ ReadMeta(c) \/ ProbeProcess(c) \/ ProbeEndpoint(c)
    PROVE  client' \in [Clients -> Client] /\ ClientsOK'
  <1>1. TypeOK /\ ClientsOK /\ MetaOK /\ client[c].phase # "hello"
    BY DEF IInv, FindMeta, ReadMeta, ProbeProcess, ProbeEndpoint, Inspecting
  <1>2. KeepsServed
    BY DEF KeepsServed, FindMeta, ReadMeta, ProbeProcess, ProbeEndpoint
  <1>3. SeenOK(c) /\ client[c] \in Client
    BY <1>1 DEF ClientsOK, TypeOK
  <1>4. CASE FindMeta(c)
    <2>1. Conclude(c, "absent") \/ Step(c, "open")
      BY <1>4 DEF FindMeta
    <2>2. "absent" \in Verdict /\ "open" \in At
      BY DEF Verdict, At
    <2> QED BY <1>1, <1>2, <2>1, <2>2, ConcludeMoves, StepMoves
  <1>5. CASE ReadMeta(c)
    <2>1. CASE Conclude(c, "vanished")
      <3>1. "vanished" \in Verdict
        BY DEF Verdict
      <3> QED BY <1>1, <1>2, <2>1, <3>1, ConcludeMoves
    <2>2. CASE meta # None /\ client' = [client EXCEPT ![c] =
                                  [@ EXCEPT !.at = "live", !.seen = meta]]
      <3> DEFINE k == [client[c] EXCEPT !.at = "live", !.seen = meta]
      <3>1. meta \in Procs
        BY <1>1, <2>2 DEF TypeOK
      <3>2. k \in Client /\ k.seen = meta /\ k.at = "live"
        BY <1>3, <3>1 DEF Client, At
      <3>3. client' = [client EXCEPT ![c] = k]
        BY <2>2
      <3> HIDE DEF k
      <3>4. SeenFits(k)
        BY <1>1, <2>2, <3>1, <3>2 DEF SeenFits, MetaOK
      <3> QED BY <1>1, <1>2, <3>2, <3>3, <3>4, ClientMoves
    <2> QED BY <1>5, <2>1, <2>2 DEF ReadMeta
  <1>6. CASE ProbeProcess(c)
    <2>1. Conclude(c, "stale") \/ Step(c, "connect")
      BY <1>6 DEF ProbeProcess
    <2>2. "stale" \in Verdict /\ "connect" \in At
      BY DEF Verdict, At
    <2>3. client[c].seen \in Procs
      BY <1>3, <1>6 DEF SeenOK, ProbeProcess, Inspecting
    <2> QED BY <1>1, <1>2, <2>1, <2>2, <2>3, ConcludeMoves, StepMoves
  <1>7. CASE ProbeEndpoint(c)
    <2>1. Conclude(c, "running") \/ Conclude(c, "stale")
      BY <1>7 DEF ProbeEndpoint
    <2>2. "running" \in Verdict /\ "stale" \in Verdict
      BY DEF Verdict
    <2>3. client[c].seen \in Procs
      BY <1>3, <1>7 DEF SeenOK, ProbeEndpoint, Inspecting
    <2> QED BY <1>1, <1>2, <2>1, <2>2, <2>3, ConcludeMoves
  <1> QED BY <1>4, <1>5, <1>6, <1>7

LEMMA StopKeeps ==
    ASSUME IInv, NEW c \in Clients,
           ClearMeta(c) \/ ClearSock(c) \/ Kill(c) \/ Await(c)
    PROVE  client' \in [Clients -> Client] /\ ClientsOK'
  <1>1. TypeOK /\ ClientsOK
    BY DEF IInv
  <1>2. KeepsServed
    BY DEF KeepsServed, ClearMeta, ClearSock, Kill, Await
  <1>3. SeenOK(c) /\ client[c].op \in Operation /\ client[c].phase \in Phase
    BY <1>1 DEF ClientsOK, TypeOK, Client
  <1> DEFINE next(phase) == NextPhase(client[c].op, phase, "stale")
  <1>4. ASSUME NEW phase \in Phase
        PROVE  next(phase) \in Phase \ {"kill", "await"}
    BY <1>3, PhaseTypes DEF Verdict
  <1>5. "kill" \in Phase /\ "await" \in Phase /\ "clear_meta" \in At /\ "clear_sock" \in At
    BY DEF Phase, At
  <1> HIDE DEF next
  <1>6. CASE ClearMeta(c)
    BY <1>1, <1>2, <1>5, <1>6, StepMoves DEF ClearMeta
  <1>7. CASE ClearSock(c)
    <2>1. Enter(c, next(client[c].phase))
      BY <1>7 DEF ClearSock, next
    <2> QED BY <1>1, <1>2, <1>3, <1>4, <2>1, EnterMoves
  <1>8. CASE Kill(c)
    <2>1. Enter(c, "await") \/ Enter(c, next("kill"))
      BY <1>8 DEF Kill, next
    <2>2. client[c].phase = "kill" /\ client[c].seen \in Procs
      BY <1>3, <1>8 DEF Kill, SeenOK
    <2> QED BY <1>1, <1>2, <1>4, <1>5, <2>1, <2>2, EnterMoves
  <1>9. CASE Await(c)
    <2>1. Step(c, "clear_meta") \/ Enter(c, next("await"))
      BY <1>9 DEF Await, next
    <2> QED BY <1>1, <1>2, <1>4, <1>5, <2>1, EnterMoves, StepMoves
  <1> QED BY <1>6, <1>7, <1>8, <1>9
(* A call, a spawn and the hello.                                          *)
LEMMA CalledFields ==
    ASSUME NEW k \in Client, NEW op \in Operation
    PROVE  /\ Called(k, op) \in Client
           /\ Called(k, op).phase = FirstPhase(op)
           /\ Called(k, op).at = k.at
           /\ Called(k, op).seen = k.seen
  <1> DEFINE first == FirstPhase(op)
             calls == k.calls + 1
  <1>1. first \in Phase
    <2>1. first \in Deciding
      BY PhaseTypes DEF Phase, Verdict
    <2> QED BY <2>1 DEF Deciding, Phase
  <1>2. calls \in Nat
    BY DEF Client
  <1>3. Called(k, op) = [k EXCEPT !.op = op, !.phase = first, !.calls = calls]
    BY DEF Called
  <1> HIDE DEF first, calls
  <1>4. /\ Called(k, op) \in Client
        /\ Called(k, op).phase = first
        /\ Called(k, op).at = k.at
        /\ Called(k, op).seen = k.seen
    BY <1>1, <1>2, <1>3 DEF Client
  <1> QED BY <1>4 DEF first

LEMMA CallKeeps ==
    ASSUME IInv, NEW c \in Clients, NEW op \in Operation, Call(c, op)
    PROVE  client' \in [Clients -> Client] /\ ClientsOK'
  <1> DEFINE k == Called(client[c], op)
  <1>1. client[c] \in Client /\ SeenOK(c) /\ client[c].phase = "idle"
    BY DEF IInv, TypeOK, ClientsOK, Call
  <1>2. FirstPhase(op) \in Deciding
    BY PhaseTypes DEF Phase, Verdict
  <1>3. /\ k \in Client /\ k.phase = FirstPhase(op)
        /\ k.at = client[c].at /\ k.seen = client[c].seen
    BY <1>1, CalledFields
  <1>4. client' = [client EXCEPT ![c] = k]
    BY DEF Call
  <1> HIDE DEF k
  <1>5. SeenFits(k)
    BY <1>1, <1>2, <1>3 DEF SeenFits, SeenOK, Deciding
  <1>6. KeepsServed
    BY DEF KeepsServed, Call
  <1> QED BY <1>3, <1>4, <1>5, <1>6, ClientMoves DEF IInv

LEMMA SpawnKeeps ==
    ASSUME IInv, NEW c \in Clients, NEW p \in Procs, Spawn(c, p)
    PROVE  client' \in [Clients -> Client] /\ ClientsOK'
  <1>1. PICK phase \in {"hello", "idle"} : Enter(c, phase)
    BY DEF Spawn, AfterStart
  <1>2. KeepsServed
    BY DEF KeepsServed, Spawn, Move, Served, IInv, TypeOK
  <1>3. phase \in Phase
    BY DEF Phase
  <1> QED BY <1>1, <1>2, <1>3, EnterMoves DEF IInv

LEMMA HelloKeeps ==
    ASSUME IInv, NEW c \in Clients, Connect(c) \/ Hello(c)
    PROVE  client' \in [Clients -> Client] /\ ClientsOK'
  <1>1. TypeOK /\ ClientsOK /\ client[c] \in Client /\ SeenOK(c)
    BY DEF IInv, TypeOK, ClientsOK
  <1>2. KeepsServed
    BY DEF KeepsServed, Connect, Hello, Restarting, Served, IInv, TypeOK
  <1>3. client[c].phase = "hello"
    BY DEF Connect, Hello
  <1>4. CASE Enter(c, "idle")
    <2>1. "idle" \in Phase
      BY DEF Phase
    <2> QED BY <1>1, <1>2, <1>4, <2>1, EnterMoves
  <1>5. CASE /\ sock # None
             /\ client' = [client EXCEPT ![c] = [@ EXCEPT !.at = "connect", !.seen = sock]]
    <2> DEFINE k == [client[c] EXCEPT !.at = "connect", !.seen = sock]
    <2>1. sock \in Procs
      BY <1>1, <1>5 DEF TypeOK
    <2>2. k \in Client /\ k.phase = "hello" /\ k.seen = sock
      BY <1>1, <1>3, <2>1 DEF Client, At
    <2>3. client' = [client EXCEPT ![c] = k]
      BY <1>5
    <2> HIDE DEF k
    <2>4. SeenFits(k)
      BY <2>1, <2>2 DEF SeenFits
    <2> QED BY <1>1, <1>2, <2>2, <2>3, <2>4, ClientMoves
  <1>6. CASE client' = [client EXCEPT ![c] =
                 [@ EXCEPT !.op = "restart", !.phase = "restart_reclaim",
                           !.at = "exists", !.seen = None]]
    <2> DEFINE k == [client[c] EXCEPT !.op = "restart", !.phase = "restart_reclaim",
                                      !.at = "exists", !.seen = None]
    <2>1. /\ k \in Client /\ k.phase = "restart_reclaim"
          /\ k.at = "exists" /\ k.seen = None
      BY <1>1 DEF Client, At, Phase, Operation
    <2>2. client' = [client EXCEPT ![c] = k]
      BY <1>6
    <2> HIDE DEF k
    <2>3. SeenFits(k)
      BY <2>1 DEF SeenFits
    <2> QED BY <1>1, <1>2, <2>1, <2>2, <2>3, ClientMoves
  <1> QED BY <1>4, <1>5, <1>6 DEF Connect, Hello, Restarting

(* The rest of the invariant: a client removes a file or leaves it.        *)
LEMMA ClientFiles ==
    ASSUME IInv, NEW c \in Clients,
           ClientStep(c) \/ \E op \in Operation : Call(c, op)
    PROVE  /\ daemon' \in [Procs -> DaemonPc] /\ HoldersOK' /\ MetaOK'
           /\ lock' = lock /\ sock' \in {sock, None} /\ meta' \in {meta, None}
           /\ crashes' = crashes
  <1>1. /\ lock' = lock /\ sock' \in {sock, None} /\ meta' \in {meta, None}
        /\ crashes' = crashes
    BY DEF ClientStep, FindMeta, ReadMeta, ProbeProcess, ProbeEndpoint, ClearMeta,
           ClearSock, Kill, Await, Spawn, Connect, Hello, Call, files
  <1>2. \/ UNCHANGED daemon
        \/ \E p \in Procs : Move(p, "unborn", "starting")
        \/ \E p \in Procs :
              daemon[p] = "serving" /\ daemon' = [daemon EXCEPT ![p] = "draining"]
    <2>1. CASE Hello(c)
      <3>1. CASE UNCHANGED daemon
        BY <3>1
      <3>2. CASE Restarting(c, client[c].seen)
        <4> DEFINE p == client[c].seen
        <4>1. p \in Procs
          BY <2>1 DEF IInv, ClientsOK, SeenOK, Hello
        <4>2. daemon' = [daemon EXCEPT ![p] = IF daemon[p] = "serving"
                                              THEN "draining" ELSE daemon[p]]
          BY <3>2 DEF Restarting
        <4>3. daemon \in [Procs -> DaemonPc]
          BY DEF IInv, TypeOK
        <4> HIDE DEF p
        <4>4. CASE daemon[p] = "serving"
          BY <4>1, <4>2, <4>4
        <4>5. CASE daemon[p] # "serving"
          BY <4>1, <4>2, <4>3, <4>5
        <4> QED BY <4>4, <4>5
      <3> QED BY <2>1, <3>1, <3>2 DEF Hello
    <2>2. CASE \E p \in Procs : Spawn(c, p)
      BY <2>2 DEF Spawn
    <2> QED BY <2>1, <2>2 DEF ClientStep, FindMeta, ReadMeta, ProbeProcess,
              ProbeEndpoint, ClearMeta, ClearSock, Kill, Await, Connect, Call
  <1>3. daemon' \in [Procs -> DaemonPc]
    BY <1>2 DEF IInv, TypeOK, Move, DaemonPc
  <1>4. HoldersOK'
    BY <1>1, <1>2 DEF IInv, TypeOK, Move, HoldersOK, HolderOK, Locked, Bound, Named
  <1>5. MetaOK'
    BY <1>1, <1>2 DEF IInv, TypeOK, Move, MetaOK, Served
  <1> QED BY <1>1, <1>3, <1>4, <1>5

LEMMA ClientStepKeeps ==
    ASSUME IInv, NEW c \in Clients,
           ClientStep(c) \/ \E op \in Operation : Call(c, op)
    PROVE  IInv'
  <1>1. client' \in [Clients -> Client] /\ ClientsOK'
    BY InspectKeeps, StopKeeps, CallKeeps, SpawnKeeps, HelloKeeps DEF ClientStep
  <1>2. signalled' \in SUBSET Procs
    <2>1. CASE Kill(c)
      <3>1. client[c].seen \in Procs
        BY <2>1 DEF IInv, ClientsOK, SeenOK, Kill
      <3> QED BY <2>1, <3>1 DEF IInv, TypeOK, Kill
    <2>2. CASE UNCHANGED signalled
      BY <2>2 DEF IInv, TypeOK
    <2> QED BY <2>1, <2>2 DEF ClientStep, FindMeta, ReadMeta, ProbeProcess,
              ProbeEndpoint, ClearMeta, ClearSock, Await, Spawn, Connect, Hello, Call
  <1>3. TypeOK'
    BY <1>1, <1>2, ClientFiles DEF IInv, TypeOK
  <1> QED BY <1>1, <1>3, ClientFiles DEF IInv

-----------------------------------------------------------------------------
LEMMA IInvInit == Init => IInv
  BY InstanceAssumption DEF Init, NoClient, IInv, TypeOK, DaemonPc, Client, Operation,
     Phase, At, HoldersOK, HolderOK, Locked, Bound, Named, MetaOK, ClientsOK, SeenOK

LEMMA IInvStep == IInv /\ [Next]_vars => IInv'
  <1> SUFFICES ASSUME IInv, [Next]_vars PROVE IInv'
    OBVIOUS
  <1>1. CASE Next
    BY <1>1, DaemonStepKeeps, ClientStepKeeps DEF Next
  <1>2. CASE UNCHANGED vars
    BY <1>2 DEF vars, IInv, TypeOK, HoldersOK, HolderOK, MetaOK, ClientsOK, SeenOK
  <1> QED BY <1>1, <1>2

(* The invariant holds in every state of every behaviour.                  *)
THEOREM Invariance == Spec => []IInv
  BY IInvInit, IInvStep, PTL DEF Spec

(* Type correctness of the lock, the two files, the daemons and the clients
   of daemon/lifecycle.rs.                                                 *)
THEOREM TypeCorrect == Spec => []TypeOK
  <1>1. IInv => TypeOK
    BY DEF IInv
  <1> QED BY <1>1, Invariance, PTL

(* Whatever stale files the clients remove and whichever daemons start or
   drain, the one that serves holds daemon.lock, and the endpoint and
   daemon.json are its own or missing.                                     *)
THEOREM ServingOwns == Spec => []ServingOwnsFiles
  <1>1. IInv => ServingOwnsFiles
    BY DEF IInv, HoldersOK, HolderOK, ServingOwnsFiles, Locked, Bound, Named
  <1> QED BY <1>1, Invariance, PTL

(* stop and restart (daemon/mod.rs) signal only processes that have served. *)
THEOREM StartingSpared == Spec => StopSparesStarting
  <1> DEFINE A == \A p \in signalled' \ signalled :
                    daemon[p] \in {"serving", "draining", "unlocking", "exiting",
                                  "closed", "dead"}
  <1>1. ASSUME IInv, [Next]_vars PROVE [A]_vars
    <2>1. CASE \E c \in Clients : Kill(c)
      <3>1. PICK c \in Clients : Kill(c)
        BY <2>1
      <3>2. SeenOK(c) /\ client[c].phase = "kill"
        BY <1>1, <3>1 DEF IInv, ClientsOK, Kill
      <3>3. signalled' \ signalled \subseteq {client[c].seen}
        BY <3>1 DEF Kill
      <3> QED BY <3>2, <3>3, InstanceAssumption DEF SeenOK, Served
    <2>2. CASE UNCHANGED signalled
      BY <2>2
    <2>3. (\E c \in Clients : Kill(c)) \/ UNCHANGED signalled
      BY <1>1 DEF vars, Next, DaemonStep, Lock, RemoveStaleEndpoint, Bind, Register,
         Drain, Unlock, CloseListener, Exit, DieOfSignal, DieUnasked, Die, ClientStep,
         FindMeta, ReadMeta, ProbeProcess, ProbeEndpoint, ClearMeta, ClearSock, Await,
         Spawn, Connect, Hello, Call
    <2> QED BY <2>1, <2>2, <2>3
  <1> QED BY <1>1, Invariance, PTL DEF Spec, StopSparesStarting
=============================================================================
