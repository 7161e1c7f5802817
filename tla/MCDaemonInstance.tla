-------------------------- MODULE MCDaemonInstance --------------------------
(* Small instances of DaemonInstance.                                      *)
EXTENDS DaemonInstance, TLC

CONSTANTS p1, p2, p3, p4, c1, c2

(* Two programs from different builds, and processes of both.              *)
TwoBuilds == (c1 :> "old" @@ c2 :> "new" @@ p1 :> "old" @@ p2 :> "new" @@ p3 :> "new")
EveryCall == (c1 :> {"start", "stop", "status"} @@ c2 :> {"request", "restart"})

(* Two programs of one build that only start the daemon.                   *)
OneBuild == [x \in Procs \cup Clients |-> "same"]
StartOnly == [c \in Clients |-> {"start"}]
=============================================================================
