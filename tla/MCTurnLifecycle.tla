-------------------------- MODULE MCTurnLifecycle --------------------------
(***************************************************************************)
(* Instances of TurnLifecycle for TLC.                                     *)
(***************************************************************************)
EXTENDS TurnLifecycle, TLC

CONSTANTS c1, c2

(* Two connections follow up on the same task.                             *)
FollowUps  == (c1 :> {"start", "continue"} @@ c2 :> {"continue"})
(* Two connections cancel the same turn, one also waits for it.            *)
CancelWait == (c1 :> {"start", "wait", "cancel"} @@ c2 :> {"cancel"})

TurnSymmetry == Permutations(Turns)
=============================================================================
