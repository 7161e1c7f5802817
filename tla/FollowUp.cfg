SPECIFICATION Spec
CONSTANTS
  c1 = c1
  c2 = c2
  NoTurn = NoTurn
  Tasks = {t1}
  Turns = {u1, u2, u3}
  Clients = {c1, c2}
  Allowed <- FollowUps
  Causes = {"user_cancel"}
  StopReasons = {"end_turn", "none"}
  MaxSequence = 3
  MaxCrashes = 1
INVARIANTS TypeOK OrdinalsContiguous
PROPERTY SessionPinned
SYMMETRY TurnSymmetry
CHECK_DEADLOCK FALSE
