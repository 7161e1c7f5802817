SPECIFICATION FairSpec
CONSTANTS
  c1 = c1
  c2 = c2
  NoTurn = NoTurn
  Tasks = {t1}
  Turns = {u1}
  Clients = {c1, c2}
  Allowed <- CancelWait
  Causes = {"user_cancel"}
  StopReasons = {"end_turn", "none"}
  MaxSequence = 1
  MaxCrashes = 1
INVARIANT DurableBeforeVisible
PROPERTIES SettledForever KeepsTurnRecord CancelFinishesTurn CancelStopsWorker
CHECK_DEADLOCK FALSE
