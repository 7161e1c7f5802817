SPECIFICATION Spec
CONSTANTS
  u1 = u1
  u2 = u2
  m1 = m1
  k1 = k1
  q1 = q1
  Turns = {u1, u2}
  First = u1
  Session = session
  Unknown = unknown
  Lines <- Overlapped
  MaxLines = 3
INVARIANTS TypeOK RowsReplayLog ChunksInOrder CardsStored FinishedTurnSettled AnswerIsMarkedCard
PROPERTIES CardsKeepPlace OnlyLastCardGrows
CHECK_DEADLOCK FALSE
