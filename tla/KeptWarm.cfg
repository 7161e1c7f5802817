SPECIFICATION RetentionSpec
CONSTANTS
  t1 = t1
  Tasks = {t1, t2}
  Followers = {c1}
  Holders = {h1}
  Scope <- ScopeT1
  Limits = {0, 1}
  Protect = 1
  LeaseTTL = 1
  MaxNow = 1
  Nothing = Nothing
  Callers = {c1, c2}
  Submissions = {s1}
  Inputs = {i1, i2}
  SubmissionTTL = 1
  LastTick = 2
  MaxAnswers = 4
  b = b
  Items = {a, b}
  Large = {b}
  Keys = {k}
  Parts = 2
  ChunkMax = 2
  BacklogMax = 2
  MaxMutations = 4
  MaxGeneration = 2
  MaxRevision = 1
  Shells = {c1}
  Mcp = mcp
  Newer = {mcp}
  MaxHellos = 2
  MaxRequests = 2
CHECK_DEADLOCK FALSE
INVARIANT TrimmedToLimit
