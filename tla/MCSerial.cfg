SPECIFICATION Spec
CONSTANTS
  u1 = u1
  u2 = u2
  q1 = q1
  q2 = q2
  r1 = r1
  r2 = r2
  r3 = r3
  go = go
  sql = sql
  choice = choice
  fill = fill
  NULL = NULL
  Users = {u1, u2}
  WithProgress = {u1}
  Questions = {q1}
  Types = {choice, fill}
  QType <- TypeEach
  Languages = {go}
  NSlots = 2
  MaxDay = 2
  Requests = {r1, r2, r3}
  PoolSize = 1
  EasinessNum = 5
  EasinessDen = 2
  MaxInt4 = 3
INVARIANTS TypeOK LedgerBalances SrsFollows StreakBacked DayCredited
PROPERTY DaySpec
SYMMETRY SymmetricRequests
CHECK_DEADLOCK FALSE
