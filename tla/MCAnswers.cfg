SPECIFICATION FairSpec
CONSTANTS
  u1 = u1
  u2 = u2
  q1 = q1
  q2 = q2
  r1 = r1
  r2 = r2
  r3 = r3
  go = go
  sql = sql
  choice = choice
  fill = fill
  NULL = NULL
  Users = {u1}
  WithProgress = {u1}
  Questions = {q1, q2}
  Types = {choice, fill}
  QType <- TypeEach
  Languages = {go, sql}
  NSlots = 2
  MaxDay = 1
  Requests = {r1, r2}
  PoolSize = 2
  EasinessNum = 5
  EasinessDen = 2
  MaxInt4 = 3
INVARIANTS LedgerBalances TasksBacked
PROPERTIES TaskKept LedgerSpec Terminates
CHECK_DEADLOCK FALSE
