SPECIFICATION Spec
CONSTANTS
  q1 = q1
  q2 = q2
  k1 = k1
  g1 = g1
  g2 = g2
  w1 = w1
  NULL = NULL
  Questions = {q1, q2}
  Kinds = {k1}
  Levels = {1, 3}
  DefaultLevel = 3
  NSlots = 2
  Gets = {g1, g2}
  Puts = {w1}
  MaxChanges = 2
SYMMETRY SymmetricIds
INVARIANTS TypeOK ReplyComplete
PROPERTIES RepliesAgree FreshTask SkippedForReason
CHECK_DEADLOCK FALSE
