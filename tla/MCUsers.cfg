SPECIFICATION FairSpec
CONSTANTS
  NULL = NULL
  Subjects = {x1}
  Names = {n1, n2}
  Emails = {m1, m2}
  Avatars = {p1}
  Requests = {r1, r2, r3}
INVARIANTS ProvisionedOnce ProgressWithUser PatchesKept
PROPERTIES EmailStays AllAnswered
CHECK_DEADLOCK FALSE
