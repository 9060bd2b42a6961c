SPECIFICATION FairSpec
CONSTANTS
  r1 = r1
  r2 = r2
  old = old
  new = new
  NULL = NULL
  Requests = {r1, r2}
  Kids = {old, new}
  MinRefresh = 2
PROPERTIES DroppedKeysForgotten OwnFetchesApart RotatedKeyAccepted
