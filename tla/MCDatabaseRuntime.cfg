SPECIFICATION FairSpec
CONSTANTS
  d1 = d1
  d2 = d2
  t1 = t1
  t2 = t2
  Db = {d1, d2}
  Task = {t1, t2}
  None = None
INVARIANTS
  OpenedOnce
PROPERTIES
  DeletionBlocksOpens
  CallsReturn
