SPECIFICATION FairSpec
CONSTANTS
  i1 = i1 i2 = i2 t1 = t1 t2 = t2 r1 = r1 r2 = r2
  Item = {i1, i2} Tab = {t1, t2} Run = {r1, r2} TabOf <- TwoTabs
  Closable = {t1} MayFail = TRUE MaxDrops = 1 MaxClosed = 1
INVARIANTS RemovedWasAccepted
PROPERTIES NoResurrection NoMissedFlush
CHECK_DEADLOCK FALSE
