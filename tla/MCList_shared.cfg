SPECIFICATION FairSpec
CONSTANTS
  t1 = t1
  t2 = t2
  Threads = {t1, t2}
  Node = {n1, n2, n3}
  Data = {d1, d2}
  NULL = NULL
  NoData = NoData
  MaxIndex = 2
  Ops <- SharedOps
INVARIANTS TypeOK WellFormed NoUseAfterFree NoLeak
PROPERTIES ImplementsDeque LockReleased
