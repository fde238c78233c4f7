SPECIFICATION FairSpec
CONSTANTS
  SetSize = 184
  PayloadMax = 512
  Backlog = 0
  SockBuf = 3
  MaxConn = 3
  MaxSet = 4
INVARIANTS NothingSkipped FramingKept
PROPERTIES ImplementsJournal ConnectionServed WrittenIsStored
CHECK_DEADLOCK FALSE
