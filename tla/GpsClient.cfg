SPECIFICATION FairSpec
CONSTANTS
  BufSize = 5
  Lengths = {1, 2}
  SockBuf = 6
  MaxLine = 4
INVARIANTS NothingLostInBuffer SurvivesWholeReads
PROPERTIES EndNoticed LinesAreLogged
CHECK_DEADLOCK FALSE
