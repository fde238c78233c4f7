SPECIFICATION Spec
CONSTANTS
  n1 = n1
  n2 = n2
  Addresses <- TwoNodes
  NumberOfNodes = 2
  HistoryLimit = 3
  Ports = {1, 2}
  PortReuse = TRUE
  None = None
  Restarts = TRUE
  MaxRound = 2
  MaxFix = 2
INVARIANTS OneReadingPerNode SentAsCollected PositionIsRecent
CHECK_DEADLOCK FALSE
