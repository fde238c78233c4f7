SPECIFICATION TSpec
CONSTANTS
  n1 = n1
  n2 = n2
  Addresses <- TwoNodes
  NumberOfNodes = 2
  HistoryLimit = 2
  Ports = {1, 2}
  PortReuse = FALSE
  None = None
  Restarts = TRUE
  MaxRound = 2
  MaxFix = 0
  SetSize = 184
  PayloadMax = 512
  Backlog = 5
  SockBuf = 1
  MaxConn = 2
INVARIANTS HistoryIsLatest DatabaseIsInRounds
PROPERTIES IsABridge RoundsGoOn
CHECK_DEADLOCK FALSE
