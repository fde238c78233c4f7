SPECIFICATION FairSpec
CONSTANTS
  app = app
  snmp = snmp
  Channels = {app, snmp}
  NextChannel <- Turns
  First = app
  Cfg = {c0, c1}
  InitCfg = c0
  None = None
  Torn = Torn
  Kinds <- OneWriter
  MaxSent <- TwoOne
  MaxConn <- TwoOne
  Window = 2
  Pipelined = TRUE
  Closes = TRUE
  SockBuf = 2
INVARIANTS InOrder
PROPERTIES NewConnectionAccepted
