SPECIFICATION FairSpec
CONSTANTS
  app = app
  snmp = snmp
  Channels = {app, snmp}
  NextChannel <- Turns
  First = app
  Cfg = {c0, c1}
  InitCfg = c0
  None = None
  Torn = Torn
  Kinds <- Everything
  MaxSent <- TwoOne
  MaxConn <- OneEach
  Window = 2
  Pipelined = FALSE
  Closes = FALSE
  SockBuf = 1
INVARIANTS NoDanglingPacket OneAnswerEach NoCommandLost AnswersAreFresh
PROPERTIES Answered
