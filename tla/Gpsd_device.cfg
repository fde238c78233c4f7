SPECIFICATION FairSpec
CONSTANTS
  MaxClients = 1
  MaxDevices = 1
  Paths = {"a"}
  Starts <- WithDevice
  CommandTimeout = 0
  ReleaseTimeout = 0
  Reconnect = 0
  MaxFd = 3
  Requests = {"watch"}
  Reads = {"packet", "noise", "zero", "gone"}
  Signals = {"hup", "term"}
  MaxSignals = 2
INVARIANTS OneOwner NobodyForgotten
PROPERTIES NeededIsOpened PutAsideComesBack SignalIsHeeded
CHECK_DEADLOCK FALSE
