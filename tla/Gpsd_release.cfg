SPECIFICATION HoldSpec
CONSTANTS
  MaxClients = 1
  MaxDevices = 1
  Paths = {"a"}
  Starts <- BothWays
  CommandTimeout = 0
  ReleaseTimeout = 0
  Reconnect = 0
  MaxFd = 3
  Requests = {"watch", "unwatch"}
  Reads = {"packet"}
  Signals = {"hup"}
  MaxSignals = 0
PROPERTIES HeldOpen
CHECK_DEADLOCK FALSE
