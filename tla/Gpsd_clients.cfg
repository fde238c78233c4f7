SPECIFICATION FairSpec
CONSTANTS
  MaxClients = 2
  MaxDevices = 1
  Paths = {"a"}
  Starts <- WithDevice
  CommandTimeout = 0
  ReleaseTimeout = 0
  Reconnect = 0
  MaxFd = 4
  Requests = {"query"}
  Reads = {"packet", "gone"}
  Signals = {"hup"}
  MaxSignals = 1
INVARIANTS ReadsOwnInput
PROPERTIES ClientsAreHeard
CHECK_DEADLOCK FALSE
