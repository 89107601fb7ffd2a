SPECIFICATION FairSpec
CONSTANTS
  MaxThreads = 3
  MaxEvents = 1
  Hosts = {h1}
  MaxSleep = 1
  GuestOps = {"spawn", "sleep", "io"}
  HostOps = {"stop"}
  Windows = {}
PROPERTIES
  EveryThreadRuns
  StopReturns
