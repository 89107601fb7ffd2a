SPECIFICATION Spec
CONSTANTS
  MaxThreads = 3
  MaxEvents = 1
  Hosts = {h1}
  MaxSleep = 1
  GuestOps = {"spawn", "event", "sleep", "io"}
  HostOps = {"callback", "destroy", "stop"}
  Windows = {}
INVARIANTS
  TypeOK
  QueuesMatchStates
  OneRunning
  NoWaiterOfSignaled
  NoLostNotify
