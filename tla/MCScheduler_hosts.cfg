SPECIFICATION Spec
CONSTANTS
  MaxThreads = 4
  MaxEvents = 1
  Hosts = {h1, h2}
  MaxSleep = 0
  GuestOps = {}
  HostOps = {"callback", "destroy", "stop"}
  Windows = {}

SYMMETRY HostSymmetry
INVARIANTS
  HandlesExclusive
  CallbackOnce
PROPERTIES
  CallbackContext
