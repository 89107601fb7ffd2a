CONSTANTS
  kMaxSockets = 2
  kMaxThreads = 2
  kMaxFiles = 2
  kMaxArrivals = 1
  kMaxGrows = 0
  CarefulGuest = TRUE
  Windows = {}
SPECIFICATION FairSpec
INVARIANTS NobodyStuck
PROPERTIES OpCompletes DeinitReturns
