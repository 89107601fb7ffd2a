CONSTANTS
  kMaxSockets = 1
  kMaxThreads = 2
  kMaxFiles = 3
  kMaxArrivals = 2
  kMaxGrows = 1
  CarefulGuest = FALSE
  Windows = {}
SPECIFICATION Spec
INVARIANTS  ResultDelivered ContextsOutliveIo
