SPECIFICATION Spec
CONSTANTS
  MaxThreads = 3
  MaxSleep = 0
  Port = "rtos"
  MainLast = TRUE
  Traps = {}
INVARIANT WakesForReady
CHECK_DEADLOCK FALSE
