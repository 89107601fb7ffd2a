SPECIFICATION FairSpec
CONSTANTS
  MaxThreads = 3
  MaxSleep = 2
  Port = "std"
  MainLast = TRUE
  Traps = {3}
INVARIANTS OwnStacks WakesForReady DoneWhenOk
PROPERTIES ExecuteCompletes
CHECK_DEADLOCK FALSE
