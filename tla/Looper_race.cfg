CONSTANTS
  Event = {e}
  MaxQueue = 1
  MaxLoopers = 1
  Faults = FALSE
SPECIFICATION LooperSafeSpec
INVARIANTS LoopRunsUntilClose
CHECK_DEADLOCK FALSE
