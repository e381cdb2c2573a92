CONSTANTS
  Event = {e}
  MaxQueue = 2
  MaxLoopers = 2
  Faults = TRUE
SPECIFICATION LooperSpec
INVARIANTS NoUseAfterFree NothingLeftOpen CloseIsHeard
PROPERTIES DestructorReturns InitLooperReturns
CHECK_DEADLOCK FALSE
