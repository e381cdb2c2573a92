CONSTANTS
  Event <- Destinations
  Params <- ExampleParams
  MaxQueue = 2
  MaxLoopers = 1
  Faults = FALSE
  NumSlots = 2
  MaxInits = 1
  MaxSends = 6
  Rounds = 6
SPECIFICATION ExampleSpec
INVARIANTS LeavesNothing
PROPERTIES MainReturns
CHECK_DEADLOCK FALSE
