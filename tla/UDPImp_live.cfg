CONSTANTS
  Event <- Destinations
  Params <- MCParams
  MaxQueue = 2
  MaxLoopers = 1
  Faults = TRUE
  NumSlots = 2
  MaxInits = 1
  MaxSends = 2
SPECIFICATION Spec
PROPERTIES CallsReturn QueuedIsSent
CHECK_DEADLOCK FALSE
