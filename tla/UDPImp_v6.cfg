CONSTANTS
  Event <- Destinations
  Params <- IPv6Params
  MaxQueue = 1
  MaxLoopers = 1
  Faults = FALSE
  NumSlots = 1
  MaxInits = 1
  MaxSends = 1
SPECIFICATION SafeSpec
PROPERTIES SentToIPv6
CHECK_DEADLOCK FALSE
