CONSTANTS
  Senders = {app}
  Loop = Loop
  NoOne = NoOne
  NumSlots = 2
  BadVersion = FALSE
  MaxSends = 3
SPECIFICATION SafeSpec
PROPERTIES LeavesUnchanged
CHECK_DEADLOCK FALSE
