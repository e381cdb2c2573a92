CONSTANTS
  Senders = {app, Loop}
  Loop = Loop
  NoOne = NoOne
  NumSlots = 2
  BadVersion = TRUE
  MaxSends = 2
SPECIFICATION SafeSpec
INVARIANTS ExclusiveSlot
CHECK_DEADLOCK FALSE
