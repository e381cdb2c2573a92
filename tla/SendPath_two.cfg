CONSTANTS
  Senders = {app, Loop}
  Loop = Loop
  NoOne = NoOne
  NumSlots = 2
  BadVersion = TRUE
  MaxSends = 4
SPECIFICATION Spec
INVARIANTS NoLostWakeup
PROPERTIES QueueDrains
CHECK_DEADLOCK FALSE
