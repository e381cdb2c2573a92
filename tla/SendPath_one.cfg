CONSTANTS
  Senders = {app}
  Loop = Loop
  NoOne = NoOne
  NumSlots = 3
  BadVersion = TRUE
  MaxSends = 6
SPECIFICATION Spec
INVARIANTS TypeOK ExclusiveSlot FlagsTellUse
PROPERTIES RefusedOnlyWhenFull ImplementsChannel
CHECK_DEADLOCK FALSE
