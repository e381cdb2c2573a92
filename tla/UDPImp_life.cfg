CONSTANTS
  Event <- Destinations
  Params <- MCParams
  MaxQueue = 2
  MaxLoopers = 2
  Faults = FALSE
  NumSlots = 2
  MaxInits = 2
  MaxSends = 3
SPECIFICATION SafeSpec
INVARIANTS TypeOK CallbacksHaveContext InflightHasContext PoolAccounts
INVARIANTS CallbacksGoToLastInit InitServesSend UsesOnlyStarted
PROPERTIES SentWhereInitSaid OwnsLooperProperly
CHECK_DEADLOCK FALSE
