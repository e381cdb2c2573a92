CONSTANTS
  Streams <- ShortStreams
  HeadLen = 2
  Width = 8
  BufferSize = 3
  MaxStream = 5
  Interfaces <- MCInterfaces
  MaxCount = 2
  MaxStarts = 2
  PoolSize = 2
  MaxPools = 2
SPECIFICATION MCSpec
INVARIANTS TypeOK BufferIsInput PacketsInOrder CutsAtBorders JoinsItsThread ListComplete FreesOnlyBlocks OnlyDataLost
PROPERTIES Returns
CHECK_DEADLOCK FALSE
