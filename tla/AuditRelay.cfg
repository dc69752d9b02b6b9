\* Torn appends, oversized records and one restart.
CONSTANTS
  Sizes = {2, 3}
  BufferSize = 2
  ChannelSize = 1
  Torn = TRUE
  MaxRecords = 2
  MaxConnections = 2
  MaxCrashes = 1
SPECIFICATION FairSpec
CHECK_DEADLOCK FALSE
INVARIANTS TypeOK InOrder
PROPERTIES FileRecordsReachStdout
