\* A record read while it is being appended.
CONSTANTS
  Sizes = {1, 2}
  BufferSize = 2
  ChannelSize = 1
  Torn = TRUE
  MaxRecords = 2
  MaxConnections = 1
  MaxCrashes = 0
SPECIFICATION Spec
CHECK_DEADLOCK FALSE
INVARIANTS FileRecordsDelivered
