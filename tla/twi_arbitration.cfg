\* A foreign master wins the bus.
CONSTANTS
  BufferLength = 2
  MaxCalls = 1
  ReadLengths = {}
  WriteLengths = {2}
  Stops = {TRUE}
  MaxTransfers = 1
  MaxForeignBytes = 1
  SlaveReplies = {1}
  BusErrors = FALSE
SPECIFICATION Spec
INVARIANTS WriteHonest
CHECK_DEADLOCK FALSE
