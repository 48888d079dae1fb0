\* No other master on the bus; every sequence of three calls.
CONSTANTS
  BufferLength = 2
  MaxCalls = 3
  ReadLengths = {1, 2, 3}
  WriteLengths = {0, 1, 2, 3}
  Stops = {TRUE, FALSE}
  MaxTransfers = 0
  MaxForeignBytes = 0
  SlaveReplies = {}
  BusErrors = TRUE
SPECIFICATION Spec
INVARIANTS WriteHonest ReadHonest NoExtraByte FitsBuffer BusReleased
CHECK_DEADLOCK FALSE
