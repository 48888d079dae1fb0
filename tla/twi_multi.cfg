\* Calls of the sketch among the transfers of a foreign master, which may write
\* more than the buffer holds.
CONSTANTS
  BufferLength = 2
  MaxCalls = 2
  ReadLengths = {2}
  WriteLengths = {1}
  Stops = {TRUE, FALSE}
  MaxTransfers = 2
  MaxForeignBytes = 4
  SlaveReplies = {2, 3}
  BusErrors = TRUE
SPECIFICATION FairSpec
INVARIANTS TypeOK 
PROPERTIES AckedBytesKept CallReturns SlaveLeaves
CHECK_DEADLOCK FALSE
