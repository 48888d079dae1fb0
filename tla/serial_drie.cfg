\* The comment in the handler against the window between lines 228 and 230.
CONSTANTS
  BufferSize = 3
  MaxWrites = 3
  MaxArrivals = 0
  IFlags = {TRUE, FALSE}
  ParityErrors = {FALSE}
  Rebegin = FALSE
SPECIFICATION Spec
INVARIANT DrieImpliesData
CHECK_DEADLOCK FALSE
