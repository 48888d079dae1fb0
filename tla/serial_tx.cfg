\* The transmit side alone: five writes through a ring of three slots wrap it.
CONSTANTS
  BufferSize = 3
  MaxWrites = 5
  MaxArrivals = 0
  IFlags = {TRUE, FALSE}
  ParityErrors = {FALSE}
  Rebegin = FALSE
SPECIFICATION FairSpec
INVARIANTS TxFifo NoStall FlushComplete
PROPERTIES WriteReturns FlushReturns EndReturns
\* end() called with interrupts disabled waits for ever (EndReturns), and so
\* does flush() after a lost TXC (FlushReturns).
CHECK_DEADLOCK FALSE
