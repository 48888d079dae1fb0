\* Both directions and a sketch that calls begin() on an open port: the received
\* bytes wrap and fill the ring and overrun the receiver, with and without parity
\* errors; one byte is written directly and one through the ring.
CONSTANTS
  BufferSize = 3
  MaxWrites = 2
  MaxArrivals = 5
  IFlags = {TRUE, FALSE}
  ParityErrors = {TRUE, FALSE}
  Rebegin = TRUE
SPECIFICATION Spec
INVARIANTS TypeOK TxFifo FlushComplete AvailablePromise
PROPERTY RxIsLossyFifo
\* As in serial_tx.cfg, end() and flush() may wait for ever.
CHECK_DEADLOCK FALSE
