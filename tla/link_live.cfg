\* Losses in both directions: a lost SNURM or UA is repaired by the link timer, a
\* lost packet by the retransmit timer.  A second connect() makes each end reject
\* what the other sends.
CONSTANTS
  MaxPackets = 3
  MaxConnects = 2
  MaxResets = 0
  MaxLosses = 2
  Lossy = {"toSlave", "toMaster"}
  Replies = {"info", "ack", "defer"}
  ChanBound = 2
  SubmitEarly = FALSE
SPECIFICATION FairSpec
PROPERTIES EveryPacketConfirmed LinkComesUp
CHECK_DEADLOCK FALSE
