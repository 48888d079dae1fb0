\* A second connect() after packets have been exchanged.
CONSTANTS
  MaxPackets = 2
  MaxConnects = 2
  MaxResets = 0
  MaxLosses = 0
  Lossy = {}
  Replies = {"ack"}
  ChanBound = 2
  SubmitEarly = FALSE
SPECIFICATION Spec
INVARIANTS SequencesAgree
CHECK_DEADLOCK FALSE
