\* Nine packets wrap the sequence numbers; the line loses in both directions.
CONSTANTS
  MaxPackets = 9
  MaxConnects = 1
  MaxResets = 1
  MaxLosses = 2
  Lossy = {"toSlave", "toMaster"}
  Replies = {"info", "ack", "defer"}
  ChanBound = 4
  SubmitEarly = FALSE
SPECIFICATION Spec
INVARIANTS TypeOK NeverForgotten SequencesAgree
PROPERTIES ImplementsChannel
CHECK_DEADLOCK FALSE
