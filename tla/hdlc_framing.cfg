\* Frames, noise and frames of our own in between.
CONSTANTS
  maxPacketSize = 6
  MaxFrames = 4
  Payloads <- SomePayloads
  OwnContents <- SomeOwn
  MaxOwn = 1
  MaxNoise = 2
SPECIFICATION Spec
INVARIANTS TypeOK OnlySentFrames
PROPERTIES Resynchronises
CHECK_DEADLOCK FALSE
