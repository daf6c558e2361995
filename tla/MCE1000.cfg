SPECIFICATION E1000Spec
CONSTANTS
  TxN = 3
  RxN = 3
  Frame = {a, b, huge}
  Big = {huge}
INVARIANTS
  RingsSound
PROPERTIES
  RingsAreQueues
  AcceptedFramesLeave
CHECK_DEADLOCK FALSE
