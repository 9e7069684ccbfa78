CONSTANTS
  N = 2
  FrameBytes = 64
  MainSends = 1
  MaxSends = 3
  MaxArrivals = 4
  RxBurst = 3
  TxBurst = 2

SPECIFICATION Spec

CHECK_DEADLOCK FALSE

INVARIANT ReceivedInOrder
INVARIANT TransmittedInOrder
PROPERTY SentFramesLeave
