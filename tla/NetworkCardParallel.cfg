CONSTANTS
  N = 8
  FrameBytes = 64
  MainSends = 1
  MaxSends = 2
  MaxArrivals = 1
  RxBurst = 2
  TxBurst = 2

SPECIFICATION Spec

CHECK_DEADLOCK FALSE

INVARIANT SendersApart
