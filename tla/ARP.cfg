CONSTANTS
  Peers = {gateway, host}
  OwnIP = self
  OwnMAC = mself
  MACs = {m1, m2, m3}
  Broadcast = broadcast
  MaxEntries = 2
  Announcements = 1
  MaxWire = 1

SPECIFICATION Spec

CHECK_DEADLOCK FALSE

INVARIANT FirstAnswerIsKept
INVARIANT AnswersGoToAskers
PROPERTY ResolveReturns
