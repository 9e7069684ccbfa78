CONSTANTS
  c1 = c1
  c2 = c2
  s1 = s1
  Clients = {c1, c2}
  Servers = {s1}
  Nobody = nobody
  ServerPort = 4
  FirstPort = 5
  Scenarios <- BothScenarios
  PeerISN = 13
  OwnISN = 14
  SeqSpace = 16
  HeaderBytes = 5
  AnswerBytes = 2
  MaxSockets = 2

SPECIFICATION Spec

CHECK_DEADLOCK FALSE

INVARIANT DeliveredInOrder
INVARIANT OneSocketPerConnection
INVARIANT EstablishedIsMutual
INVARIANT SpinsOnlyBehindOwnClose
INVARIANT AcknowledgementFollowsDelivery
PROPERTY ConnectionsEnd
