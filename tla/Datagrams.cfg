CONSTANTS
  near = near
  far = far
  gateway = gateway
  ether1 = ether1
  ether2 = ether2
  OwnIP = self
  OwnMAC = mself
  Broadcast = broadcast
  Local = {near, gateway}
  Gateway = gateway
  MACOf <- MACs
  Remotes = {near, far}
  Nobody = nobody
  Ports = {3}
  FirstPort = 4
  Totals = {32, 256, 513, 1285}
  Headers = {20, 24}
  Texts <- SomeTexts
  MaxSockets = 3

SPECIFICATION Spec

INVARIANT SocketsPaired
INVARIANT PayloadInFrame
INVARIANT EchoGoesBack
INVARIANT ChecksumIsInternetChecksum
