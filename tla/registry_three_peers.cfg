SPECIFICATION Spec
CONSTANTS
  Peers = {1, 2, 3}
  MaxDials <- ThreeWay
  MaxTunnelId = 2
  MaxSessions <- OneSessionEach
  MaxRelayTunnels = 1
  InboundCap = 1
  AcceptCap = 1
  MaxRecords = 1
INVARIANTS
  
  ServersBounded
CHECK_DEADLOCK FALSE
