SPECIFICATION RaceSpec
CONSTANTS
  Peers = {1, 2}
  MaxDials <- OneDialEach
  MaxTunnelId = 2
  MaxSessions <- OneSessionEach
  MaxRelayTunnels = 2
  InboundCap = 4
  AcceptCap = 2
  MaxRecords = 0
PROPERTIES
  CrossedPairConverges
CHECK_DEADLOCK FALSE
