SPECIFICATION NoGapSpec
CONSTANTS
  Peers = {1, 2}
  MaxDials <- TwoDialsEach
  MaxTunnelId = 4
  MaxSessions <- OneSessionEach
  MaxRelayTunnels = 2
  InboundCap = 4
  AcceptCap = 2
  MaxRecords = 0
PROPERTIES
  CrossedPairConverges
CHECK_DEADLOCK FALSE
