SPECIFICATION FairSpec
CONSTANTS
  Peers = {1, 2}
  MaxDials <- OneDialEach
  MaxTunnelId = 2
  MaxSessions <- LowerReconnects
  MaxRelayTunnels = 2
  InboundCap = 2
  AcceptCap = 1
  MaxRecords = 0
INVARIANTS
  SessionsInv
PROPERTIES
  MisroledPairUnwinds
  SessionEndReleases
CHECK_DEADLOCK FALSE
