SPECIFICATION Spec
CONSTANTS
  Peers = {1, 2}
  MaxDials <- LowerRedials
  MaxTunnelId = 3
  MaxSessions <- LowerReconnects
  MaxRelayTunnels = 2
  InboundCap = 2
  AcceptCap = 1
  MaxRecords = 0
INVARIANTS
  RegistryInv
  
  EntryIsHeld
  ServerHearsHello
PROPERTIES
  KeepsLiveEntry
CHECK_DEADLOCK FALSE
