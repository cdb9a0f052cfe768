SPECIFICATION FairSpec
CONSTANTS
  Ids = {a, b, c}
  MaxKnownPeers = 2
  MaxPage = 3
  BaseSecs = 5
  CapSecs = 15
  WordBits = 7
  Counters = 8
  MaxFrames = 2
INVARIANTS
  
  ReadyIsLive
PROPERTIES
  BackoffNeverShrinks
  FramesLeave
  KeepsRetrying
