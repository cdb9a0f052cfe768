SPECIFICATION FairSpec
CONSTANTS
  Watchers = {w1, w2}
  CommandCap = 2
  InboundCap = 1
  AckBacklog = 2
  MaxInbound = 2
INVARIANTS
  SessionInv
PROPERTIES
  NoLostWakeup
  DeathIsPublished
  OpenAnswered
  AcceptSeesClose
  DropEndsDriver
CHECK_DEADLOCK FALSE
