SPECIFICATION Spec
CONSTANTS
  BlsKeys = {b1, b2}
  MaxConns = 5
  MaxStreams = 1
  MaxRapid = 1
  MaxOutages = 1
INVARIANTS
  FastInv
  EntryHasHolder
PROPERTIES
  PromotionGated
  RoutesStreams
CHECK_DEADLOCK FALSE
