SPECIFICATION SteadySpec
CONSTANTS
  BlsKeys = {b1}
  MaxConns = 4
  MaxStreams = 1
  MaxRapid = 1
  MaxOutages = 0
INVARIANTS
  FallbackReestablishes
CHECK_DEADLOCK FALSE
