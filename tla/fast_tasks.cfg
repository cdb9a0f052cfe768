SPECIFICATION AnsweredSpec
CONSTANTS
  BlsKeys = {b1}
  MaxConns = 4
  MaxStreams = 2
  MaxRapid = 1
  MaxOutages = 0
PROPERTIES
  DrainEndsWithStreams
  DropReleases
  DeathIsHandled
  
CHECK_DEADLOCK FALSE
