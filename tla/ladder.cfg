SPECIFICATION FairSpec
CONSTANTS
  Configs <- AllOrSome
  Runtimes <- FullAndPartial
  MailCap = 2
INVARIANTS
  LadderInv
PROPERTIES
  GatewayDecides
  Returns
  RelayCatches
CHECK_DEADLOCK FALSE
