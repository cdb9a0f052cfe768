SPECIFICATION Spec
CONSTANTS
  Entries = {0, 1}
  Layouts <- MCLayouts
  PageSize = 2
  MaxCount = 5
  MaxBody = 65536
  MaxPayload = 32768
  MaxProof = 4096
  FixedBytes = 346
  EntryBytes = 7168
  Window = 1
INVARIANTS
  AssemblerInv
  WholeOrNothing
  HonestArrives
CHECK_DEADLOCK FALSE
