CONSTANTS
  SaveSize = 3
  Nand = FALSE
  SaveFrames = 4
  HoldFrames = 2
  MaxAccesses = 2
SPECIFICATION FairSpec
CHECK_DEADLOCK FALSE
INVARIANTS
  MenuApart
  OrderlyShutdown
  TapSpared
PROPERTIES
  ImplementsBackupChip
  AccessEnds
