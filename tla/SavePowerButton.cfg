CONSTANTS
  SaveSize = 3
  Nand = TRUE
  SaveFrames = 4
  HoldFrames = 2
  MaxAccesses = 2
SPECIFICATION Spec
CHECK_DEADLOCK FALSE
INVARIANTS
  PowerButtonDoesNothing
