CONSTANTS
  NSectors = 4
  BlockSize = 2
  NSlots = 2
  MaxReads = 2
  LongWrites = TRUE
  MaxStarts = 1
  MaxCalls = 1
SPECIFICATION FairSpec
CHECK_DEADLOCK FALSE
INVARIANTS
  WriteLands
