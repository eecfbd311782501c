CONSTANTS
  NSectors = 6
  BlockSize = 2
  NSlots = 2
  MaxReads = 2
  LongWrites = FALSE
  MaxStarts = 2
  MaxCalls = 2
SPECIFICATION FairSpec
CHECK_DEADLOCK FALSE
INVARIANTS
  CacheCoherent
PROPERTIES
  ImplementsBlockDevice
  CallEnds
