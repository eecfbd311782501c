CONSTANTS
  BytesPerSector = 2
  NClusters = 4
  CacheWords = 4
  Layouts <- LayoutsOf
  MaxCalls <- CallsOf
SPECIFICATION FairSpec
CHECK_DEADLOCK FALSE
INVARIANTS
  BufferCoherent
PROPERTIES
  NoStrayWrite
  ImplementsByteFile
  EveryCallReturns
