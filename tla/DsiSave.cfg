CONSTANTS
  Room = 3
  MaxCalls = 7
SPECIFICATION Spec
INVARIANTS
  WordsKept
  MemoryAgrees
PROPERTIES
  ImplementsSaveArchive
