SPECIFICATION KindSpec
CONSTANTS
  NSectors = 3
  NSlots = 2
  Overlays = {3}
  Preloaded = {}
  PingIpc = FALSE
  HasSleep = FALSE
  Chunks = 1
  MaxRequests = 3
  MaxBlocks = 2
  PingRequests = 2
INVARIANTS
  CacheCoherent
  OneSlotPerSector
  DeliversRom
  SdExclusive
PROPERTIES
  CommandAnswered
  EveryReadEnds
  ImplementsRomService
