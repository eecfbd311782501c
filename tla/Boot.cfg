SPECIFICATION FairSpec
CHECK_DEADLOCK FALSE
INVARIANTS
  ImageWhole
  GamePrepared
PROPERTIES
  BootEnds
