CONSTANTS
  SaveSize = 2
  DmaReadLen = 2
  MaxLen = 3
  MaxRequests = 1
  MaxRounds = 2
SPECIFICATION FairSpec
CHECK_DEADLOCK FALSE
INVARIANTS
  GameRestored
  StartTogether
PROPERTIES
  SaveMade
  DmaDelivered
  RequestEnds
  RestartEnds
