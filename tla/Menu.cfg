CONSTANTS
  Commands = {"EXIT", "RSET", "QUIT", "RAMD", "LITE"}
  Timeout = 4
  Pulse = 2
  MaxRounds = 2
SPECIFICATION FairSpec
CHECK_DEADLOCK FALSE
INVARIANTS
  RunsMenu
  GameRestored
  DestinationKept
  StartTogether
  NoFalseTimeout
PROPERTIES
  CommandServed
  OutEnds
  ResetEnds
