CONSTANTS
  Commands = {"EXIT", "RAMD"}
  Timeout = 4
  Pulse = 2
  MaxRounds = 1
SPECIFICATION Spec
CHECK_DEADLOCK FALSE
INVARIANT
  PageHoldsMenu
