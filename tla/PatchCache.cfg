SPECIFICATION Spec
CONSTANTS
  Games <- MCGames
  Settings <- MCSettings
INVARIANTS
  PatchesFresh
