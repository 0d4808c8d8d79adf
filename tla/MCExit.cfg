CONSTANTS
  Trail = 0
  PartialAt = 4
  Entry = 3
  InitialStop = 2
  Prices = {1, 4, 5}
  MaxIntents = 2
  MaxTrouble = 1
CONSTANT Openings <- MCOpenings
CONSTANT Rungs <- MCRungs
CONSTANT Levels <- MCLevels
SPECIFICATION Spec
CHECK_DEADLOCK FALSE
INVARIANTS
  ExitInv
PROPERTIES
  ExitSteps
