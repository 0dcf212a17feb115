SPECIFICATION Spec
CONSTANTS
  MaxTurns = 2
  MaxSteps = 2
  MaxMessages = 1
  MaxCalls = 1
  MaxCrashes = 2
INVARIANTS LiveLogNests RepairsOnce
CHECK_DEADLOCK FALSE
