SPECIFICATION Spec
CONSTANTS
  MaxTurns = 1
  MaxSteps = 1
  MaxMessages = 1
  MaxCalls = 1
  MaxCrashes = 1
INVARIANT CrashIsLoadable
CHECK_DEADLOCK FALSE
