CONSTANTS
    Budgets = {1, 2}
    MaxRevision = 3
    MaxPrompts = 1
    MaxFaults = 1
SPECIFICATION Spec
INVARIANTS
    LogFolds
CHECK_DEADLOCK FALSE
