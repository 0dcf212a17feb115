CONSTANTS
    Budgets = {1}
    MaxRevision = 2
    MaxPrompts = 1
    MaxFaults = 1
SPECIFICATION FairSpec

    
    
PROPERTIES
    TriggersServed
    StopReturns
CHECK_DEADLOCK FALSE
