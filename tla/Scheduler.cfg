CONSTANTS
    NumCalls = 4
    MaxParallel = 2
    MaxModeChanges = 2
    MaxPanics = 1
SPECIFICATION FairSpec
INVARIANTS
    TypeOK
    InModelOrder
    PoolDiscipline
    AllAnswered
    NoFabrication
    DrainedOnReturn
PROPERTIES
    SchedulerReturns
CHECK_DEADLOCK FALSE
