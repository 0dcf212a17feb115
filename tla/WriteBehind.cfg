CONSTANTS
    SeedEvents = 0
    MaxEvents = 2
    MaxAppenders = 2
    Callers = {c1, c2}
    MaxFlushes = 2
    Writes = {w1, w2, w3}
    NoWrite = NoWrite
    MaxFailures = 1
SPECIFICATION FairSpec
INVARIANTS
    TypeOK
    NothingLost
    HeldOnce
PROPERTIES
    FlushReturns
    ImplementsDurableLog
CHECK_DEADLOCK FALSE
